-------------------------- MODULE Workspace_proofs --------------------------
(***************************************************************************)
(* Proofs about Workspace, for any faces, identifiers and bounds.          *)
(***************************************************************************)
EXTENDS Workspace, TLAPS

LEMMA GlobalIsLevel == "global" \in Level /\ Scope = Level
    BY DEF Level, Rank, Scope

LEMMA OwningIsLevel ==
    ASSUME NEW f \in Face, NEW s \in Scope
    PROVE  Owning(f, s) \in Level
    BY GlobalIsLevel DEF Owning

\* No two levels have one precedence.
LEMMA RanksDiffer ==
    \A k, l \in Level : Rank[k] \in Int /\ (Rank[k] <= Rank[l] /\ Rank[l] <= Rank[k] => k = l)
    BY DEF Level, Rank

LEMMA VersionsAndCalls == None \notin Version /\ None \notin Call
    BY NoneIsNothing

\* A fresh record and what Merge makes of an imported one are stored alike.
LEMMA WritesAreStores ==
    ASSUME TypeOK, NEW f \in Face, NEW id \in Id, NEW s \in Scope,
           Put(f, id, s) \/ \E at \in Stamp : Import(f, id, s, at)
    PROVE  \E t \in Scope, at \in Stamp : Stores(f, id, t, at)
<1>1. CASE Put(f, id, s)
    <2>1. puts + 1 \in Stamp
        BY <1>1, BoundsAreNat DEF Put, Stores, Stamp, TypeOK
    <2> QED
        BY <1>1, <2>1 DEF Put
<1>2. ASSUME NEW at \in Stamp, Import(f, id, s, at)
      PROVE  \E t \in Scope, u \in Stamp : Stores(f, id, t, u)
    <2> DEFINE in == [scope |-> s, at |-> at]
    <2>1. PICK r \in Merged(List(f, id), in) : Stores(f, id, r.scope, r.at)
        BY <1>2 DEF Import
    <2>2. r.scope \in Scope /\ r.at \in Stamp
        <3>1. CASE r = in
            BY <3>1
        <3>2. ASSUME NEW b \in List(f, id), r = [scope |-> b.scope, at |-> b.at]
              PROVE  r.scope \in Scope /\ r.at \in Stamp
            <4>1. b \in Version
                BY <3>2 DEF List, TypeOK
            <4> QED
                BY <3>2, <4>1 DEF Version
        <3> QED
            BY <2>1, <3>1, <3>2 DEF Merged
    <2> QED
        BY <2>1, <2>2
<1> QED
    BY <1>1, <1>2

\* What a write does, to the stores and to the types.
LEMMA StoresEffect ==
    ASSUME TypeOK, NEW f \in Face, NEW id \in Id, NEW s \in Scope, NEW at \in Stamp,
           Stores(f, id, s, at)
    PROVE  \E r \in Version :
              /\ r.scope = s /\ r.at = at /\ r.by = f /\ r.n = puts + 1
              /\ store' = [store EXCEPT ![Owning(f, s)][id] = r]
              /\ store' \in [Level -> [Id -> Version \cup {None}]]
              /\ puts' = puts + 1 /\ puts' \in 0 .. MaxPuts
              /\ UNCHANGED <<levels, call, wanted, asks, faults>>
<1> DEFINE r == [scope |-> s, at |-> at, by |-> f, n |-> puts + 1]
<1>1. puts + 1 \in 1 .. MaxPuts
    BY BoundsAreNat DEF Stores, TypeOK
<1>2. r \in Version /\ r.scope = s /\ r.at = at /\ r.by = f /\ r.n = puts + 1
    BY <1>1 DEF Version
<1>3. /\ store' = [store EXCEPT ![Owning(f, s)][id] = r] /\ puts' = puts + 1
      /\ UNCHANGED <<levels, call, wanted, asks, faults>>
    BY DEF Stores
<1> HIDE DEF r
<1>4. store' \in [Level -> [Id -> Version \cup {None}]]
    BY <1>2, <1>3, OwningIsLevel DEF TypeOK
<1>5. puts' \in 0 .. MaxPuts
    BY <1>1, <1>3, BoundsAreNat
<1> QED
    BY <1>2, <1>3, <1>4, <1>5

\* A Get owes nothing any more.
Free(c) == [c EXCEPT !.from = 0]

LEMMA FreeCall ==
    ASSUME NEW c \in Call
    PROVE  /\ Free(c) \in Call /\ Free(c).left = c.left /\ Free(c).id = c.id
           /\ Free(c).op = c.op /\ Free(c).from = 0
    BY BoundsAreNat DEF Call, Free

\* A call that goes on without one of its levels.
Without(c, l) == [c EXCEPT !.left = @ \ {l}]

LEMMA LevelPassed ==
    ASSUME NEW c \in Call, NEW l
    PROVE  /\ Without(c, l) \in Call
           /\ Without(c, l).left = c.left \ {l} /\ Without(c, l).id = c.id
           /\ Without(c, l).op = c.op /\ Without(c, l).from = c.from
    BY DEF Call, Without

\* What a Delete does on one level, to the stores and to the calls.
LEMMA DeleteEffect ==
    ASSUME TypeOK, NEW f \in Face, DeleteLevel(f)
    PROVE  \E l \in call[f].left :
              /\ call[f] \in Call /\ l \in Level
              /\ store' = [store EXCEPT ![l][call[f].id] = None]
              /\ call' \in [Face -> Call \cup {None}]
              /\ call'[f] = Without(call[f], l)
              /\ \A g \in Face \ {f} :
                    IF In(g, "get") /\ call[g].id = call[f].id /\ l \in call[g].left
                         /\ store[l][call[g].id] # None
                    THEN call'[g] = Free(call[g]) ELSE call'[g] = call[g]
<1>1. call[f] \in Call /\ call[f].op = "delete" /\ call[f].id \in Id
    BY DEF DeleteLevel, In, TypeOK, Call
<1>2. PICK l \in call[f].left :
        /\ call' = [Released(call[f].id, l) EXCEPT ![f].left = @ \ {l}]
        /\ store' = [store EXCEPT ![l][call[f].id] = None]
    BY DEF DeleteLevel
<1>3. l \in Level
    BY <1>1 DEF Call
<1> DEFINE R == Released(call[f].id, l)
           c == Without(call[f], l)
<1>4. /\ \A g \in Face :
            R[g] = IF In(g, "get") /\ call[g].id = call[f].id /\ l \in call[g].left
                        /\ store[l][call[f].id] # None
                   THEN Free(call[g]) ELSE call[g]
      /\ DOMAIN R = Face
    BY DEF Released, Free
<1>5. \A d \in Call : Free(d) \in Call
    BY BoundsAreNat DEF Free, Call
<1>6. R \in [Face -> Call \cup {None}]
    <2>1. \A g \in Face : R[g] \in Call \cup {None}
        BY <1>4, <1>5, VersionsAndCalls DEF TypeOK, In
    <2> QED
        BY <1>4, <2>1 DEF Released
<1>7. R[f] = call[f]
    BY <1>1, <1>4 DEF In
<1>8. c \in Call
    BY <1>1, LevelPassed
<1>9. call' = [R EXCEPT ![f] = c]
    BY <1>2, <1>7 DEF Without
<1> HIDE DEF R, c
<1>10. call' \in [Face -> Call \cup {None}] /\ call'[f] = c
       /\ \A g \in Face \ {f} : call'[g] = R[g]
    BY <1>6, <1>8, <1>9
<1> QED
    BY <1>1, <1>2, <1>3, <1>4, <1>10 DEF c

\* What the steps of a Get do to its call.
LEMMA GetEffect ==
    ASSUME TypeOK, NEW f \in Face,
           GetFails(f) \/ GetMisses(f) \/ \E l \in Level : GetLevel(f, l)
    PROVE  /\ call[f] \in Call /\ call[f].op = "get"
           /\ UNCHANGED <<store, levels, wanted, puts, asks>>
           /\ \A g \in Face \ {f} : call'[g] = call[g]
           /\ call' \in [Face -> Call \cup {None}]
           /\ \/ call'[f] = None
              \/ \E l \in call[f].left :
                    \/ call'[f] = Free(Without(call[f], l))
                    \/ call'[f] = Without(call[f], l) /\ store[l][call[f].id] = None
<1>1. call[f] \in Call /\ call[f].op = "get" /\ UNCHANGED <<store, levels, wanted, puts, asks>>
    BY DEF GetFails, GetMisses, GetLevel, In, TypeOK
<1>2. CASE GetMisses(f)
    BY <1>1, <1>2 DEF GetMisses, TypeOK
<1>3. ASSUME NEW l \in Level, GetLevel(f, l)
      PROVE  /\ \A g \in Face \ {f} : call'[g] = call[g]
             /\ call' \in [Face -> Call \cup {None}]
             /\ \/ call'[f] = None
                \/ /\ l \in call[f].left /\ store[l][call[f].id] = None
                   /\ call'[f] = Without(call[f], l)
    <2> DEFINE d == Without(call[f], l)
               e == IF store[l][call[f].id] = None THEN d ELSE None
    <2>1. d \in Call
        BY <1>1, LevelPassed
    <2>2. l \in call[f].left
        BY <1>3 DEF GetLevel, IsFinest
    <2>3. call' = [call EXCEPT ![f] = e] /\ e \in Call \cup {None} /\ (e = None \/ e = d)
          /\ (e = d => store[l][call[f].id] = None)
        <3>1. CASE store[l][call[f].id] = None
            <4>1. call' = [call EXCEPT ![f] = d]
                BY <1>3, <3>1 DEF GetLevel, Without
            <4> QED
                BY <2>1, <3>1, <4>1
        <3>2. CASE store[l][call[f].id] # None
            <4>1. call' = [call EXCEPT ![f] = None]
                BY <1>3, <3>2 DEF GetLevel
            <4>2. e = None
                BY <3>2
            <4>3. e # d
                BY <2>1, <4>2, VersionsAndCalls
            <4> HIDE DEF e
            <4> QED
                BY <4>1, <4>2, <4>3
        <3> QED
            BY <3>1, <3>2
    <2> HIDE DEF e
    <2>5. call'[f] = e /\ call' \in [Face -> Call \cup {None}]
          /\ \A g \in Face \ {f} : call'[g] = call[g]
        BY <2>3 DEF TypeOK
    <2> QED
        BY <2>2, <2>3, <2>5
<1>4. CASE GetFails(f)
    <2>1. PICK l \in call[f].left : call' = [call EXCEPT ![f].left = @ \ {l}, ![f].from = 0]
        BY <1>4 DEF GetFails
    <2> DEFINE d == Without(call[f], l)
               e == Free(d)
    <2>2. call' = [call EXCEPT ![f] = e]
        BY <2>1 DEF Free, Without, TypeOK
    <2>3. e \in Call
        BY <1>1, LevelPassed, FreeCall
    <2> HIDE DEF e
    <2>4. call'[f] = e /\ call' \in [Face -> Call \cup {None}]
          /\ \A g \in Face \ {f} : call'[g] = call[g]
        BY <2>2, <2>3 DEF TypeOK
    <2> QED
        BY <1>1, <2>4 DEF e
<1> QED
    BY <1>1, <1>2, <1>3, <1>4

-----------------------------------------------------------------------------
(* Types. *)

LEMMA TypeInit == Init => TypeOK
<1> SUFFICES ASSUME Init PROVE TypeOK
    OBVIOUS
<1>1. \A f \in Face : call[f] = None
    BY DEF Init
<1> QED
    BY <1>1, BoundsAreNat DEF Init, TypeOK

\* A call begins: the calls with one more in them keep their types.
LEMMA CallBegins ==
    ASSUME TypeOK, NEW f \in Face, NEW c \in Call, c.left = levels[f],
           call' = [call EXCEPT ![f] = c], levels' = levels
    PROVE  /\ call' \in [Face -> Call \cup {None}] /\ call'[f] = c
           /\ \A g \in Face \ {f} : call'[g] = call[g]
           /\ \A g \in Face : call'[g] # None => call'[g].left \subseteq levels'[g]
    BY DEF TypeOK

LEMMA BeginGetEffect ==
    ASSUME TypeOK, NEW f \in Face, NEW id \in Id, BeginGet(f, id)
    PROVE  \E c \in Call :
              /\ call' = [call EXCEPT ![f] = c]
              /\ c.op = "get" /\ c.id = id /\ c.left = levels[f]
              /\ \/ c.from = 0
                 \/ \E l \in levels[f] :
                       /\ store[l][id] # None /\ c.from = store[l][id].n
                       /\ \A k \in levels[f] : store[k][id] # None => Rank[l] <= Rank[k]
<1> DEFINE here == {l \in levels[f] : store[l][id] # None}
           C(n) == [op |-> "get", id |-> id, left |-> levels[f], from |-> n]
<1>1. PICK n \in IF here = {} THEN {0} ELSE {store[l][id].n : l \in {k \in here : IsFinest(k, here)}} :
        call' = [call EXCEPT ![f] = C(n)]
    BY DEF BeginGet
<1>2. \/ n = 0
      \/ \E l \in here : n = store[l][id].n /\ IsFinest(l, here)
    BY <1>1
<1>3. n \in 0 .. MaxPuts
    <2>1. ASSUME NEW l \in here, n = store[l][id].n
          PROVE  n \in 0 .. MaxPuts
        <3>1. store[l][id] \in Version
            BY DEF TypeOK
        <3> QED
            BY <2>1, <3>1, BoundsAreNat DEF Version
    <2> QED
        <3>1. CASE n = 0
            BY <3>1, BoundsAreNat
        <3> QED
            BY <1>2, <2>1, <3>1
<1>4. C(n) \in Call
    BY <1>3 DEF Call, TypeOK
<1> QED
    BY <1>1, <1>2, <1>4 DEF IsFinest

LEMMA TypeStep == TypeOK /\ [Next]_vars => TypeOK'
<1> SUFFICES ASSUME TypeOK, [Next]_vars PROVE TypeOK'
    OBVIOUS
<1>1. ASSUME NEW f \in Face, NEW id \in Id, NEW s \in Scope, NEW at \in Stamp, Stores(f, id, s, at)
      PROVE  TypeOK'
    BY <1>1, StoresEffect DEF TypeOK
<1>2. ASSUME NEW f \in Face, NEW l \in Level, Appear(f, l) PROVE TypeOK'
    BY <1>2 DEF Appear, TypeOK
<1>3. ASSUME NEW f \in Face, NEW id \in Id, Ask(f, id) PROVE TypeOK'
    BY <1>3, BoundsAreNat DEF Ask, TypeOK
<1>4. ASSUME NEW f \in Face, NEW id \in Id, Begin(f, id) PROVE TypeOK'
    <2> DEFINE c == [op |-> "delete", id |-> id, left |-> levels[f], from |-> puts]
    <2>1. c \in Call /\ c.left = levels[f]
        BY DEF Call, TypeOK
    <2>2. call' = [call EXCEPT ![f] = c] /\ UNCHANGED <<store, levels, wanted, puts, asks, faults>>
        BY <1>4 DEF Begin
    <2> HIDE DEF c
    <2> QED
        BY <2>1, <2>2, CallBegins DEF TypeOK
<1>5. ASSUME NEW f \in Face, NEW id \in Id, BeginGet(f, id) PROVE TypeOK'
    <2>1. UNCHANGED <<store, levels, wanted, puts, faults>> /\ asks' \in 0 .. MaxAsks
        BY <1>5, BoundsAreNat DEF BeginGet, TypeOK
    <2> QED
        BY <1>5, <2>1, BeginGetEffect, CallBegins DEF TypeOK
<1>6. ASSUME NEW f \in Face, DeleteLevel(f) PROVE TypeOK'
    <2>1. PICK l \in call[f].left :
              /\ call[f] \in Call /\ l \in Level
              /\ store' = [store EXCEPT ![l][call[f].id] = None]
              /\ call' \in [Face -> Call \cup {None}]
              /\ call'[f] = Without(call[f], l)
              /\ \A g \in Face \ {f} : (call'[g] = Free(call[g]) /\ call[g] # None) \/ call'[g] = call[g]
        BY <1>6, DeleteEffect DEF In
    <2>2. UNCHANGED <<levels, wanted, puts, asks, faults>>
        BY <1>6 DEF DeleteLevel
    <2>3. \A g \in Face : call'[g] # None => call[g] # None /\ call'[g].left \subseteq call[g].left
        <3> SUFFICES ASSUME NEW g \in Face, call'[g] # None
                     PROVE  call[g] # None /\ call'[g].left \subseteq call[g].left
            OBVIOUS
        <3>1. CASE g = f
            BY <2>1, <3>1, LevelPassed, VersionsAndCalls
        <3>2. CASE g # f /\ call[g] # None
            BY <2>1, <3>2, FreeCall DEF TypeOK
        <3> QED
            BY <2>1, <3>1, <3>2
    <2>4. store' \in [Level -> [Id -> Version \cup {None}]]
        BY <2>1 DEF TypeOK
    <2>5. \A g \in Face : call'[g] # None => call'[g].left \subseteq levels'[g]
        BY <2>2, <2>3 DEF TypeOK
    <2> QED
        BY <2>1, <2>2, <2>4, <2>5 DEF TypeOK
<1>7. ASSUME NEW f \in Face, DeleteFails(f) PROVE TypeOK'
    BY <1>7, BoundsAreNat DEF DeleteFails, TypeOK
<1>8. ASSUME NEW f \in Face, Deleted(f) PROVE TypeOK'
    BY <1>8 DEF Deleted, TypeOK
<1>9. ASSUME NEW f \in Face, GetFails(f) \/ GetMisses(f) \/ \E l \in Level : GetLevel(f, l)
      PROVE  TypeOK'
    <2>1. faults' \in 0 .. MaxFaults
        BY <1>9, BoundsAreNat DEF GetFails, GetMisses, GetLevel, TypeOK
    <2>2. call'[f] = None \/ call'[f].left \subseteq call[f].left
        <3>1. call[f] \in Call
            BY <1>9, GetEffect
        <3>2. \A l : Without(call[f], l).left = call[f].left \ {l}
                     /\ Free(Without(call[f], l)).left = call[f].left \ {l}
            BY <3>1, LevelPassed, FreeCall
        <3> QED
            BY <1>9, <3>2, GetEffect
    <2>3. \A g \in Face : call'[g] # None => call'[g].left \subseteq levels[g]
        BY <1>9, <2>2, GetEffect, VersionsAndCalls DEF TypeOK
    <2> QED
        BY <1>9, <2>1, <2>3, GetEffect DEF TypeOK
<1>10. CASE UNCHANGED vars
    BY <1>10 DEF vars, TypeOK
<1> QED
    BY <1>1, <1>2, <1>3, <1>4, <1>5, <1>6, <1>7, <1>8, <1>9, <1>10, WritesAreStores DEF Next

\* Every reachable state is well-typed; a call only goes over levels that are
\* there (workspace.go:46-60).
THEOREM TypeCorrect == Spec => []TypeOK
    BY TypeInit, TypeStep, PTL DEF Spec

-----------------------------------------------------------------------------
(* Writes. *)

\* Every Workspace has its global store, where writes fall back to.
GlobalIsThere == \A f \in Face : "global" \in levels[f]

\* A version is on a level its writer's Workspace has: its own, or the global one.
Placed ==
    \A l \in Level, id \in Id :
        store[l][id] # None => /\ l \in levels[store[l][id].by]
                               /\ l = store[l][id].scope \/ l = "global"

WriteInv == GlobalIsThere /\ Placed

LEMMA WriteInit == Init => WriteInv
<1> SUFFICES ASSUME Init PROVE WriteInv
    OBVIOUS
<1>1. \A l \in Level, id \in Id : store[l][id] = None
    BY DEF Init
<1> QED
    BY <1>1 DEF Init, WriteInv, GlobalIsThere, Placed

\* Levels only appear, so a step that writes nothing keeps the invariant.
LEMMA WriteKept ==
    ASSUME WriteInv, TypeOK,
           \A f \in Face : levels[f] \subseteq levels'[f],
           \A l \in Level, id \in Id : store'[l][id] = None \/ store'[l][id] = store[l][id]
    PROVE  WriteInv'
<1>1. \A l \in Level, id \in Id : store[l][id] # None => store[l][id].by \in Face
    BY DEF TypeOK, Version
<1> QED
    BY <1>1 DEF WriteInv, GlobalIsThere, Placed

LEMMA WriteStep == TypeOK /\ WriteInv /\ [Next]_vars => WriteInv'
<1> SUFFICES ASSUME TypeOK, WriteInv, [Next]_vars PROVE WriteInv'
    OBVIOUS
<1>1. ASSUME NEW f \in Face, NEW id \in Id, NEW s \in Scope, NEW at \in Stamp, Stores(f, id, s, at)
      PROVE  WriteInv'
    <2>1. PICK r \in Version : /\ r.scope = s /\ r.by = f /\ levels' = levels
                               /\ store' = [store EXCEPT ![Owning(f, s)][id] = r]
        BY <1>1, StoresEffect
    <2>2. Owning(f, s) \in levels[f] /\ (Owning(f, s) = s \/ Owning(f, s) = "global")
        BY DEF Owning, WriteInv, GlobalIsThere
    <2>3. \A l \in Level, x \in Id :
             \/ l = Owning(f, s) /\ x = id /\ store'[l][x] = r
             \/ store'[l][x] = store[l][x]
        BY <2>1, OwningIsLevel DEF TypeOK
    <2> QED
        BY <2>1, <2>2, <2>3 DEF WriteInv, GlobalIsThere, Placed
<1>2. ASSUME NEW f \in Face, NEW l \in Level, Appear(f, l) PROVE WriteInv'
    BY <1>2, WriteKept DEF Appear, TypeOK
<1>3. ASSUME NEW f \in Face, DeleteLevel(f) PROVE WriteInv'
    <2>1. PICK l \in call[f].left : store' = [store EXCEPT ![l][call[f].id] = None]
        BY <1>3 DEF DeleteLevel
    <2>2. \A k \in Level, x \in Id : store'[k][x] = None \/ store'[k][x] = store[k][x]
        BY <2>1 DEF TypeOK
    <2> QED
        BY <1>3, <2>2, WriteKept DEF DeleteLevel
<1>4. ASSUME UNCHANGED <<store, levels>> PROVE WriteInv'
    BY <1>4 DEF WriteInv, GlobalIsThere, Placed
<1> QED
    BY <1>1, <1>2, <1>3, <1>4, WritesAreStores
    DEF Next, Ask, Begin, BeginGet, DeleteFails, Deleted, GetLevel, GetFails, GetMisses, vars

\* A missing level never drops a write, for any faces and whatever levels appear,
\* and a scope-pinned List shows it unless its own level appeared after it fell back.
THEOREM WritesStayListedAlways == Spec => []WritesStayListed
<1>1. TypeOK /\ WriteInv => WritesStayListed
    <2> SUFFICES ASSUME TypeOK, WriteInv, NEW l \in Level, NEW id \in Id, store[l][id] # None
                 PROVE  LET r == store[l][id]
                        IN  /\ r \in List(r.by, id)
                            /\ l = r.scope \/ r.scope \notin levels[r.by] => r \in PinnedList(r.by, id, r.scope)
        BY DEF WritesStayListed
    <2> DEFINE r == store[l][id]
    <2>1. r \in Version
        BY DEF TypeOK
    <2>2. l \in levels[r.by] /\ (l = r.scope \/ l = "global")
        BY DEF WriteInv, Placed
    <2>3. l = r.scope \/ r.scope \notin levels[r.by] => Owning(r.by, r.scope) = l
        BY <2>2 DEF Owning
    <2>4. r \in [scope : {r.scope}, at : Stamp, by : Face, n : 1 .. MaxPuts]
        BY <2>1 DEF Version
    <2> QED
        BY <2>2, <2>3, <2>4 DEF List, PinnedList
<1> QED
    BY <1>1, TypeInit, TypeStep, WriteInit, WriteStep, PTL DEF Spec

\* An import never puts an older version in a newer one's place, whoever wrote it
\* and at whatever level, if its levels held one version at most.
THEOREM ImportKeepsNewestAlways == Spec => ImportKeepsNewest
<1> DEFINE Twice(f, id) == \E k, l \in levels[f] : k # l /\ store[k][id] # None /\ store[l][id] # None
           Keeps(id) == \A l \in Level : store[l][id] # None => store[l][id].at <= store'[l][id].at
<1>1. ASSUME TypeOK, WriteInv, NEW f \in Face, NEW id \in Id, NEW s \in Scope, NEW at \in Stamp,
             Import(f, id, s, at), ~Twice(f, id)
      PROVE  Keeps(id)
    <2> DEFINE in == [scope |-> s, at |-> at]
    <2>1. PICK r \in Merged(List(f, id), in) : Stores(f, id, r.scope, r.at)
        BY <1>1 DEF Import
    <2>2. \A b \in List(f, id) : b \in Version /\ b.scope \in Scope /\ b.at \in Stamp /\ b.at \in Int
        BY <1>1 DEF List, TypeOK, Version, Stamp
    <2>3. r.scope \in Scope /\ r.at \in Stamp
        BY <2>1, <2>2 DEF Merged
    <2> DEFINE o == Owning(f, r.scope)
    <2>4. o \in Level /\ o \in levels[f]
        BY <1>1, <2>3, OwningIsLevel DEF Owning, WriteInv, GlobalIsThere
    <2>5. PICK v \in Version : v.at = r.at /\ store' = [store EXCEPT ![o][id] = v]
        <3> DEFINE t == r.scope
                   u == r.at
        <3>1. t \in Scope /\ u \in Stamp /\ Stores(f, id, t, u)
            BY <2>1, <2>3
        <3> HIDE DEF t, u
        <3>2. \E v \in Version : v.at = u /\ store' = [store EXCEPT ![Owning(f, t)][id] = v]
            BY <1>1, <3>1, StoresEffect
        <3> QED
            BY <3>2 DEF t, u
    <2> SUFFICES ASSUME NEW l \in Level, store[l][id] # None
                 PROVE  store[l][id].at <= store'[l][id].at
        OBVIOUS
    <2>6. store[l][id].at \in Int
        BY <1>1 DEF TypeOK, Version, Stamp
    <2>7. CASE l # o
        <3>1. store'[l][id] = store[l][id]
            BY <1>1, <2>4, <2>5, <2>7 DEF TypeOK
        <3> QED
            BY <2>6, <3>1
    <2>8. CASE l = o
        <3>1. List(f, id) = {store[l][id]}
            BY <1>1, <2>4, <2>8 DEF List
        <3>2. store'[l][id].at = r.at
            BY <1>1, <2>4, <2>5, <2>8 DEF TypeOK
        <3>3. r.at = store[l][id].at \/ (r.at = at /\ store[l][id].at < at)
            <4> DEFINE B == List(f, id)
            <4>1. r \in Merged(B, in) /\ B = {store[l][id]}
                BY <2>1, <3>1
            <4> HIDE DEF B
            <4>2. CASE r = in /\ \E b \in B : b.at < in.at
                BY <4>1, <4>2
            <4>3. CASE \E b \in B : r = [scope |-> b.scope, at |-> b.at]
                <5>1. r = [scope |-> store[l][id].scope, at |-> store[l][id].at]
                    BY <4>1, <4>3
                <5> QED
                    BY <5>1
            <4> QED
                BY <4>1, <4>2, <4>3 DEF Merged
        <3> QED
            BY <2>6, <3>2, <3>3 DEF Stamp
    <2> QED
        BY <2>7, <2>8
<1> DEFINE Fair(f, id) ==
               \/ \E k, l \in levels[f] : k # l /\ store[k][id] # None /\ store[l][id] # None
               \/ \A l \in Level : store[l][id] # None => store[l][id].at <= store'[l][id].at
<1>2. TypeOK /\ WriteInv =>
        \A f \in Face, id \in Id, s \in Scope, at \in Stamp : Import(f, id, s, at) => Fair(f, id)
    BY <1>1
<1>3. TypeOK /\ WriteInv /\ [Next]_vars =>
        [\A f \in Face, id \in Id, s \in Scope, at \in Stamp : Import(f, id, s, at) => Fair(f, id)]_vars
    BY <1>2
<1> QED
    BY <1>3, TypeInit, TypeStep, WriteInit, WriteStep, PTL DEF Spec, ImportKeepsNewest

-----------------------------------------------------------------------------
(* Deletes. *)

\* Puts are numbered in order, so those a call began after are smaller.
NumbersPast ==
    /\ \A l \in Level, id \in Id : store[l][id] # None => store[l][id].n <= puts
    /\ \A f \in Face : call[f] # None => call[f].from <= puts

\* On the levels a Delete is through with, only later Puts are left.
Removed ==
    \A f \in Face : In(f, "delete") =>
        \A l \in levels[f] \ call[f].left :
            store[l][call[f].id] # None => store[l][call[f].id].n > call[f].from

\* Some level a Get has yet to come to holds what it must not fall behind, or a
\* later version, and so does every level before that one that holds any.
Ahead(f, l) ==
    /\ l \in call[f].left /\ store[l][call[f].id] # None
    /\ \A k \in call[f].left :
          store[k][call[f].id] # None /\ Rank[k] <= Rank[l] => store[k][call[f].id].n >= call[f].from

Owed == \A f \in Face : In(f, "get") /\ call[f].from > 0 => \E l \in Level : Ahead(f, l)

CallInv == NumbersPast /\ Removed /\ Owed

LEMMA CallInit == Init => CallInv
<1> SUFFICES ASSUME Init PROVE CallInv
    OBVIOUS
<1>1. (\A f \in Face : call[f] = None) /\ \A l \in Level, id \in Id : store[l][id] = None
    BY DEF Init
<1> QED
    BY <1>1 DEF CallInv, NumbersPast, Removed, Owed, In

\* The calls of faces that nothing happens to.
LEMMA CallKept ==
    ASSUME CallInv, TypeOK, UNCHANGED <<store, levels, puts>>, NEW f \in Face,
           \A g \in Face \ {f} : call'[g] = call[g],
           \/ call'[f] = None
           \/ call'[f] = call[f]
           \/ /\ call'[f] \in Call /\ call'[f].from <= puts
              /\ call'[f].op = "delete" => call'[f].left = levels[f]
              /\ call'[f].op = "get" /\ call'[f].from > 0 =>
                   \E l \in Level :
                      /\ l \in call'[f].left /\ store[l][call'[f].id] # None
                      /\ \A k \in call'[f].left :
                            store[k][call'[f].id] # None /\ Rank[k] <= Rank[l] =>
                               store[k][call'[f].id].n >= call'[f].from
    PROVE  CallInv'
<1>1. NumbersPast'
    BY DEF CallInv, NumbersPast
<1>2. Removed'
    BY DEF CallInv, Removed, In
<1>3. Owed'
    <2> SUFFICES ASSUME NEW g \in Face, In(g, "get")', call'[g].from > 0
                 PROVE  \E l \in Level : Ahead(g, l)'
        BY DEF Owed
    <2>1. CASE call'[g] = call[g]
        BY <2>1 DEF CallInv, Owed, In, Ahead
    <2>2. CASE call'[g] # call[g]
        BY <2>2 DEF In, Ahead
    <2> QED
        BY <2>1, <2>2
<1> QED
    BY <1>1, <1>2, <1>3 DEF CallInv

LEMMA CallStores ==
    ASSUME TypeOK, CallInv, NEW f \in Face, NEW id \in Id, NEW s \in Scope, NEW at \in Stamp,
           Stores(f, id, s, at)
    PROVE  CallInv'
<1>1. PICK r \in Version : /\ r.n = puts + 1
                           /\ store' = [store EXCEPT ![Owning(f, s)][id] = r]
                           /\ puts' = puts + 1 /\ UNCHANGED <<levels, call>>
    BY StoresEffect
<1>2. \A l \in Level, x \in Id : store'[l][x] = r \/ store'[l][x] = store[l][x]
    BY <1>1, OwningIsLevel DEF TypeOK
<1>3. puts \in Int /\ r # None
    BY VersionsAndCalls DEF TypeOK
<1>4. \A g \in Face : call[g] # None =>
         /\ call[g].id \in Id /\ call[g].from \in Int /\ call[g].left \subseteq Level
         /\ levels[g] \subseteq Level
    BY DEF TypeOK, Call
<1>5. \A l \in Level, x \in Id : store[l][x] # None => store[l][x].n \in Int
    BY DEF TypeOK, Version
<1>6. NumbersPast'
    BY <1>1, <1>2, <1>3, <1>4, <1>5 DEF CallInv, NumbersPast
<1>7. Removed'
    <2> SUFFICES ASSUME NEW g \in Face, In(g, "delete"),
                        NEW l \in levels[g] \ call[g].left, store'[l][call[g].id] # None
                 PROVE  store'[l][call[g].id].n > call[g].from
        BY <1>1 DEF Removed, In
    <2>1. l \in Level /\ call[g].id \in Id /\ call[g].from \in Int /\ call[g].from <= puts
        BY <1>4 DEF In, CallInv, NumbersPast
    <2>2. CASE store'[l][call[g].id] = r
        BY <1>1, <1>3, <2>1, <2>2
    <2>3. CASE store'[l][call[g].id] = store[l][call[g].id]
        BY <2>3 DEF CallInv, Removed
    <2> QED
        BY <1>2, <2>1, <2>2, <2>3
<1>8. Owed'
    <2> SUFFICES ASSUME NEW g \in Face, In(g, "get"), call[g].from > 0
                 PROVE  \E l \in Level : Ahead(g, l)'
        BY <1>1 DEF Owed, In
    <2>1. call[g].id \in Id /\ call[g].from \in Int /\ call[g].left \subseteq Level
          /\ call[g].from <= puts
        BY <1>4 DEF In, CallInv, NumbersPast
    <2>2. PICK l \in Level : Ahead(g, l)
        BY DEF CallInv, Owed
    <2>3. store'[l][call[g].id] # None
        BY <1>2, <1>3, <2>1, <2>2 DEF Ahead
    <2>4. ASSUME NEW k \in call[g].left, store'[k][call[g].id] # None, Rank[k] <= Rank[l]
          PROVE  store'[k][call[g].id].n >= call[g].from
        <3>1. k \in Level
            BY <2>1
        <3>2. CASE store'[k][call[g].id] = r
            BY <1>1, <1>3, <2>1, <3>2
        <3>3. CASE store'[k][call[g].id] = store[k][call[g].id]
            BY <2>2, <2>4, <3>3 DEF Ahead
        <3> QED
            BY <1>2, <2>1, <3>1, <3>2, <3>3
    <2> QED
        BY <1>1, <2>2, <2>3, <2>4 DEF Ahead
<1> QED
    BY <1>6, <1>7, <1>8 DEF CallInv

LEMMA CallDeletes ==
    ASSUME TypeOK, CallInv, NEW f \in Face, DeleteLevel(f)
    PROVE  CallInv'
<1>1. PICK l \in call[f].left :
          /\ call[f] \in Call /\ l \in Level
          /\ store' = [store EXCEPT ![l][call[f].id] = None]
          /\ call' \in [Face -> Call \cup {None}]
          /\ call'[f] = Without(call[f], l)
          /\ \A g \in Face \ {f} :
                IF In(g, "get") /\ call[g].id = call[f].id /\ l \in call[g].left
                     /\ store[l][call[g].id] # None
                THEN call'[g] = Free(call[g]) ELSE call'[g] = call[g]
    BY DeleteEffect
<1>2. UNCHANGED <<levels, puts>> /\ In(f, "delete") /\ call[f].id \in Id
    BY <1>1 DEF DeleteLevel, Call
<1>3. \A k \in Level, x \in Id :
         store'[k][x] = IF k = l /\ x = call[f].id THEN None ELSE store[k][x]
    BY <1>1, <1>2 DEF TypeOK
<1>4. \A g \in Face : call[g] # None =>
         /\ call[g] \in Call /\ call[g].id \in Id /\ call[g].from \in Nat
         /\ call[g].left \subseteq Level
    BY BoundsAreNat DEF TypeOK, Call
\* What stays of the calls.
<1>5. ASSUME NEW g \in Face, call'[g] # None
      PROVE  /\ call[g] # None /\ call'[g].id = call[g].id /\ call'[g].op = call[g].op
             /\ call'[g].from = call[g].from \/ (call'[g].from = 0 /\ call'[g].op = "get")
             /\ g # f => call'[g].left = call[g].left
    <2>1. CASE g = f
        BY <1>1, <1>4, <2>1, LevelPassed, VersionsAndCalls
    <2>2. CASE g # f /\ call'[g] = Free(call[g]) /\ In(g, "get")
        BY <1>4, <2>2, FreeCall DEF In
    <2>3. CASE g # f /\ call'[g] = call[g]
        BY <1>5, <2>3
    <2> QED
        BY <1>1, <2>1, <2>2, <2>3
<1>6. puts \in Nat
    BY BoundsAreNat DEF TypeOK
<1>7. NumbersPast'
    BY <1>2, <1>3, <1>5, <1>6 DEF CallInv, NumbersPast
<1>8. Removed'
    <2> SUFFICES ASSUME NEW g \in Face, In(g, "delete")',
                        NEW k \in levels[g] \ call'[g].left, store'[k][call'[g].id] # None
                 PROVE  store'[k][call'[g].id].n > call'[g].from
        BY <1>2 DEF Removed
    <2>1. In(g, "delete") /\ call'[g].id = call[g].id /\ call'[g].from = call[g].from
        BY <1>5 DEF In
    <2>2. k \in Level /\ call[g].id \in Id
        BY <1>4, <2>1 DEF TypeOK, In
    <2>3. store'[k][call[g].id] = store[k][call[g].id] /\ ~(k = l /\ call[g].id = call[f].id)
        BY <1>3, <2>1, <2>2
    <2>4. k \notin call[g].left
        <3>1. CASE g = f
            BY <1>1, <2>3, <3>1, LevelPassed
        <3>2. CASE g # f
            BY <1>5, <3>2 DEF In
        <3> QED
            BY <3>1, <3>2
    <2> QED
        BY <2>1, <2>3, <2>4 DEF CallInv, Removed
<1>9. Owed'
    <2> SUFFICES ASSUME NEW g \in Face, In(g, "get")', call'[g].from > 0
                 PROVE  \E k \in Level : Ahead(g, k)'
        BY DEF Owed
    <2>1. In(g, "get") /\ g # f
        BY <1>2, <1>5 DEF In
    <2>2. ~(call[g].id = call[f].id /\ l \in call[g].left /\ store[l][call[g].id] # None)
          /\ call'[g] = call[g]
        <3>1. call'[g] # Free(call[g])
            BY <1>4, <2>1, FreeCall DEF In
        <3> QED
            BY <1>1, <2>1, <3>1
    <2>3. \A k \in call[g].left : store'[k][call[g].id] = store[k][call[g].id]
        BY <1>3, <1>4, <2>1, <2>2 DEF In
    <2>4. PICK k \in Level : Ahead(g, k)
        BY <2>1, <2>2 DEF CallInv, Owed
    <2> QED
        BY <2>2, <2>3, <2>4 DEF Ahead
<1> QED
    BY <1>7, <1>8, <1>9 DEF CallInv

LEMMA CallGets ==
    ASSUME TypeOK, CallInv, NEW f \in Face,
           GetFails(f) \/ GetMisses(f) \/ \E l \in Level : GetLevel(f, l)
    PROVE  CallInv'
<1>1. /\ call[f] \in Call /\ In(f, "get") /\ UNCHANGED <<store, levels, puts>>
      /\ \A g \in Face \ {f} : call'[g] = call[g]
    BY GetEffect, VersionsAndCalls DEF In
<1>2. CASE call'[f] = None
    BY <1>1, <1>2, CallKept
<1>3. ASSUME NEW l \in call[f].left, call'[f] = Free(Without(call[f], l)) PROVE CallInv'
    <2>1. /\ call'[f] \in Call /\ call'[f].from = 0 /\ call'[f].op = "get"
        BY <1>1, <1>3, LevelPassed, FreeCall DEF In
    <2>2. 0 <= puts
        BY BoundsAreNat DEF TypeOK
    <2> QED
        BY <1>1, <2>1, <2>2, CallKept
<1>4. ASSUME NEW l \in call[f].left, call'[f] = Without(call[f], l), store[l][call[f].id] = None
      PROVE  CallInv'
    <2>1. /\ call'[f] \in Call /\ call'[f].from = call[f].from /\ call'[f].op = "get"
          /\ call'[f].id = call[f].id /\ call'[f].left = call[f].left \ {l}
        BY <1>1, <1>4, LevelPassed DEF In
    <2>2. call'[f].from <= puts
        BY <1>1, <2>1 DEF CallInv, NumbersPast, In
    <2>3. ASSUME call'[f].from > 0
          PROVE  \E m \in Level :
                    /\ m \in call'[f].left /\ store[m][call'[f].id] # None
                    /\ \A k \in call'[f].left :
                          store[k][call'[f].id] # None /\ Rank[k] <= Rank[m] =>
                             store[k][call'[f].id].n >= call'[f].from
        <3>1. PICK m \in Level : Ahead(f, m)
            BY <1>1, <2>1, <2>3 DEF CallInv, Owed
        <3> QED
            BY <1>4, <2>1, <3>1 DEF Ahead
    <2> QED
        BY <1>1, <2>1, <2>2, <2>3, CallKept
<1> QED
    BY <1>2, <1>3, <1>4, GetEffect

LEMMA CallStep == TypeOK /\ CallInv /\ [Next]_vars => CallInv'
<1> SUFFICES ASSUME TypeOK, CallInv, [Next]_vars PROVE CallInv'
    OBVIOUS
<1>1. ASSUME NEW f \in Face, NEW l \in Level, Appear(f, l) PROVE CallInv'
    <2>1. call' = call /\ store' = store /\ puts' = puts /\ call[f] = None
        BY <1>1 DEF Appear
    <2>2. \A g \in Face : g # f => levels'[g] = levels[g]
        BY <1>1 DEF Appear, TypeOK
    <2>3. NumbersPast' /\ Owed'
        BY <2>1 DEF CallInv, NumbersPast, Owed, Ahead, In
    <2>4. Removed'
        BY <2>1, <2>2 DEF CallInv, Removed, In
    <2> QED
        BY <2>3, <2>4 DEF CallInv
<1>2. ASSUME NEW f \in Face, NEW id \in Id, Begin(f, id) PROVE CallInv'
    <2> DEFINE c == [op |-> "delete", id |-> id, left |-> levels[f], from |-> puts]
    <2>1. c \in Call /\ c.left = levels[f] /\ c.op = "delete" /\ c.from = puts /\ puts \in Int
        BY DEF Call, TypeOK
    <2>2. call' = [call EXCEPT ![f] = c] /\ UNCHANGED <<store, levels, puts>>
        BY <1>2 DEF Begin
    <2> HIDE DEF c
    <2>3. call'[f] = c /\ \A g \in Face \ {f} : call'[g] = call[g]
        BY <2>2 DEF TypeOK
    <2> QED
        BY <2>1, <2>2, <2>3, CallKept
<1>3. ASSUME NEW f \in Face, NEW id \in Id, BeginGet(f, id) PROVE CallInv'
    <2>1. PICK c \in Call :
              /\ call' = [call EXCEPT ![f] = c]
              /\ c.op = "get" /\ c.id = id /\ c.left = levels[f]
              /\ \/ c.from = 0
                 \/ \E l \in levels[f] :
                       /\ store[l][id] # None /\ c.from = store[l][id].n
                       /\ \A k \in levels[f] : store[k][id] # None => Rank[l] <= Rank[k]
        BY <1>3, BeginGetEffect
    <2>2. UNCHANGED <<store, levels, puts>>
        BY <1>3 DEF BeginGet
    <2>3. call'[f] = c /\ \A g \in Face \ {f} : call'[g] = call[g]
        BY <2>1 DEF TypeOK
    <2>4. levels[f] \subseteq Level /\ puts \in Nat
          /\ \A l \in Level : store[l][id] # None => store[l][id].n \in Int
        BY BoundsAreNat DEF TypeOK, Version
    <2>5. c.from <= puts
        BY <2>1, <2>4 DEF CallInv, NumbersPast
    <2>6. ASSUME c.from > 0
          PROVE  \E l \in Level :
                    /\ l \in c.left /\ store[l][c.id] # None
                    /\ \A k \in c.left :
                          store[k][c.id] # None /\ Rank[k] <= Rank[l] => store[k][c.id].n >= c.from
        <3>1. PICK l \in levels[f] :
                 /\ store[l][id] # None /\ c.from = store[l][id].n
                 /\ \A k \in levels[f] : store[k][id] # None => Rank[l] <= Rank[k]
            BY <2>1, <2>6
        <3>2. \A k \in levels[f] : store[k][id] # None /\ Rank[k] <= Rank[l] => k = l
            BY <2>4, <3>1, RanksDiffer
        <3> QED
            BY <2>1, <2>4, <3>1, <3>2
    <2> QED
        BY <2>1, <2>2, <2>3, <2>5, <2>6, CallKept
<1>4. ASSUME NEW f \in Face, DeleteFails(f) \/ Deleted(f) PROVE CallInv'
    <2>1. call' = [call EXCEPT ![f] = None] /\ UNCHANGED <<store, levels, puts>>
        BY <1>4 DEF DeleteFails, Deleted
    <2>2. call'[f] = None /\ \A g \in Face \ {f} : call'[g] = call[g]
        BY <2>1 DEF TypeOK
    <2> QED
        BY <2>1, <2>2, CallKept
<1>5. ASSUME UNCHANGED <<store, levels, call, puts>> PROVE CallInv'
    BY <1>5 DEF CallInv, NumbersPast, Removed, Owed, Ahead, In
<1> QED
    BY <1>1, <1>2, <1>3, <1>4, <1>5, CallStores, CallDeletes, CallGets, WritesAreStores
    DEF Next, Ask, vars

\* A Delete that answers nil leaves its caller no copy of a Put that came before
\* it, whoever put, imported, deleted or failed meanwhile.
THEOREM DeleteIsCompleteAlways == Spec => DeleteIsComplete
<1> DEFINE Complete(f) == Deleted(f) => \A r \in List(f, call[f].id) : r.n > call[f].from
<1>1. TypeOK /\ CallInv /\ [Next]_vars => [\A f \in Face : Complete(f)]_vars
    <2> SUFFICES ASSUME CallInv, NEW f \in Face, Deleted(f), NEW r \in List(f, call[f].id)
                 PROVE  r.n > call[f].from
        OBVIOUS
    <2>1. PICK l \in levels[f] : r = store[l][call[f].id]
        BY DEF List
    <2>2. r # None
        BY DEF List
    <2> QED
        BY <2>1, <2>2 DEF Deleted, CallInv, Removed
<1> QED
    BY <1>1, TypeInit, TypeStep, CallInit, CallStep, PTL DEF Spec, DeleteIsComplete

\* A Get falls behind what it would have answered when it began only if that was
\* deleted or a level failed, whatever others write and delete meanwhile.
THEOREM GetIsMonotoneAlways == Spec => GetIsMonotone
<1> DEFINE Owes(f) == In(f, "get") /\ call[f].from > 0
           Answers(f) == \A l \in Level : GetLevel(f, l) /\ call'[f] = None =>
                                              store[l][call[f].id].n >= call[f].from
<1>1. ASSUME TypeOK, CallInv, NEW f \in Face, Owes(f) PROVE ~GetMisses(f) /\ Answers(f)
    <2>1. PICK l \in Level : Ahead(f, l)
        BY <1>1 DEF CallInv, Owed
    <2>2. ~GetMisses(f)
        BY <2>1 DEF GetMisses, Ahead
    <2>3. ASSUME NEW k \in Level, GetLevel(f, k), call'[f] = None
          PROVE  store[k][call[f].id].n >= call[f].from
        <3>1. k \in call[f].left /\ Rank[k] <= Rank[l]
            BY <2>1, <2>3 DEF GetLevel, IsFinest, Ahead
        <3>2. store[k][call[f].id] # None
            <4> SUFFICES ASSUME store[k][call[f].id] = None PROVE FALSE
                OBVIOUS
            <4>1. call[f] \in Call
                BY <1>1 DEF TypeOK, In
            <4>2. call' = [call EXCEPT ![f] = Without(call[f], k)]
                BY <2>3 DEF GetLevel, Without
            <4>3. call'[f] = Without(call[f], k)
                BY <1>1, <4>2 DEF TypeOK
            <4> QED
                BY <2>3, <4>1, <4>3, LevelPassed, VersionsAndCalls
        <3> QED
            BY <2>1, <3>1, <3>2 DEF Ahead
    <2> QED
        BY <2>2, <2>3
<1> DEFINE Monotone(f) ==
               In(f, "get") /\ call[f].from > 0 =>
                 /\ ~GetMisses(f)
                 /\ \A l \in Level : GetLevel(f, l) /\ call'[f] = None =>
                                       store[l][call[f].id].n >= call[f].from
<1>2. TypeOK /\ CallInv /\ [Next]_vars => [\A f \in Face : Monotone(f)]_vars
    BY <1>1
<1> QED
    BY <1>2, TypeInit, TypeStep, CallInit, CallStep, PTL DEF Spec, GetIsMonotone
=============================================================================
