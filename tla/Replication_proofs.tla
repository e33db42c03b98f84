-------------------------- MODULE Replication_proofs --------------------------
(***************************************************************************)
(* Proofs about Replication, for any brains, identifiers, contents, clock  *)
(* readings and bounds.                                                    *)
(***************************************************************************)
EXTENDS Replication, TLAPS

-----------------------------------------------------------------------------
(* The operators of Records. *)

\* A stamp is positive, not behind the wall, and ahead of the process's last.
LEMMA StampIsFresh ==
    ASSUME NEW l \in Nat, NEW now \in Clock
    PROVE  /\ NextStamp(l, now) \in Nat /\ NextStamp(l, now) > l
           /\ NextStamp(l, now) >= now /\ NextStamp(l, now) # 0
    BY ClockIsMillis DEF NextStamp

LEMMA StampedIsRecord ==
    ASSUME NEW r \in Record, NEW t \in Nat
    PROVE  /\ Stamped(r, t) \in Record
           /\ r.at # 0 => Stamped(r, t) = r
           /\ r.at = 0 => Stamped(r, t).at = t
           /\ Stamped(r, t).content = r.content
    BY DEF Stamped, Record

\* The decision for one identifier is the newer side, the base side on a tie.
LEMMA MergeEntryCases ==
    ASSUME NEW e \in Entry, NEW f \in Entry
    PROVE  /\ MergeEntry(e, f) \in Entry
           /\ \/ MergeEntry(e, f) = e
              \/ MergeEntry(e, f) = f /\ Newer(f, e)
    BY AbsentIsNoRecord DEF MergeEntry, Newer, Resolution, SameContent, Entry, Record

-----------------------------------------------------------------------------
(* Type correctness. *)

LEMMA TypeInit == Init => TypeOK
<1> SUFFICES ASSUME Init PROVE TypeOK
    OBVIOUS
<1>1. Legacy \cup {Absent} \subseteq Entry /\ Legacy \subseteq Record
    BY LegacyUnstamped DEF Entry
<1>2. store \in [Brain -> Snapshot]
    BY <1>1 DEF Init, Snapshot
<1>3. Nothing \in Snapshot /\ Nothing \in [Id -> Pending \cup {Absent}]
    BY DEF Nothing, Snapshot, Entry
<1> QED
    BY <1>1, <1>2, <1>3, BoundsAreNat DEF Init, TypeOK

LEMMA WriteKeepsType ==
    ASSUME TypeOK, NEW b \in Brain, NEW id \in Id, NEW r \in Record, NEW t \in Nat,
           edits < MaxEdits, WriteLocally(b, id, r, t)
    PROVE  /\ store' \in [Brain -> Snapshot] /\ last' \in [Brain -> Nat]
           /\ authored' \subseteq Id \X Record /\ touched' \in [Brain -> SUBSET Id]
           /\ edits' \in 0 .. MaxEdits
<1>1. r \in Entry
    BY DEF Entry
<1>2. store' \in [Brain -> Snapshot]
    BY <1>1 DEF TypeOK, WriteLocally, Snapshot
<1> QED
    BY <1>2, BoundsAreNat DEF TypeOK, WriteLocally

LEMMA ImportKeepsType ==
    ASSUME TypeOK, NEW b \in Brain, NEW from \in Brain, Import(b, from)
    PROVE  TypeOK'
<1>1. PICK listed \in Listings(b) :
        /\ todo' = [todo EXCEPT ![b] = [id \in Id |-> MergeEntry(listed[id], blob[from][id])]]
        /\ review' = [review EXCEPT ![b] = [id \in Id |-> Unresolved(listed[id], blob[from][id])]]
        /\ Sees(b, listed)
    BY DEF Import
<1>2. listed \in Snapshot /\ blob[from] \in Snapshot
    BY <1>1 DEF TypeOK, Listings, Nothing, Snapshot, Entry
<1>3. ASSUME NEW id \in Id
      PROVE  /\ MergeEntry(listed[id], blob[from][id]) \in Entry
             /\ Unresolved(listed[id], blob[from][id]) \in Pending \cup {Absent}
    <2>1. listed[id] \in Entry /\ blob[from][id] \in Entry
        BY <1>2 DEF Snapshot
    <2> QED
        BY <2>1, MergeEntryCases DEF Unresolved, InConflict, Pending, Entry
<1>4. [id \in Id |-> MergeEntry(listed[id], blob[from][id])] \in Snapshot
    BY <1>3 DEF Snapshot
<1>5. [id \in Id |-> Unresolved(listed[id], blob[from][id])] \in [Id -> Pending \cup {Absent}]
    BY <1>3
<1>6. faults' \in 0 .. MaxFaults /\ touched' \in [Brain -> SUBSET Id]
    BY <1>1, BoundsAreNat DEF TypeOK, Sees, Listings
<1> QED
    BY <1>1, <1>4, <1>5, <1>6 DEF TypeOK, Import

LEMMA PutMergedKeepsType ==
    ASSUME TypeOK, NEW b \in Brain, NEW id \in Id, PutMerged(b, id)
    PROVE  TypeOK'
<1>1. PICK now \in Clock :
        LET t == NextStamp(last[b], now) IN
        /\ store' = [store EXCEPT ![b][id] = Stamped(todo[b][id], t)]
        /\ last' = IF todo[b][id].at = 0 THEN [last EXCEPT ![b] = t] ELSE last
    BY DEF PutMerged
<1> DEFINE t == NextStamp(last[b], now)
<1>2. t \in Nat
    BY StampIsFresh DEF TypeOK
<1>3. todo[b][id] \in Record
    BY DEF TypeOK, PutMerged, Snapshot, Entry
<1>4. Stamped(todo[b][id], t) \in Entry
    BY <1>2, <1>3, StampedIsRecord DEF Entry
<1> HIDE DEF t
<1>5. store' \in [Brain -> Snapshot]
    BY <1>1, <1>4 DEF TypeOK, Snapshot, t
<1>6. last' \in [Brain -> Nat]
    BY <1>1, <1>2 DEF TypeOK, t
<1>7. todo' \in [Brain -> Snapshot]
    BY DEF TypeOK, PutMerged, Snapshot, Entry
<1> QED
    BY <1>5, <1>6, <1>7 DEF TypeOK, PutMerged

\* What an Edit or a Settle writes is a record under a fresh stamp.
LEMMA EditWrites ==
    ASSUME TypeOK, NEW b \in Brain, NEW id \in Id, Edit(b, id)
    PROVE  \E r \in Record, t \in Nat : r.at # 0 /\ WriteLocally(b, id, r, t)
<1>1. PICK c \in Content, now \in Clock :
        LET t == NextStamp(last[b], now) IN
        WriteLocally(b, id, Stamped([content |-> c, at |-> 0], t), t)
    BY DEF Edit
<1> DEFINE t == NextStamp(last[b], now)
           r == [content |-> c, at |-> 0]
<1>2. t \in Nat /\ t # 0
    BY StampIsFresh DEF TypeOK
<1>3. r \in Record /\ r.at = 0
    BY DEF Record
<1>4. Stamped(r, t) \in Record /\ Stamped(r, t).at # 0
    BY <1>2, <1>3, StampedIsRecord
<1> QED
    BY <1>1, <1>2, <1>4

LEMMA SettleWrites ==
    ASSUME TypeOK, NEW b \in Brain, NEW id \in Id, Settle(b, id)
    PROVE  \E r \in Record, t \in Nat : r.at # 0 /\ WriteLocally(b, id, r, t)
<1>1. PICK pick \in {review[b][id].base, review[b][id].incoming}, now \in Clock :
        LET t == NextStamp(last[b], now) IN
        WriteLocally(b, id, [pick EXCEPT !.at = t], t)
    BY DEF Settle
<1> DEFINE t == NextStamp(last[b], now)
<1>2. t \in Nat /\ t # 0
    BY StampIsFresh DEF TypeOK
<1>3. pick \in Record
    <2>1. review[b][id] \in Pending
        BY DEF TypeOK, Settle
    <2> QED
        BY <1>1, <2>1 DEF Pending
<1>4. [pick EXCEPT !.at = t] \in Record /\ [pick EXCEPT !.at = t].at # 0
    BY <1>2, <1>3 DEF Record
<1> QED
    BY <1>1, <1>2, <1>4

LEMMA TypeStep == TypeOK /\ [Next]_vars => TypeOK'
<1> SUFFICES ASSUME TypeOK, [Next]_vars PROVE TypeOK'
    OBVIOUS
<1>1. ASSUME NEW b \in Brain, NEW id \in Id, Edit(b, id) PROVE TypeOK'
    <2>1. PICK r \in Record, t \in Nat : r.at # 0 /\ WriteLocally(b, id, r, t)
        BY <1>1, EditWrites
    <2>2. edits < MaxEdits
        BY <1>1 DEF Edit, MayWrite
    <2> QED
        BY <1>1, <2>1, <2>2, WriteKeepsType DEF TypeOK, Edit
<1>2. ASSUME NEW b \in Brain, NEW id \in Id, Delete(b, id) PROVE TypeOK'
    <2>1. store' \in [Brain -> Snapshot]
        BY <1>2 DEF TypeOK, Delete, Snapshot, Entry
    <2> QED
        BY <1>2, <2>1, BoundsAreNat DEF TypeOK, Delete, MayWrite
<1>3. ASSUME NEW b \in Brain, NEW id \in Id, PutMerged(b, id) PROVE TypeOK'
    BY <1>3, PutMergedKeepsType
<1>4. ASSUME NEW b \in Brain, NEW id \in Id, Settle(b, id) PROVE TypeOK'
    <2>1. PICK r \in Record, t \in Nat : r.at # 0 /\ WriteLocally(b, id, r, t)
        BY <1>4, SettleWrites
    <2>2. edits < MaxEdits
        BY <1>4 DEF Settle
    <2>3. review' \in [Brain -> [Id -> Pending \cup {Absent}]]
        BY <1>4 DEF TypeOK, Settle
    <2> QED
        BY <1>4, <2>1, <2>2, <2>3, WriteKeepsType DEF TypeOK, Settle
<1>5. ASSUME NEW b \in Brain, NEW from \in Brain, Import(b, from) PROVE TypeOK'
    BY <1>5, ImportKeepsType
<1>6. ASSUME NEW b \in Brain, Export(b) PROVE TypeOK'
    BY <1>6 DEF TypeOK, Export
<1>7. ASSUME NEW b \in Brain, Restart(b) PROVE TypeOK'
    <2>1. Nothing \in Snapshot /\ Nothing \in [Id -> Pending \cup {Absent}]
        BY DEF Nothing, Snapshot, Entry
    <2> QED
        BY <1>7, <2>1, BoundsAreNat DEF TypeOK, Restart
<1>8. CASE UNCHANGED vars
    BY <1>8 DEF TypeOK, vars
<1> QED
    BY <1>1, <1>2, <1>3, <1>4, <1>5, <1>6, <1>7, <1>8 DEF Next

\* Every reachable state has the shape TypeOK gives it.
THEOREM TypeCorrect == Spec => []TypeOK
    BY TypeInit, TypeStep, PTL DEF Spec

-----------------------------------------------------------------------------
(* An import never regresses an entry nobody wrote meanwhile. *)

\* What an import has still to Put is, for an identifier not written since the
\* listing, what the store holds or a strictly newer record.
FreshEntry(b, id) ==
    todo[b][id] # Absent /\ id \notin touched[b]
        => todo[b][id] = store[b][id] \/ Newer(todo[b][id], store[b][id])

TodoFresh == \A b \in Brain, id \in Id : FreshEntry(b, id)

LEMMA FreshInit == Init => TodoFresh
    BY DEF Init, TodoFresh, FreshEntry, Nothing

\* A local write of one identifier leaves every pending Put fresh.
LEMMA WriteKeepsFresh ==
    ASSUME TypeOK, TodoFresh, NEW x \in Brain, NEW y \in Id, NEW r,
           store' = [store EXCEPT ![x][y] = r],
           touched' = [touched EXCEPT ![x] = @ \cup {y}],
           todo' = todo
    PROVE  TodoFresh'
<1> SUFFICES ASSUME NEW b \in Brain, NEW id \in Id PROVE FreshEntry(b, id)'
    BY DEF TodoFresh
<1>1. FreshEntry(b, id)
    BY DEF TodoFresh
<1>2. CASE b = x /\ id = y
    <2>1. id \in touched'[b]
        BY <1>2 DEF TypeOK
    <2> QED
        BY <2>1 DEF FreshEntry
<1>3. CASE ~(b = x /\ id = y)
    <2>1. store'[b][id] = store[b][id]
        BY <1>3 DEF TypeOK, Snapshot
    <2>2. touched[b] \subseteq touched'[b]
        BY DEF TypeOK
    <2> QED
        BY <1>1, <2>1, <2>2 DEF FreshEntry
<1> QED
    BY <1>2, <1>3

LEMMA FreshStep == TypeOK /\ TodoFresh /\ [Next]_vars => TodoFresh'
<1> SUFFICES ASSUME TypeOK, TodoFresh, [Next]_vars PROVE TodoFresh'
    OBVIOUS
<1>1. ASSUME NEW x \in Brain, NEW y \in Id, Edit(x, y) PROVE TodoFresh'
    <2>1. PICK r \in Record, t \in Nat : r.at # 0 /\ WriteLocally(x, y, r, t)
        BY <1>1, EditWrites
    <2> QED
        BY <1>1, <2>1, WriteKeepsFresh DEF Edit, WriteLocally
<1>2. ASSUME NEW x \in Brain, NEW y \in Id, Delete(x, y) PROVE TodoFresh'
    BY <1>2, WriteKeepsFresh DEF Delete
<1>3. ASSUME NEW x \in Brain, NEW y \in Id, PutMerged(x, y) PROVE TodoFresh'
    <2>1. /\ todo' = [todo EXCEPT ![x][y] = Absent] /\ touched' = touched
          /\ \E r : store' = [store EXCEPT ![x][y] = r]
        BY <1>3 DEF PutMerged
    <2> SUFFICES ASSUME NEW b \in Brain, NEW id \in Id PROVE FreshEntry(b, id)'
        BY DEF TodoFresh
    <2>2. FreshEntry(b, id)
        BY DEF TodoFresh
    <2>3. CASE b = x /\ id = y
        <3>1. todo'[b][id] = Absent
            BY <2>1, <2>3 DEF TypeOK, Snapshot
        <3> QED
            BY <3>1 DEF FreshEntry
    <2>4. CASE ~(b = x /\ id = y)
        <3>1. store'[b][id] = store[b][id] /\ todo'[b][id] = todo[b][id]
            BY <2>1, <2>4 DEF TypeOK, Snapshot
        <3> QED
            BY <2>1, <2>2, <3>1 DEF FreshEntry
    <2> QED
        BY <2>3, <2>4
<1>4. ASSUME NEW x \in Brain, NEW y \in Id, Settle(x, y) PROVE TodoFresh'
    <2>1. PICK r \in Record, t \in Nat : r.at # 0 /\ WriteLocally(x, y, r, t)
        BY <1>4, SettleWrites
    <2> QED
        BY <1>4, <2>1, WriteKeepsFresh DEF Settle, WriteLocally
<1>5. ASSUME NEW x \in Brain, NEW from \in Brain, Import(x, from) PROVE TodoFresh'
    <2>1. PICK listed \in Listings(x) :
            /\ todo' = [todo EXCEPT ![x] = [id \in Id |-> MergeEntry(listed[id], blob[from][id])]]
            /\ store' = store
            /\ touched' = [touched EXCEPT ![x] = IF listed = store[x] THEN {} ELSE Id]
        BY <1>5 DEF Import, Sees
    <2> SUFFICES ASSUME NEW b \in Brain, NEW id \in Id PROVE FreshEntry(b, id)'
        BY DEF TodoFresh
    <2>2. FreshEntry(b, id)
        BY DEF TodoFresh
    <2>3. CASE b = x /\ listed = store[x]
        <3>1. store[b][id] \in Entry /\ blob[from][id] \in Entry
            BY DEF TypeOK, Snapshot
        <3>2. todo'[b][id] = MergeEntry(store[b][id], blob[from][id])
            BY <2>1, <2>3 DEF TypeOK
        <3> QED
            BY <2>1, <3>1, <3>2, MergeEntryCases DEF FreshEntry
    <2>5. CASE b = x /\ listed # store[x]
        <3>1. id \in touched'[b]
            BY <2>1, <2>5 DEF TypeOK
        <3> QED
            BY <3>1 DEF FreshEntry
    <2>4. CASE b # x
        BY <2>1, <2>2, <2>4 DEF TypeOK, FreshEntry
    <2> QED
        BY <2>3, <2>4, <2>5
<1>6. ASSUME NEW x \in Brain, Export(x) PROVE TodoFresh'
    BY <1>6 DEF TodoFresh, FreshEntry, Export
<1>7. ASSUME NEW x \in Brain, Restart(x) PROVE TodoFresh'
    <2>1. \A b \in Brain, id \in Id : todo'[b][id] = Absent \/ todo'[b][id] = todo[b][id]
        BY <1>7 DEF TypeOK, Restart, Nothing
    <2> QED
        BY <1>7, <2>1 DEF TodoFresh, FreshEntry, Restart
<1>8. CASE UNCHANGED vars
    BY <1>8 DEF TodoFresh, FreshEntry, vars
<1> QED
    BY <1>1, <1>2, <1>3, <1>4, <1>5, <1>6, <1>7, <1>8 DEF Next

\* The Put of a merged record, under a fresh stamp when it has none.
LEMMA PutMergedStores ==
    ASSUME TypeOK, NEW b \in Brain, NEW id \in Id, PutMerged(b, id)
    PROVE  /\ todo[b][id] \in Record
           /\ \E t \in Nat : t # 0 /\ store' = [store EXCEPT ![b][id] = Stamped(todo[b][id], t)]
<1>1. PICK now \in Clock :
        store' = [store EXCEPT ![b][id] = Stamped(todo[b][id], NextStamp(last[b], now))]
    BY DEF PutMerged
<1>2. NextStamp(last[b], now) \in Nat /\ NextStamp(last[b], now) # 0
    BY StampIsFresh DEF TypeOK
<1>3. todo[b][id] \in Record
    BY DEF TypeOK, PutMerged, Snapshot, Entry
<1> QED
    BY <1>1, <1>2, <1>3

\* For every number of brains, identifiers and local writes, with every
\* interleaving of imports and other agents' writes and with rows that predate
\* the stamps, a merged record Put over an entry nobody wrote meanwhile never
\* takes the entry back to an older one, unless the import's listing failed.
THEOREM ImportNeverRegressesAlways == Spec => ImportNeverRegresses
<1> DEFINE P == \A b \in Brain, id \in Id :
                   PutMerged(b, id) /\ id \notin touched[b] =>
                       store'[b][id] = store[b][id] \/ Newer(store'[b][id], store[b][id])
<1>1. TypeOK /\ TodoFresh => P
    <2> SUFFICES ASSUME TypeOK, TodoFresh, NEW b \in Brain, NEW id \in Id,
                        PutMerged(b, id), id \notin touched[b]
                 PROVE  store'[b][id] = store[b][id] \/ Newer(store'[b][id], store[b][id])
        OBVIOUS
    <2> DEFINE e == store[b][id]
               r == todo[b][id]
    <2>1. PICK t \in Nat : t # 0 /\ store' = [store EXCEPT ![b][id] = Stamped(r, t)]
        BY PutMergedStores
    <2>2. r \in Record /\ e \in Entry
        BY PutMergedStores DEF TypeOK, Snapshot
    <2>3. r = e \/ Newer(r, e)
        BY DEF TodoFresh, FreshEntry, PutMerged
    <2>4. store'[b][id] = Stamped(r, t)
        BY <2>1 DEF TypeOK, Snapshot
    <2>5. /\ Stamped(r, t) \in Record
          /\ r.at # 0 => Stamped(r, t) = r
          /\ r.at = 0 => Stamped(r, t).at = t
        BY <2>2, StampedIsRecord
    <2>6. r.at \in Nat /\ Stamped(r, t) # Absent /\ (e # Absent => e.at \in Nat)
        BY <2>2, <2>5, AbsentIsNoRecord DEF Record, Entry
    <2>7. Stamped(r, t) = e \/ Newer(Stamped(r, t), e)
        BY <2>1, <2>2, <2>3, <2>5, <2>6 DEF Newer
    <2> QED
        BY <2>4, <2>7
<1>2. Spec => [][P]_vars
    <2>1. Init => TodoFresh
        BY FreshInit
    <2>2. TypeOK /\ TodoFresh /\ [Next]_vars => TodoFresh'
        BY FreshStep
    <2> HIDE DEF P
    <2> QED
        BY TypeInit, TypeStep, <2>1, <2>2, <1>1, PTL DEF Spec
<1> QED
    BY <1>2 DEF ImportNeverRegresses

-----------------------------------------------------------------------------
(* Every record anywhere is one that a local write stored. *)

IsAuthored(id, e) == e # Absent => <<id, e>> \in authored

AuthoredAt(b, id) ==
    IsAuthored(id, store[b][id]) /\ IsAuthored(id, blob[b][id]) /\ IsAuthored(id, todo[b][id])

AuthoredInv ==
    /\ \A b \in Brain, id \in Id : AuthoredAt(b, id)
    /\ \A e \in authored : e[2].at # 0

LEMMA AuthoredInit == Legacy = {} /\ Init => AuthoredInv
<1> SUFFICES ASSUME Legacy = {}, Init PROVE AuthoredInv
    OBVIOUS
<1>1. \A b \in Brain, id \in Id : store[b][id] = Absent /\ blob[b][id] = Absent /\ todo[b][id] = Absent
    BY DEF Init, Nothing
<1>2. authored = {}
    BY DEF Init
<1> QED
    BY <1>1, <1>2 DEF AuthoredInv, AuthoredAt, IsAuthored

LEMMA WriteKeepsAuthored ==
    ASSUME TypeOK, AuthoredInv, NEW x \in Brain, NEW y \in Id, NEW r \in Record, NEW t \in Nat,
           r.at # 0, WriteLocally(x, y, r, t), UNCHANGED <<blob, todo>>
    PROVE  AuthoredInv'
<1>1. authored' = authored \cup {<<y, r>>} /\ store' = [store EXCEPT ![x][y] = r]
    BY DEF WriteLocally
<1>2. ASSUME NEW b \in Brain, NEW id \in Id
      PROVE  store'[b][id] = store[b][id] \/ (id = y /\ store'[b][id] = r)
    BY <1>1 DEF TypeOK, Snapshot
<1>3. \A e \in authored' : e[2].at # 0
    BY <1>1 DEF AuthoredInv
<1>4. ASSUME NEW b \in Brain, NEW id \in Id PROVE AuthoredAt(b, id)'
    <2>1. AuthoredAt(b, id)
        BY DEF AuthoredInv
    <2> QED
        BY <1>1, <1>2, <2>1 DEF AuthoredAt, IsAuthored
<1> QED
    BY <1>3, <1>4 DEF AuthoredInv

LEMMA PutMergedStoresTodo ==
    ASSUME TypeOK, AuthoredInv, NEW b \in Brain, NEW id \in Id, PutMerged(b, id)
    PROVE  /\ todo[b][id] \in Record /\ <<id, todo[b][id]>> \in authored
           /\ store' = [store EXCEPT ![b][id] = todo[b][id]]
<1>1. PICK t \in Nat : store' = [store EXCEPT ![b][id] = Stamped(todo[b][id], t)]
    BY PutMergedStores
<1>2. todo[b][id] \in Record
    BY PutMergedStores
<1>3. <<id, todo[b][id]>> \in authored
    BY DEF AuthoredInv, AuthoredAt, IsAuthored, PutMerged
<1>4. todo[b][id].at # 0
    BY <1>3 DEF AuthoredInv
<1> QED
    BY <1>1, <1>2, <1>3, <1>4, StampedIsRecord

LEMMA AuthoredStep == TypeOK /\ AuthoredInv /\ [Next]_vars => AuthoredInv'
<1> SUFFICES ASSUME TypeOK, AuthoredInv, [Next]_vars PROVE AuthoredInv'
    OBVIOUS
<1>1. ASSUME NEW x \in Brain, NEW y \in Id, Edit(x, y) PROVE AuthoredInv'
    <2>1. PICK r \in Record, t \in Nat : r.at # 0 /\ WriteLocally(x, y, r, t)
        BY <1>1, EditWrites
    <2> QED
        BY <1>1, <2>1, WriteKeepsAuthored DEF Edit
<1>2. ASSUME NEW x \in Brain, NEW y \in Id, Delete(x, y) PROVE AuthoredInv'
    <2>1. ASSUME NEW b \in Brain, NEW id \in Id
          PROVE  store'[b][id] = store[b][id] \/ store'[b][id] = Absent
        BY <1>2 DEF TypeOK, Snapshot, Delete
    <2>2. ASSUME NEW b \in Brain, NEW id \in Id PROVE AuthoredAt(b, id)'
        <3>1. AuthoredAt(b, id)
            BY DEF AuthoredInv
        <3> QED
            BY <1>2, <2>1, <3>1 DEF AuthoredAt, IsAuthored, Delete
    <2> QED
        BY <1>2, <2>1, <2>2 DEF AuthoredInv, Delete
<1>3. ASSUME NEW x \in Brain, NEW y \in Id, PutMerged(x, y) PROVE AuthoredInv'
    <2>1. /\ <<y, todo[x][y]>> \in authored
          /\ store' = [store EXCEPT ![x][y] = todo[x][y]]
          /\ todo' = [todo EXCEPT ![x][y] = Absent]
          /\ authored' = authored /\ blob' = blob
        BY <1>3, PutMergedStoresTodo DEF PutMerged
    <2>2. ASSUME NEW b \in Brain, NEW id \in Id
          PROVE  /\ store'[b][id] = store[b][id] \/ (id = y /\ store'[b][id] = todo[x][y])
                 /\ todo'[b][id] = todo[b][id] \/ todo'[b][id] = Absent
        BY <2>1 DEF TypeOK, Snapshot
    <2>3. ASSUME NEW b \in Brain, NEW id \in Id PROVE AuthoredAt(b, id)'
        <3>1. AuthoredAt(b, id) /\ AuthoredAt(x, y)
            BY DEF AuthoredInv
        <3> QED
            BY <2>1, <2>2, <3>1 DEF AuthoredAt, IsAuthored
    <2> QED
        BY <2>1, <2>2, <2>3 DEF AuthoredInv
<1>4. ASSUME NEW x \in Brain, NEW y \in Id, Settle(x, y) PROVE AuthoredInv'
    <2>1. PICK r \in Record, t \in Nat : r.at # 0 /\ WriteLocally(x, y, r, t)
        BY <1>4, SettleWrites
    <2> QED
        BY <1>4, <2>1, WriteKeepsAuthored DEF Settle
<1>5. ASSUME NEW x \in Brain, NEW from \in Brain, Import(x, from) PROVE AuthoredInv'
    <2>1. PICK listed \in Listings(x) :
            todo' = [todo EXCEPT ![x] = [id \in Id |-> MergeEntry(listed[id], blob[from][id])]]
        BY <1>5 DEF Import
    <2>2. UNCHANGED <<store, blob, authored>>
        BY <1>5 DEF Import
    <2>3. ASSUME NEW b \in Brain, NEW id \in Id PROVE IsAuthored(id, todo'[b][id])
        <3>1. CASE b = x
            <4>1. listed[id] \in Entry /\ blob[from][id] \in Entry
                BY DEF TypeOK, Snapshot, Listings, Nothing, Entry
            <4>2. IsAuthored(id, listed[id]) /\ IsAuthored(id, blob[from][id])
                BY DEF AuthoredInv, AuthoredAt, IsAuthored, Listings, Nothing
            <4>3. todo'[b][id] = MergeEntry(listed[id], blob[from][id])
                BY <2>1, <3>1 DEF TypeOK
            <4> QED
                BY <4>1, <4>2, <4>3, MergeEntryCases
        <3>2. CASE b # x
            BY <2>1, <3>2 DEF TypeOK, AuthoredInv, AuthoredAt
        <3> QED
            BY <3>1, <3>2
    <2> QED
        BY <2>2, <2>3 DEF AuthoredInv, AuthoredAt, IsAuthored
<1>6. ASSUME NEW x \in Brain, Export(x) PROVE AuthoredInv'
    <2>1. ASSUME NEW b \in Brain, NEW id \in Id
          PROVE  blob'[b][id] = blob[b][id] \/ blob'[b][id] = store[b][id]
        BY <1>6 DEF TypeOK, Export
    <2>2. ASSUME NEW b \in Brain, NEW id \in Id PROVE AuthoredAt(b, id)'
        <3>1. AuthoredAt(b, id)
            BY DEF AuthoredInv
        <3> QED
            BY <1>6, <2>1, <3>1 DEF AuthoredAt, IsAuthored, Export
    <2> QED
        BY <1>6, <2>1, <2>2 DEF AuthoredInv, Export
<1>7. ASSUME NEW x \in Brain, Restart(x) PROVE AuthoredInv'
    <2>1. ASSUME NEW b \in Brain, NEW id \in Id
          PROVE  todo'[b][id] = todo[b][id] \/ todo'[b][id] = Absent
        BY <1>7 DEF TypeOK, Restart, Nothing
    <2>2. ASSUME NEW b \in Brain, NEW id \in Id PROVE AuthoredAt(b, id)'
        <3>1. AuthoredAt(b, id)
            BY DEF AuthoredInv
        <3> QED
            BY <1>7, <2>1, <3>1 DEF AuthoredAt, IsAuthored, Restart
    <2> QED
        BY <1>7, <2>1, <2>2 DEF AuthoredInv, Restart
<1>8. CASE UNCHANGED vars
    BY <1>8 DEF AuthoredInv, AuthoredAt, IsAuthored, vars
<1> QED
    BY <1>1, <1>2, <1>3, <1>4, <1>5, <1>6, <1>7, <1>8 DEF Next

\* Where every row is stamped, each record a store holds, stamp included, is
\* one that some local write stored, whatever was exported, merged, put, cut
\* off and retried, and whether or not a listing failed.
THEOREM StampsAreAuthoredAlways ==
    ASSUME Legacy = {}
    PROVE  Spec => []StampsAreAuthored
<1>1. Init => AuthoredInv
    BY AuthoredInit
<1>2. AuthoredInv => StampsAreAuthored
    BY DEF AuthoredInv, AuthoredAt, IsAuthored, StampsAreAuthored
<1> QED
    BY TypeInit, TypeStep, AuthoredStep, <1>1, <1>2, PTL DEF Spec

-----------------------------------------------------------------------------
(* Refinement: serialised imports implement the last-write-wins map. *)

\* Without interleaving, nobody writes a brain whose import is running.
SerialInv == \A b \in Brain : Importing(b) => touched[b] = {}

LEMMA SerialInit == Init => SerialInv
    BY DEF Init, SerialInv

LEMMA SerialStep ==
    Interleave = FALSE /\ ListFails = FALSE /\ TypeOK /\ SerialInv /\ [Next]_vars => SerialInv'
<1> SUFFICES ASSUME Interleave = FALSE, ListFails = FALSE, TypeOK, SerialInv, [Next]_vars,
                    NEW b \in Brain, Importing(b)'
             PROVE  touched'[b] = {}
    BY DEF SerialInv
<1>1. ASSUME NEW x \in Brain, ~Importing(x), todo' = todo,
             NEW y, touched' = [touched EXCEPT ![x] = @ \cup {y}]
      PROVE  touched'[b] = {}
    BY <1>1 DEF TypeOK, SerialInv, Importing, Nothing
<1>2. ASSUME NEW x \in Brain, NEW y \in Id, Edit(x, y) PROVE touched'[b] = {}
    BY <1>1, <1>2 DEF Edit, MayWrite, WriteLocally
<1>3. ASSUME NEW x \in Brain, NEW y \in Id, Delete(x, y) PROVE touched'[b] = {}
    BY <1>1, <1>3 DEF Delete, MayWrite
<1>4. ASSUME NEW x \in Brain, NEW y \in Id, Settle(x, y) PROVE touched'[b] = {}
    BY <1>1, <1>4 DEF Settle, WriteLocally
<1>5. ASSUME NEW x \in Brain, NEW y \in Id, PutMerged(x, y) PROVE touched'[b] = {}
    <2>1. todo' = [todo EXCEPT ![x][y] = Absent] /\ touched' = touched
        BY <1>5 DEF PutMerged
    <2>2. CASE b = x
        <3>1. todo[b] # Nothing
            BY <1>5, <2>2 DEF PutMerged, Nothing
        <3> QED
            BY <2>1, <3>1 DEF SerialInv, Importing
    <2>3. CASE b # x
        BY <2>1, <2>3 DEF TypeOK, SerialInv, Importing, Nothing
    <2> QED
        BY <2>2, <2>3
<1>6. ASSUME NEW x \in Brain, NEW from \in Brain, Import(x, from) PROVE touched'[b] = {}
    <2>1. touched' = [touched EXCEPT ![x] = {}]
        BY <1>6 DEF Import, Sees, Listings
    <2>2. CASE b = x
        BY <2>1, <2>2 DEF TypeOK
    <2>3. CASE b # x
        <3>1. todo'[b] = todo[b] /\ touched'[b] = touched[b]
            BY <1>6, <2>1, <2>3 DEF TypeOK, Import
        <3> QED
            BY <3>1 DEF SerialInv, Importing, Nothing
    <2> QED
        BY <2>2, <2>3
<1>7. ASSUME NEW x \in Brain, Export(x) PROVE touched'[b] = {}
    BY <1>7 DEF SerialInv, Importing, Nothing, Export
<1>8. ASSUME NEW x \in Brain, Restart(x) PROVE touched'[b] = {}
    <2>1. b # x
        BY <1>8 DEF TypeOK, Importing, Nothing, Restart
    <2> QED
        BY <1>8, <2>1 DEF TypeOK, SerialInv, Importing, Nothing, Restart
<1>9. CASE UNCHANGED vars
    BY <1>9 DEF SerialInv, Importing, Nothing, vars
<1> QED
    BY <1>2, <1>3, <1>4, <1>5, <1>6, <1>7, <1>8, <1>9 DEF Next

LEMMA InitImplements == Legacy = {} /\ Init => LWW!Init
<1> SUFFICES ASSUME Legacy = {}, Init PROVE LWW!Init
    OBVIOUS
<1>1. store = [b \in Brain |-> [id \in Id |-> Absent]]
    BY DEF Init
<1> QED
    BY <1>1 DEF Init, LWW!Init

LEMMA WriteImplements ==
    ASSUME TypeOK, NEW x \in Brain, NEW y \in Id, NEW r \in Record, NEW t, r.at # 0,
           WriteLocally(x, y, r, t)
    PROVE  LWW!Write(x, y)
<1>1. store'[x][y] = r
    BY DEF TypeOK, Snapshot, WriteLocally
<1> QED
    BY <1>1 DEF LWW!Write, LWW!Record, Record, WriteLocally

LEMMA StepImplements ==
    TypeOK /\ TodoFresh /\ AuthoredInv /\ SerialInv /\ [Next]_vars
        => [LWW!Next]_<<store, authored, edits>>
<1> SUFFICES ASSUME TypeOK, TodoFresh, AuthoredInv, SerialInv, [Next]_vars
             PROVE  [LWW!Next]_<<store, authored, edits>>
    OBVIOUS
<1>1. ASSUME NEW x \in Brain, NEW y \in Id, Edit(x, y) PROVE LWW!Next
    <2>1. LWW!Write(x, y)
        BY <1>1, EditWrites, WriteImplements
    <2> QED
        BY <2>1 DEF LWW!Next
<1>2. ASSUME NEW x \in Brain, NEW y \in Id, Delete(x, y) PROVE LWW!Next
    <2>1. LWW!Delete(x, y)
        BY <1>2 DEF Delete, LWW!Delete
    <2> QED
        BY <2>1 DEF LWW!Next
<1>3. ASSUME NEW x \in Brain, NEW y \in Id, Settle(x, y) PROVE LWW!Next
    <2>1. LWW!Write(x, y)
        BY <1>3, SettleWrites, WriteImplements
    <2> QED
        BY <2>1 DEF LWW!Next
<1>4. ASSUME NEW x \in Brain, NEW y \in Id, PutMerged(x, y)
      PROVE  LWW!Next \/ UNCHANGED <<store, authored, edits>>
    <2>1. /\ todo[x][y] \in Record /\ <<y, todo[x][y]>> \in authored
          /\ store' = [store EXCEPT ![x][y] = todo[x][y]]
          /\ authored' = authored /\ edits' = edits
        BY <1>4, PutMergedStoresTodo DEF PutMerged
    <2>2. touched[x] = {}
        BY <1>4 DEF SerialInv, Importing, Nothing, PutMerged
    <2>3. todo[x][y] = store[x][y] \/ Newer(todo[x][y], store[x][y])
        BY <1>4, <2>2 DEF TodoFresh, FreshEntry, PutMerged
    <2>4. CASE todo[x][y] = store[x][y]
        BY <2>1, <2>4 DEF TypeOK, Snapshot
    <2>5. CASE Newer(todo[x][y], store[x][y])
        <3>1. LWW!Adopt(x, y)
            BY <2>1, <2>5 DEF LWW!Adopt, LWW!Newer, Newer
        <3> QED
            BY <3>1 DEF LWW!Next
    <2> QED
        BY <2>3, <2>4, <2>5
<1>5. ASSUME NEW x \in Brain, NEW from \in Brain, Import(x, from) PROVE UNCHANGED <<store, authored, edits>>
    BY <1>5 DEF Import
<1>6. ASSUME NEW x \in Brain, Export(x) \/ Restart(x) PROVE UNCHANGED <<store, authored, edits>>
    BY <1>6 DEF Export, Restart
<1>7. CASE UNCHANGED vars
    BY <1>7 DEF vars
<1> QED
    BY <1>1, <1>2, <1>3, <1>4, <1>5, <1>6, <1>7 DEF Next

\* Brains whose local writes wait for a running import, whose rows are all
\* stamped and whose listings do not fail, implement the last-write-wins map:
\* an entry changes by a local write, a delete, or the adoption of a strictly
\* newer written record, never otherwise.
THEOREM ImplementsLwwMap ==
    ASSUME Legacy = {}, Interleave = FALSE, ListFails = FALSE
    PROVE  Spec => ImplementsLww
<1>1. Init => AuthoredInv /\ LWW!Init
    BY AuthoredInit, InitImplements
<1>2. TypeOK /\ TodoFresh /\ [Next]_vars => TodoFresh'
    BY FreshStep
<1>3. TypeOK /\ SerialInv /\ [Next]_vars => SerialInv'
    BY SerialStep
<1> QED
    BY TypeInit, TypeStep, FreshInit, AuthoredStep, SerialInit, StepImplements,
       <1>1, <1>2, <1>3, PTL DEF Spec, ImplementsLww, LWW!Spec
===============================================================================
