----------------------------- MODULE Workspace -----------------------------
(***************************************************************************)
(* The composition of up to three stores into one (workspace.go): writes   *)
(* go to the level that owns the record's scope, or to the global level    *)
(* where that one is absent; reads go over the levels that are present,    *)
(* the finest first; a Get goes over them one after the other and stops at *)
(* the first that has the record, a Delete at the first that fails.        *)
(*                                                                         *)
(* Several faces (processes) share the stores, each with a Workspace of    *)
(* its own: one may be pointed at a repo, another not.  A level that is    *)
(* absent may be there the next time a face composes its stores.  Callers  *)
(* retry a Delete that failed.                                             *)
(*                                                                         *)
(* A scope is named like the level Owner gives for it.  Of a record its    *)
(* scope, its stamp, the face that put it and the number of the Put matter *)
(* here.                                                                   *)
(***************************************************************************)
EXTENDS Integers

CONSTANTS
    Face,       \* processes
    Id,         \* record identifiers
    None,       \* no record, no call
    MaxPuts,    \* bound: writes
    MaxAsks,    \* bound: requests to delete and to get
    MaxFaults   \* bound: failing statements

ASSUME BoundsAreNat == MaxPuts \in Nat /\ MaxAsks \in Nat /\ MaxFaults \in Nat

\* The levels, by precedence.
Rank  == [project |-> 1, workspace |-> 2, global |-> 3]
Level == DOMAIN Rank
Scope == Level

Stamp   == 1 .. MaxPuts
Version == [scope : Scope, at : Stamp, by : Face, n : 1 .. MaxPuts]
Call    == [op : {"delete", "get"}, id : Id, left : SUBSET Level, from : 0 .. MaxPuts]

ASSUME NoneIsNothing == None \notin Version \cup Call

VARIABLES
    store,      \* store[l][id]: what the store of level l holds
    levels,     \* levels[f]: the stores of f's Workspace that are not nil
    call,       \* call[f]: the Delete or Get f is in, and the levels it has yet to
                \*   go over.  Its from is history: the last Put before a Delete, or
                \*   the Put that a Get must not fall behind (0: none)
    wanted,     \* wanted[f]: identifiers f was asked to delete and has not deleted yet
    puts, asks, faults  \* counters of the bounded actions

vars == <<store, levels, call, wanted, puts, asks, faults>>

TypeOK ==
    /\ store \in [Level -> [Id -> Version \cup {None}]]
    /\ levels \in [Face -> SUBSET Level]
    /\ call \in [Face -> Call \cup {None}]
    /\ \A f \in Face : call[f] # None => call[f].left \subseteq levels[f]
    /\ wanted \in [Face -> SUBSET Id]
    /\ puts \in 0 .. MaxPuts /\ asks \in 0 .. MaxAsks /\ faults \in 0 .. MaxFaults

\* Any level except the global one may be nil.
Init ==
    /\ store = [l \in Level |-> [id \in Id |-> None]]
    /\ levels \in [Face -> {s \in SUBSET Level : "global" \in s}]
    /\ call = [f \in Face |-> None]
    /\ wanted = [f \in Face |-> {}]
    /\ puts = 0 /\ asks = 0 /\ faults = 0

-----------------------------------------------------------------------------
(* Writing and reading. *)

\* A routing that ignores which levels are there.
OwningWithoutFallback(f, s) == s

\* The level a scope's records go to.
Owning(f, s) == IF s \in levels[f] THEN s ELSE "global"

Stores(f, id, s, at) ==
    /\ puts < MaxPuts /\ call[f] = None
    /\ puts' = puts + 1
    /\ store' = [store EXCEPT ![Owning(f, s)][id] = [scope |-> s, at |-> at, by |-> f, n |-> puts + 1]]
    /\ UNCHANGED <<levels, call, wanted, asks, faults>>

\* A fresh record gets its stamp, from one clock for all.
Put(f, id, s) == Stores(f, id, s, puts + 1)

\* The versions of an identifier that an unfiltered List shows.
List(f, id) == {store[l][id] : l \in levels[f]} \ {None}

\* Those that a List pinned to a scope shows.
PinnedList(f, id, s) == {store[Owning(f, s)][id]} \cap [scope : {s}, at : Stamp, by : Face, n : 1 .. MaxPuts]

\* A merge that does not look at the base.
MergedBlindly(base, in) == {in}

\* What Merge may make of an incoming record over the versions List shows: it
\* compares with the last of them, and those of one identifier come in any order.
Merged(base, in) ==
    {[scope |-> b.scope, at |-> b.at] : b \in {c \in base : in.at <= c.at}}
      \cup {x \in {in} : base = {} \/ \E b \in base : b.at < in.at}

\* An import merges into the composed stores and puts the result.
Import(f, id, s, at) ==
    \E r \in Merged(List(f, id), [scope |-> s, at |-> at]) : Stores(f, id, r.scope, r.at)

\* f composes its stores again, and one more is there.
Appear(f, l) ==
    /\ call[f] = None /\ l \notin levels[f]
    /\ levels' = [levels EXCEPT ![f] = @ \cup {l}]
    /\ UNCHANGED <<store, call, wanted, puts, asks, faults>>

-----------------------------------------------------------------------------
(* Delete. *)

\* Somebody wants an identifier gone.
Ask(f, id) ==
    /\ asks < MaxAsks /\ id \notin wanted[f]
    /\ asks' = asks + 1
    /\ wanted' = [wanted EXCEPT ![f] = @ \cup {id}]
    /\ UNCHANGED <<store, levels, call, puts, faults>>

Begin(f, id) ==
    /\ call[f] = None /\ id \in wanted[f]
    /\ call' = [call EXCEPT ![f] = [op |-> "delete", id |-> id, left |-> levels[f], from |-> puts]]
    /\ UNCHANGED <<store, levels, wanted, puts, asks, faults>>

In(f, op) == call[f] # None /\ call[f].op = op

\* l is the finest of some levels.
IsFinest(l, S) == l \in S /\ \A k \in S : Rank[l] <= Rank[k]

\* The calls, with the Gets that had a record of level l still to come released:
\* it is deleted.
Released(id, l) ==
    [f \in Face |-> IF In(f, "get") /\ call[f].id = id /\ l \in call[f].left /\ store[l][id] # None
                     THEN [call[f] EXCEPT !.from = 0] ELSE call[f]]

\* A Delete that is content with the first level it finds the identifier on.
DeleteFirstHit(f) ==
    /\ In(f, "delete")
    /\ \E l \in call[f].left :
          /\ IsFinest(l, call[f].left)
          /\ call' = [Released(call[f].id, l) EXCEPT ![f].left =
                         IF store[l][call[f].id] = None THEN @ \ {l} ELSE {}]
          /\ store' = [store EXCEPT ![l][call[f].id] = None]
    /\ UNCHANGED <<levels, wanted, puts, asks, faults>>

\* A Delete for which a missing identifier is an error.
DeleteStrictly(f) ==
    /\ In(f, "delete")
    /\ \E l \in call[f].left :
          /\ IsFinest(l, call[f].left)
          /\ IF store[l][call[f].id] = None
             THEN call' = [call EXCEPT ![f] = None] /\ UNCHANGED store
             ELSE /\ call' = [Released(call[f].id, l) EXCEPT ![f].left = @ \ {l}]
                  /\ store' = [store EXCEPT ![l][call[f].id] = None]
    /\ UNCHANGED <<levels, wanted, puts, asks, faults>>

\* One level done: a missing identifier is a no-op.
DeleteLevel(f) ==
    /\ In(f, "delete")
    /\ \E l \in call[f].left :
          /\ IsFinest(l, call[f].left)
          /\ call' = [Released(call[f].id, l) EXCEPT ![f].left = @ \ {l}]
          /\ store' = [store EXCEPT ![l][call[f].id] = None]
    /\ UNCHANGED <<levels, wanted, puts, asks, faults>>

\* The store of the level at hand fails, and the Delete with it.
DeleteFails(f) ==
    /\ In(f, "delete") /\ call[f].left # {}
    /\ faults < MaxFaults
    /\ faults' = faults + 1
    /\ call' = [call EXCEPT ![f] = None]
    /\ UNCHANGED <<store, levels, wanted, puts, asks>>

\* The Delete answers nil.
Deleted(f) ==
    /\ In(f, "delete") /\ call[f].left = {}
    /\ wanted' = [wanted EXCEPT ![f] = @ \ {call[f].id}]
    /\ call' = [call EXCEPT ![f] = None]
    /\ UNCHANGED <<store, levels, puts, asks, faults>>

-----------------------------------------------------------------------------
(* Get. *)

\* A Get begins; at this moment it would answer the record of the finest level
\* that has one.
BeginGet(f, id) ==
    LET here == {l \in levels[f] : store[l][id] # None}
    IN  /\ asks < MaxAsks /\ call[f] = None
        /\ asks' = asks + 1
        /\ \E n \in IF here = {} THEN {0} ELSE {store[l][id].n : l \in {k \in here : IsFinest(k, here)}} :
              call' = [call EXCEPT ![f] = [op |-> "get", id |-> id, left |-> levels[f], from |-> n]]
        /\ UNCHANGED <<store, levels, wanted, puts, faults>>

\* A Get that goes over the levels in any order.
GetLevelUnordered(f, l) ==
    /\ In(f, "get") /\ l \in call[f].left
    /\ call' = [call EXCEPT ![f] = IF store[l][call[f].id] = None
                                   THEN [call[f] EXCEPT !.left = @ \ {l}] ELSE None]
    /\ UNCHANGED <<store, levels, wanted, puts, asks, faults>>

\* The finest level left answers the Get, or it goes on to the next.
GetLevel(f, l) ==
    /\ In(f, "get") /\ IsFinest(l, call[f].left)
    /\ call' = [call EXCEPT ![f] = IF store[l][call[f].id] = None
                                   THEN [call[f] EXCEPT !.left = @ \ {l}] ELSE None]
    /\ UNCHANGED <<store, levels, wanted, puts, asks, faults>>

\* A store that fails answers as if it had nothing.
GetFails(f) ==
    /\ In(f, "get") /\ faults < MaxFaults
    /\ faults' = faults + 1
    /\ \E l \in call[f].left :
          /\ IsFinest(l, call[f].left)
          /\ call' = [call EXCEPT ![f].left = @ \ {l}, ![f].from = 0]
    /\ UNCHANGED <<store, levels, wanted, puts, asks>>

\* No level has it.
GetMisses(f) ==
    /\ In(f, "get") /\ call[f].left = {}
    /\ call' = [call EXCEPT ![f] = None]
    /\ UNCHANGED <<store, levels, wanted, puts, asks, faults>>

Next ==
    \E f \in Face :
        \/ \E id \in Id :
              \/ Ask(f, id) \/ Begin(f, id) \/ BeginGet(f, id)
              \/ \E s \in Scope : Put(f, id, s) \/ \E at \in Stamp : Import(f, id, s, at)
        \/ \E l \in Level : Appear(f, l) \/ GetLevel(f, l)
        \/ DeleteLevel(f) \/ DeleteFails(f) \/ Deleted(f)
        \/ GetFails(f) \/ GetMisses(f)

Spec == Init /\ [][Next]_vars

\* A Delete that was asked for is called, runs on, and is retried if it failed; a
\* Get runs on.
Retrying ==
    \A f \in Face :
        /\ \A id \in Id : WF_vars(Begin(f, id))
        /\ WF_vars(DeleteLevel(f))
        /\ WF_vars(Deleted(f))
        /\ WF_vars(\E l \in Level : GetLevel(f, l)) /\ WF_vars(GetMisses(f))

FairSpec == Spec /\ Retrying

-----------------------------------------------------------------------------
(* Properties. *)

\* A missing level never drops a write (workspace.go:10-11, 30-31): what a face
\* put and nobody has replaced or deleted since is in that face's List, also
\* after it composed its stores anew; and in its List pinned to the record's
\* scope, unless the record fell back and its own level has appeared since.
WritesStayListed ==
    \A l \in Level, id \in Id :
        LET r == store[l][id]
        IN  r # None =>
              /\ r \in List(r.by, id)
              /\ l = r.scope \/ r.scope \notin levels[r.by] => r \in PinnedList(r.by, id, r.scope)

\* A Delete that answers nil has removed every copy, on every level: whatever of
\* the identifier its caller then sees was put after the Delete had begun
\* (workspace.go:76).
DeleteIsComplete ==
    [][\A f \in Face : Deleted(f) =>
          \A r \in List(f, call[f].id) : r.n > call[f].from]_vars

\* A Get answers at least what it would have answered at the moment it began:
\* not a miss, nor a version put earlier, from a coarser level, although others
\* write and delete while it goes from level to level; unless what it would have
\* answered was deleted before it came to it, or a level failed (workspace.go:65).
GetIsMonotone ==
    [][\A f \in Face :
          In(f, "get") /\ call[f].from > 0 =>
            /\ ~GetMisses(f)
            /\ \A l \in Level : GetLevel(f, l) /\ call'[f] = None =>
                                  store[l][call[f].id].n >= call[f].from]_vars

\* An import compares with the very version it replaces: it never puts an older
\* one in a newer one's place, unless its levels held two versions to compare
\* with (merge.go:62).
ImportKeepsNewest ==
    [][\A f \in Face, id \in Id, s \in Scope, at \in Stamp :
          Import(f, id, s, at) =>
            \/ \E k, l \in levels[f] : k # l /\ store[k][id] # None /\ store[l][id] # None
            \/ \A l \in Level : store[l][id] # None => store[l][id].at <= store'[l][id].at]_vars

\* A Delete that failed on one level can be repeated until it succeeds, although
\* the levels before that one have the identifier no more.
DeletesFinish == \A f \in Face, id \in Id : id \in wanted[f] ~> id \notin wanted[f]
=============================================================================
