---------------------------- MODULE Replication ----------------------------
(***************************************************************************)
(* Several brains (a machine with its store), each written locally and     *)
(* consolidated with the others by exports and imports:                    *)
(*                                                                         *)
(*   Edit, Delete  Store.Put of a fresh record, Store.Delete               *)
(*   Export        ExportJSON(ListAll(store)), the blob others import      *)
(*   Import        Merge(ListAll(store), ImportJSON(blob)); the merged     *)
(*                 records are still to be Put                             *)
(*   PutMerged     one Put of the import's caller                          *)
(*   Settle        Conflict.Apply on a human's pick, and the Put of it     *)
(*   Restart       the process ends, with its clock and its pending import *)
(*                                                                         *)
(* The caller of Merge is outside the library; merge.go says what it does  *)
(* ("Callers apply the result with Put").  Nothing holds a lock from its   *)
(* ListAll to its last Put, so other agents may write in between.          *)
(***************************************************************************)
EXTENDS Records, FiniteSets

CONSTANTS
    Brain,      \* the machines
    Id,         \* record identifiers
    Clock,      \* what nowMillis may return; brains' clocks are not in step
    Legacy,     \* records written before stamps existed, migrated with stamp 0
    Interleave, \* may other agents of a brain write during an import there?
    ListFails,  \* may the listing of an import fail (SQLite.List answers nil)?
    MaxEdits,   \* bound: local writes, deletes and settled reviews
    MaxFaults   \* bound: restarts and failing listings together

ASSUME ClockIsMillis == Clock \subseteq Nat
ASSUME LegacyUnstamped == Legacy \subseteq {r \in Record : r.at = 0}
ASSUME SwitchesAreBoolean == Interleave \in BOOLEAN /\ ListFails \in BOOLEAN
ASSUME BoundsAreNat == MaxEdits \in Nat /\ MaxFaults \in Nat

VARIABLES
    store,      \* store[b][id]: what b's database holds
    last,       \* lastStamp of the process running on b
    blob,       \* the last export of b
    todo,       \* todo[b][id]: a merged record the import on b has still to Put
    review,     \* review[b][id]: an Unresolved conflict of b's last import
    authored,   \* history: every <<id, record>> a local write stored
    touched,    \* history: identifiers of which the import on b does not know the present
                \*   entry: written since it listed the store, or all if the listing failed
    edits, faults     \* counters of the bounded actions

vars == <<store, last, blob, todo, review, authored, touched, edits, faults>>

Snapshot == [Id -> Entry]
Nothing  == [id \in Id |-> Absent]
Pending  == [base : Record, incoming : Record]

TypeOK ==
    /\ store \in [Brain -> Snapshot]
    /\ last \in [Brain -> Nat]
    /\ blob \in [Brain -> Snapshot]
    /\ todo \in [Brain -> Snapshot]
    /\ review \in [Brain -> [Id -> Pending \cup {Absent}]]
    /\ authored \subseteq Id \X Record
    /\ touched \in [Brain -> SUBSET Id]
    /\ edits \in 0 .. MaxEdits
    /\ faults \in 0 .. MaxFaults

Init ==
    /\ store \in [Brain -> [Id -> Legacy \cup {Absent}]]
    /\ last = [b \in Brain |-> 0]
    /\ blob = [b \in Brain |-> Nothing]
    /\ todo = [b \in Brain |-> Nothing]
    /\ review = [b \in Brain |-> Nothing]
    /\ authored = {e \in Id \X Legacy : \E b \in Brain : store[b][e[1]] = e[2]}
    /\ touched = [b \in Brain |-> {}]
    /\ edits = 0 /\ faults = 0

-----------------------------------------------------------------------------
(* Local writes. *)

Importing(b) == todo[b] # Nothing

\* The bound on local writes, and the switch that serialises them with imports.
MayWrite(b) == edits < MaxEdits /\ (Interleave \/ ~Importing(b))

\* A local write of r, stamped t, and what it leaves behind.
WriteLocally(b, id, r, t) ==
    /\ store' = [store EXCEPT ![b][id] = r]
    /\ last' = [last EXCEPT ![b] = t]
    /\ authored' = authored \cup {<<id, r>>}
    /\ touched' = [touched EXCEPT ![b] = @ \cup {id}]
    /\ edits' = edits + 1

Edit(b, id) ==
    /\ MayWrite(b)
    /\ \E c \in Content, now \in Clock :
          LET t == NextStamp(last[b], now) IN
          WriteLocally(b, id, Stamped([content |-> c, at |-> 0], t), t)
    /\ UNCHANGED <<blob, todo, review, faults>>

\* A deletion that leaves a zero Record where the entry was.
DeleteLeavesZero(b, id) ==
    /\ MayWrite(b)
    /\ store' = [store EXCEPT ![b][id] = [content |-> Absent, at |-> 0]]
    /\ touched' = [touched EXCEPT ![b] = @ \cup {id}]
    /\ edits' = edits + 1
    /\ UNCHANGED <<last, blob, todo, review, authored, faults>>

Delete(b, id) ==
    /\ MayWrite(b)
    /\ store' = [store EXCEPT ![b][id] = Absent]
    /\ touched' = [touched EXCEPT ![b] = @ \cup {id}]
    /\ edits' = edits + 1
    /\ UNCHANGED <<last, blob, todo, review, authored, faults>>

-----------------------------------------------------------------------------
(* Exchange. *)

Export(b) ==
    /\ blob' = [blob EXCEPT ![b] = store[b]]
    /\ UNCHANGED <<store, last, todo, review, authored, touched, edits, faults>>

\* What ListAll gives the import.
Listings(b) == {store[b]} \cup (IF ListFails /\ faults < MaxFaults THEN {Nothing} ELSE {})

\* An import sees what is stored, or by a fault nothing.
Sees(b, listed) ==
    /\ faults' = IF listed = store[b] THEN faults ELSE faults + 1
    /\ touched' = [touched EXCEPT ![b] = IF listed = store[b] THEN {} ELSE Id]

\* What the import leaves to a human: a conflict the stamps do not settle.
Unresolved(e, in) ==
    IF InConflict(e, in) /\ Resolution(e, in) = "Unresolved"
    THEN [base |-> e, incoming |-> in] ELSE Absent

\* An import that reports no conflict to anybody.
ImportUnreported(b, from) ==
    /\ ~Importing(b)
    /\ \E listed \in Listings(b) :
          /\ todo' = [todo EXCEPT ![b] = [id \in Id |-> MergeEntry(listed[id], blob[from][id])]]
          /\ Sees(b, listed)
    /\ UNCHANGED <<store, last, blob, review, authored, edits>>

\* An import that takes what the other brain exported, whatever is held.
ImportOverwrites(b, from) ==
    /\ ~Importing(b)
    /\ todo' = [todo EXCEPT ![b] = blob[from]]
    /\ review' = [review EXCEPT ![b] = Nothing]
    /\ touched' = [touched EXCEPT ![b] = {}]
    /\ UNCHANGED <<store, last, blob, authored, edits, faults>>

Import(b, from) ==
    /\ ~Importing(b)
    /\ \E listed \in Listings(b) :
          /\ todo' = [todo EXCEPT ![b] = [id \in Id |-> MergeEntry(listed[id], blob[from][id])]]
          /\ review' = [review EXCEPT ![b] = [id \in Id |-> Unresolved(listed[id], blob[from][id])]]
          /\ Sees(b, listed)
    /\ UNCHANGED <<store, last, blob, authored, edits>>

\* The Put of one merged record; Put stamps it if it has no stamp.
PutMerged(b, id) ==
    /\ todo[b][id] # Absent
    /\ \E now \in Clock :
          LET t == NextStamp(last[b], now) IN
          /\ store' = [store EXCEPT ![b][id] = Stamped(todo[b][id], t)]
          /\ last' = IF todo[b][id].at = 0 THEN [last EXCEPT ![b] = t] ELSE last
    /\ todo' = [todo EXCEPT ![b][id] = Absent]
    /\ UNCHANGED <<blob, review, authored, touched, edits, faults>>

\* Conflict.Apply once the merged records are in: the side picked, as it was
\* when the import listed the store, under a fresh stamp.
Settle(b, id) ==
    /\ edits < MaxEdits
    /\ ~Importing(b) /\ review[b][id] # Absent
    /\ \E pick \in {review[b][id].base, review[b][id].incoming}, now \in Clock :
          LET t == NextStamp(last[b], now) IN
          WriteLocally(b, id, [pick EXCEPT !.at = t], t)
    /\ review' = [review EXCEPT ![b][id] = Absent]
    /\ UNCHANGED <<blob, todo, faults>>

Restart(b) ==
    /\ faults < MaxFaults
    /\ faults' = faults + 1
    /\ last' = [last EXCEPT ![b] = 0]
    /\ todo' = [todo EXCEPT ![b] = Nothing]
    /\ review' = [review EXCEPT ![b] = Nothing]
    /\ UNCHANGED <<store, blob, authored, touched, edits>>

Next ==
    \E b \in Brain :
        \/ \E id \in Id : Edit(b, id) \/ Delete(b, id) \/ PutMerged(b, id) \/ Settle(b, id)
        \/ \E from \in Brain \ {b} : Import(b, from)
        \/ Export(b) \/ Restart(b)

Spec == Init /\ [][Next]_vars

\* The brains keep exchanging: each exports again after a change, every import
\* is retried, and an import that is running finishes.
Exchange ==
    \A b \in Brain :
        /\ WF_vars(Export(b))
        /\ WF_vars(\E id \in Id : PutMerged(b, id))
        /\ \A from \in Brain \ {b} : SF_vars(Import(b, from))

FairSpec == Spec /\ Exchange

-----------------------------------------------------------------------------
(* Properties. *)

\* Last write wins through a whole import (list, merge, put, with other agents
\* and other brains in between): a Put of a merged record leaves the entry as
\* it is or replaces it by a strictly newer record, unless somebody wrote that
\* very identifier after the import had listed the store (merge.go:60-99), or the
\* listing failed.
ImportNeverRegresses ==
    [][\A b \in Brain, id \in Id :
          PutMerged(b, id) /\ id \notin touched[b] =>
              store'[b][id] = store[b][id] \/ Newer(store'[b][id], store[b][id])]_vars

\* A stamp stands for the write that made it: whatever has been exported,
\* merged, put and retried, each record held anywhere is, stamp included, one
\* that some local write stored ("merge/import preserve an incoming value so
\* last-write-wins holds across machines", store.go:101-102).
StampsAreAuthored ==
    \A b \in Brain, id \in Id :
        store[b][id] # Absent => <<id, store[b][id]>> \in authored

\* Last write wins across machines also for rows that predate the stamps: a
\* Put of a merged record lets what a stamped write said give way only to what
\* another write said ("merge/import preserve an incoming value so
\* last-write-wins holds across machines", store.go:101-102).
OnlyWritesReplaceWrites ==
    [][\A b \in Brain, id \in Id :
          LET e == store[b][id]  f == store'[b][id] IN
          /\ PutMerged(b, id) /\ id \notin touched[b]
          /\ e # Absent /\ <<id, e>> \in authored /\ e.at # 0
          => SameContent(e, f) \/ <<id, f>> \in authored]_vars

Agree(e, f) == IF e = Absent \/ f = Absent THEN e = f ELSE e.at = f.at

\* Brains that keep exchanging end up holding the same identifiers under the
\* same stamps, once local writes stop: despite deletes without tombstones,
\* stale exports, imports cut off half-way, writes lost to an import and imports
\* that took the store for empty.
Converges ==
    <>[](\A b1, b2 \in Brain, id \in Id : Agree(store[b1][id], store[b2][id]))

\* Where two brains keep saying different things of one identifier, a human of
\* each is told: no disagreement stays hidden behind equal stamps.
TiesReachReview ==
    <>[](\A b1, b2 \in Brain, id \in Id :
            InConflict(store[b1][id], store[b2][id]) => review[b1][id] # Absent)

\* A local write, a human's settlement included, is newer than the record it
\* replaces ("guaranteed strictly increasing per store", store.go:99; "so the
\* decision itself is the newest write", merge.go:103).
LocalWriteIsNewest ==
    [][\A b \in Brain, id \in Id :
          Edit(b, id) \/ Settle(b, id) => Newer(store'[b][id], store[b][id])]_vars

-----------------------------------------------------------------------------
(* Replicated stores implement a last-write-wins map. *)

LWW == INSTANCE LwwMap WITH ops <- edits

ImplementsLww == LWW!Spec
=============================================================================
