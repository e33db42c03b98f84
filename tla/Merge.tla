------------------------------- MODULE Merge -------------------------------
(***************************************************************************)
(* The function Merge of merge.go, one step per iteration of its two       *)
(* loops.  `base' and `incoming' are its arguments; a slice may name an    *)
(* identifier several times.  The map byID is a function with Absent for   *)
(* the identifiers it does not hold, so the slice Merged is its range.     *)
(***************************************************************************)
EXTENDS Records, Sequences

CONSTANTS
    Id,         \* record identifiers
    BaseLists,  \* the slices the base may be
    Lists       \* the slices the incoming side may be

Item == [id : Id, rec : Record]

ASSUME ListsAreSlices == BaseLists \subseteq Seq(Item) /\ Lists \subseteq Seq(Item)

VARIABLES
    base,       \* argument: the records of the store merged into
    incoming,   \* argument: the records merged in
    pc,         \* "index" in the loop over base, "merge" in the loop over incoming
    i,          \* records consumed by the current loop
    byID,       \* the consolidated set
    added, unchanged, autoWon, needReview,  \* the accounting of MergeResult
    conflicts   \* MergeResult.Conflicts

vars == <<base, incoming, pc, i, byID, added, unchanged, autoWon, needReview, conflicts>>

Conflict == [id : Id, base : Record, incoming : Record,
             resolution : {"TookIncoming", "KeptBase", "Unresolved"}]

TypeOK ==
    /\ base \in Seq(Item)
    /\ incoming \in Seq(Item)
    /\ pc \in {"index", "merge"}
    /\ i \in Nat
    /\ i <= (IF pc = "index" THEN Len(base) ELSE Len(incoming))
    /\ byID \in [Id -> Entry]
    /\ added \in Nat /\ unchanged \in Nat /\ autoWon \in Nat /\ needReview \in Nat
    /\ conflicts \in Seq(Conflict)

Init ==
    /\ base \in BaseLists
    /\ incoming \in Lists
    /\ pc = "index"
    /\ i = 0
    /\ byID = [id \in Id |-> Absent]
    /\ added = 0 /\ unchanged = 0 /\ autoWon = 0 /\ needReview = 0
    /\ conflicts = << >>

-----------------------------------------------------------------------------
(* The loop over base. *)

Index ==
    /\ pc = "index" /\ i < Len(base)
    /\ i' = i + 1
    /\ byID' = [byID EXCEPT ![base[i + 1].id] = base[i + 1].rec]
    /\ UNCHANGED <<base, incoming, pc, added, unchanged, autoWon, needReview, conflicts>>

IndexDone ==
    /\ pc = "index" /\ i = Len(base)
    /\ pc' = "merge"
    /\ i' = 0
    /\ UNCHANGED <<base, incoming, byID, added, unchanged, autoWon, needReview, conflicts>>

-----------------------------------------------------------------------------
(* The loop over incoming: the record at hand, and what byID holds for it. *)

in == incoming[i + 1]
b  == byID[in.id]

Step == pc = "merge" /\ i < Len(incoming) /\ i' = i + 1 /\ UNCHANGED <<base, incoming, pc>>

Add ==
    /\ Step
    /\ b = Absent
    /\ byID' = [byID EXCEPT ![in.id] = in.rec]
    /\ added' = added + 1
    /\ UNCHANGED <<unchanged, autoWon, needReview, conflicts>>

\* A deduplication that always keeps the copy that came last.
DedupeKeepsLast ==
    /\ Step
    /\ b # Absent /\ SameContent(b, in.rec)
    /\ byID' = [byID EXCEPT ![in.id] = in.rec]
    /\ unchanged' = unchanged + 1
    /\ UNCHANGED <<added, autoWon, needReview, conflicts>>

Dedupe ==
    /\ Step
    /\ b # Absent /\ SameContent(b, in.rec)
    /\ byID' = [byID EXCEPT ![in.id] = IF in.rec.at > b.at THEN in.rec ELSE b]
    /\ unchanged' = unchanged + 1
    /\ UNCHANGED <<added, autoWon, needReview, conflicts>>

\* A settlement that counts a tie as settled.
SettleTieAsWon ==
    /\ Step
    /\ InConflict(b, in.rec)
    /\ LET how == Resolution(b, in.rec) IN
       /\ byID' = [byID EXCEPT ![in.id] = IF how = "TookIncoming" THEN in.rec ELSE b]
       /\ autoWon' = autoWon + 1
       /\ needReview' = IF how = "Unresolved" THEN needReview + 1 ELSE needReview
       /\ conflicts' = Append(conflicts, [id |-> in.id, base |-> b, incoming |-> in.rec,
                                          resolution |-> how])
    /\ UNCHANGED <<added, unchanged>>

\* A settlement that reports only the conflicts the base side survived.
SettleReportsSurvivors ==
    /\ Step
    /\ InConflict(b, in.rec)
    /\ LET how == Resolution(b, in.rec) IN
       /\ byID' = [byID EXCEPT ![in.id] = IF how = "TookIncoming" THEN in.rec ELSE b]
       /\ autoWon' = IF how = "Unresolved" THEN autoWon ELSE autoWon + 1
       /\ needReview' = IF how = "Unresolved" THEN needReview + 1 ELSE needReview
       /\ conflicts' = IF how = "TookIncoming" THEN conflicts
                       ELSE Append(conflicts, [id |-> in.id, base |-> b, incoming |-> in.rec,
                                               resolution |-> how])
    /\ UNCHANGED <<added, unchanged>>

Settle ==
    /\ Step
    /\ InConflict(b, in.rec)
    /\ LET how == Resolution(b, in.rec) IN
       /\ byID' = [byID EXCEPT ![in.id] = IF how = "TookIncoming" THEN in.rec ELSE b]
       /\ autoWon' = IF how = "Unresolved" THEN autoWon ELSE autoWon + 1
       /\ needReview' = IF how = "Unresolved" THEN needReview + 1 ELSE needReview
       /\ conflicts' = Append(conflicts, [id |-> in.id, base |-> b, incoming |-> in.rec,
                                          resolution |-> how])
    /\ UNCHANGED <<added, unchanged>>

Next == Index \/ IndexDone \/ Add \/ Dedupe \/ Settle

Spec == Init /\ [][Next]_vars

-----------------------------------------------------------------------------
(* What the merge must do. *)

\* The records of an identifier the merge has consumed: a base slice is
\* indexed, so only its last record of the identifier counts.
LastInBase(id, k) ==
    /\ base[k].id = id
    /\ \A n \in k + 1 .. Len(base) : base[n].id # id

FromBase(id)     == {base[k].rec : k \in {n \in 1 .. Len(base) : LastInBase(id, n)}}
FromIncoming(id) == {incoming[k].rec : k \in {n \in 1 .. i : incoming[n].id = id}}
Consumed(id)     == FromBase(id) \cup FromIncoming(id)

\* Last write wins over the whole run of duplicates, whatever their order and
\* whichever of the three branches each took: an identifier is held iff some
\* record of it was consumed, and the record held is a consumed one that no
\* consumed record is newer than (merge.go:52-56).
NewestWins ==
    pc = "merge" => \A id \in Id :
        IF Consumed(id) = {} THEN byID[id] = Absent
        ELSE byID[id] \in Consumed(id) /\ \A r \in Consumed(id) : r.at <= byID[id].at

\* No silent overwrite: a base record is replaced only by a strictly newer one;
\* a tie, both stamps zero included, leaves the base record in place
\* (merge.go:58-59).
BaseKeepsTies ==
    pc = "merge" => \A id \in Id : \A r \in FromBase(id) :
        byID[id] = r \/ byID[id].at > r.at

\* Everything consumed is either what the merged set says or is named by a
\* conflict, so no content is dropped without being reported.
NothingDroppedSilently ==
    pc = "merge" => \A id \in Id : \A r \in Consumed(id) :
        \/ SameContent(r, byID[id])
        \/ \E k \in 1 .. Len(conflicts) :
              /\ conflicts[k].id = id
              /\ SameContent(r, conflicts[k].base) \/ SameContent(r, conflicts[k].incoming)

\* The counters of MergeResult account for every incoming record exactly once,
\* and the review count for every conflict left to a human.
Accounting ==
    /\ pc = "merge" => added + unchanged + autoWon + needReview = i
    /\ Len(conflicts) = autoWon + needReview

\* Merging is idempotent: a record already merged in, offered again, changes
\* nothing, so an import may be repeated.
ReimportIsNoop ==
    pc = "merge" => \A k \in 1 .. i :
        MergeEntry(byID[incoming[k].id], incoming[k].rec) = byID[incoming[k].id]
=============================================================================
