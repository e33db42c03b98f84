---------------------------- MODULE Merge_proofs ----------------------------
(***************************************************************************)
(* Proofs about Merge, for slices of any length over any sets of           *)
(* identifiers, contents and stamps.                                       *)
(***************************************************************************)
EXTENDS Merge, TLAPS

-----------------------------------------------------------------------------
(* The decision for one identifier. *)

\* An entry merged with a record is one of the two, and it is the record only
\* when that is strictly newer (or nothing was held): merge.go:66-95 decides by
\* the stamps alone, whichever branch it takes.
THEOREM MergeEntryIsNewest ==
    ASSUME NEW e \in Entry, NEW r \in Record
    PROVE  /\ MergeEntry(e, r) \in Record
           /\ Newer(r, e) => MergeEntry(e, r) = r
           /\ ~Newer(r, e) => MergeEntry(e, r) = e /\ e \in Record /\ r.at <= e.at
    BY AbsentIsNoRecord DEF MergeEntry, Newer, Resolution, SameContent, Entry, Record

-----------------------------------------------------------------------------
(* Type correctness. *)

LEMMA TypeInit == Init => TypeOK
    BY ListsAreSlices DEF Init, TypeOK, Entry

LEMMA ItemAtHand ==
    ASSUME TypeOK, pc = "merge", i < Len(incoming)
    PROVE  in \in Item /\ in.id \in Id /\ in.rec \in Record /\ b \in Entry
<1>1. incoming \in Seq(Item) /\ i + 1 \in 1 .. Len(incoming)
    BY DEF TypeOK
<1>2. in \in Item
    BY <1>1 DEF in
<1>3. in.id \in Id /\ in.rec \in Record
    BY <1>2 DEF Item
<1>4. b \in Entry
    BY <1>3 DEF TypeOK, b
<1> QED
    BY <1>2, <1>3, <1>4

LEMMA TypeStep == TypeOK /\ [Next]_vars => TypeOK'
<1> SUFFICES ASSUME TypeOK, [Next]_vars PROVE TypeOK'
    OBVIOUS
<1>1. CASE Index
    <2>1. base[i + 1] \in Item
        BY <1>1 DEF TypeOK, Index
    <2> QED
        BY <1>1, <2>1 DEF TypeOK, Index, Item, Entry
<1>2. CASE IndexDone
    BY <1>2 DEF TypeOK, IndexDone
<1>3. CASE Add
    <2>1. in.id \in Id /\ in.rec \in Record
        BY <1>3, ItemAtHand DEF Add, Step
    <2> QED
        BY <1>3, <2>1 DEF TypeOK, Add, Step, Entry
<1>4. CASE Dedupe
    <2>1. in.id \in Id /\ in.rec \in Record /\ b \in Entry
        BY <1>4, ItemAtHand DEF Dedupe, Step
    <2> QED
        BY <1>4, <2>1 DEF TypeOK, Dedupe, Step, Entry
<1>5. CASE Settle
    <2>1. in.id \in Id /\ in.rec \in Record /\ b \in Record
        BY <1>5, ItemAtHand DEF Settle, Step, InConflict, Entry
    <2> DEFINE how == Resolution(b, in.rec)
               c == [id |-> in.id, base |-> b, incoming |-> in.rec, resolution |-> how]
    <2>2. how \in {"TookIncoming", "KeptBase", "Unresolved"}
        BY DEF Resolution
    <2>3. c \in Conflict
        BY <2>1, <2>2 DEF Conflict
    <2>4. conflicts' = Append(conflicts, c) /\ conflicts' \in Seq(Conflict)
        BY <1>5, <2>3 DEF Settle, TypeOK
    <2>5. byID' \in [Id -> Entry]
        BY <1>5, <2>1 DEF Settle, TypeOK, Entry
    <2> QED
        BY <1>5, <2>4, <2>5 DEF TypeOK, Settle, Step
<1>6. CASE UNCHANGED vars
    BY <1>6 DEF TypeOK, vars
<1> QED
    BY <1>1, <1>2, <1>3, <1>4, <1>5, <1>6 DEF Next

\* Every reachable state has the shape TypeOK gives it.
THEOREM TypeCorrect == Spec => []TypeOK
    BY TypeInit, TypeStep, PTL DEF Spec

-----------------------------------------------------------------------------
(* The inductive invariant. *)

\* While base is indexed, byID holds the last record seen of each identifier.
Indexed(id) ==
    \/ byID[id] = Absent /\ \A n \in 1 .. i : base[n].id # id
    \/ \E n \in 1 .. i : /\ base[n].id = id /\ base[n].rec = byID[id]
                         /\ \A m \in n + 1 .. i : base[m].id # id

IndexInv ==
    pc = "index" => /\ \A id \in Id : Indexed(id)
                    /\ added = 0 /\ unchanged = 0 /\ autoWon = 0 /\ needReview = 0
                    /\ conflicts = << >>

IInv == TypeOK /\ IndexInv /\ NewestWins /\ BaseKeepsTies /\ NothingDroppedSilently /\ Accounting

LEMMA IInit == Init => IInv
    BY TypeInit DEF Init, IInv, IndexInv, Indexed, NewestWins, BaseKeepsTies,
                    NothingDroppedSilently, Accounting

\* What the three branches of the second loop have in common.
Take == Add \/ Dedupe \/ Settle

LEMMA TakeMerges ==
    ASSUME TypeOK, Take
    PROVE  /\ pc = "merge" /\ pc' = "merge" /\ i < Len(incoming) /\ i' = i + 1
           /\ UNCHANGED <<base, incoming>>
           /\ in.id \in Id /\ in.rec \in Record /\ b \in Entry
           /\ byID' = [byID EXCEPT ![in.id] = MergeEntry(b, in.rec)]
<1>1. pc = "merge" /\ pc' = "merge" /\ i < Len(incoming) /\ i' = i + 1 /\ UNCHANGED <<base, incoming>>
    BY DEF Take, Add, Dedupe, Settle, Step
<1>2. in.id \in Id /\ in.rec \in Record /\ b \in Entry
    BY <1>1, ItemAtHand
<1>3. in.rec # Absent
    BY <1>2, AbsentIsNoRecord
<1>4. byID' = [byID EXCEPT ![in.id] = MergeEntry(b, in.rec)]
    BY <1>3 DEF Take, Add, Dedupe, Settle, MergeEntry, InConflict
<1> QED
    BY <1>1, <1>2, <1>4

LEMMA ConsumedGrows ==
    ASSUME TypeOK, Take, NEW id \in Id
    PROVE  /\ FromBase(id)' = FromBase(id)
           /\ Consumed(id)' = Consumed(id) \cup (IF id = in.id THEN {in.rec} ELSE {})
<1>1. /\ i \in Nat /\ i' = i + 1 /\ i + 1 \in Nat
      /\ base' = base /\ incoming' = incoming
    BY TakeMerges DEF TypeOK
<1>2. FromBase(id)' = FromBase(id)
    BY <1>1 DEF FromBase, LastInBase
<1>3. 1 .. i' = (1 .. i) \cup {i + 1}
    BY <1>1
<1>4. FromIncoming(id)' = FromIncoming(id) \cup (IF id = in.id THEN {in.rec} ELSE {})
    BY <1>1, <1>3 DEF FromIncoming, in
<1> QED
    BY <1>2, <1>4 DEF Consumed

LEMMA ConsumedAreRecords ==
    ASSUME TypeOK, pc = "merge", NEW id \in Id
    PROVE  Consumed(id) \subseteq Record /\ FromBase(id) \subseteq Record
<1>1. \A x \in Item : x.rec \in Record
    BY DEF Item
<1>2. (\A k \in 1 .. Len(base) : base[k] \in Item) /\ (\A k \in 1 .. i : incoming[k] \in Item)
    BY DEF TypeOK
<1> QED
    BY <1>1, <1>2 DEF Consumed, FromBase, FromIncoming

\* A step of the second loop keeps the newest record of each identifier.
LEMMA TakeNewest == TypeOK /\ NewestWins /\ Take => NewestWins'
<1> SUFFICES ASSUME TypeOK, NewestWins, Take, NEW id \in Id
             PROVE  (IF Consumed(id) = {} THEN byID[id] = Absent
                     ELSE byID[id] \in Consumed(id) /\ \A r \in Consumed(id) : r.at <= byID[id].at)'
    BY DEF NewestWins
<1>1. /\ pc = "merge" /\ in.id \in Id /\ in.rec \in Record
      /\ byID' = [byID EXCEPT ![in.id] = MergeEntry(b, in.rec)] /\ byID \in [Id -> Entry]
    BY TakeMerges DEF TypeOK
<1>2. Consumed(id)' = Consumed(id) \cup (IF id = in.id THEN {in.rec} ELSE {})
    BY ConsumedGrows
<1>3. Consumed(id) \subseteq Record
    BY <1>1, ConsumedAreRecords
<1>4. IF Consumed(id) = {} THEN byID[id] = Absent
      ELSE byID[id] \in Consumed(id) /\ \A r \in Consumed(id) : r.at <= byID[id].at
    BY <1>1 DEF NewestWins
<1>5. CASE id # in.id
    BY <1>1, <1>2, <1>4, <1>5
<1>6. CASE id = in.id
    <2>1. b = byID[id] /\ byID'[id] = MergeEntry(b, in.rec)
        BY <1>1, <1>6 DEF b
    <2>2. Consumed(id)' = Consumed(id) \cup {in.rec}
        BY <1>2, <1>6
    <2>3. CASE Consumed(id) = {}
        BY <1>1, <1>4, <2>1, <2>2, <2>3 DEF MergeEntry, Record
    <2>4. CASE Consumed(id) # {}
        <3>1. b \in Consumed(id) /\ b \in Record /\ \A r \in Consumed(id) : r.at <= b.at
            BY <1>3, <1>4, <2>1, <2>4
        <3>2. (Newer(in.rec, b) => byID'[id] = in.rec) /\ (~Newer(in.rec, b) => byID'[id] = b /\ in.rec.at <= b.at)
            BY <1>1, <2>1, <3>1, MergeEntryIsNewest DEF Entry
        <3>3. \A r \in Record : r.at \in Nat
            BY DEF Record
        <3>4. CASE Newer(in.rec, b)
            <4>1. byID'[id] = in.rec /\ in.rec.at > b.at
                BY <3>1, <3>2, <3>4, AbsentIsNoRecord DEF Newer
            <4> QED
                BY <1>1, <1>3, <2>2, <3>1, <3>3, <4>1
        <3>5. CASE ~Newer(in.rec, b)
            BY <1>1, <2>2, <3>1, <3>2, <3>3, <3>5
        <3> QED
            BY <3>4, <3>5
    <2> QED
        BY <2>3, <2>4
<1> QED
    BY <1>5, <1>6

\* A step of the second loop replaces a base record only by a newer one.
LEMMA TakeBase == TypeOK /\ NewestWins /\ BaseKeepsTies /\ Take => BaseKeepsTies'
<1> SUFFICES ASSUME TypeOK, NewestWins, BaseKeepsTies, Take, NEW id \in Id, NEW r \in FromBase(id)'
             PROVE  (byID[id] = r)' \/ (byID[id].at > r.at)'
    BY DEF BaseKeepsTies
<1>1. /\ pc = "merge" /\ in.id \in Id /\ in.rec \in Record /\ b \in Entry
      /\ byID' = [byID EXCEPT ![in.id] = MergeEntry(b, in.rec)] /\ byID \in [Id -> Entry]
    BY TakeMerges DEF TypeOK
<1>2. r \in FromBase(id) /\ r \in Record
    BY <1>1, ConsumedGrows, ConsumedAreRecords
<1>3. byID[id] = r \/ byID[id].at > r.at
    BY <1>1, <1>2 DEF BaseKeepsTies
<1>4. byID[id] \in Record
    BY <1>1, <1>2, ConsumedAreRecords DEF NewestWins, Consumed
<1>5. CASE id # in.id
    BY <1>1, <1>3, <1>5
<1>6. CASE id = in.id
    <2>1. b = byID[id] /\ byID'[id] = MergeEntry(b, in.rec)
        BY <1>1, <1>6 DEF b
    <2>2. \/ byID'[id] = b
          \/ byID'[id] = in.rec /\ in.rec.at > b.at
        BY <1>1, <1>4, <2>1, MergeEntryIsNewest, AbsentIsNoRecord DEF Newer
    <2> QED
        BY <1>1, <1>2, <1>3, <1>4, <2>1, <2>2 DEF Record
<1> QED
    BY <1>5, <1>6

Reported(id, r) ==
    \E k \in 1 .. Len(conflicts) :
        /\ conflicts[k].id = id
        /\ SameContent(r, conflicts[k].base) \/ SameContent(r, conflicts[k].incoming)

\* A step of the second loop drops no content without a conflict naming it.
LEMMA TakeReports == TypeOK /\ NewestWins /\ NothingDroppedSilently /\ Take => NothingDroppedSilently'
<1> SUFFICES ASSUME TypeOK, NewestWins, NothingDroppedSilently, Take,
                    NEW id \in Id, NEW r \in Consumed(id)'
             PROVE  SameContent(r, byID[id])' \/ Reported(id, r)'
    BY DEF NothingDroppedSilently, Reported
<1>1. /\ pc = "merge" /\ in.id \in Id /\ in.rec \in Record /\ b \in Entry
      /\ byID \in [Id -> Entry] /\ conflicts \in Seq(Conflict)
    BY TakeMerges DEF TypeOK
<1>2. Consumed(id)' = Consumed(id) \cup (IF id = in.id THEN {in.rec} ELSE {})
    BY ConsumedGrows
<1>3. r \in Consumed(id) => SameContent(r, byID[id]) \/ Reported(id, r)
    BY <1>1 DEF NothingDroppedSilently, Reported
<1>4. CASE Add
    <2>1. conflicts' = conflicts /\ byID' = [byID EXCEPT ![in.id] = in.rec] /\ byID[in.id] = Absent
        BY <1>4 DEF Add, b
    <2>2. Reported(id, r) => Reported(id, r)'
        BY <2>1 DEF Reported
    <2>3. CASE r \in Consumed(id)
        <3>1. id # in.id
            BY <1>1, <2>1, <2>3, ConsumedAreRecords, AbsentIsNoRecord DEF NewestWins
        <3> QED
            BY <1>1, <1>3, <2>1, <2>2, <2>3, <3>1
    <2>4. CASE r \notin Consumed(id)
        BY <1>1, <1>2, <2>1, <2>4 DEF SameContent
    <2> QED
        BY <2>3, <2>4
<1>5. CASE Dedupe
    <2>1. /\ conflicts' = conflicts /\ SameContent(byID[in.id], in.rec)
          /\ byID' = [byID EXCEPT ![in.id] = IF in.rec.at > b.at THEN in.rec ELSE b]
        BY <1>5 DEF Dedupe, b
    <2>2. Reported(id, r) => Reported(id, r)'
        BY <2>1 DEF Reported
    <2>3. byID'[in.id].content = byID[in.id].content /\ in.rec.content = byID[in.id].content
        BY <1>1, <2>1 DEF SameContent, b
    <2>4. byID'[id].content = byID[id].content
        BY <1>1, <2>1, <2>3
    <2> QED
        BY <1>2, <1>3, <2>2, <2>3, <2>4 DEF SameContent
<1>6. CASE Settle
    <2> DEFINE how == Resolution(b, in.rec)
               c == [id |-> in.id, base |-> b, incoming |-> in.rec, resolution |-> how]
    <2>1. /\ conflicts' = Append(conflicts, c) /\ b \in Record
          /\ byID' = [byID EXCEPT ![in.id] = IF how = "TookIncoming" THEN in.rec ELSE b]
        BY <1>1, <1>6 DEF Settle, InConflict, Entry
    <2> HIDE DEF c
    <2>2. /\ Len(conflicts') = Len(conflicts) + 1 /\ Len(conflicts) \in Nat
          /\ conflicts'[Len(conflicts) + 1] = c
          /\ \A k \in 1 .. Len(conflicts) : conflicts'[k] = conflicts[k]
        BY <1>1, <2>1
    <2>3. Reported(id, r) => Reported(id, r)'
        BY <2>2 DEF Reported
    <2>4. c.id = in.id /\ c.base = b /\ c.incoming = in.rec
        BY DEF c
    <2>5. ASSUME id = in.id, SameContent(r, b) \/ SameContent(r, in.rec)
          PROVE  Reported(id, r)'
        <3>1. Len(conflicts) + 1 \in 1 .. Len(conflicts')
            BY <2>2
        <3> QED
            BY <2>2, <2>4, <2>5, <3>1 DEF Reported, SameContent
    <2>6. CASE id = in.id
        BY <1>2, <1>3, <2>3, <2>5, <2>6 DEF SameContent, b
    <2>7. CASE id # in.id
        BY <1>1, <1>2, <1>3, <2>1, <2>3, <2>7 DEF SameContent
    <2> QED
        BY <2>6, <2>7
<1> QED
    BY <1>4, <1>5, <1>6 DEF Take

LEMMA TakeAccounts == TypeOK /\ Accounting /\ Take => Accounting'
<1> SUFFICES ASSUME TypeOK, Accounting, Take PROVE Accounting'
    OBVIOUS
<1>1. /\ pc = "merge" /\ pc' = "merge" /\ i' = i + 1 /\ i \in Nat
      /\ added \in Nat /\ unchanged \in Nat /\ autoWon \in Nat /\ needReview \in Nat
      /\ conflicts \in Seq(Conflict)
    BY TakeMerges DEF TypeOK
<1>2. CASE Add
    BY <1>1, <1>2 DEF Add, Accounting
<1>3. CASE Dedupe
    BY <1>1, <1>3 DEF Dedupe, Accounting
<1>4. CASE Settle
    <2>1. Len(conflicts') = Len(conflicts) + 1
        BY <1>1, <1>4 DEF Settle
    <2> QED
        BY <1>1, <1>4, <2>1 DEF Settle, Accounting
<1> QED
    BY <1>2, <1>3, <1>4 DEF Take

-----------------------------------------------------------------------------
(* The loop over base, and the turn from it to the second loop. *)

LEMMA IndexStep == TypeOK /\ IndexInv /\ Index => IndexInv'
<1> SUFFICES ASSUME TypeOK, IndexInv, Index, NEW id \in Id PROVE Indexed(id)'
    BY DEF IndexInv, Index
<1>1. /\ i \in Nat /\ i' = i + 1 /\ base' = base /\ base[i + 1] \in Item
      /\ byID' = [byID EXCEPT ![base[i + 1].id] = base[i + 1].rec] /\ byID \in [Id -> Entry]
    BY DEF TypeOK, Index
<1>2. 1 .. i' = (1 .. i) \cup {i + 1}
    BY <1>1
<1>3. CASE base[i + 1].id = id
    <2>1. byID'[id] = base[i + 1].rec
        BY <1>1, <1>3
    <2>2. i + 1 \in 1 .. i' /\ \A m \in i + 1 + 1 .. i' : base'[m].id # id
        BY <1>1
    <2> QED
        BY <1>1, <1>3, <2>1, <2>2 DEF Indexed
<1>4. CASE base[i + 1].id # id
    <2>1. byID'[id] = byID[id]
        BY <1>1, <1>4
    <2>2. Indexed(id)
        BY DEF IndexInv, Index
    <2>3. CASE byID[id] = Absent /\ \A n \in 1 .. i : base[n].id # id
        BY <1>1, <1>2, <1>4, <2>1, <2>3 DEF Indexed
    <2>4. CASE \E n \in 1 .. i : /\ base[n].id = id /\ base[n].rec = byID[id]
                                 /\ \A m \in n + 1 .. i : base[m].id # id
        <3>1. PICK n \in 1 .. i : /\ base[n].id = id /\ base[n].rec = byID[id]
                                  /\ \A m \in n + 1 .. i : base[m].id # id
            BY <2>4
        <3>2. n \in 1 .. i' /\ \A m \in n + 1 .. i' : m \in n + 1 .. i \/ m = i + 1
            BY <1>1
        <3> QED
            BY <1>1, <1>4, <2>1, <3>1, <3>2 DEF Indexed
    <2> QED
        BY <2>2, <2>3, <2>4 DEF Indexed
<1> QED
    BY <1>3, <1>4

LEMMA IndexDoneStep ==
    TypeOK /\ IndexInv /\ IndexDone
        => NewestWins' /\ BaseKeepsTies' /\ NothingDroppedSilently' /\ Accounting'
<1> SUFFICES ASSUME TypeOK, IndexInv, IndexDone
             PROVE  NewestWins' /\ BaseKeepsTies' /\ NothingDroppedSilently' /\ Accounting'
    OBVIOUS
<1>1. /\ i = Len(base) /\ i' = 0 /\ pc' = "merge" /\ Len(base) \in Nat
      /\ base' = base /\ incoming' = incoming /\ byID' = byID
    BY DEF TypeOK, IndexDone
<1>2. ASSUME NEW id \in Id
      PROVE  Consumed(id)' = FromBase(id) /\ FromBase(id)' = FromBase(id)
    BY <1>1 DEF Consumed, FromBase, FromIncoming, LastInBase
<1>3. ASSUME NEW id \in Id
      PROVE  FromBase(id) = IF byID[id] = Absent THEN {} ELSE {byID[id]}
    <2>1. Indexed(id)
        BY DEF IndexInv, IndexDone
    <2>2. CASE byID[id] = Absent /\ \A n \in 1 .. i : base[n].id # id
        BY <1>1, <2>2 DEF FromBase, LastInBase
    <2>3. CASE \E n \in 1 .. i : /\ base[n].id = id /\ base[n].rec = byID[id]
                                 /\ \A m \in n + 1 .. i : base[m].id # id
        <3>1. PICK n \in 1 .. i : /\ base[n].id = id /\ base[n].rec = byID[id]
                                  /\ \A m \in n + 1 .. i : base[m].id # id
            BY <2>3
        <3>2. \A k \in 1 .. Len(base) : LastInBase(id, k) <=> k = n
            BY <1>1, <3>1 DEF LastInBase
        <3>3. FromBase(id) = {byID[id]}
            BY <1>1, <3>1, <3>2 DEF FromBase
        <3>4. byID[id] # Absent
            <4>1. base[n] \in Item
                BY <1>1 DEF TypeOK
            <4> QED
                BY <3>1, <4>1, AbsentIsNoRecord DEF Item
        <3> QED
            BY <3>3, <3>4
    <2> QED
        BY <2>1, <2>2, <2>3 DEF Indexed
<1>4. \A id \in Id : byID[id] # Absent => byID[id].at \in Nat
    BY DEF TypeOK, Entry, Record
<1>5. NewestWins'
    BY <1>1, <1>2, <1>3, <1>4 DEF NewestWins
<1>6. BaseKeepsTies'
    BY <1>1, <1>2, <1>3 DEF BaseKeepsTies
<1>7. NothingDroppedSilently'
    BY <1>1, <1>2, <1>3 DEF NothingDroppedSilently, SameContent
<1>8. Accounting'
    BY <1>1 DEF IndexInv, IndexDone, Accounting
<1> QED
    BY <1>5, <1>6, <1>7, <1>8

-----------------------------------------------------------------------------
(* The invariant, and what follows from it. *)

LEMMA IStep == IInv /\ [Next]_vars => IInv'
<1> SUFFICES ASSUME IInv, [Next]_vars PROVE IInv'
    OBVIOUS
<1>1. TypeOK'
    BY TypeStep DEF IInv
<1>2. CASE Index
    <2>1. IndexInv'
        BY <1>2, IndexStep DEF IInv
    <2> QED
        BY <1>1, <1>2, <2>1 DEF IInv, Index, NewestWins, BaseKeepsTies, NothingDroppedSilently, Accounting
<1>3. CASE IndexDone
    BY <1>1, <1>3, IndexDoneStep DEF IInv, IndexInv, IndexDone
<1>4. CASE Take
    <2>1. pc' = "merge"
        BY <1>4, TakeMerges DEF IInv
    <2> QED
        BY <1>1, <1>4, <2>1, TakeNewest, TakeBase, TakeReports, TakeAccounts DEF IInv, IndexInv
<1>5. CASE UNCHANGED vars
    <2>1. IndexInv'
        BY <1>5 DEF IInv, vars, IndexInv, Indexed
    <2>2. ASSUME NEW id \in Id
          PROVE  FromBase(id)' = FromBase(id) /\ Consumed(id)' = Consumed(id)
        BY <1>5 DEF vars, Consumed, FromBase, FromIncoming, LastInBase
    <2>3. NewestWins'
        BY <1>5, <2>2 DEF IInv, vars, NewestWins
    <2>4. BaseKeepsTies'
        BY <1>5, <2>2 DEF IInv, vars, BaseKeepsTies
    <2>5. NothingDroppedSilently'
        BY <1>5, <2>2 DEF IInv, vars, NothingDroppedSilently, SameContent
    <2>6. Accounting'
        BY <1>5 DEF IInv, vars, Accounting
    <2> QED
        BY <1>1, <2>1, <2>3, <2>4, <2>5, <2>6 DEF IInv
<1> QED
    BY <1>2, <1>3, <1>4, <1>5 DEF Next, Take

LEMMA Inductive == Spec => []IInv
    BY IInit, IStep, PTL DEF Spec

\* Last write wins, over any run of duplicates in any order.
THEOREM NewestWinsAlways == Spec => []NewestWins
<1>1. IInv => NewestWins
    BY DEF IInv
<1> QED
    BY <1>1, Inductive, PTL

\* A merge never replaces a base record by one that is not strictly newer.
THEOREM BaseKeepsTiesAlways == Spec => []BaseKeepsTies
<1>1. IInv => BaseKeepsTies
    BY DEF IInv
<1> QED
    BY <1>1, Inductive, PTL

\* Every content a merge drops is named by one of its conflicts.
THEOREM NothingDroppedSilentlyAlways == Spec => []NothingDroppedSilently
<1>1. IInv => NothingDroppedSilently
    BY DEF IInv
<1> QED
    BY <1>1, Inductive, PTL

\* The counters of the result add up, whatever was merged.
THEOREM AccountingAlways == Spec => []Accounting
<1>1. IInv => Accounting
    BY DEF IInv
<1> QED
    BY <1>1, Inductive, PTL

\* Importing again what was imported changes nothing.
THEOREM ReimportIsNoopAlways == Spec => []ReimportIsNoop
<1>1. IInv => ReimportIsNoop
    <2> SUFFICES ASSUME IInv, pc = "merge", NEW k \in 1 .. i
                 PROVE  MergeEntry(byID[incoming[k].id], incoming[k].rec) = byID[incoming[k].id]
        BY DEF ReimportIsNoop
    <2> DEFINE id == incoming[k].id
               r == incoming[k].rec
    <2>1. incoming[k] \in Item
        BY DEF IInv, TypeOK
    <2>2. id \in Id /\ r \in Record /\ r \in Consumed(id)
        BY <2>1 DEF Item, Consumed, FromIncoming
    <2>3. byID[id] \in Consumed(id) /\ r.at <= byID[id].at
        BY <2>2 DEF IInv, NewestWins
    <2>4. byID[id] \in Record
        BY <2>2, <2>3, ConsumedAreRecords DEF IInv
    <2>5. ~Newer(r, byID[id])
        BY <2>2, <2>3, <2>4, AbsentIsNoRecord DEF Newer, Record
    <2> QED
        BY <2>2, <2>4, <2>5, MergeEntryIsNewest DEF Entry
<1> QED
    BY <1>1, Inductive, PTL

-----------------------------------------------------------------------------
(* The merge, identifier by identifier.  Replication takes an import as one  *)
(* MergeEntry per identifier; here it is proved of the two loops, for an     *)
(* incoming slice that names no identifier twice.                            *)

\* The last of the first k items of s that names id.
IsLast(s, k, id, n) ==
    /\ n \in 1 .. k /\ s[n].id = id
    /\ \A m \in n + 1 .. k : s[m].id # id

\* What the first k items of s say of id.
EntryIn(s, k, id) ==
    IF \E n \in 1 .. k : IsLast(s, k, id, n)
    THEN s[CHOOSE n \in 1 .. k : IsLast(s, k, id, n)].rec
    ELSE Absent

\* No identifier is named twice: a store lists a record once.
Once(s) == \A m, n \in 1 .. Len(s) : s[m].id = s[n].id => m = n

LEMMA LastIsUnique ==
    ASSUME NEW s, NEW k \in Nat, NEW id, NEW n \in 1 .. k, IsLast(s, k, id, n)
    PROVE  EntryIn(s, k, id) = s[n].rec
<1>1. ASSUME NEW m \in 1 .. k, IsLast(s, k, id, m)
      PROVE  m = n
    <2>1. ~(m < n)
        <3>1. m < n => n \in m + 1 .. k
            OBVIOUS
        <3> QED
            BY <1>1, <3>1 DEF IsLast
    <2>2. ~(n < m)
        <3>1. n < m => m \in n + 1 .. k
            OBVIOUS
        <3> QED
            BY <1>1, <3>1 DEF IsLast
    <2> QED
        BY <2>1, <2>2
<1>2. (CHOOSE m \in 1 .. k : IsLast(s, k, id, m)) = n
    BY <1>1
<1> QED
    BY <1>2 DEF EntryIn

LEMMA NoneIsAbsent ==
    ASSUME NEW s, NEW k, NEW id, \A n \in 1 .. k : s[n].id # id
    PROVE  EntryIn(s, k, id) = Absent
    BY DEF EntryIn, IsLast

\* One more item settles what is said of its identifier, and of no other.
LEMMA EntryGrows ==
    ASSUME NEW s, NEW k \in Nat, NEW id
    PROVE  EntryIn(s, k + 1, id) = IF s[k + 1].id = id THEN s[k + 1].rec ELSE EntryIn(s, k, id)
<1>1. CASE s[k + 1].id = id
    <2>1. k + 1 \in 1 .. k + 1 /\ IsLast(s, k + 1, id, k + 1)
        BY <1>1 DEF IsLast
    <2> QED
        BY <1>1, <2>1, LastIsUnique
<1>2. CASE s[k + 1].id # id
    <2>1. 1 .. k + 1 = (1 .. k) \cup {k + 1}
        OBVIOUS
    <2>2. ASSUME NEW n \in 1 .. k
          PROVE  IsLast(s, k + 1, id, n) <=> IsLast(s, k, id, n)
        <3>1. n + 1 .. k + 1 = (n + 1 .. k) \cup {k + 1}
            OBVIOUS
        <3> QED
            BY <1>2, <2>1, <3>1 DEF IsLast
    <2>3. ~IsLast(s, k + 1, id, k + 1)
        BY <1>2 DEF IsLast
    <2>4. CASE \E n \in 1 .. k : IsLast(s, k, id, n)
        <3>1. PICK n \in 1 .. k : IsLast(s, k, id, n)
            BY <2>4
        <3>2. n \in 1 .. k + 1 /\ IsLast(s, k + 1, id, n)
            BY <2>1, <2>2, <3>1
        <3> QED
            BY <1>2, <3>1, <3>2, LastIsUnique
    <2>5. CASE ~\E n \in 1 .. k : IsLast(s, k, id, n)
        BY <1>2, <2>1, <2>2, <2>3, <2>5 DEF EntryIn
    <2> QED
        BY <2>4, <2>5
<1> QED
    BY <1>1, <1>2

\* What byID holds once base is indexed and i incoming records are merged.
Entrywise(id) == byID[id] = MergeEntry(EntryIn(base, Len(base), id), EntryIn(incoming, i, id))

EntrywiseInv == pc = "merge" /\ Once(incoming) => \A id \in Id : Entrywise(id)

LEMMA IndexedIsEntry ==
    ASSUME TypeOK, NEW id \in Id, pc = "index", Indexed(id)
    PROVE  byID[id] = EntryIn(base, i, id)
<1>1. i \in Nat
    BY DEF TypeOK
<1>2. CASE byID[id] = Absent /\ \A n \in 1 .. i : base[n].id # id
    BY <1>2, NoneIsAbsent
<1>3. CASE \E n \in 1 .. i : /\ base[n].id = id /\ base[n].rec = byID[id]
                             /\ \A m \in n + 1 .. i : base[m].id # id
    <2>1. PICK n \in 1 .. i : base[n].rec = byID[id] /\ IsLast(base, i, id, n)
        BY <1>3 DEF IsLast
    <2> QED
        BY <1>1, <2>1, LastIsUnique
<1> QED
    BY <1>2, <1>3 DEF Indexed

LEMMA EntrywiseFromIndex == IInv /\ IndexDone => EntrywiseInv'
<1> SUFFICES ASSUME IInv, IndexDone, NEW id \in Id PROVE Entrywise(id)'
    BY DEF EntrywiseInv
<1>1. /\ pc = "index" /\ i = Len(base) /\ i' = 0
      /\ base' = base /\ incoming' = incoming /\ byID' = byID
    BY DEF IndexDone
<1>2. byID[id] = EntryIn(base, Len(base), id)
    BY <1>1, IndexedIsEntry DEF IInv, IndexInv
<1>3. EntryIn(incoming, 0, id) = Absent
    BY NoneIsAbsent
<1> QED
    BY <1>1, <1>2, <1>3 DEF Entrywise, MergeEntry

LEMMA TakeEntrywise == TypeOK /\ EntrywiseInv /\ Take => EntrywiseInv'
<1> SUFFICES ASSUME TypeOK, EntrywiseInv, Take, Once(incoming'), NEW id \in Id
             PROVE  Entrywise(id)'
    BY DEF EntrywiseInv
<1>1. /\ pc = "merge" /\ i < Len(incoming) /\ i' = i + 1 /\ base' = base /\ incoming' = incoming
      /\ in.id \in Id /\ in.rec \in Record /\ b \in Entry /\ i \in Nat /\ Len(incoming) \in Nat
      /\ byID' = [byID EXCEPT ![in.id] = MergeEntry(b, in.rec)] /\ byID \in [Id -> Entry]
    BY TakeMerges DEF TypeOK
<1>2. Entrywise(id)
    BY <1>1 DEF EntrywiseInv
<1>3. EntryIn(incoming, i + 1, id) = IF in.id = id THEN in.rec ELSE EntryIn(incoming, i, id)
    BY <1>1, EntryGrows DEF in
<1>4. CASE in.id # id
    BY <1>1, <1>2, <1>3, <1>4 DEF Entrywise
<1>5. CASE in.id = id
    <2>1. \A n \in 1 .. i : n \in 1 .. Len(incoming) /\ n # i + 1 /\ i + 1 \in 1 .. Len(incoming)
        BY <1>1
    <2>2. \A n \in 1 .. i : incoming[n].id # id
        BY <1>1, <1>5, <2>1 DEF Once, in
    <2>3. EntryIn(incoming, i, id) = Absent
        BY <2>2, NoneIsAbsent
    <2>4. byID[id] = EntryIn(base, Len(base), id)
        BY <1>2, <2>3 DEF Entrywise, MergeEntry
    <2>5. byID'[id] = MergeEntry(byID[id], in.rec)
        BY <1>1, <1>5 DEF b
    <2> QED
        BY <1>1, <1>3, <1>5, <2>4, <2>5 DEF Entrywise
<1> QED
    BY <1>4, <1>5

LEMMA EntrywiseStep == IInv /\ EntrywiseInv /\ [Next]_vars => EntrywiseInv'
<1> SUFFICES ASSUME IInv, EntrywiseInv, [Next]_vars PROVE EntrywiseInv'
    OBVIOUS
<1>1. CASE Index
    BY <1>1 DEF Index, EntrywiseInv
<1>2. CASE IndexDone
    BY <1>2, EntrywiseFromIndex
<1>3. CASE Take
    BY <1>3, TakeEntrywise DEF IInv
<1>4. CASE UNCHANGED vars
    BY <1>4 DEF vars, EntrywiseInv, Entrywise
<1> QED
    BY <1>1, <1>2, <1>3, <1>4 DEF Next, Take

\* A finished merge holds, for every identifier, the merge of what the base
\* slice last says of it with what the incoming slice says: the two loops of
\* merge.go:61-96 are MergeEntry applied identifier by identifier, which is how
\* Replication takes the import of a log.
THEOREM MergeIsEntrywise ==
    Spec => [](pc = "merge" /\ i = Len(incoming) /\ Once(incoming) =>
                  \A id \in Id : byID[id] = MergeEntry(EntryIn(base, Len(base), id),
                                                       EntryIn(incoming, Len(incoming), id)))
<1>1. Init => EntrywiseInv
    BY DEF Init, EntrywiseInv
<1>2. EntrywiseInv =>
          (pc = "merge" /\ i = Len(incoming) /\ Once(incoming) =>
              \A id \in Id : byID[id] = MergeEntry(EntryIn(base, Len(base), id),
                                                   EntryIn(incoming, Len(incoming), id)))
    BY DEF EntrywiseInv, Entrywise
<1> QED
    BY <1>1, <1>2, Inductive, EntrywiseStep, PTL DEF Spec
=============================================================================
