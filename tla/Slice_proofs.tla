---------------------------- MODULE Slice_proofs ---------------------------
(***************************************************************************)
(* Proofs about Slice, for ranked lists of any length, any repos and any   *)
(* caps.  Two facts carry them: what the first pass leaves out belongs to  *)
(* a group that has used up its share, and has for good; and the second    *)
(* pass leaves nothing out as it goes.                                     *)
(***************************************************************************)
EXTENDS Slice, FiniteSetTheorems, TLAPS

\* What holds of the arguments.
Arguments ==
    /\ ranked \in Seq(Group \cup {NoGroup})
    /\ FocusLeads(ranked, focus)

Picked ==
    /\ picked \subseteq 1 .. N
    /\ Cardinality(picked) <= MaxSlice
    /\ pass = 1 => picked \subseteq 1 .. i
    /\ pass = 2 => 1 .. i \subseteq picked

\* Left out, the first time, for want of a share.
LeftOut == \A k \in 1 .. N : k \notin picked => Spent(ranked[k])

Fair == \A g \in Group : Bound(g) => Cardinality(Taken(g)) <= Share

Shared ==
    /\ pass = 1 => Fair /\ \A k \in 1 .. i : k \notin picked => Spent(ranked[k])
    /\ pass = 2 => LeftOut \/ (Fair /\ Full)
    /\ pass = 3 => LeftOut \/ Fair

\* A group is taken in its order.
InOrder == \A k \in picked : \A j \in 1 .. k : ranked[j] = ranked[k] => j \in picked

\* The focused repo is taken before the others.
FocusFirst ==
    focus # NoGroup =>
        \/ \A k \in 1 .. N : ranked[k] = focus => k \in picked
        \/ \A k \in picked : ranked[k] = focus

Ended == pass = 3 => (picked = 1 .. N \/ Full)

IInv == TypeOK /\ Arguments /\ Picked /\ Shared /\ InOrder /\ FocusFirst /\ Ended

-----------------------------------------------------------------------------
(* Cardinalities. *)

LEMMA Finite ==
    ASSUME TypeOK
    PROVE  /\ N \in Nat /\ IsFiniteSet(1 .. N) /\ Cardinality(1 .. N) = N
           /\ IsFiniteSet(picked) /\ Cardinality(picked) \in Nat
           /\ \A g : IsFiniteSet(Taken(g)) /\ Cardinality(Taken(g)) \in Nat
           /\ Share \in Nat
<1>1. N \in Nat
    BY DEF TypeOK, N
<1>2. IsFiniteSet(1 .. N) /\ Cardinality(1 .. N) = N
    BY <1>1, FS_Interval
<1>3. \A S \in SUBSET (1 .. N) : IsFiniteSet(S) /\ Cardinality(S) \in Nat
    BY <1>2, FS_Subset, FS_CardinalityType
<1>4. picked \in SUBSET (1 .. N) /\ \A g : Taken(g) \in SUBSET (1 .. N)
    BY DEF TypeOK, Taken
<1> QED
    BY <1>1, <1>2, <1>3, <1>4, CapsArePositive DEF Share

\* One record more is taken.
LEMMA OneMore ==
    ASSUME TypeOK, NEW k \in 1 .. N, k \notin picked, picked' = picked \cup {k},
           UNCHANGED <<ranked, focus>>
    PROVE  /\ Cardinality(picked') = Cardinality(picked) + 1
           /\ \A g : Taken(g)' = IF ranked[k] = g THEN Taken(g) \cup {k} ELSE Taken(g)
           /\ \A g : Cardinality(Taken(g))' = IF ranked[k] = g THEN Cardinality(Taken(g)) + 1
                                              ELSE Cardinality(Taken(g))
<1>1. Cardinality(picked') = Cardinality(picked) + 1
    BY Finite, FS_AddElement
<1>2. \A g : Taken(g)' = IF ranked[k] = g THEN Taken(g) \cup {k} ELSE Taken(g)
    BY DEF Taken
<1>3. \A g : k \notin Taken(g) /\ IsFiniteSet(Taken(g))
    BY Finite DEF Taken
<1>4. \A g : Cardinality(Taken(g) \cup {k}) = Cardinality(Taken(g)) + 1
    BY <1>3, FS_AddElement
<1>5. \A g : Cardinality(Taken(g))' = IF ranked[k] = g THEN Cardinality(Taken(g)) + 1
                                       ELSE Cardinality(Taken(g))
    BY <1>2, <1>4
<1> QED
    BY <1>1, <1>2, <1>5

\* A share that is used up stays so.
LEMMA SpentForGood ==
    ASSUME TypeOK, NEW k \in 1 .. N, picked' = picked \cup {k}, UNCHANGED <<ranked, focus>>,
           NEW g, Spent(g)
    PROVE  Spent(g)'
<1>1. Share' = Share /\ Bound(g)'
    BY DEF Share, Bound, Spent, N
<1>2. Cardinality(Taken(g)) <= Cardinality(Taken(g))'
    <2>1. CASE k \in picked
        <3>1. Taken(g)' = Taken(g)
            BY <2>1 DEF Taken
        <3> QED
            BY <3>1, Finite
    <2>2. CASE k \notin picked
        BY <2>2, OneMore, Finite
    <2> QED
        BY <2>1, <2>2
<1>3. Cardinality(Taken(g))' \in Nat
    <2>1. Taken(g)' \subseteq 1 .. N
        BY DEF Taken, TypeOK
    <2> QED
        BY <2>1, Finite, FS_Subset, FS_CardinalityType
<1> QED
    BY <1>1, <1>2, <1>3, Finite DEF Spent

-----------------------------------------------------------------------------
(* The invariant. *)

LEMMA InitInv == Init => IInv
<1> SUFFICES ASSUME Init PROVE IInv
    OBVIOUS
<1>1. TypeOK /\ Arguments
    BY MatchesAreLists DEF Init, TypeOK, Arguments, N
<1>2. Cardinality({}) = 0
    BY FS_EmptySet
<1>3. Picked
    BY <1>2, CapsArePositive DEF Init, Picked
<1>4. Shared
    <2>1. \A g : Taken(g) = {}
        BY DEF Init, Taken
    <2> QED
        BY <1>1, <1>2, <2>1, Finite DEF Init, Shared, Fair
<1> QED
    BY <1>1, <1>3, <1>4 DEF Init, IInv, InOrder, FocusFirst, Ended

\* A step that takes the record it comes to.
LEMMA TakeInv ==
    ASSUME IInv, pass < 3, i < N, ~Full, i' = i + 1, picked' = picked \cup {i + 1},
           UNCHANGED <<ranked, focus, pass>>,
           pass = 1 => ~Spent(ranked[i + 1])
    PROVE  IInv'
<1>0. TypeOK /\ Arguments /\ Picked /\ Shared /\ InOrder /\ FocusFirst
    BY DEF IInv
<1>1. /\ N \in Nat /\ N' = N /\ i \in Nat /\ i + 1 \in 1 .. N /\ pass \in {1, 2}
      /\ Cardinality(picked) \in Nat /\ Share \in Nat /\ Share' = Share
    BY <1>0, Finite DEF TypeOK, N, Share
<1>2. TypeOK' /\ Arguments'
    BY <1>0, <1>1 DEF TypeOK, Arguments, FocusLeads, N
<1>3. Cardinality(picked') <= MaxSlice
    <2>1. CASE i + 1 \in picked
        <3>1. picked' = picked
            BY <2>1
        <3> QED
            BY <1>0, <3>1 DEF Picked
    <2>2. CASE i + 1 \notin picked
        BY <1>0, <1>1, <2>2, OneMore, CapsArePositive DEF Full
    <2> QED
        BY <2>1, <2>2
<1>4. Picked'
    <2>1. pass = 1 => picked' \subseteq 1 .. i'
        BY <1>0, <1>1 DEF Picked
    <2>2. pass = 2 => 1 .. i' \subseteq picked'
        BY <1>0, <1>1 DEF Picked
    <2> QED
        BY <1>1, <1>2, <1>3, <2>1, <2>2 DEF Picked, TypeOK
\* Whatever was spent is.
<1>5. \A g : Spent(g) => Spent(g)'
    BY <1>0, <1>1, SpentForGood
<1>6. Shared'
    <2>1. CASE pass = 1
        <3>1. i + 1 \notin picked
            BY <1>0, <1>1, <2>1 DEF Picked
        <3>2. \A g : Bound(g)' <=> Bound(g)
            BY DEF Bound
        <3>3. Fair'
            <4> SUFFICES ASSUME NEW g \in Group, Bound(g)
                         PROVE  Cardinality(Taken(g))' <= Share
                BY <1>1, <3>2 DEF Fair
            <4>1. Cardinality(Taken(g)) <= Share /\ Cardinality(Taken(g)) \in Nat
                BY <1>0, <2>1, Finite DEF Shared, Fair
            <4>2. ranked[i + 1] = g => Cardinality(Taken(g)) < Share
                BY <1>1, <2>1, <4>1 DEF Spent
            <4> QED
                BY <1>0, <1>1, <3>1, <4>1, <4>2, OneMore
        <3>4. \A k \in 1 .. i' : k \notin picked' => Spent(ranked[k])'
            BY <1>0, <1>1, <1>5, <2>1 DEF Shared
        <3> QED
            BY <2>1, <3>3, <3>4 DEF Shared
    <2>2. CASE pass = 2
        <3>1. LeftOut
            BY <1>0, <2>2 DEF Shared
        <3>2. LeftOut'
            BY <1>1, <1>5, <3>1 DEF LeftOut
        <3> QED
            BY <2>2, <3>2 DEF Shared
    <2> QED
        BY <1>1, <2>1, <2>2
\* Earlier records of the group that the step comes to are in.
<1>7. \A j \in 1 .. i + 1 : ranked[j] = ranked[i + 1] => j \in picked'
    <2>1. CASE pass = 1
        BY <1>0, <1>1, <2>1 DEF Shared
    <2>2. CASE pass = 2
        BY <1>0, <1>1, <2>2 DEF Picked
    <2> QED
        BY <1>1, <2>1, <2>2
<1>8. InOrder'
    BY <1>0, <1>7 DEF InOrder
<1>9. FocusFirst'
    <2> SUFFICES ASSUME focus # NoGroup
                 PROVE  \/ \A k \in 1 .. N : ranked[k] = focus => k \in picked'
                        \/ \A k \in picked' : ranked[k] = focus
        BY <1>1 DEF FocusFirst
    <2>1. CASE ranked[i + 1] = focus
        BY <1>0, <2>1 DEF FocusFirst
    <2>2. CASE ranked[i + 1] # focus
        <3> SUFFICES ASSUME NEW k \in 1 .. N, ranked[k] = focus PROVE k \in picked'
            OBVIOUS
        <3>1. k \in 1 .. i
            BY <1>0, <1>1, <2>2 DEF Arguments, FocusLeads, N
        <3>2. CASE pass = 1
            BY <1>0, <3>1, <3>2 DEF Shared, Spent, Bound
        <3>3. CASE pass = 2
            BY <1>0, <3>1, <3>3 DEF Picked
        <3> QED
            BY <1>1, <3>2, <3>3
    <2> QED
        BY <2>1, <2>2
<1> QED
    BY <1>1, <1>2, <1>4, <1>6, <1>8, <1>9 DEF IInv, Ended

LEMMA StepInv == IInv /\ [Next]_vars => IInv'
<1> SUFFICES ASSUME IInv, [Next]_vars PROVE IInv'
    OBVIOUS
<1>0. TypeOK /\ Arguments /\ Picked /\ Shared /\ InOrder /\ FocusFirst /\ Ended
    BY DEF IInv
<1>1. N \in Nat /\ i \in 0 .. N /\ pass \in 1 .. 3
    BY <1>0, Finite DEF TypeOK
<1>2. CASE Balance /\ ~Spent(ranked[i + 1])
    BY <1>2, TakeInv DEF Balance
<1>3. CASE Balance /\ Spent(ranked[i + 1])
    <2>1. UNCHANGED <<ranked, focus, pass, picked>> /\ i' = i + 1 /\ pass = 1 /\ i < N
        BY <1>3 DEF Balance
    <2>2. TypeOK' /\ Arguments'
        BY <1>0, <1>1, <2>1 DEF TypeOK, Arguments, FocusLeads, N
    <2>3. Picked'
        BY <1>0, <1>1, <2>1 DEF Picked, N
    <2>4. Share' = Share /\ \A g : Taken(g)' = Taken(g) /\ (Bound(g)' <=> Bound(g))
        BY <2>1 DEF Share, Taken, Bound, N
    <2>5. \A g : Spent(g)' <=> Spent(g)
        BY <2>4 DEF Spent
    <2>6. Shared'
        BY <1>0, <1>1, <1>3, <2>1, <2>4, <2>5 DEF Shared, Fair
    <2> QED
        BY <1>0, <2>1, <2>2, <2>3, <2>6 DEF IInv, InOrder, FocusFirst, Ended, N
<1>4. CASE Fill
    BY <1>4, TakeInv DEF Fill
<1>5. CASE EndPass
    <2>1. UNCHANGED <<ranked, focus, picked>> /\ pass' = pass + 1 /\ i' = 0 /\ pass < 3 /\ (i = N \/ Full)
        BY <1>5 DEF EndPass
    <2>2. TypeOK' /\ Arguments'
        BY <1>0, <1>1, <2>1 DEF TypeOK, Arguments, FocusLeads, N
    <2>3. Picked'
        BY <1>0, <1>1, <2>1 DEF Picked, N
    <2>4. Share' = Share /\ (Full' <=> Full)
          /\ \A g : Taken(g)' = Taken(g) /\ (Bound(g)' <=> Bound(g))
        BY <2>1 DEF Share, Taken, Bound, N, Full
    <2>5. (LeftOut' <=> LeftOut) /\ (Fair' <=> Fair)
        BY <2>1, <2>4 DEF LeftOut, Fair, Spent, N
    <2>6. pass = 1 => LeftOut \/ (Fair /\ Full)
        BY <1>0, <2>1 DEF Shared, LeftOut
    <2>7. Shared'
        BY <1>0, <1>1, <2>1, <2>4, <2>5, <2>6 DEF Shared
    <2>8. Ended'
        <3>1. pass = 2 /\ i = N => picked = 1 .. N
            BY <1>0 DEF Picked
        <3>2. pass' = 3 => pass = 2
            BY <1>1, <2>1
        <3>3. N' = N /\ picked' = picked
            BY <2>1 DEF N
        <3> QED
            BY <2>1, <2>4, <3>1, <3>2, <3>3 DEF Ended
    <2> QED
        BY <1>0, <2>1, <2>2, <2>3, <2>7, <2>8 DEF IInv, InOrder, FocusFirst, N
<1>6. CASE UNCHANGED vars
    <2>1. UNCHANGED <<ranked, focus, pass, i, picked>>
        BY <1>6 DEF vars
    <2> QED
        BY <1>0, <2>1 DEF IInv, TypeOK, Arguments, FocusLeads, Picked, Shared, LeftOut, Fair,
                          InOrder, FocusFirst, Ended, Spent, Share, Taken, Bound, Full, N
<1> QED
    BY <1>2, <1>3, <1>4, <1>5, <1>6 DEF Next

\* The invariant holds of every selection.
THEOREM Invariant == Spec => []IInv
    BY InitInv, StepInv, PTL DEF Spec

-----------------------------------------------------------------------------
(* The properties. *)

\* In the end the slice is full, or everything is in it, for any list and caps.
THEOREM NothingWastedAlways == Spec => []NothingWasted
<1>1. IInv => NothingWasted
    <2> SUFFICES ASSUME IInv, pass = 3
                 PROVE  IF N <= MaxSlice THEN picked = 1 .. N ELSE Cardinality(picked) = MaxSlice
        BY DEF NothingWasted
    <2>0. TypeOK /\ Picked /\ Ended /\ MaxSlice \in Nat
        BY CapsArePositive DEF IInv
    <2>1. /\ N \in Nat /\ IsFiniteSet(1 .. N) /\ Cardinality(1 .. N) = N
          /\ Cardinality(picked) \in Nat /\ Cardinality(picked) <= MaxSlice
          /\ picked \subseteq 1 .. N
        BY <2>0, Finite DEF Picked
    <2>2. CASE picked = 1 .. N
        BY <2>0, <2>1, <2>2
    <2>3. CASE Full
        <3>1. Cardinality(picked) = MaxSlice
            BY <2>0, <2>1, <2>3 DEF Full
        <3>2. Cardinality(picked) <= N /\ (Cardinality(picked) = N => picked = 1 .. N)
            BY <2>1, FS_Subset
        <3> QED
            BY <2>0, <2>1, <3>1, <3>2
    <2> QED
        BY <2>0, <2>2, <2>3 DEF Ended
<1> QED
    BY <1>1, Invariant, PTL

\* While a group below its share has a record left out, none is above its share.
THEOREM NoCrowdingAlways == Spec => []NoCrowding
<1>1. IInv => NoCrowding
    BY DEF IInv, Shared, LeftOut, Fair, NoCrowding
<1> QED
    BY <1>1, Invariant, PTL

\* Of a group the best-ranked records are kept.
THEOREM BestOfGroupAlways == Spec => []BestOfGroup
<1>1. IInv => BestOfGroup
    BY DEF IInv, InOrder, BestOfGroup
<1> QED
    BY <1>1, Invariant, PTL

\* No record of the focused repo is left out for one of another.
THEOREM FocusLeadsSliceAlways == Spec => []FocusLeadsSlice
<1>1. IInv => FocusLeadsSlice
    BY DEF IInv, FocusFirst, FocusLeadsSlice
<1> QED
    BY <1>1, Invariant, PTL
=============================================================================
