------------------------------- MODULE Slice -------------------------------
(***************************************************************************)
(* The selection of rankAndCap (preamble.go): which of the records a task  *)
(* matched are injected.  The records come ranked, the focused repo's in   *)
(* front; the selection goes over them twice, first giving each repo at    *)
(* most its share, then filling what is left.                              *)
(*                                                                         *)
(* Of a record only its group (its repo) matters here, so the ranked list  *)
(* is a sequence of groups and a record is its position in it.             *)
(***************************************************************************)
EXTENDS Integers, Sequences, FiniteSets

CONSTANTS
    Group,      \* repos
    NoGroup,    \* the group of a record that belongs to no repo
    MaxSlice,   \* maxSliceRecords
    PerGroup,   \* perGroupCap
    Matches     \* the ranked lists of matched records considered

ASSUME CapsArePositive == MaxSlice \in Nat \ {0} /\ PerGroup \in Nat \ {0}
ASSUME NoGroupIsNone == NoGroup \notin Group
ASSUME MatchesAreLists == Matches \subseteq Seq(Group \cup {NoGroup})

VARIABLES
    ranked,     \* argument: the matched records in rank order
    focus,      \* argument: the focused repo, NoGroup when there is none
    pass,       \* 1: balanced, 2: fill, 3: done
    i,          \* records the current pass has gone over
    picked      \* the positions kept so far

vars == <<ranked, focus, pass, i, picked>>

N == Len(ranked)

TypeOK ==
    /\ ranked \in Seq(Group \cup {NoGroup})
    /\ focus \in Group \cup {NoGroup}
    /\ pass \in 1 .. 3
    /\ i \in 0 .. N
    /\ picked \subseteq 1 .. N

\* The boost of the focused repo puts its records in front of all others.
FocusLeads(s, f) ==
    f # NoGroup => \A j, k \in 1 .. Len(s) : j < k /\ s[k] = f => s[j] = f

Init ==
    /\ ranked \in Matches
    /\ focus \in Group \cup {NoGroup}
    /\ FocusLeads(ranked, focus)
    /\ pass = 1 /\ i = 0 /\ picked = {}

\* A repo's share of the first pass; one repo alone may take everything.
Share == IF Cardinality({ranked[k] : k \in 1 .. N} \ {NoGroup}) > 1 THEN PerGroup ELSE N

Taken(g) == {k \in picked : ranked[k] = g}

Full == Cardinality(picked) >= MaxSlice

\* A share that binds the focused repo as well.
BoundFocusToo(g) == g # NoGroup

\* Which groups the share binds: not the focused repo, not records without one.
Bound(g) == g # NoGroup /\ g # focus

\* The group of a record has used up its share.
Spent(g) == Bound(g) /\ Cardinality(Taken(g)) >= Share

\* A first pass without shares.
BalanceUnshared ==
    /\ pass = 1 /\ i < N /\ ~Full
    /\ i' = i + 1
    /\ picked' = picked \cup {i + 1}
    /\ UNCHANGED <<ranked, focus, pass>>

Balance ==
    /\ pass = 1 /\ i < N /\ ~Full
    /\ i' = i + 1
    /\ picked' = IF Spent(ranked[i + 1]) THEN picked ELSE picked \cup {i + 1}
    /\ UNCHANGED <<ranked, focus, pass>>

\* A filling pass that takes the leftovers worst first.
FillWorstFirst ==
    /\ pass = 2 /\ i < N /\ ~Full
    /\ i' = i + 1
    /\ picked' = picked \cup {N - i}
    /\ UNCHANGED <<ranked, focus, pass>>

Fill ==
    /\ pass = 2 /\ i < N /\ ~Full
    /\ i' = i + 1
    /\ picked' = picked \cup {i + 1}
    /\ UNCHANGED <<ranked, focus, pass>>

\* A turn to the filling pass that goes on where the balancing pass stopped.
EndPassKeepsCursor ==
    /\ pass < 3 /\ (i = N \/ Full)
    /\ pass' = pass + 1
    /\ i' = i
    /\ UNCHANGED <<ranked, focus, picked>>

\* A pass ends at the end of the list or when the slice is full.
EndPass ==
    /\ pass < 3 /\ (i = N \/ Full)
    /\ pass' = pass + 1
    /\ i' = 0
    /\ UNCHANGED <<ranked, focus, picked>>

Next == Balance \/ Fill \/ EndPass

Spec == Init /\ [][Next]_vars

-----------------------------------------------------------------------------
(* Properties. *)

\* Leftover slots are filled, so context is never wasted (preamble.go:82-83), and
\* the cap holds "regardless of how many records a token matched"
\* (preamble.go:103): in the end either every record is in or the slice is full.
NothingWasted ==
    pass = 3 => IF N <= MaxSlice THEN picked = 1 .. N ELSE Cardinality(picked) = MaxSlice

\* No repo crowds out another (preamble.go:81-82): while some repo has a record
\* left out and less than its share in the slice, no repo the share binds holds
\* more than its share.
NoCrowding ==
    pass = 3 /\ (\E k \in (1 .. N) \ picked : ~Spent(ranked[k]))
        => \A g \in Group : Bound(g) => Cardinality(Taken(g)) <= Share

\* Within a repo the best-ranked records are kept: a record is never kept while
\* a better one of its own group is left out.
BestOfGroup ==
    pass = 3 => \A k \in picked : \A j \in 1 .. k : ranked[j] = ranked[k] => j \in picked

\* The focused repo leads the slice: none of its records is left out for a
\* record of another group.
FocusLeadsSlice ==
    pass = 3 /\ focus # NoGroup =>
        \/ \A k \in 1 .. N : ranked[k] = focus => k \in picked
        \/ \A k \in picked : ranked[k] = focus
=============================================================================
