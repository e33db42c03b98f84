------------------------------ MODULE Records ------------------------------
(***************************************************************************)
(* The vocabulary every other module shares: a record as the stores hold   *)
(* it, the write clock that stamps it, and the decision Merge takes for    *)
(* one record identifier that is present on both sides.                    *)
(*                                                                         *)
(* A record is its content (kind, scope, key, body, enforcement and        *)
(* provenance, which are only ever compared as a whole) and its UpdatedAt. *)
(* Origin is left out: no code reads it.                                   *)
(***************************************************************************)
EXTENDS Integers

CONSTANTS
    Content,    \* what a record may say
    Absent      \* what a store answers for an identifier it does not hold

Record == [content : Content, at : Nat]

ASSUME AbsentIsNoRecord == Absent \notin Record

Entry == Record \cup {Absent}

-----------------------------------------------------------------------------
(* The write clock. *)

\* The next value of the process's clock: the wall reading, or one more than
\* the last value handed out when the wall has not moved past it.
NextStamp(last, now) == IF now <= last THEN last + 1 ELSE now

\* A Put that stamps every record, merged ones included.
StampedAlways(r, t) == [r EXCEPT !.at = t]

\* The record a Put writes: a record without a stamp takes t, any other keeps
\* the stamp it came with.
Stamped(r, t) == IF r.at = 0 THEN [r EXCEPT !.at = t] ELSE r

-----------------------------------------------------------------------------
(* Merging one identifier. *)

SameContent(a, b) == a.content = b.content

\* A resolution that lets the incoming side win a tie.
ResolutionTieToIncoming(b, in) ==
    CASE in.at >= b.at              -> "TookIncoming"
      [] b.at > in.at /\ b.at # 0   -> "KeptBase"
      [] OTHER                      -> "Unresolved"

\* How a conflict between two records of one identifier is settled.
Resolution(b, in) ==
    CASE in.at > b.at /\ in.at # 0  -> "TookIncoming"
      [] b.at > in.at /\ b.at # 0   -> "KeptBase"
      [] OTHER                      -> "Unresolved"

\* A conflict: both sides hold the identifier and say different things.
InConflict(b, in) == b # Absent /\ in # Absent /\ ~SameContent(b, in)

\* A merge that adds but never replaces.
MergeEntryAddsOnly(b, in) == IF b = Absent THEN in ELSE b

\* What the merged set holds for an identifier, given both sides' entries.
MergeEntry(b, in) ==
    IF in = Absent THEN b
    ELSE IF b = Absent THEN in
    ELSE IF SameContent(b, in) THEN (IF in.at > b.at THEN in ELSE b)
    ELSE IF Resolution(b, in) = "TookIncoming" THEN in ELSE b

\* r is a strictly newer write than e.
Newer(r, e) == r # Absent /\ (e = Absent \/ r.at > e.at)
=============================================================================
