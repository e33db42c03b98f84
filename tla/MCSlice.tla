------------------------------ MODULE MCSlice ------------------------------
(* Slice on ranked lists of bounded length. *)
EXTENDS Slice, SequencesExt

CONSTANT MaxMatched

MCMatches == BoundedSeq(Group \cup {NoGroup}, MaxMatched)
=============================================================================
