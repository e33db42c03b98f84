------------------------------ MODULE MCMerge ------------------------------
(* Merge on slices of bounded length. *)
EXTENDS Merge, SequencesExt

CONSTANTS MaxBase, MaxIncoming, MaxAt

SmallItem == [id : Id, rec : [content : Content, at : 0 .. MaxAt]]
MCBaseLists == BoundedSeq(SmallItem, MaxBase)
MCLists == BoundedSeq(SmallItem, MaxIncoming)

Symmetry == Permutations(Id) \cup Permutations(Content)
=============================================================================
