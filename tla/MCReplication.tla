--------------------------- MODULE MCReplication ---------------------------
(* Small instances of Replication. *)
EXTENDS Replication, TLC

\* Rows as the migrations leave them: stamp 0.
MCLegacy == [content : Content, at : {0}]

\* Brains, identifiers and contents are interchangeable (safety runs only).
Symmetry == Permutations(Brain) \cup Permutations(Id) \cup Permutations(Content)
=============================================================================
