------------------------------- MODULE LwwMap -------------------------------
(***************************************************************************)
(* What replicated stores promise: every brain holds a map from record     *)
(* identifiers to records, and an entry changes in three ways only.  A     *)
(* local write gives it a record under a stamp of its own; a delete drops  *)
(* it; and an exchange with another brain replaces it by a strictly newer  *)
(* record that some brain wrote.                                           *)
(***************************************************************************)
EXTENDS Records

CONSTANTS Brain, Id

VARIABLES
    store,      \* store[b][id] is what brain b holds for id
    authored,   \* every <<id, record>> some brain wrote
    ops         \* how many writes and deletes the brains' users asked for

\* The record written is whatever brain b holds for id after the step.
Write(b, id) ==
    LET r == store'[b][id] IN
    /\ r \in Record /\ r.at # 0
    /\ store' = [store EXCEPT ![b][id] = r]
    /\ authored' = authored \cup {<<id, r>>}
    /\ ops' = ops + 1

Delete(b, id) ==
    /\ store' = [store EXCEPT ![b][id] = Absent]
    /\ ops' = ops + 1
    /\ UNCHANGED authored

Adopt(b, id) ==
    \E e \in authored :
        /\ e[1] = id
        /\ Newer(e[2], store[b][id])
        /\ store' = [store EXCEPT ![b][id] = e[2]]
        /\ UNCHANGED <<authored, ops>>

Init ==
    /\ store = [b \in Brain |-> [id \in Id |-> Absent]]
    /\ authored = {}
    /\ ops = 0

Next == \E b \in Brain, id \in Id : Write(b, id) \/ Delete(b, id) \/ Adopt(b, id)

Spec == Init /\ [][Next]_<<store, authored, ops>>
=============================================================================
