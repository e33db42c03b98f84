------------------------------ MODULE Contract -----------------------------
(***************************************************************************)
(* The managed block of CLAUDE.md (claudemd.go): the engine renders it     *)
(* from the rules and splices it into a document that its user edits too.  *)
(* The document is a sequence of markers, rendered bodies and lines.       *)
(***************************************************************************)
EXTENDS Rules, SequencesExt

CONSTANTS
    Quoting,      \* bodies that contain the end marker
    MarkersKept,  \* users leave the markers of the block alone
    MaxEdits,     \* bound: changes of the document by its user
    MaxChanges    \* bound: those and the changes of the rules together

ASSUME QuotingAreBodies == Quoting \subseteq Body
ASSUME EditsAreNat == MarkersKept \in BOOLEAN /\ MaxEdits \in Nat /\ MaxChanges \in Nat

VARIABLES
    doc,   \* the document
    edits  \* counter of the bounded actions

vars == <<rvars, doc, edits>>

Begin   == <<"begin">>
End     == <<"end">>
Rest    == <<"rest">>    \* what follows an end marker that a body contains
Header  == <<"header">>  \* the title an empty document gets
Told(t) == <<"told", t>>
Mine(n) == <<"user", n>>

Init == RInit /\ doc = <<>> /\ edits = 0

-----------------------------------------------------------------------------
(* The document. *)

Block(R) ==
    LET told == ToldGates(R)
    IN  IF \E p \in told : p.body \in Quoting
        THEN <<Begin, Told(told), End, Rest, End>> ELSE <<Begin, Told(told), End>>

Where(d, t) == {k \in DOMAIN d : d[k] = t}

\* A splice that replaces everything from the marker on.
SpliceToEnd(d, block) ==
    IF d = <<>> THEN <<Header>> \o block
    ELSE IF Where(d, Begin) = {} THEN d \o block
    ELSE SubSeq(d, 1, First(Where(d, Begin)) - 1) \o block

\* A splice that knows its block by the body between the markers.
SpliceIntact(d, block) ==
    LET b == First(Where(d, Begin))
    IN  IF d = <<>> THEN <<Header>> \o block
        ELSE IF Where(d, Begin) # {} /\ b + 2 \in Where(d, End)
             THEN SubSeq(d, 1, b - 1) \o block \o SubSeq(d, b + 3, Len(d))
        ELSE d \o block

Splice(d, block) ==
    LET b == First(Where(d, Begin))
        e == First(Where(d, End))
    IN  IF d = <<>> THEN <<Header>> \o block
        ELSE IF Where(d, Begin) # {} /\ Where(d, End) # {} /\ e > b
             THEN SubSeq(d, 1, b - 1) \o block \o SubSeq(d, e + 1, Len(d))
        ELSE d \o block

\* The engine renders the block and writes the document.
Refresh ==
    /\ doc' = Splice(doc, Block(rules))
    /\ UNCHANGED <<rvars, edits>>

Edited(d) ==
    /\ edits < MaxEdits /\ commits + edits < MaxChanges /\ edits' = edits + 1
    /\ doc' = d
    /\ UNCHANGED rvars

\* The user writes a line, in the block or outside.
WriteLine(k) == Edited(InsertAt(doc, k, Mine(edits + 1)))

\* The user deletes one.
DeleteLine(k) ==
    /\ MarkersKept => doc[k] \notin {Begin, End}
    /\ Edited(RemoveAt(doc, k))

\* The user deletes some part with all of the block in it.
DeleteBlock(j, k) ==
    /\ Where(doc, Begin) \cup Where(doc, End) \subseteq j .. k
    /\ Edited(SubSeq(doc, 1, j - 1) \o SubSeq(doc, k + 1, Len(doc)))

Next ==
    \/ Refresh
    \/ commits + edits < MaxChanges /\ RNext /\ UNCHANGED <<doc, edits>>
    \/ \E k \in 1 .. Len(doc) + 1 : WriteLine(k)
    \/ \E k \in DOMAIN doc : DeleteLine(k)
    \/ \E j, k \in DOMAIN doc : j < k /\ DeleteBlock(j, k)

Spec == Init /\ [][Next]_vars

-----------------------------------------------------------------------------
(* Properties. *)

\* A line is in the block when it stands between a begin marker and the end
\* marker that follows it.
Managed(d) ==
    {k \in DOMAIN d : \E b \in Where(d, Begin), e \in Where(d, End) :
        b <= k /\ k <= e /\ \A m \in Where(d, End) : m < b \/ e <= m}

Unmanaged(d) == DOMAIN d \ Managed(d)

\* The lines at some places of a document, in their order.
At(d, K) ==
    [i \in 1 .. Cardinality(K) |-> d[CHOOSE k \in K : Cardinality({j \in K : j <= k}) = i]]

\* A refresh leaves what is outside the block as it is, whatever the user wrote
\* into and around it ("the user's and is never touched", claudemd.go:8).
UserTextKept ==
    [][Refresh => At(doc', Unmanaged(doc'))
                    = IF doc = <<>> THEN <<Header>> ELSE At(doc, Unmanaged(doc))]_vars

\* After a refresh there is one block, which tells the gates there are, however
\* often it was refreshed, edited, cut up or deleted before.
BlockIsCurrent ==
    [][Refresh => At(doc', Managed(doc')) = <<Begin, Told(ToldGates(rules)), End>>]_vars
=============================================================================
