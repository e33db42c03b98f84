----------------------------- MODULE MCDispatch ----------------------------
(* Messages of one line that say a keyword of each class, one of the project's
   own and combinations the ladder tells apart, of two lines that say different
   things and of up to five that say one or nothing; answers of every shape. *)
EXTENDS Dispatch

CONSTANTS deep, cheap, std, risk, own

MCBuiltIn == [c \in WordClass |->
    CASE c = "deep-reasoning" -> {deep} [] c = "cheap-fast" -> {cheap}
      [] c = "default" -> {std} [] c = "risk" -> {risk}]
MCVocabulary == {{}, {own}}
MCText ==
    [words : {{own}, {cheap}, {cheap, deep}, {std, risk}}, at : {{}}]
      \cup [words : {{}}, at : {{}, {"cheap-fast", "elevate"}}]
MCTask == {[words |-> t.words \cup u.words, at |-> t.at \cup u.at] : t, u \in MCText}
MCOpens == {"item", "rule", "nothing"}
MCMessage ==
    BoundedSeq([opens : MCOpens, says : MCText], 1)
      \cup BoundedSeq([opens : MCOpens, says : {[words |-> {std, risk}, at |-> {}],
                                               [words |-> {}, at |-> {"cheap-fast", "elevate"}]}], 2)
      \cup BoundedSeq([opens : MCOpens, says : {[words |-> {cheap}, at |-> {}], Unset}], 5)
MCReply ==
    [tier : Tier, sure : BOOLEAN, words : {{}}]
      \cup [tier : {Unset}, sure : {FALSE},
            words : {{}, {"cheap-fast", "default"}, {"default", "elevate"}, {"cheap-fast", "deep-reasoning"}}]
=============================================================================
