----------------------------- MODULE MCContract ----------------------------
(* Contract with rules of every form, with and without a body, and a name that
   several of them bear. *)
EXTENDS Contract

CONSTANTS glob, other

MCCommits ==
    [kind : {"gate-rule"}, form : Form, leaf : {Dispatcher}, body : {glob}, enf : {"none"}]
      \cup [kind : {"gate-rule"}, form : {"setting"}, leaf : {Dispatcher}, body : {glob}, enf : {"hard"}]
      \cup [kind : {"gate-rule"}, form : {"plain", "settings"}, leaf : {other}, body : {glob, Blank}, enf : {"none"}]
      \cup [kind : {"gate-rule"}, form : {"setting"}, leaf : {other}, body : {On}, enf : {"none", "soft"}]
      \cup [kind : {"convention"}, form : {"plain"}, leaf : {Dispatcher}, body : {glob}, enf : {"none", "advisory"}]
=============================================================================
