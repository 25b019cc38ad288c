----------------------------- MODULE CuratedPages -----------------------------
(***************************************************************************)
(* The texts of the knowledge skills together: what promotion reads and    *)
(* rewrites, and the pins of a page that lint follows.  A project begins   *)
(* with texts to promote or with a page that pins a source file; the two   *)
(* share no line, and so no step.                                          *)
(***************************************************************************)
EXTENDS PromotionText, WikiPins

NoPins ==
  /\ commits = <<>> /\ tree = [path |-> "p", lines |-> <<>>]
  /\ pins = <<>> /\ report = {} /\ changes = 0

NoTexts == live = <<>> /\ twin = <<>> /\ page = <<>> /\ issue = "no" /\ edits = 0

Promotes == Next /\ UNCHANGED pinVars
Lints == commits # <<>> /\ PinNext /\ UNCHANGED vars

PagesSpec ==
  /\ \/ Init /\ NoPins
     \/ PinInit /\ NoTexts
  /\ [][Promotes \/ Lints]_<<vars, pinVars>>
=============================================================================
