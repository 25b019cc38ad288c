---------------------------- MODULE MCCuratedPages ---------------------------
(* Small texts for TLC: fragments of two deltas, a fragment and the archive    *)
(* file of its session, a page, and a source file that a page pins.            *)
EXTENDS CuratedPages

Nothing == [live |-> <<>>, twin |-> <<>>, page |-> <<>>]
Envelope == <<Rule, Session, Rule>>
Record(i, claim, status) == <<Header(i), Fence>> \o claim \o <<Status(status), Fence>>

Texts ==
  { [Nothing EXCEPT !.live = Record("1", <<DeltaId("1")>>, "open") \o Record("2", <<>>, "open")],
    [Nothing EXCEPT !.live = Envelope \o <<Header("1"), Fence, Fence, Rule, Header("2"), Fence, Status("open"), Fence>>],
    [Nothing EXCEPT !.live = Envelope \o Record("1", <<>>, "consolidated"),
                    !.twin = Envelope \o Record("2", <<>>, "superseded")],
    [Nothing EXCEPT !.page = <<Rule, Key, Item("1"), Other, Rule>>] }

Vocabulary ==
  [fragment |-> {Rule, Fence, Indented, Header("1"), Status(""), Status("superseded"),
                 DeltaId("2"), DeltaId(""), Item("2")},
   page |-> {Rule, Key, Line("consolidates", "c"), Item("2"), Wide("2"), Noted("2"), Dashed, Prose}]

First(lines) == [path |-> "p", lines |-> lines, from |-> ""]
Sources ==
  { <<First(<<"top", "def", "one">>)>>,
    <<First(<<"def", "one", "top">>), [path |-> "q", lines |-> <<"def", "one">>, from |-> "p"]>> }
=============================================================================
