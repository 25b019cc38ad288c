------------------------------ MODULE MCHandoff ------------------------------
(* Small projects for TLC.                                                    *)
EXTENDS Handoff

Base == [unit |-> 1, context |-> 1, other |-> 1, next |-> Handoff(1, "usable", FALSE)]
Worked == [Base EXCEPT !.unit = 2]
NoPlans == [f \in {} |-> Inactive]
Plans == UNION {[1..n -> {Inactive, Unclear, Active(1), Active(3)}] : n \in 1..3}

\* Who is at work, what is not committed, the plans, and how much of the bounds on
\* changes and events is used up.
Start(parts, edited, plan, changed, happened) ==
  [actors |-> parts, trees |-> <<Base>>, tree |-> edited, plans |-> plan,
   changes |-> changed, events |-> happened, file |-> NoFile]

\* The first event was a compaction, whose carry is in the file.
Carried(plan) ==
  LET start == Start({"carry"}, Base, plan, 3, 1)
      carry == [nonce |-> 1, next |-> Base.next, plans |-> Bounded(Render(plan, {}))]
  IN [start EXCEPT !.file = StateFile(carry, 1, "emitted")]

\* Working trees with no, some or all of the work and a handoff of each kind.
Edited ==
  {Base, [Base EXCEPT !.other = 2]}
    \cup {[Base EXCEPT !.unit = 2, !.next = n] : n \in {Handoff(1, "unclosed", TRUE), Handoff(1, "broken", TRUE), Missing}}

Projects ==
  { Start({"inject"}, Base, NoPlans, 1, 0),
    Start({"health"}, Base, NoPlans, 1, 0),
    [Start({"inject"}, Base, NoPlans, 1, 0) EXCEPT !.trees = <<Base, Worked>>, !.tree = Worked],
    Start({"inject", "session"}, [Base EXCEPT !.next.long = TRUE], NoPlans, 3, 0),
    Start({"session"}, Worked, NoPlans, 2, 0),
    Start({"carry"}, Base, NoPlans, 3, 1),
    Carried(NoPlans),
    Start({"closeout"}, Base, NoPlans, 0, 0) }
  \cup {Start({"session"}, t, NoPlans, 3, 0) : t \in Edited}
  \cup {Start({"carry"}, Base, p, 3, 2) : p \in Plans}
=============================================================================
