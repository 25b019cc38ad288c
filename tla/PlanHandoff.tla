----------------------------- MODULE PlanHandoff -----------------------------
(***************************************************************************)
(* What plan-handoff.py makes of workflow/plans/: the handoffs of the      *)
(* active plans under four caps, with a pointer to each file that it did   *)
(* not show in full.  A file is a number in the order of the names; a plan *)
(* is what the reader makes of the file.                                   *)
(***************************************************************************)
EXTENDS Naturals, Sequences, FiniteSets

CONSTANTS
  PlanCap,   \* characters of one handoff
  TotalCap,  \* characters of all
  FileCap,   \* files looked at
  NoteCap,   \* files named as unclear
  TextCap    \* parts of the text that its consumer keeps

ASSUME PlanConstants == PlanCap \in Nat /\ TotalCap \in Nat /\ FileCap \in Nat /\ NoteCap \in Nat /\ TextCap \in Nat

\* read_plan: an active plan with a handoff of some size; a paused or abandoned one;
\* or one whose status or handoff it could not make out or could not read whole.
Active(size) == [is |-> "active", size |-> size]
Inactive == [is |-> "inactive", size |-> 0]
Unclear == [is |-> "unclear", size |-> 0]

\* A directory of plans, by the numbers of its files.
IsPlan(p) == p.size \in Nat /\ p \in {Inactive, Unclear, Active(p.size)}
IsDirectory(ps) == IsFiniteSet(DOMAIN ps) /\ DOMAIN ps \subseteq Nat /\ \A f \in DOMAIN ps : IsPlan(ps[f])

Least(a, b) == IF a < b THEN a ELSE b

\* The files of a scan in the order of their names.
InOrder(S) == [n \in 1..Cardinality(S) |-> CHOOSE f \in S : Cardinality({g \in S : g <= f}) = n]

\* Scans of the directory: it yields its files in any order, up to the cap.
Scans(plans) == {S \in SUBSET DOMAIN plans : Cardinality(S) = Least(FileCap, Cardinality(DOMAIN plans))}

Body(f, kept) == [is |-> "body", of |-> f, n |-> kept]
Omitted(f, n) == [is |-> "omitted", of |-> f, n |-> n]
Note(f) == [is |-> "note", of |-> f, n |-> 0]
More(n) == [is |-> "more", of |-> 0, n |-> n]
Incomplete == [is |-> "incomplete", of |-> 0, n |-> 0]

\* Mutant of PartsOf: what the total leaves nothing of is not mentioned.
PartsOfSome(f, plan, budget, notes) ==
  CASE plan.is = "unclear" -> IF notes < NoteCap THEN <<Note(f)>> ELSE <<>>
    [] plan.is = "inactive" -> <<>>
    [] plan.is = "active" /\ budget = 0 -> <<>>
    [] plan.is = "active" /\ budget > 0 ->
         <<Body(f, Least(plan.size, budget))>>
           \o (IF plan.size > budget THEN <<Omitted(f, plan.size - budget)>> ELSE <<>>)

\* The parts for one file, with this budget left and so many notes before it.
PartsOf(f, plan, budget, notes) ==
  CASE plan.is = "unclear" -> IF notes < NoteCap THEN <<Note(f)>> ELSE <<>>
    [] plan.is = "inactive" -> <<>>
    [] plan.is = "active" ->
         <<Body(f, Least(plan.size, budget))>>
           \o (IF plan.size > budget THEN <<Omitted(f, plan.size - budget)>> ELSE <<>>)

\* What one more file adds to what was taken before.
OneMore(plan, f, d) ==
  LET budget == Least(PlanCap, TotalCap - d.total) IN
  [parts |-> d.parts \o PartsOf(f, plan, budget, d.notes),
   total |-> d.total + Least(plan.size, budget),
   notes |-> d.notes + (IF plan.is = "unclear" THEN 1 ELSE 0)]

\* render, for one scan: file after file, and what the caps left out.
Taken(plans, files) ==
  LET done[n \in 0..Len(files)] ==
        IF n = 0 THEN [parts |-> <<>>, total |-> 0, notes |-> 0]
        ELSE OneMore(plans[files[n]], files[n], done[n - 1])
  IN done

Render(plans, scan) ==
  LET all == Taken(plans, InOrder(scan))[Cardinality(scan)]
  IN all.parts
       \o (IF all.notes > NoteCap THEN <<More(all.notes - NoteCap)>> ELSE <<>>)
       \o (IF Cardinality(DOMAIN plans) > FileCap THEN <<Incomplete>> ELSE <<>>)

\* bounded: a text that is too long is cut and ends with a pointer to the directory.
Bounded(parts) ==
  [parts |-> SubSeq(parts, 1, Least(Len(parts), TextCap)), cut |-> Len(parts) > TextCap]

\* A reader of the text misses nothing unknowingly: each active plan is there in
\* full or named as cut short, each unclear one is named or counted, or the text
\* says that it is not complete.
Accounted(plans, text) ==
  LET Has(p) == \E n \in DOMAIN text.parts : text.parts[n] = p
      named == {f \in DOMAIN plans : Has(Note(f))}
  IN text.cut \/ Has(Incomplete) \/
     /\ \A f \in DOMAIN plans : plans[f].is = "active" =>
          Has(Body(f, plans[f].size)) \/ \E n \in 1..plans[f].size : Has(Omitted(f, n)) /\ Has(Body(f, plans[f].size - n))
     /\ LET unclear == Cardinality({f \in DOMAIN plans : plans[f].is = "unclear"}) IN
        Cardinality(named) = unclear \/ Has(More(unclear - Cardinality(named)))
=============================================================================
