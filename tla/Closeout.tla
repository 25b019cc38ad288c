------------------------------- MODULE Closeout -------------------------------
(***************************************************************************)
(* archive-closeout.py: a closed unit's section goes into NEXT-archive.md, *)
(* its digest into NEXT-archive.sha256 and its heading into                *)
(* NEXT-archive.index.  All three files are staged beside their targets    *)
(* and then renamed, one after the other; the tool can be killed between   *)
(* two renames.  A body is the number of horizontal rules it ends with: the *)
(* archive separates its sections by one, and archive_digest.py, which     *)
(* cuts the archive, takes one away from the end of each section.          *)
(***************************************************************************)
EXTENDS Naturals, Sequences, FiniteSets

CONSTANTS
  Headings,  \* of the closed units
  Bodies     \* of their sections

ASSUME CloseoutConstants == Bodies \subseteq Nat

VARIABLES
  registers,  \* the three files: sequences of [heading, body]
  staged,     \* their .closeout-tmp siblings
  closeout    \* the run: its step, its heading and body

closeoutVars == <<registers, staged, closeout>>

-----------------------------------------------------------------------------

Registers == {"archive", "digests", "index"}

\* Mutant of Order: the section is registered before it is there.
IndexFirst == <<"index", "digests", "archive">>

\* planned: the order of staging and of the renames.
Order == <<"archive", "digests", "index">>

NoCloseout == [at |-> "idle", heading |-> "none", body |-> 0, n |-> 0]
Nowhere == [r \in Registers |-> <<>>]

Line(h, b) == [heading |-> h, body |-> b]
HeadingsOf(lines) == {lines[n].heading : n \in DOMAIN lines}

\* archive_digest.sections: the body of the n-th section; the rule that separates it
\* from the next one is not its own, and at the end of the file there is none.
CutBody(lines, n) ==
  IF n < Len(lines) \/ lines[n].body = 0 THEN lines[n].body ELSE lines[n].body - 1

\* What the run writes into each file: the digest is that of the new archive's section,
\* and the index holds headings alone.
Planned(r) ==
  LET section == Line(closeout.heading, closeout.body)
      archive == Append(registers["archive"], section)
  IN CASE r = "archive" -> archive
       [] r = "digests" -> Append(registers[r], Line(closeout.heading, CutBody(archive, Len(archive))))
       [] r = "index" -> Append(registers[r], Line(closeout.heading, 0))

\* The refusals: the heading stands in one of the files.
Registered(h) == \E r \in Registers : h \in HeadingsOf(registers[r])

BeginCloseout ==
  /\ closeout.at = "idle"
  /\ \E h \in Headings, b \in Bodies :
       /\ ~Registered(h)
       /\ closeout' = [at |-> "stage", heading |-> h, body |-> b, n |-> 1]
  /\ UNCHANGED <<registers, staged>>

StageOne ==
  /\ closeout.at = "stage"
  /\ LET r == Order[closeout.n] IN
     staged' = [staged EXCEPT ![r] = Planned(r)]
  /\ closeout' = IF closeout.n = Len(Order) THEN [closeout EXCEPT !.at = "rename", !.n = 1]
                 ELSE [closeout EXCEPT !.n = @ + 1]
  /\ UNCHANGED registers

\* A staging write fails: the siblings are removed, nothing else happened.
StagingFails ==
  /\ closeout.at = "stage"
  /\ staged' = Nowhere /\ closeout' = NoCloseout
  /\ UNCHANGED registers

RenameOne ==
  /\ closeout.at = "rename"
  /\ LET r == Order[closeout.n] IN
     /\ registers' = [registers EXCEPT ![r] = staged[r]]
     /\ staged' = [staged EXCEPT ![r] = <<>>]
  /\ closeout' = IF closeout.n = Len(Order) THEN NoCloseout ELSE [closeout EXCEPT !.n = @ + 1]

CloseoutDies ==
  /\ closeout.at # "idle" /\ closeout' = NoCloseout
  /\ UNCHANGED <<registers, staged>>

CloseoutSteps == BeginCloseout \/ StageOne \/ StagingFails \/ RenameOne \/ CloseoutDies

-----------------------------------------------------------------------------

\* Whatever a killed run leaves, a heading in the index has its digest and a digest
\* has its section, and no file loses what it registered; and a digest stays that of
\* its section when more sections follow, if the body did not end with a rule.
RegistersNest ==
  [][/\ HeadingsOf(registers'["index"]) \subseteq HeadingsOf(registers'["digests"])
     /\ HeadingsOf(registers'["digests"]) \subseteq HeadingsOf(registers'["archive"])
     /\ \A r \in Registers : SubSeq(registers'[r], 1, Len(registers[r])) = registers[r]
     /\ \A d \in DOMAIN registers'["digests"], n \in DOMAIN registers'["archive"] :
          LET digest == registers'["digests"][d]  section == registers'["archive"][n] IN
          digest.heading = section.heading /\ section.body = 0 =>
            digest.body = CutBody(registers'["archive"], n)]_closeoutVars
=============================================================================
