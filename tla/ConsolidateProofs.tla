-------------------------- MODULE ConsolidateProofs --------------------------
(***************************************************************************)
(* Proofs about Consolidate for every set of sessions and units and every  *)
(* bound: promotion loses no delta, publishes before it marks, removes the *)
(* draft last, respects dispositions and does not reuse ids.               *)
(***************************************************************************)
EXTENDS Consolidate, WellFoundedInduction, TLAPS

-----------------------------------------------------------------------------
(* The number of the next delta *)

\* A non-empty set of numbers up to n has a greatest element, which Max returns.
LEMMA MaxOfNumbers ==
  ASSUME NEW n \in Nat, NEW T \in SUBSET (1 .. n), T # {}
  PROVE  Max(T) \in T /\ \A y \in T : y <= Max(T)
<1> DEFINE R == OpToRel(<, Nat)  D == {n - i : i \in T}
<1>1. \A x, y \in Nat : x < y => <<x, y>> \in R
  BY Zenon DEF OpToRel
<1>2. IsWellFoundedOn(R, Nat)
  BY NatLessThanWellFounded, Zenon
<1> HIDE DEF R
<1>3. D \in SUBSET Nat /\ D # {}
  <2>1. D \in SUBSET Nat
    OBVIOUS
  <2>2. D # {}
    OBVIOUS
  <2> QED
    BY <2>1, <2>2
<1>4. PICK d \in D : \A y \in D : ~(<<y, d>> \in R)
  BY <1>2, <1>3, WFMin, Zenon
<1>5. \A y \in D : ~(y < d)
  BY <1>1, <1>3, <1>4, Zenon
<1>6. PICK x \in T : d = n - x
  OBVIOUS
<1>7. \A y \in T : x >= y
  <2> SUFFICES ASSUME NEW y \in T PROVE x >= y
    OBVIOUS
  <2>1. ~(n - y < n - x)
    BY <1>5, <1>6
  <2> QED
    BY <2>1
<1>8. Max(T) \in T /\ \A y \in T : Max(T) >= y
  BY <1>7, Zenon DEF Max
<1> QED
  BY <1>8

\* The next number is above every number that a session's files show.
LEMMA NextIsNew ==
  ASSUME TypeOK, NEW s \in Sessions
  PROVE  NextNumber(s) \notin Active(s) \cup Archived(s)
<1> DEFINE T == Active(s) \cup Archived(s)
<1>1. MaxDelta \in Nat /\ T \in SUBSET (1 .. MaxDelta)
  BY ConsolidateConstants DEF Active, Archived, Parsed, Numbers
<1>2. CASE T = {}
  BY <1>2
<1>3. CASE T # {}
  <2>1. Max(T) \in T /\ \A y \in T : y <= Max(T)
    BY <1>1, <1>3, MaxOfNumbers, Zenon
  <2>2. NextNumber(s) = Max(T) + 1
    BY <1>3 DEF NextNumber
  <2>3. \A y \in T : y # Max(T) + 1
    BY <1>1, <2>1
  <2> QED
    BY <2>2, <2>3
<1> QED
  BY <1>2, <1>3
-----------------------------------------------------------------------------
(* Types *)

\* The states of a run have the type of runs.
LEMMA JobType == TypeOK /\ job # None => job \in Jobs
BY DEF TypeOK

\* A draft that apply accepts gives a run.
LEMMA BeginType ==
  ASSUME TypeOK, NEW u \in Units, Accepts(u)
  PROVE  /\ drafts[u] \in Drafts
         /\ Promoted(drafts[u], pages[drafts[u].target]) \in Pages
         /\ Begin(u) \in Jobs
<1>1. drafts[u] \in Drafts
  BY DEF TypeOK, Accepts
<1>2. Promoted(drafts[u], pages[drafts[u].target]) \in Pages
  <2>1. CASE drafts[u].mode = "create"
    BY <1>1, <2>1 DEF Promoted, Drafts, Pages
  <2>2. CASE drafts[u].mode # "create"
    <3>1. pages[drafts[u].target] \in Pages
      BY <1>1, <2>2 DEF TypeOK, Accepts, WouldAccept, TargetFits, Drafts
    <3> QED
      BY <1>1, <2>2, <3>1 DEF Promoted, Drafts, Pages
  <2> QED
    BY <2>1, <2>2
<1>3. ToFlip(drafts[u].ids) \subseteq Sessions /\ ToArchive(drafts[u].ids) \subseteq Sessions
  <2>1. \A i \in drafts[u].ids : i[1] \in Sessions
    BY <1>1 DEF Drafts, Ids
  <2> QED
    BY <2>1 DEF ToFlip, ToArchive, Pending
<1> QED
  BY <1>1, <1>2, <1>3 DEF Begin, Jobs, Phases, Empty, Files

\* What a flip makes of a file is a file.
LEMMA FlippedType ==
  ASSUME NEW f \in Files, NEW s, NEW ids
  PROVE  Flipped(f, s, ids) \in Files
<1>1. \A n \in Numbers : f[n] # None => [f[n] EXCEPT !.status = "consolidated"] \in Records
  BY DEF Files, Records, Disposed
<1> QED
  BY <1>1 DEF Flipped, Files

LEMMA EmptyType == Empty \in Files
BY DEF Empty, Files

\* Every step keeps the types.
LEMMA TypeStep ==
  ASSUME TypeOK, [Next]_vars
  PROVE  TypeOK'
<1> USE DEF files
<1>1. ASSUME NEW s \in Sessions, NEW u \in Units, Capture(s, u)
      PROVE  TypeOK'
  <2> DEFINE body == IF \E b \in Bodies : <<s, NextNumber(s), b>> \in captured THEN "again" ELSE "first"
             r == [unit |-> u, status |-> "provisional", body |-> body]
  <2>1. r \in Records /\ body \in Bodies
    BY DEF Records, Bodies, Open
  <2> HIDE DEF body
  <2>2. /\ NextNumber(s) \in Numbers
        /\ IF live[s][NextNumber(s)] = None
           THEN live' = [live EXCEPT ![s][NextNumber(s)] = r] /\ doubles' = doubles
           ELSE doubles' = doubles \cup {<<s, NextNumber(s), r>>} /\ live' = live
        /\ liveCut' = [liveCut EXCEPT ![s] = IF NextNumber(s) < @ THEN NextNumber(s) ELSE @]
    BY <1>1 DEF Capture, body
  <2>3. captured' = captured \cup {<<s, NextNumber(s), body>>}
    BY <1>1 DEF Capture, body
  <2>4. live' \in [Sessions -> Files]
    <3> HIDE DEF r
    <3>1. CASE live' = [live EXCEPT ![s][NextNumber(s)] = r]
      <4>1. live[s] \in Files /\ [live[s] EXCEPT ![NextNumber(s)] = r] \in Files
        BY <2>1, <2>2 DEF TypeOK, Files
      <4>2. live' = [live EXCEPT ![s] = [live[s] EXCEPT ![NextNumber(s)] = r]]
        BY <3>1
      <4> QED
        BY <4>1, <4>2 DEF TypeOK
    <3> QED
      BY <2>2, <3>1 DEF TypeOK
  <2>5. captured' \subseteq Sessions \X Numbers \X Bodies
    BY <2>1, <2>2, <2>3 DEF TypeOK
  <2>6. liveCut' \in [Sessions -> 0 .. MaxDelta + 1]
    <3>1. NextNumber(s) \in 0 .. MaxDelta + 1
      BY <2>2, ConsolidateConstants DEF Numbers
    <3> QED
      BY <2>2, <3>1 DEF TypeOK
  <2>7. doubles' \subseteq Sessions \X Numbers \X [unit : Units, status : Open, body : Bodies]
    <3>1. r \in [unit : Units, status : Open, body : Bodies]
      BY <2>1 DEF Open
    <3> HIDE DEF r
    <3> QED
      BY <2>2, <3>1 DEF TypeOK
  <2>8. acked' \subseteq Places \X Sessions
    BY <1>1 DEF Capture, Rewrites, TypeOK
  <2> QED
    BY <1>1, <2>4, <2>5, <2>6, <2>7, <2>8 DEF TypeOK, Capture
<1>2. ASSUME NEW s \in Sessions, NEW n \in Numbers, NEW status \in {"archived", "superseded"}, Shelve(s, n, status)
      PROVE  TypeOK'
  <2>1. live[s][n] \in Records
    BY <1>2 DEF TypeOK, Shelve, Active, Parsed, Files
  <2>2. [live[s][n] EXCEPT !.status = status] \in Records
    BY <2>1 DEF Records, Disposed
  <2>3. live' \in [Sessions -> Files]
    BY <1>2, <2>2 DEF TypeOK, Shelve, Files
  <2> QED
    BY <1>2, <2>3, ConsolidateConstants DEF TypeOK, Shelve, Edit, Rewrites
<1>3. ASSUME NEW s \in Sessions, NEW k \in 2 .. MaxDelta + 1, Damage(s, k)
      PROVE  TypeOK'
  <2>1. liveCut' \in [Sessions -> 0 .. MaxDelta + 1] /\ archCut' \in [Sessions -> 0 .. MaxDelta + 1]
    <3>1. k \in 0 .. MaxDelta + 1
      BY ConsolidateConstants
    <3> QED
      BY <1>3, <3>1 DEF TypeOK, Damage
  <2>2. acked' \subseteq Places \X Sessions
    BY <1>3 DEF TypeOK, Damage, Rewrites
  <2>3. edits' \in 0 .. MaxEdits
    BY <1>3, ConsolidateConstants DEF TypeOK, Damage, Edit
  <2> QED
    BY <1>3, <2>1, <2>2, <2>3 DEF TypeOK, Damage
<1>4. ASSUME NEW s \in Sessions, NEW place \in Places, Repair(s) \/ Acknowledge(place, s)
      PROVE  TypeOK'
  <2>1. liveCut' \in [Sessions -> 0 .. MaxDelta + 1] /\ archCut' \in [Sessions -> 0 .. MaxDelta + 1]
    <3>1. 0 \in 0 .. MaxDelta + 1
      BY ConsolidateConstants
    <3> QED
      BY <1>4, <3>1 DEF TypeOK, Repair, Acknowledge
  <2>2. acked' \subseteq Places \X Sessions
    BY <1>4 DEF TypeOK, Repair, Acknowledge
  <2> QED
    BY <1>4, <2>1, <2>2 DEF TypeOK, Repair, Acknowledge
<1>5. ASSUME NEW u \in Units, Draft(u)
      PROVE  TypeOK'
  <2> DEFINE d == [ids |-> Outstanding(u), banner |-> "kept", mode |-> Route(u),
                   target |-> u, text |-> "distilled"]
  <2>1. d \in Drafts
    BY DEF Drafts, Outstanding, Route, Modes, Texts
  <2>2. drafts' = [drafts EXCEPT ![u] = d]
    BY <1>5 DEF Draft
  <2> HIDE DEF d
  <2>3. drafts' \in [Units -> {None} \cup Drafts]
    BY <2>1, <2>2 DEF TypeOK
  <2> QED
    BY <1>5, <2>3, ConsolidateConstants DEF TypeOK, Draft, Edit
<1>6. ASSUME NEW u \in Units, Distil(u) \/ Revise(u)
      PROVE  TypeOK'
  <2>1. drafts[u] \in Drafts
    BY <1>6 DEF TypeOK, Distil, Revise
  <2>2. drafts' \in [Units -> {None} \cup Drafts]
    <3>1. CASE Distil(u)
      <4>1. PICK ids \in SUBSET drafts[u].ids :
              \/ drafts' = [drafts EXCEPT ![u].banner = "gone", ![u].ids = ids]
              \/ \E t \in Units \ {u} :
                   drafts' = [drafts EXCEPT ![u].banner = "gone", ![u].ids = ids,
                                            ![u].mode = "update-existing", ![u].target = t]
        BY <3>1 DEF Distil
      <4>2. [drafts[u] EXCEPT !.banner = "gone", !.ids = ids] \in Drafts
        BY <2>1 DEF Drafts
      <4>3. \A t \in Units : [drafts[u] EXCEPT !.banner = "gone", !.ids = ids,
                                 !.mode = "update-existing", !.target = t] \in Drafts
        BY <2>1 DEF Drafts, Modes
      <4>4. CASE drafts' = [drafts EXCEPT ![u].banner = "gone", ![u].ids = ids]
        <5>1. drafts' = [drafts EXCEPT ![u] = [drafts[u] EXCEPT !.banner = "gone", !.ids = ids]]
          BY <4>4 DEF TypeOK
        <5> QED
          BY <4>2, <5>1 DEF TypeOK
      <4>5. ASSUME NEW t \in Units,
                   drafts' = [drafts EXCEPT ![u].banner = "gone", ![u].ids = ids,
                                            ![u].mode = "update-existing", ![u].target = t]
            PROVE  drafts' \in [Units -> {None} \cup Drafts]
        <5>1. drafts' = [drafts EXCEPT ![u] = [drafts[u] EXCEPT !.banner = "gone", !.ids = ids,
                                                 !.mode = "update-existing", !.target = t]]
          BY <4>5 DEF TypeOK
        <5> QED
          BY <4>3, <5>1 DEF TypeOK
      <4> QED
        BY <4>1, <4>4, <4>5
    <3>2. CASE Revise(u)
      <4>1. /\ [drafts[u] EXCEPT !.text = "revised"] \in Drafts
            /\ [drafts[u] EXCEPT !.mode = "update-existing"] \in Drafts
        BY <2>1 DEF Drafts, Texts, Modes
      <4> QED
        BY <3>2, <4>1 DEF TypeOK, Revise
    <3> QED
      BY <1>6, <3>1, <3>2
  <2>3. edits' \in 0 .. MaxEdits
    <3>1. CASE Distil(u)
      BY <3>1 DEF TypeOK, Distil
    <3>2. CASE Revise(u)
      BY <3>2, ConsolidateConstants DEF TypeOK, Revise, Edit
    <3> QED
      BY <1>6, <3>1, <3>2
  <2>4. UNCHANGED <<files, pages, job, captured, crashes>>
    BY <1>6 DEF Distil, Revise
  <2> QED
    BY <2>2, <2>3, <2>4 DEF TypeOK
<1>7. ASSUME NEW u \in Units, Apply(u)
      PROVE  TypeOK'
  <2>1. Begin(u) \in Jobs
    BY <1>7, BeginType DEF Apply
  <2> QED
    BY <1>7, <2>1 DEF TypeOK, Apply
<1>8. CASE WritePage
  <2>1. job \in Jobs
    BY <1>8, JobType DEF WritePage
  <2>2. [job EXCEPT !.at = "flip"] \in Jobs
    BY <2>1 DEF Jobs, Phases
  <2>3. job.page \in Pages
    BY <2>1 DEF Jobs
  <2> QED
    BY <1>8, <2>2, <2>3 DEF TypeOK, WritePage
<1>9. ASSUME NEW s \in Sessions, FlipReads(s)
      PROVE  TypeOK'
  <2>1. job \in Jobs /\ live[s] \in Files
    BY <1>9, JobType DEF FlipReads, TypeOK
  <2>2. [job EXCEPT !.file = s, !.text = live[s], !.at = "write"] \in Jobs
    BY <2>1 DEF Jobs, Phases
  <2> QED
    BY <1>9, <2>2 DEF TypeOK, FlipReads
<1>15. CASE FlipWrites
  <2>1. job \in Jobs /\ job.text \in Files
    BY <1>15, JobType DEF FlipWrites, Jobs
  <2>2. job' \in Jobs
    BY <1>15, <2>1, EmptyType DEF FlipWrites, Jobs, Phases
  <2>3. live' \in [Sessions -> Files]
    BY <1>15, <2>1, FlippedType DEF FlipWrites, TypeOK
  <2> QED
    BY <1>15, <2>2, <2>3 DEF TypeOK, FlipWrites
<1>10. CASE FlipsDone \/ ArchiveDone
  <2>1. job \in Jobs
    BY <1>10, JobType DEF FlipsDone, ArchiveDone
  <2>2. [job EXCEPT !.at = "archive"] \in Jobs /\ [job EXCEPT !.at = "verify"] \in Jobs
    BY <2>1 DEF Jobs, Phases
  <2> QED
    BY <1>10, <2>2 DEF TypeOK, FlipsDone, ArchiveDone
<1>11. ASSUME NEW s \in Sessions, Archive(s)
       PROVE  TypeOK'
  <2>1. job \in Jobs
    BY <1>11, JobType DEF Archive
  <2>2. job' \in Jobs
    <3>1. /\ [job EXCEPT !.archives = @ \ {s}] \in Jobs
          /\ [job EXCEPT !.archives = @ \ {s}, !.file = s, !.at = "remove"] \in Jobs
          /\ [job EXCEPT !.archives = @ \ {s}, !.issue = "yes"] \in Jobs
      BY <2>1 DEF Jobs, Phases
    <3> QED
      BY <1>11, <3>1 DEF Archive
  <2>3. Joined(s) \in Files
    BY DEF TypeOK, Joined, Files
  <2>4. live' \in [Sessions -> Files] /\ archive' \in [Sessions -> Files]
    BY <1>11, <2>3, EmptyType DEF TypeOK, Archive
  <2>5. acked' \subseteq Places \X Sessions
    BY <1>11 DEF TypeOK, Archive, Rewrites
  <2> QED
    BY <1>11, <2>2, <2>4, <2>5 DEF TypeOK, Archive
<1>12. CASE Remove
  <2>1. job \in Jobs
    BY <1>12, JobType DEF Remove
  <2>2. [job EXCEPT !.file = None, !.at = "archive"] \in Jobs
    BY <2>1 DEF Jobs, Phases
  <2> QED
    BY <1>12, <2>2, EmptyType DEF TypeOK, Remove
<1>13. CASE Finish \/ Crash
  BY <1>13, ConsolidateConstants DEF TypeOK, Finish, Crash
<1>14. CASE UNCHANGED vars
  BY <1>14 DEF TypeOK, vars
<1> QED
  BY <1>1, <1>2, <1>3, <1>4, <1>5, <1>6, <1>7, <1>8, <1>9, <1>10, <1>11, <1>12, <1>13, <1>14, <1>15
  DEF Next, ByHand, Run, Places

-----------------------------------------------------------------------------
(* The invariant of a run *)

\* q was read of a file that now has r: it is the same, or was disposed of since.
Since(q, r) ==
  \/ q = r
  \/ /\ q # None /\ r # None /\ q.status \in Open /\ r.status \in {"archived", "superseded"}
     /\ r.unit = q.unit /\ r.body = q.body

\* What holds while a run of apply is under way, whatever interleaves with it.
RunInv ==
  job # None =>
    /\ \A s \in Sessions : liveCut[s] = 0
    /\ drafts[job.unit] = job.draft
    /\ job.draft.ids \subseteq job.page.ids
    /\ job.at = "page" /\ pages[job.draft.target] # None =>
         pages[job.draft.target].ids \subseteq job.page.ids
    /\ job.at # "page" =>
         /\ pages[job.draft.target] # None
         /\ job.draft.ids \subseteq pages[job.draft.target].ids
    /\ job.at = "write" =>
         /\ job.file \in Sessions /\ job.file \in job.flips
         /\ \A n \in Numbers : Since(job.text[n], live[job.file][n])
    /\ job.at = "remove" =>
         /\ job.file \in Sessions /\ Single(job.file)
         /\ \A n \in Numbers : live[job.file][n] # None =>
              /\ live[job.file][n].status \in Disposed
              /\ archive[job.file][n] = live[job.file][n]

\* A second record has its number from a first one, which stays before it.
DoublesStay == \A d \in doubles : live[d[1]][d[2]] # None

IInv == TypeOK /\ RunInv /\ DoublesStay /\ NothingIsLost /\ ConsolidatedIsPublished

\* The initial states satisfy it.
LEMMA InitInv == Init => IInv
<1> SUFFICES ASSUME Init PROVE IInv
  OBVIOUS
<1>1. live \in [Sessions -> Files]
  BY StartIsOpen DEF Init
<1>2. TypeOK
  <2>1. captured \subseteq Sessions \X Numbers \X Bodies
    <3>1. \A i \in Ids : live[i[1]][i[2]] # None => live[i[1]][i[2]].body \in Bodies
      BY <1>1 DEF Ids, Files, Records
    <3>2. captured = {<<i[1], i[2], live[i[1]][i[2]].body>> : i \in {j \in Ids : live[j[1]][j[2]] # None}}
      BY DEF Init
    <3> QED
      BY <3>1, <3>2 DEF Ids
  <2> QED
    BY <1>1, <2>1, EmptyType, ConsolidateConstants DEF Init, TypeOK
<1>3. RunInv
  BY DEF Init, RunInv
<1>4. NothingIsLost
  <2> SUFFICES ASSUME NEW c \in captured
               PROVE  \E r \in Somewhere(c[1], c[2]) : r.body = c[3]
    BY DEF NothingIsLost
  <2>1. PICK i \in Ids : live[i[1]][i[2]] # None /\ c = <<i[1], i[2], live[i[1]][i[2]].body>>
    BY DEF Init
  <2> QED
    BY <2>1 DEF Somewhere
<1>5. ConsolidatedIsPublished
  <2> SUFFICES ASSUME NEW s \in Sessions, NEW n \in Numbers, NEW r \in Somewhere(s, n)
               PROVE  r.status # "consolidated"
    BY DEF ConsolidatedIsPublished
  <2>1. archive[s][n] = None
    BY DEF Init, Empty
  <2>2. r = live[s][n] /\ r # None
    BY <2>1 DEF Somewhere, Doubles, Init
  <2>3. r.status \in Open
    BY <2>2, StartIsOpen DEF Init
  <2> QED
    BY <2>3 DEF Open
<1>6. DoublesStay
  BY DEF Init, DoublesStay
<1> QED
  BY <1>2, <1>3, <1>4, <1>5, <1>6 DEF IInv

-----------------------------------------------------------------------------
(* What the steps do to the records *)

\* The actions that write a fragment file or an archive file.
LEMMA WhoWrites ==
  ASSUME [Next]_vars
  PROVE  \/ UNCHANGED <<live, doubles, archive, captured>>
         \/ \E s \in Sessions, u \in Units : Capture(s, u)
         \/ \E s \in Sessions, n \in Numbers, status \in {"archived", "superseded"} : Shelve(s, n, status)
         \/ FlipWrites
         \/ \E s \in Sessions : Archive(s)
         \/ Remove
<1>1. \A s \in Sessions, k \in 2 .. MaxDelta + 1 : Damage(s, k) => UNCHANGED <<live, doubles, archive, captured>>
  BY DEF Damage
<1>2. \A s \in Sessions, place \in Places : Repair(s) \/ Acknowledge(place, s) => UNCHANGED <<live, doubles, archive, captured>>
  BY DEF Repair, Acknowledge
<1>3. \A u \in Units : Draft(u) \/ Distil(u) \/ Revise(u) \/ Apply(u) =>
        UNCHANGED <<live, doubles, archive, captured>>
  BY DEF Draft, Distil, Revise, Apply, files
<1>4. WritePage \/ FlipsDone \/ ArchiveDone \/ Finish \/ Crash => UNCHANGED <<live, doubles, archive, captured>>
  BY DEF WritePage, FlipsDone, ArchiveDone, Finish, Crash, files
<1>5. UNCHANGED vars => UNCHANGED <<live, doubles, archive, captured>>
  BY DEF vars
<1>6. \A s \in Sessions : FlipReads(s) => UNCHANGED <<live, doubles, archive, captured>>
  BY DEF FlipReads, files
<1> QED
  BY <1>1, <1>2, <1>3, <1>4, <1>5, <1>6 DEF Next, ByHand, Run, Places

\* Of a file that is not cut every record is read.
LEMMA WholeFile ==
  ASSUME NEW f, NEW n \in Numbers
  PROVE  n \in Parsed(f, 0) <=> f[n] # None
BY DEF Parsed

\* The number that a capture takes is free, but for a record that a person left hidden.
LEMMA CaptureIsFree ==
  ASSUME TypeOK, NEW s \in Sessions, NEW u, Capture(s, u)
  PROVE  /\ NextNumber(s) \in Numbers
         /\ live[s][NextNumber(s)] # None \/ archive[s][NextNumber(s)] # None =>
              HiddenByConsent(s, NextNumber(s))
<1>1. NextNumber(s) \in Numbers /\ LiveIsTrusted /\ ArchiveIsTrusted
  BY DEF Capture
<1>2. NextNumber(s) \notin Active(s) /\ NextNumber(s) \notin Archived(s)
  BY NextIsNew
<1>3. CASE live[s][NextNumber(s)] # None
  <2>1. liveCut[s] # 0
    BY <1>1, <1>2, <1>3, WholeFile DEF Active
  <2> QED
    BY <1>1, <1>2, <1>3, <2>1 DEF LiveIsTrusted, HiddenByConsent
<1>4. CASE archive[s][NextNumber(s)] # None
  <2>1. archCut[s] # 0
    BY <1>1, <1>2, <1>4, WholeFile DEF Archived
  <2> QED
    BY <1>1, <1>2, <1>4, <2>1 DEF ArchiveIsTrusted, HiddenByConsent
<1> QED
  BY <1>1, <1>3, <1>4

\* What a capture does to the active files: the delta takes a free place in its
\* file, or it is a second one of its number.
LEMMA CaptureWrites ==
  ASSUME TypeOK, NEW s \in Sessions, NEW u \in Units, Capture(s, u)
  PROVE  \E q \in [unit : Units, status : Open, body : Bodies] :
           /\ q # None /\ captured' = captured \cup {<<s, NextNumber(s), q.body>>}
           /\ archive' = archive /\ NextNumber(s) \in Numbers
           /\ \/ /\ live[s][NextNumber(s)] = None /\ doubles' = doubles
                 /\ live' = [live EXCEPT ![s][NextNumber(s)] = q]
              \/ /\ live[s][NextNumber(s)] # None /\ live' = live
                 /\ doubles' = doubles \cup {<<s, NextNumber(s), q>>}
<1> DEFINE body == IF \E b \in Bodies : <<s, NextNumber(s), b>> \in captured THEN "again" ELSE "first"
           q == [unit |-> u, status |-> "provisional", body |-> body]
<1>1. body \in Bodies
  BY DEF Bodies
<1>2. /\ captured' = captured \cup {<<s, NextNumber(s), body>>}
      /\ archive' = archive /\ NextNumber(s) \in Numbers
      /\ IF live[s][NextNumber(s)] = None
         THEN live' = [live EXCEPT ![s][NextNumber(s)] = q] /\ doubles' = doubles
         ELSE doubles' = doubles \cup {<<s, NextNumber(s), q>>} /\ live' = live
  BY DEF Capture
<1> HIDE DEF body
<1>3. q \in [unit : Units, status : Open, body : Bodies] /\ q.body = body
  BY <1>1 DEF Open
<1>4. q \in Records
  BY <1>3 DEF Records
<1> HIDE DEF q
<1> QED
  BY <1>2, <1>3, <1>4, NoneIsNothing

\* What replacing a file does: a manifest id reads consolidated, and what was
\* disposed of since the file was read is as it was read.
LEMMA FlipMoves ==
  ASSUME TypeOK, RunInv, FlipWrites
  PROVE  /\ job # None /\ job.at = "write" /\ archive' = archive /\ doubles' = doubles
         /\ job.file \in Sessions /\ job.file \in job.flips
         /\ \A t \in Sessions, n \in Numbers :
              \/ live'[t][n] = live[t][n]
              \/ /\ t = job.file /\ live[t][n] \in Records /\ live'[t][n] \in Records
                 /\ live'[t][n].unit = live[t][n].unit /\ live'[t][n].body = live[t][n].body
                 /\ live[t][n].status \in Open \/ Overtaken(t, n)
                 /\ \/ live'[t][n].status \in Open
                    \/ live'[t][n].status = "consolidated" /\ <<t, n>> \in job.draft.ids
<1> DEFINE s == job.file
<1>1. job # None /\ job.at = "write" /\ archive' = archive /\ doubles' = doubles /\ job \in Jobs
  BY JobType DEF FlipWrites
<1>2. s \in Sessions /\ s \in job.flips /\ \A n \in Numbers : Since(job.text[n], live[s][n])
  BY <1>1 DEF RunInv
<1>3. live \in [Sessions -> Files] /\ job.text \in Files
  BY <1>1 DEF TypeOK, Jobs
<1>4. live' = live \/ live' = [live EXCEPT ![s] = Flipped(job.text, s, job.draft.ids)]
  BY DEF FlipWrites
<1> HIDE DEF s
<1>5. ASSUME NEW t \in Sessions, NEW n \in Numbers, live'[t][n] # live[t][n]
      PROVE  /\ t = s /\ live[t][n] \in Records /\ live'[t][n] \in Records
             /\ live'[t][n].unit = live[t][n].unit /\ live'[t][n].body = live[t][n].body
             /\ live[t][n].status \in Open \/ job.text[n] # live[t][n]
             /\ \/ live'[t][n].status \in Open
                \/ live'[t][n].status = "consolidated" /\ <<t, n>> \in job.draft.ids
  <2> DEFINE q == job.text[n]
             x == [q EXCEPT !.status = "consolidated"]
  <2>1. t = s /\ live'[s] = Flipped(job.text, s, job.draft.ids)
    BY <1>2, <1>3, <1>4, <1>5
  <2>2. live'[s][n] = IF q # None /\ <<s, n>> \in job.draft.ids /\ q.status \in Open THEN x ELSE q
    BY <2>1 DEF Flipped
  <2>3. Since(q, live[s][n])
    BY <1>2
  <2>4. q # None /\ q.status \in Open /\ live[s][n] # None
           /\ live[s][n].unit = q.unit /\ live[s][n].body = q.body
    BY <1>5, <2>1, <2>2, <2>3 DEF Since
  <2>5. q \in Records /\ live[s][n] \in Records
    BY <1>2, <1>3, <2>4 DEF Files
  <2>6. x \in Records /\ x.unit = q.unit /\ x.body = q.body /\ x.status = "consolidated"
    BY <2>5 DEF Records, Disposed
  <2> HIDE DEF q, x
  <2>7. live[s][n].status \in Open \/ q # live[s][n]
    BY <2>4
  <2> QED
    BY <2>1, <2>2, <2>4, <2>5, <2>6, <2>7 DEF q
<1> QED
  BY <1>1, <1>2, <1>5 DEF s, Overtaken

\* What an archive step does to its two files, in a form that names records.
LEMMA ArchiveMoves ==
  ASSUME TypeOK, NEW s \in Sessions, Archive(s), liveCut[s] = 0
  PROVE  /\ \A t \in Sessions : t # s => live'[t] = live[t] /\ archive'[t] = archive[t]
         /\ doubles' = doubles /\ (live' # live \/ job'.at = "remove" => Single(s))
         /\ \A n \in Numbers :
              /\ archive[s][n] # None => archive'[s][n] = archive[s][n]
              /\ archive'[s][n] \in {archive[s][n], live[s][n]}
              /\ live'[s][n] \in {live[s][n], None}
              /\ live'[s][n] # live[s][n] => archive'[s][n] = live[s][n]
              /\ job'.at = "remove" /\ live'[s][n] # None =>
                   live[s][n].status \in Disposed /\ archive'[s][n] = live[s][n]
<1>1. liveCut[s] = 0 /\ job # None /\ job.at = "archive" /\ job \in Jobs /\ doubles' = doubles
  BY JobType DEF Archive
<1>9. AllDisposed(s, {}) => Single(s)
  BY <1>1 DEF AllDisposed
<1>2. \A n \in Numbers : n \in Active(s) <=> live[s][n] # None
  BY <1>1, WholeFile DEF Active
<1>3. live \in [Sessions -> Files] /\ archive \in [Sessions -> Files]
  BY DEF TypeOK
<1>4. CASE AllDisposed(s, {}) /\ archive' = [archive EXCEPT ![s] = live[s]]
             /\ live' = [live EXCEPT ![s] = Empty] /\ archive[s] = Empty /\ job' = [job EXCEPT !.archives = @ \ {s}]
  <2>1. job'.at # "remove"
    BY <1>1, <1>4 DEF Jobs
  <2> QED
    BY <1>1, <1>3, <1>4, <1>9, <2>1 DEF Empty
<1>5. CASE AlreadyAppended(s) /\ live' = [live EXCEPT ![s] = Empty] /\ archive' = archive
             /\ job' = [job EXCEPT !.archives = @ \ {s}]
  <2>1. job'.at # "remove"
    BY <1>1, <1>5 DEF Jobs
  <2>2. \A n \in Numbers : live[s][n] # None => archive[s][n] = live[s][n]
    BY <1>2, <1>5 DEF AlreadyAppended
  <2> QED
    BY <1>1, <1>3, <1>5, <1>9, <2>1, <2>2 DEF Empty, AlreadyAppended
<1>6. CASE AllDisposed(s, {}) /\ archCut[s] = 0 /\ Disjoint(s)
             /\ archive' = [archive EXCEPT ![s] = Joined(s)] /\ live' = live
  <2>1. \A n \in Numbers : live[s][n] # None => archive[s][n] = None
    BY <1>2, <1>6, WholeFile DEF Disjoint, Archived
  <2>2. \A n \in Numbers : live[s][n] # None => live[s][n].status \in Disposed
    BY <1>2, <1>6 DEF AllDisposed
  <2>3. \A n \in Numbers :
          archive'[s][n] = IF archive[s][n] # None THEN archive[s][n] ELSE live[s][n]
    BY <1>3, <1>6 DEF Joined
  <2> QED
    BY <1>1, <1>3, <1>6, <1>9, <2>1, <2>2, <2>3
<1>7. CASE UNCHANGED <<live, archive>> /\ job'.at # "remove"
  BY <1>1, <1>7
<1>8. [job EXCEPT !.archives = @ \ {s}].at # "remove"
        /\ [job EXCEPT !.archives = @ \ {s}, !.issue = "yes"].at # "remove"
  BY <1>1 DEF Jobs
<1> QED
  BY <1>4, <1>5, <1>6, <1>7, <1>8 DEF Archive

\* A second record keeps its first one.
LEMMA DoublesStep ==
  ASSUME IInv, [Next]_vars
  PROVE  DoublesStay'
<1>0. /\ live \in [Sessions -> Files] /\ TypeOK /\ RunInv
      /\ \A d \in doubles : d[1] \in Sessions /\ d[2] \in Numbers /\ live[d[1]][d[2]] # None
  BY DEF IInv, TypeOK, DoublesStay
<1>1. CASE UNCHANGED <<live, doubles, archive, captured>>
  BY <1>0, <1>1 DEF DoublesStay
<1>2. ASSUME NEW s \in Sessions, NEW u \in Units, Capture(s, u)
      PROVE  DoublesStay'
  <2>1. PICK q \in [unit : Units, status : Open, body : Bodies] :
          /\ q # None /\ NextNumber(s) \in Numbers
          /\ \/ /\ live[s][NextNumber(s)] = None /\ doubles' = doubles
                /\ live' = [live EXCEPT ![s][NextNumber(s)] = q]
             \/ /\ live[s][NextNumber(s)] # None /\ live' = live
                /\ doubles' = doubles \cup {<<s, NextNumber(s), q>>}
    BY <1>0, <1>2, CaptureWrites
  <2>2. CASE live[s][NextNumber(s)] = None /\ doubles' = doubles
               /\ live' = [live EXCEPT ![s][NextNumber(s)] = q]
    <3> SUFFICES ASSUME NEW d \in doubles PROVE live'[d[1]][d[2]] # None
      BY <2>2 DEF DoublesStay
    <3>1. ~(d[1] = s /\ d[2] = NextNumber(s))
      BY <1>0, <2>2
    <3>2. live'[d[1]][d[2]] = live[d[1]][d[2]]
      BY <1>0, <2>2, <3>1 DEF Files
    <3> QED
      BY <1>0, <3>2
  <2>3. CASE live[s][NextNumber(s)] # None /\ live' = live
               /\ doubles' = doubles \cup {<<s, NextNumber(s), q>>}
    BY <1>0, <2>3 DEF DoublesStay
  <2> QED
    BY <2>1, <2>2, <2>3
<1>3. ASSUME NEW s \in Sessions, NEW n \in Numbers, NEW status \in {"archived", "superseded"},
             Shelve(s, n, status)
      PROVE  DoublesStay'
  <2>1. doubles' = doubles /\ live[s][n] \in Records
    BY <1>0, <1>3 DEF Shelve, Active, Parsed, Files
  <2> DEFINE q == [live[s][n] EXCEPT !.status = status]
  <2>2. live' = [live EXCEPT ![s][n] = q]
    BY <1>0, <1>3 DEF Shelve, Files
  <2>3. q \in Records /\ q # None
    BY <2>1, NoneIsNothing DEF Records, Disposed
  <2> HIDE DEF q
  <2> SUFFICES ASSUME NEW d \in doubles PROVE live'[d[1]][d[2]] # None
    BY <2>1 DEF DoublesStay
  <2> QED
    BY <1>0, <2>2, <2>3 DEF Files
<1>4. CASE FlipWrites
  <2> SUFFICES ASSUME NEW d \in doubles PROVE live'[d[1]][d[2]] # None
    BY <1>0, <1>4, FlipMoves DEF DoublesStay
  <2> QED
    BY <1>0, <1>4, FlipMoves, NoneIsNothing
<1>5. ASSUME NEW s \in Sessions, Archive(s)
      PROVE  DoublesStay'
  <2>1. liveCut[s] = 0
    BY <1>0, <1>5 DEF Archive, RunInv
  <2>2. /\ \A t \in Sessions : t # s => live'[t] = live[t]
        /\ doubles' = doubles /\ (live' # live => Single(s))
    BY <1>0, <1>5, <2>1, ArchiveMoves
  <2> SUFFICES ASSUME NEW d \in doubles PROVE live'[d[1]][d[2]] # None
    BY <2>2 DEF DoublesStay
  <2> QED
    BY <1>0, <2>2 DEF Single
<1>6. CASE Remove
  <2>1. /\ job # None /\ job.at = "remove" /\ doubles' = doubles
        /\ live' = [live EXCEPT ![job.file] = Empty]
    BY <1>6 DEF Remove
  <2>2. Single(job.file)
    BY <1>0, <2>1 DEF RunInv
  <2> SUFFICES ASSUME NEW d \in doubles PROVE live'[d[1]][d[2]] # None
    BY <2>1 DEF DoublesStay
  <2> QED
    BY <1>0, <2>1, <2>2 DEF Single
<1> QED
  BY <1>1, <1>2, <1>3, <1>4, <1>5, <1>6, WhoWrites

\* No step takes the last copy of a record: it stays as it is, or it was
\* outstanding and stays with another status, or a run had read it before it changed.
LEMMA RecordSurvives ==
  ASSUME IInv, [Next]_vars, NEW s \in Sessions, NEW n \in Numbers, NEW r \in Somewhere(s, n)
  PROVE  \E q \in Somewhere(s, n)' :
           q.body = r.body /\ (q = r \/ r.status \in Open \/ Overtaken(s, n))
<1>0. live \in [Sessions -> Files] /\ archive \in [Sessions -> Files] /\ TypeOK /\ RunInv
  BY DEF IInv, TypeOK
<1>1. CASE UNCHANGED <<live, doubles, archive, captured>>
  BY <1>1 DEF Somewhere, Doubles
<1>2. ASSUME NEW t \in Sessions, NEW u \in Units, Capture(t, u)
      PROVE  r \in Somewhere(s, n)'
  <2>1. PICK q \in [unit : Units, status : Open, body : Bodies] :
          /\ archive' = archive /\ NextNumber(t) \in Numbers
          /\ \/ /\ live[t][NextNumber(t)] = None /\ doubles' = doubles
                /\ live' = [live EXCEPT ![t][NextNumber(t)] = q]
             \/ /\ live[t][NextNumber(t)] # None /\ live' = live
                /\ doubles' = doubles \cup {<<t, NextNumber(t), q>>}
    BY <1>0, <1>2, CaptureWrites
  <2>2. live[s][n] # None => live'[s][n] = live[s][n]
    BY <1>0, <2>1 DEF Files
  <2>3. Doubles(s, n) \subseteq Doubles(s, n)'
    BY <2>1 DEF Doubles
  <2> QED
    BY <2>1, <2>2, <2>3 DEF Somewhere
<1>7. CASE r \in Doubles(s, n) /\ doubles' = doubles
  BY <1>7 DEF Somewhere, Doubles
<1>3. ASSUME NEW t \in Sessions, NEW m \in Numbers, NEW status \in {"archived", "superseded"},
             Shelve(t, m, status)
      PROVE  \E q \in Somewhere(s, n)' : q.body = r.body /\ (q = r \/ r.status \in Open)
  <2>1. archive' = archive /\ live[t][m].status \in Open /\ live[t][m] \in Records /\ doubles' = doubles
    BY <1>0, <1>3 DEF Shelve, Active, Parsed, Files
  <2>2. live' = [live EXCEPT ![t][m] = [live[t][m] EXCEPT !.status = status]]
    BY <1>0, <1>3 DEF Shelve, Files
  <2>3. CASE r = archive[s][n] \/ r \in Doubles(s, n)
    BY <1>7, <2>1, <2>3 DEF Somewhere, Doubles
  <2>4. CASE r = live[s][n] /\ r # None /\ ~(s = t /\ n = m)
    <3>1. live'[s][n] = live[s][n]
      BY <1>0, <2>2, <2>4 DEF Files
    <3> QED
      BY <2>4, <3>1 DEF Somewhere
  <2>5. CASE r = live[s][n] /\ s = t /\ n = m
    <3>1. live'[s][n] = [r EXCEPT !.status = status] /\ r \in Records
      BY <1>0, <2>1, <2>2, <2>5 DEF Files
    <3>2. live'[s][n].body = r.body /\ live'[s][n] \in Records
      BY <3>1 DEF Records, Disposed
    <3> QED
      BY <2>1, <2>5, <3>2, NoneIsNothing DEF Somewhere
  <2> QED
    BY <2>3, <2>4, <2>5 DEF Somewhere
<1>4. CASE FlipWrites
  <2>1. archive' = archive /\ doubles' = doubles
    BY <1>4 DEF FlipWrites
  <2>2. CASE r = archive[s][n] \/ r \in Doubles(s, n)
    BY <1>7, <2>1, <2>2 DEF Somewhere, Doubles
  <2>3. CASE r = live[s][n] /\ r # None
    <3>1. \/ live'[s][n] = r
          \/ /\ live'[s][n] \in Records /\ live'[s][n].body = r.body
             /\ r.status \in Open \/ Overtaken(s, n)
      BY <1>0, <1>4, <2>3, FlipMoves
    <3>2. live'[s][n] # None
      BY <2>3, <3>1, NoneIsNothing
    <3>3. live'[s][n] \in Somewhere(s, n)'
      BY <3>2 DEF Somewhere
    <3> QED
      BY <3>1, <3>3
  <2> QED
    BY <2>2, <2>3 DEF Somewhere
<1>5. ASSUME NEW t \in Sessions, Archive(t)
      PROVE  r \in Somewhere(s, n)'
  <2>0. TypeOK /\ liveCut[t] = 0
    BY <1>5 DEF Archive, IInv, RunInv
  <2>1. /\ doubles' = doubles
        /\ archive[s][n] # None => archive'[s][n] = archive[s][n]
        /\ live'[s][n] # live[s][n] => archive'[s][n] = live[s][n]
    <3>1. CASE s # t
      BY <1>5, <2>0, <3>1, ArchiveMoves
    <3>2. CASE s = t
      BY <1>5, <2>0, <3>2, ArchiveMoves
    <3> QED
      BY <3>1, <3>2
  <2> QED
    BY <2>1 DEF Somewhere, Doubles
<1>6. CASE Remove
  <2>1. live' = [live EXCEPT ![job.file] = Empty] /\ archive' = archive /\ doubles' = doubles
    BY <1>6 DEF Remove
  <2>2. \A k \in Numbers : live[job.file][k] # None => archive[job.file][k] = live[job.file][k]
    BY <1>6 DEF Remove, IInv, RunInv
  <2>3. CASE s = job.file
    BY <2>1, <2>2, <2>3 DEF Somewhere, Doubles
  <2>4. CASE s # job.file
    BY <1>0, <2>1, <2>4 DEF Somewhere, Doubles
  <2> QED
    BY <2>3, <2>4
<1> QED
  BY <1>1, <1>2, <1>3, <1>4, <1>5, <1>6, WhoWrites

\* What was captured stays.
LEMMA LostStep ==
  ASSUME IInv, [Next]_vars
  PROVE  NothingIsLost'
<1> SUFFICES ASSUME NEW c \in captured'
             PROVE  \E r \in Somewhere(c[1], c[2])' : r.body = c[3]
  BY DEF NothingIsLost
<1>1. CASE c \in captured
  <2>1. c[1] \in Sessions /\ c[2] \in Numbers
    BY <1>1 DEF IInv, TypeOK
  <2>2. PICK r \in Somewhere(c[1], c[2]) : r.body = c[3]
    BY <1>1 DEF IInv, NothingIsLost
  <2> QED
    BY <2>1, <2>2, RecordSurvives
<1>2. CASE c \notin captured
  <2>1. PICK s \in Sessions, u \in Units : Capture(s, u)
    BY <1>2, WhoWrites DEF Shelve, FlipWrites, Archive, Remove
  <2>2. PICK q \in [unit : Units, status : Open, body : Bodies] :
          /\ q # None /\ captured' = captured \cup {<<s, NextNumber(s), q.body>>}
          /\ NextNumber(s) \in Numbers
          /\ \/ live' = [live EXCEPT ![s][NextNumber(s)] = q]
             \/ doubles' = doubles \cup {<<s, NextNumber(s), q>>}
    BY <2>1, CaptureWrites DEF IInv
  <2>3. c = <<s, NextNumber(s), q.body>>
    BY <1>2, <2>2
  <2>4. CASE live' = [live EXCEPT ![s][NextNumber(s)] = q]
    <3>1. live'[s][NextNumber(s)] = q
      BY <2>2, <2>4 DEF IInv, TypeOK, Files
    <3> QED
      BY <2>2, <2>3, <3>1 DEF Somewhere
  <2>5. CASE doubles' = doubles \cup {<<s, NextNumber(s), q>>}
    <3> DEFINE d == <<s, NextNumber(s), q>>
    <3>1. d \in doubles' /\ d[1] = c[1] /\ d[2] = c[2] /\ d[3] = q /\ c[3] = q.body
      BY <2>3, <2>5
    <3> HIDE DEF d
    <3>2. d[3] \in Doubles(c[1], c[2])'
      BY <3>1 DEF Doubles
    <3> QED
      BY <3>1, <3>2 DEF Somewhere
  <2> QED
    BY <2>2, <2>4, <2>5
<1> QED
  BY <1>1, <1>2

\* A page is only added to.
LEMMA PagesGrow ==
  ASSUME IInv, [Next]_vars, NEW u \in Units, pages[u] # None
  PROVE  pages'[u] # None /\ pages[u].ids \subseteq pages'[u].ids
<1>1. CASE pages' = pages
  BY <1>1
<1>2. CASE WritePage
  <2>1. pages' = [pages EXCEPT ![job.draft.target] = job.page] /\ job # None /\ job.at = "page"
    BY <1>2 DEF WritePage
  <2>2. job.page # None
    BY <2>1, JobType, NoneIsNothing DEF IInv, Jobs
  <2>3. u = job.draft.target => pages[u].ids \subseteq job.page.ids
    BY <2>1 DEF IInv, RunInv
  <2> QED
    BY <2>1, <2>2, <2>3 DEF IInv, TypeOK
<1>3. \A s \in Sessions, k \in 2 .. MaxDelta + 1 : Damage(s, k) => pages' = pages
  BY DEF Damage
<1>4. \A s \in Sessions, place \in Places :
        Repair(s) \/ Acknowledge(place, s) \/ FlipReads(s) \/ Archive(s) => pages' = pages
  BY DEF Repair, Acknowledge, FlipReads, Archive
<1>5. \A v \in Units : Draft(v) \/ Distil(v) \/ Revise(v) \/ Apply(v) => pages' = pages
  BY DEF Draft, Distil, Revise, Apply
<1>6. FlipWrites \/ FlipsDone \/ Remove \/ ArchiveDone \/ Finish \/ Crash \/ UNCHANGED vars =>
        pages' = pages
  BY DEF FlipWrites, FlipsDone, Remove, ArchiveDone, Finish, Crash, vars
<1>7. \A s \in Sessions, v \in Units : Capture(s, v) => pages' = pages
  BY DEF Capture
<1>8. \A s \in Sessions, n \in Numbers, status \in {"archived", "superseded"} : Shelve(s, n, status) => pages' = pages
  BY DEF Shelve
<1> QED
  BY <1>1, <1>2, <1>3, <1>4, <1>5, <1>6, <1>7, <1>8 DEF Next, ByHand, Run, Places

\* A delta comes to read consolidated only by the flip of a run whose draft
\* names it.
LEMMA WhoConsolidates ==
  ASSUME TypeOK, RunInv, [Next]_vars, NEW s \in Sessions, NEW n \in Numbers,
         NEW r \in Somewhere(s, n)', r.status = "consolidated"
  PROVE  \/ r \in Somewhere(s, n)
         \/ job # None /\ job.at = "write" /\ <<s, n>> \in job.draft.ids
<1>0. live \in [Sessions -> Files] /\ archive \in [Sessions -> Files]
  BY DEF TypeOK
<1>7. r \in {live'[s][n], archive'[s][n]} /\ r # None
  <2>1. TypeOK'
    BY TypeStep
  <2>2. r \notin Doubles(s, n)'
    BY <2>1 DEF TypeOK, Doubles, Open
  <2> QED
    BY <2>2 DEF Somewhere
<1>1. CASE UNCHANGED <<live, doubles, archive, captured>>
  BY <1>1, <1>7 DEF Somewhere
<1>2. ASSUME NEW t \in Sessions, NEW u \in Units, Capture(t, u)
      PROVE  r \in Somewhere(s, n)
  <2>1. PICK q \in [unit : Units, status : Open, body : Bodies] :
          /\ archive' = archive /\ NextNumber(t) \in Numbers
          /\ live' = live \/ live' = [live EXCEPT ![t][NextNumber(t)] = q]
    BY <1>2, CaptureWrites
  <2>2. r # q
    BY DEF Open
  <2> QED
    BY <1>0, <1>7, <2>1, <2>2 DEF Somewhere, Files
<1>3. ASSUME NEW t \in Sessions, NEW m \in Numbers, NEW status \in {"archived", "superseded"},
             Shelve(t, m, status)
      PROVE  r \in Somewhere(s, n)
  <2> DEFINE q == [live[t][m] EXCEPT !.status = status]
  <2>1. archive' = archive /\ live[t][m] \in Records
    BY <1>0, <1>3 DEF Shelve, Active, Parsed, Files
  <2>2. live' = [live EXCEPT ![t][m] = q]
    BY <1>0, <1>3 DEF Shelve, Files
  <2>3. q.status # "consolidated"
    BY <2>1 DEF Records
  <2> HIDE DEF q
  <2>4. r # q
    BY <2>3
  <2> QED
    BY <1>0, <1>7, <2>1, <2>2, <2>4 DEF Somewhere, Files
<1>4. CASE FlipWrites
  <2>1. /\ job # None /\ job.at = "write" /\ archive' = archive
        /\ \/ live'[s][n] = live[s][n]
           \/ live'[s][n].status \in Open
           \/ <<s, n>> \in job.draft.ids
    BY <1>4, FlipMoves
  <2> QED
    BY <1>7, <2>1 DEF Somewhere, Open
<1>5. ASSUME NEW t \in Sessions, Archive(t)
      PROVE  r \in Somewhere(s, n)
  <2>0. liveCut[t] = 0
    BY <1>5 DEF Archive, RunInv
  <2>1. CASE s # t
    BY <1>5, <1>7, <2>0, <2>1, ArchiveMoves DEF Somewhere
  <2>2. CASE s = t
    BY <1>5, <1>7, <2>0, <2>2, ArchiveMoves DEF Somewhere
  <2> QED
    BY <2>1, <2>2
<1>6. CASE Remove
  <2>1. live' = [live EXCEPT ![job.file] = Empty] /\ archive' = archive
    BY <1>6 DEF Remove
  <2>2. live'[s][n] \in {live[s][n], None}
    BY <1>0, <2>1 DEF Empty
  <2> QED
    BY <1>7, <2>1, <2>2 DEF Somewhere
<1> QED
  BY <1>1, <1>2, <1>3, <1>4, <1>5, <1>6, WhoWrites

\* What reads consolidated is named by a page.
LEMMA PublishedStep ==
  ASSUME IInv, [Next]_vars
  PROVE  ConsolidatedIsPublished'
<1> SUFFICES ASSUME NEW s \in Sessions, NEW n \in Numbers, NEW r \in Somewhere(s, n)',
                    r.status = "consolidated"
             PROVE  \E u \in Units : pages'[u] # None /\ <<s, n>> \in pages'[u].ids
  BY DEF ConsolidatedIsPublished
<1>1. CASE r \in Somewhere(s, n)
  <2>1. PICK u \in Units : pages[u] # None /\ <<s, n>> \in pages[u].ids
    BY <1>1 DEF IInv, ConsolidatedIsPublished
  <2> QED
    BY <2>1, PagesGrow
<1>2. CASE job # None /\ job.at = "write" /\ <<s, n>> \in job.draft.ids
  <2>1. job.draft.target \in Units
    BY <1>2, JobType DEF IInv, Jobs, Drafts
  <2>2. pages[job.draft.target] # None /\ <<s, n>> \in pages[job.draft.target].ids
    BY <1>2 DEF IInv, RunInv
  <2> QED
    BY <2>1, <2>2, PagesGrow
<1> QED
  BY <1>1, <1>2, WhoConsolidates DEF IInv

-----------------------------------------------------------------------------
(* The invariant of a run is kept *)

\* The page that apply plans names the manifest and all the target names.
LEMMA PlannedPage ==
  ASSUME TypeOK, NEW u \in Units, Accepts(u)
  PROVE  LET d == drafts[u] IN
         /\ d.ids \subseteq Promoted(d, pages[d.target]).ids
         /\ pages[d.target] # None => pages[d.target].ids \subseteq Promoted(d, pages[d.target]).ids
<1> DEFINE d == drafts[u]
<1>1. d \in Drafts
  BY BeginType
<1>2. CASE d.mode = "create"
  <2>1. pages[d.target] \in {None, Promoted(d, pages[d.target])}
    BY <1>2 DEF Accepts, WouldAccept, TargetFits
  <2> QED
    BY <1>2, <2>1 DEF Promoted
<1>3. CASE d.mode # "create"
  <2>1. pages[d.target] \in Pages
    BY <1>1, <1>3 DEF TypeOK, Accepts, WouldAccept, TargetFits, Drafts
  <2>2. Promoted(d, pages[d.target]).ids = pages[d.target].ids \cup d.ids
    BY <1>3, <2>1 DEF Promoted, Pages
  <2> QED
    BY <2>2
<1> QED
  BY <1>2, <1>3

\* Every step keeps the invariant of a run.
LEMMA RunStep ==
  ASSUME IInv, [Next]_vars
  PROVE  RunInv'
<1> USE DEF files
<1>1. TypeOK /\ RunInv
  BY DEF IInv
<1>2. CASE job' = None
  BY <1>2 DEF RunInv
<1>3. CASE UNCHANGED <<job, live, doubles, archive, liveCut, pages, drafts>>
  BY <1>1, <1>3 DEF RunInv, Single
<1>4. ASSUME NEW u \in Units, Apply(u)
      PROVE  RunInv'
  <2> DEFINE d == drafts[u]
  <2>1. job' = Begin(u) /\ UNCHANGED <<live, archive, liveCut, pages, drafts>> /\ Accepts(u)
    BY <1>4 DEF Apply
  <2>2. /\ job'.unit = u /\ job'.draft = d /\ job'.at = "page"
        /\ job'.page = Promoted(d, pages[d.target])
    BY <2>1 DEF Begin
  <2>3. \A s \in Sessions : liveCut[s] = 0
    BY <2>1 DEF Accepts, WouldAccept, DamageGate
  <2> QED
    BY <1>1, <2>1, <2>2, <2>3, PlannedPage DEF RunInv
<1>5. CASE WritePage
  <2>1. job \in Jobs /\ job.page \in Pages /\ job.draft.target \in Units
    BY <1>1, <1>5, JobType DEF WritePage, Jobs, Drafts
  <2>2. /\ job'.unit = job.unit /\ job'.draft = job.draft /\ job'.at = "flip" /\ job'.page = job.page
    BY <1>5, <2>1 DEF WritePage, Jobs
  <2>3. pages'[job.draft.target] = job.page /\ UNCHANGED <<live, archive, liveCut, drafts>>
    BY <1>1, <1>5, <2>1 DEF WritePage, TypeOK
  <2> QED
    BY <1>1, <1>5, <2>1, <2>2, <2>3, NoneIsNothing DEF WritePage, RunInv
<1>6. ASSUME NEW s \in Sessions, FlipReads(s)
      PROVE  RunInv'
  <2>1. job \in Jobs
    BY <1>1, <1>6, JobType DEF FlipReads
  <2>2. /\ job'.unit = job.unit /\ job'.draft = job.draft /\ job'.at = "write" /\ job'.page = job.page
        /\ job'.file = s /\ job'.flips = job.flips /\ job'.text = live[s]
    BY <1>6, <2>1 DEF FlipReads, Jobs
  <2>3. /\ job # None /\ job.at = "flip" /\ s \in job.flips
        /\ UNCHANGED <<live, doubles, archive, liveCut, pages, drafts>>
    BY <1>6 DEF FlipReads
  <2> QED
    BY <1>1, <2>2, <2>3 DEF RunInv, Since
<1>17. CASE FlipWrites
  <2>1. job \in Jobs /\ job # None /\ job.at = "write"
    BY <1>1, <1>17, JobType DEF FlipWrites
  <2>2. /\ job'.unit = job.unit /\ job'.draft = job.draft /\ job'.at = "flip" /\ job'.page = job.page
    BY <1>17, <2>1 DEF FlipWrites, Jobs
  <2>3. UNCHANGED <<liveCut, pages, drafts>>
    BY <1>17 DEF FlipWrites
  <2> QED
    BY <1>1, <2>1, <2>2, <2>3 DEF RunInv
<1>7. CASE FlipsDone \/ ArchiveDone
  <2>1. job \in Jobs /\ job.at # "page"
    BY <1>1, <1>7, JobType DEF FlipsDone, ArchiveDone
  <2>2. job' # None => /\ job'.unit = job.unit /\ job'.draft = job.draft /\ job'.page = job.page
                       /\ job'.at \in {"archive", "verify"}
    BY <1>7, <2>1 DEF FlipsDone, ArchiveDone, Jobs
  <2>3. UNCHANGED <<live, archive, liveCut, pages, drafts>> /\ job # None
    BY <1>7 DEF FlipsDone, ArchiveDone
  <2> QED
    BY <1>1, <2>1, <2>2, <2>3 DEF RunInv
<1>8. ASSUME NEW s \in Sessions, Archive(s)
      PROVE  RunInv'
  <2>1. job \in Jobs /\ job.at = "archive" /\ job # None
    BY <1>1, <1>8, JobType DEF Archive
  <2>2. /\ job'.unit = job.unit /\ job'.draft = job.draft /\ job'.page = job.page
        /\ job'.at \in {"archive", "remove"}
        /\ job'.at = "remove" => job'.file = s
    BY <1>8, <2>1 DEF Archive, Jobs
  <2>3. UNCHANGED <<liveCut, pages, drafts>>
    BY <1>8 DEF Archive
  <2>4. job'.at = "remove" => \A n \in Numbers : live'[s][n] # None =>
          live'[s][n].status \in Disposed /\ archive'[s][n] = live'[s][n]
    <3>1. liveCut[s] = 0
      BY <1>1, <1>8 DEF Archive, RunInv
    <3> QED
      BY <1>1, <1>8, <3>1, ArchiveMoves
  <2>5. job'.at = "remove" => Single(s)'
    <3>1. liveCut[s] = 0
      BY <1>1, <1>8 DEF Archive, RunInv
    <3>2. doubles' = doubles /\ (job'.at = "remove" => Single(s))
      BY <1>1, <1>8, <3>1, ArchiveMoves
    <3> QED
      BY <3>2 DEF Single
  <2> QED
    BY <1>1, <2>1, <2>2, <2>3, <2>4, <2>5 DEF RunInv
<1>9. CASE Remove
  <2>1. job \in Jobs /\ job.at = "remove" /\ job # None
    BY <1>1, <1>9, JobType DEF Remove
  <2>2. /\ job'.unit = job.unit /\ job'.draft = job.draft /\ job'.page = job.page
        /\ job'.at = "archive"
    BY <1>9, <2>1 DEF Remove, Jobs
  <2>3. UNCHANGED <<liveCut, pages, drafts>>
    BY <1>9 DEF Remove
  <2> QED
    BY <1>1, <2>1, <2>2, <2>3 DEF RunInv
<1>10. ASSUME NEW s \in Sessions, NEW n \in Numbers, NEW status \in {"archived", "superseded"},
              Shelve(s, n, status)
       PROVE  RunInv'
  <2>1. UNCHANGED <<job, doubles, archive, liveCut, pages, drafts>>
    BY <1>10 DEF Shelve
  <2>2. live[s][n] # None /\ live[s][n].status \in Open /\ live[s][n] \in Records
    BY <1>1, <1>10 DEF Shelve, Active, Parsed, TypeOK, Files
  <2>3. \A t \in Sessions, m \in Numbers : ~(t = s /\ m = n) => live'[t][m] = live[t][m]
    BY <1>1, <1>10 DEF Shelve, TypeOK, Files
  <2>4. job # None /\ job.at = "remove" => job.file # s
    BY <1>1, <2>2 DEF RunInv, Open, Disposed
  <2>5. \A q : Since(q, live[s][n]) => Since(q, live'[s][n])
    <3>1. live'[s][n] = [live[s][n] EXCEPT !.status = status]
      BY <1>1, <1>10 DEF Shelve, TypeOK, Files
    <3>2. live'[s][n] \in Records /\ live'[s][n].unit = live[s][n].unit
            /\ live'[s][n].body = live[s][n].body /\ live'[s][n].status = status
      BY <2>2, <3>1 DEF Records, Disposed
    <3> QED
      BY <2>2, <3>2, NoneIsNothing DEF Since, Open
  <2>6. job # None /\ job.at = "write" =>
          \A m \in Numbers : Since(job.text[m], live'[job.file][m])
    <3> SUFFICES ASSUME job # None, job.at = "write", NEW m \in Numbers
                 PROVE  Since(job.text[m], live'[job.file][m])
      OBVIOUS
    <3>1. Since(job.text[m], live[job.file][m]) /\ job.file \in Sessions
      BY <1>1 DEF RunInv
    <3>2. CASE job.file = s /\ m = n
      BY <2>5, <3>1, <3>2
    <3>3. CASE ~(job.file = s /\ m = n)
      BY <2>3, <3>1, <3>3
    <3> QED
      BY <3>2, <3>3
  <2>7. job # None /\ job.at = "remove" =>
          /\ Single(job.file)'
          /\ \A m \in Numbers : live'[job.file][m] # None =>
               live'[job.file][m].status \in Disposed /\ archive'[job.file][m] = live'[job.file][m]
    <3> SUFFICES ASSUME job # None, job.at = "remove"
                 PROVE  /\ Single(job.file)'
                        /\ \A m \in Numbers : live'[job.file][m] # None =>
                             /\ live'[job.file][m].status \in Disposed
                             /\ archive'[job.file][m] = live'[job.file][m]
      OBVIOUS
    <3>1. Single(job.file)'
      BY <1>1, <2>1 DEF RunInv, Single
    <3> QED
      BY <1>1, <2>1, <2>3, <2>4, <3>1 DEF RunInv
  <2> QED
    BY <1>1, <2>1, <2>6, <2>7 DEF RunInv
<1>11. \A s \in Sessions, u \in Units : Capture(s, u) => job' = None
  BY DEF Capture
<1>12. \A s \in Sessions, k \in 2 .. MaxDelta + 1 : Damage(s, k) => job' = None
  BY DEF Damage
<1>13. \A s \in Sessions, place \in Places : Repair(s) \/ Acknowledge(place, s) => job' = None
  BY DEF Repair, Acknowledge
<1>14. \A u \in Units : Draft(u) \/ Distil(u) \/ Revise(u) => job' = None
  BY DEF Draft, Distil, Revise
<1>15. Finish \/ Crash => job' = None
  BY DEF Finish, Crash
<1>16. UNCHANGED vars => UNCHANGED <<job, live, doubles, archive, liveCut, pages, drafts>>
  BY DEF vars
<1> QED
  BY <1>2, <1>3, <1>4, <1>5, <1>6, <1>7, <1>8, <1>9, <1>10, <1>11, <1>12, <1>13, <1>14, <1>15, <1>16, <1>17
  DEF Next, ByHand, Run, Places

\* The inductive invariant.
LEMMA Invariance == Spec => []IInv
<1>1. IInv /\ [Next]_vars => IInv'
  BY TypeStep, RunStep, DoublesStep, LostStep, PublishedStep DEF IInv
<1> QED
  BY <1>1, InitInv, PTL DEF Spec

-----------------------------------------------------------------------------
(* The theorems *)

\* The variables of consolidate.py's model keep their types.
THEOREM TypeCorrect == Spec => []TypeOK
<1>1. IInv => TypeOK
  BY DEF IInv
<1> QED
  BY <1>1, Invariance, PTL

\* No step of apply, append or removal takes the last copy of a delta.
THEOREM NoDeltaIsLost == Spec => []NothingIsLost
<1>1. IInv => NothingIsLost
  BY DEF IInv
<1> QED
  BY <1>1, Invariance, PTL

\* What reads consolidated, in the active file or in the archive, is in a page.
THEOREM PublishedFirst == Spec => []ConsolidatedIsPublished
<1>1. IInv => ConsolidatedIsPublished
  BY DEF IInv
<1> QED
  BY <1>1, Invariance, PTL

\* The draft is removed only when its manifest is in the page and consolidated.
THEOREM DraftIsLast == Spec => DraftGoesLast
<1> DEFINE A == \A u \in Units : drafts[u] # None /\ drafts'[u] = None =>
                  /\ pages[drafts[u].target] # None
                  /\ drafts[u].ids \subseteq pages[drafts[u].target].ids
                  /\ Unverified(drafts[u].ids) = {}
<1>1. IInv /\ [Next]_vars => A
  <2> SUFFICES ASSUME IInv, [Next]_vars, NEW u \in Units, drafts[u] # None, drafts'[u] = None
               PROVE  /\ pages[drafts[u].target] # None
                      /\ drafts[u].ids \subseteq pages[drafts[u].target].ids
                      /\ Unverified(drafts[u].ids) = {}
    OBVIOUS
  <2>0. drafts \in [Units -> {None} \cup Drafts]
    BY DEF IInv, TypeOK
  <2>1. CASE Finish
    <3>1. job # None /\ job.at = "verify" /\ job.unit \in Units
      BY <2>1, JobType DEF Finish, IInv, Jobs
    <3>2. Unverified(job.draft.ids) = {} /\ drafts' = [drafts EXCEPT ![job.unit] = None]
      BY <2>1 DEF Finish
    <3>3. u = job.unit
      BY <2>0, <3>1, <3>2
    <3>4. drafts[u] = job.draft
      BY <3>1, <3>3 DEF IInv, RunInv
    <3> QED
      BY <3>1, <3>2, <3>4 DEF IInv, RunInv
  <2>2. \A v \in Units : ~Draft(v)
    <3> SUFFICES ASSUME NEW v \in Units, Draft(v) PROVE FALSE
      OBVIOUS
    <3> DEFINE d == [ids |-> Outstanding(v), banner |-> "kept", mode |-> Route(v),
                     target |-> v, text |-> "distilled"]
    <3>1. d \in Drafts
      BY DEF Drafts, Outstanding, Route, Modes, Texts
    <3>2. drafts' = [drafts EXCEPT ![v] = d]
      BY DEF Draft
    <3> HIDE DEF d
    <3> QED
      BY <2>0, <3>1, <3>2, NoneIsNothing
  <2>3. TypeOK' /\ \A v \in Units : ~Distil(v) /\ ~Revise(v)
    <3>1. TypeOK'
      BY TypeStep DEF IInv
    <3>2. ASSUME NEW v \in Units, Distil(v) PROVE FALSE
      <4>1. drafts[v] \in Drafts
        BY <2>0, <3>2 DEF Distil
      <4>2. PICK ids \in SUBSET drafts[v].ids :
              \/ drafts' = [drafts EXCEPT ![v].banner = "gone", ![v].ids = ids]
              \/ \E t \in Units \ {v} :
                   drafts' = [drafts EXCEPT ![v].banner = "gone", ![v].ids = ids,
                                            ![v].mode = "update-existing", ![v].target = t]
        BY <3>2 DEF Distil
      <4>3. [drafts[v] EXCEPT !.banner = "gone", !.ids = ids] \in Drafts
        BY <4>1 DEF Drafts
      <4>4. \A t \in Units : [drafts[v] EXCEPT !.banner = "gone", !.ids = ids,
                                 !.mode = "update-existing", !.target = t] \in Drafts
        BY <4>1 DEF Drafts, Modes
      <4>5. CASE drafts' = [drafts EXCEPT ![v].banner = "gone", ![v].ids = ids]
        <5>1. drafts' = [drafts EXCEPT ![v] = [drafts[v] EXCEPT !.banner = "gone", !.ids = ids]]
          BY <2>0, <4>5
        <5> QED
          BY <2>0, <4>3, <5>1, NoneIsNothing
      <4>6. ASSUME NEW t \in Units,
                   drafts' = [drafts EXCEPT ![v].banner = "gone", ![v].ids = ids,
                                            ![v].mode = "update-existing", ![v].target = t]
            PROVE  FALSE
        <5>1. drafts' = [drafts EXCEPT ![v] = [drafts[v] EXCEPT !.banner = "gone", !.ids = ids,
                                                 !.mode = "update-existing", !.target = t]]
          BY <2>0, <4>6
        <5> QED
          BY <2>0, <4>4, <5>1, NoneIsNothing
      <4> QED
        BY <4>2, <4>5, <4>6
    <3>3. ASSUME NEW v \in Units, Revise(v) PROVE FALSE
      <4>1. drafts[v] \in Drafts
        BY <2>0, <3>3 DEF Revise
      <4>2. /\ [drafts[v] EXCEPT !.text = "revised"] \in Drafts
            /\ [drafts[v] EXCEPT !.mode = "update-existing"] \in Drafts
        BY <4>1 DEF Drafts, Texts, Modes
      <4> QED
        BY <2>0, <3>3, <4>2, NoneIsNothing DEF Revise
    <3> QED
      BY <3>1, <3>2, <3>3
  <2>4. \A s \in Sessions, place \in Places :
          ~Repair(s) /\ ~Acknowledge(place, s) /\ ~FlipReads(s) /\ ~Archive(s)
    BY DEF Repair, Acknowledge, FlipReads, Archive
  <2>5. /\ \A s \in Sessions, k \in 2 .. MaxDelta + 1 : ~Damage(s, k)
        /\ \A s \in Sessions, v \in Units : ~Capture(s, v)
        /\ \A s \in Sessions, n \in Numbers, status \in {"archived", "superseded"} : ~Shelve(s, n, status)
        /\ \A v \in Units : ~Apply(v)
    BY DEF Damage, Capture, Shelve, Apply
  <2>6. ~WritePage /\ ~FlipWrites /\ ~FlipsDone /\ ~Remove /\ ~ArchiveDone /\ ~Crash
          /\ ~(UNCHANGED vars)
    BY DEF WritePage, FlipWrites, FlipsDone, Remove, ArchiveDone, Crash, vars
  <2> QED
    BY <2>1, <2>2, <2>3, <2>4, <2>5, <2>6 DEF Next, ByHand, Run, Places
<1>2. IInv /\ [Next]_vars => [A]_vars
  BY <1>1
<1> QED
  BY <1>2, Invariance, PTL DEF Spec, DraftGoesLast

\* A disposition that a person made is kept by every run, unless it was made between
\* the moment a run read the file to flip and the moment it replaced the file.
THEOREM DispositionsStand == Spec => DispositionStands
<1> DEFINE A == \A s \in Sessions, n \in Numbers : \A r \in Somewhere(s, n) :
                  r.status \in {"archived", "superseded"} =>
                    Overtaken(s, n) \/ \E q \in Somewhere(s, n)' : q.status = r.status
<1>1. IInv /\ [Next]_vars => A
  <2> SUFFICES ASSUME IInv, [Next]_vars, NEW s \in Sessions, NEW n \in Numbers,
                      NEW r \in Somewhere(s, n), r.status \in {"archived", "superseded"}
               PROVE  Overtaken(s, n) \/ \E q \in Somewhere(s, n)' : q.status = r.status
    OBVIOUS
  <2>1. r.status \notin Open
    BY DEF Open
  <2> QED
    BY <2>1, RecordSurvives
<1>2. IInv /\ [Next]_vars => [A]_vars
  BY <1>1
<1> QED
  BY <1>2, Invariance, PTL DEF Spec, DispositionStands

\* next_id gives an id twice only past a damaged file, live or archived, that a
\* person acknowledged as it is and that hides the record which has the id.
THEOREM IdsStayUnique == Spec => IdsAreNotReused
<1> DEFINE A == \A c \in captured' \ captured : \A b \in captured :
                  b[1] = c[1] /\ b[2] = c[2] => HiddenByConsent(c[1], c[2])
<1>1. IInv /\ [Next]_vars => A
  <2> SUFFICES ASSUME IInv, [Next]_vars, NEW c \in captured' \ captured, NEW b \in captured,
                      b[1] = c[1], b[2] = c[2]
               PROVE  HiddenByConsent(c[1], c[2])
    OBVIOUS
  <2>1. PICK s \in Sessions, u \in Units : Capture(s, u)
    BY WhoWrites DEF Shelve, FlipWrites, Archive, Remove
  <2>2. c[1] = s /\ c[2] = NextNumber(s)
    BY <2>1 DEF Capture
  <2>3. live[s][NextNumber(s)] # None \/ archive[s][NextNumber(s)] # None =>
          HiddenByConsent(s, NextNumber(s))
    BY <2>1, CaptureIsFree DEF IInv
  <2>4. Somewhere(s, NextNumber(s)) # {}
    BY <2>2 DEF IInv, NothingIsLost
  <2>5. Doubles(s, NextNumber(s)) # {} => live[s][NextNumber(s)] # None
    BY DEF IInv, DoublesStay, Doubles
  <2> QED
    BY <2>2, <2>3, <2>4, <2>5 DEF Somewhere
<1>2. IInv /\ [Next]_vars => [A]_vars
  BY <1>1
<1> QED
  BY <1>2, Invariance, PTL DEF Spec, IdsAreNotReused

-----------------------------------------------------------------------------
(* The next run                                                            *)

\* The active file l holds disposed deltas only, each of which the archive file a holds.
Copied(l, a) ==
  /\ \E n \in Numbers : l[n] # None
  /\ \A n \in Numbers : l[n] # None => l[n].status \in Disposed /\ a[n] = l[n]

\* Of the files of session s the next run of unit u asks of each id in ids: it is in
\* one of them, or in both as an append left it; an active file that the run would
\* archive over others of its ids was appended, or another delta of it keeps it.
Fits(s, ids, u, l, a) ==
  \A n \in Numbers : <<s, n>> \in ids =>
    /\ l[n] = None => a[n] # None /\ a[n].unit = u /\ a[n].status \in Disposed
    /\ l[n] # None =>
         /\ l[n].unit = u
         /\ a[n] # None => Copied(l, a)
         /\ Single(s) /\ (\E m \in Numbers : l[m] # None /\ a[m] # None) =>
              \/ Copied(l, a)
              \/ \E m \in Numbers : l[m] # None /\ <<s, m>> \notin ids /\ l[m].status # "consolidated"

\* A new page is as the run writes it or not there yet, one to add to is there.
PageStands(d, page, there) ==
  IF d.mode = "create" THEN page = [ids |-> d.ids, text |-> d.text] /\ there \in {None, page}
  ELSE there # None

\* No id of the draft is borne by two records of one active file, nor by a record of an
\* active file and one of the archive where the active file holds an id twice.
Unambiguous(ids) ==
  /\ \A d \in doubles : <<d[1], d[2]>> \notin ids
  /\ \A s \in Sessions, n \in Numbers :
       <<s, n>> \in ids /\ live[s][n] # None /\ archive[s][n] # None => Single(s)

\* A file yet to flip was not appended by an earlier run: an id of the draft is new in it.
FlipsAreNew ==
  job.at \in {"page", "flip", "write"} =>
    \A s \in job.flips :
      \E n \in Numbers : live[s][n] # None /\ archive[s][n] = None

\* A run among archive files that are whole.
ResumeInv ==
  job # None /\ (\A s \in Sessions : archCut[s] = 0) =>
    /\ DraftIsDistilled(job.draft)
    /\ PageStands(job.draft, job.page, pages[job.draft.target])
    /\ \A s \in Sessions : Fits(s, job.draft.ids, job.unit, live[s], archive[s])
    /\ Unambiguous(job.draft.ids)
    /\ FlipsAreNew

\* What a step of a run makes of an active file l, whose archive file is a: another
\* status for some deltas, consolidated only for those of the draft.
Rewritten(s, ids, l, a, m) ==
  /\ \A n \in Numbers :
       \/ m[n] = l[n]
       \/ /\ l[n] # None /\ m[n] # None /\ m[n].unit = l[n].unit
          /\ <<s, n>> \in ids \/ m[n].status # "consolidated"
  /\ Copied(l, a) => \A n \in Numbers : m[n] = l[n]

\* The archive file, a before and b after, holds what the active file l held.
MovedAway(l, a, b) ==
  \A n \in Numbers : IF l[n] # None THEN l[n].status \in Disposed /\ b[n] = l[n] ELSE b[n] = a[n]

\* The two are apart before, and the active file stays as it is.
AppendedTo(l, a, b) ==
  /\ \E n \in Numbers : l[n] # None
  /\ \A n \in Numbers : l[n] # None => a[n] = None
  /\ MovedAway(l, a, b)

\* None of it makes the next run refuse the file.
LEMMA FitsStays ==
  ASSUME NEW s, NEW ids, NEW u, NEW l, NEW a, NEW m, NEW b, Fits(s, ids, u, l, a),
         \/ Rewritten(s, ids, l, a, m) /\ b = a
         \/ MovedAway(l, a, b) /\ \A n \in Numbers : m[n] = None
         \/ AppendedTo(l, a, b) /\ m = l
  PROVE  Fits(s, ids, u, m, b)
<1>1. CASE Rewritten(s, ids, l, a, m) /\ b = a
  <2>1. \A n \in Numbers : m[n] = None <=> l[n] = None
    BY <1>1 DEF Rewritten
  <2>2. Copied(l, a) => Copied(m, a)
    <3> SUFFICES ASSUME Copied(l, a) PROVE Copied(m, a)
      OBVIOUS
    <3>1. \A n \in Numbers : m[n] = l[n]
      BY <1>1 DEF Rewritten
    <3> QED
      BY <3>1 DEF Copied
  <2>3. ASSUME NEW n \in Numbers, l[n] # None, <<s, n>> \notin ids, l[n].status # "consolidated"
        PROVE  m[n] # None /\ m[n].status # "consolidated"
    BY <1>1, <2>3 DEF Rewritten
  <2>4. \A n \in Numbers : l[n] # None => m[n].unit = l[n].unit
    BY <1>1 DEF Rewritten
  <2> QED
    BY <1>1, <2>1, <2>2, <2>3, <2>4 DEF Fits
<1>2. CASE MovedAway(l, a, b) /\ \A n \in Numbers : m[n] = None
  BY <1>2 DEF Fits, MovedAway
<1>3. CASE AppendedTo(l, a, b) /\ m = l
  <2>1. Copied(l, b)
    BY <1>3 DEF AppendedTo, MovedAway, Copied
  <2> QED
    BY <1>3, <2>1 DEF Fits, AppendedTo, MovedAway
<1> QED
  BY <1>1, <1>2, <1>3

\* What is read of two files that no fence cuts.
LEMMA BothAreRead ==
  ASSUME NEW s \in Sessions, liveCut[s] = 0, archCut[s] = 0
  PROVE  /\ Active(s) = {n \in Numbers : live[s][n] # None}
         /\ Archived(s) = {n \in Numbers : archive[s][n] # None}
         /\ AlreadyAppended(s) <=> Copied(live[s], archive[s]) /\ Single(s)
<1>1. Active(s) = {n \in Numbers : live[s][n] # None}
  BY DEF Active, Parsed
<1>2. Archived(s) = {n \in Numbers : archive[s][n] # None}
  BY DEF Archived, Parsed
<1>3. AlreadyAppended(s) <=> Copied(live[s], archive[s]) /\ Single(s)
  BY <1>1 DEF AlreadyAppended, AllDisposed, Copied
<1> QED
  BY <1>1, <1>2, <1>3

\* A run that apply begins finds what it needs.
LEMMA BeginFits ==
  ASSUME TypeOK, NEW u \in Units, Apply(u)
  PROVE  ResumeInv'
<1> USE DEF files
<1> DEFINE d == drafts[u]
<1>1. /\ job' = Begin(u) /\ UNCHANGED <<live, doubles, archive, liveCut, archCut, pages, drafts>>
      /\ WouldAccept(u, d, pages[d.target]) /\ d \in Drafts
  BY BeginType DEF Apply, Accepts
<1>2. /\ job'.unit = u /\ job'.draft = d /\ job'.page = Promoted(d, pages[d.target])
      /\ job'.flips = ToFlip(d.ids)
  BY <1>1 DEF Begin
<1> SUFFICES ASSUME \A s \in Sessions : archCut[s] = 0
             PROVE  /\ DraftIsDistilled(d)
                    /\ PageStands(d, Promoted(d, pages[d.target]), pages[d.target])
                    /\ \A s \in Sessions : Fits(s, d.ids, u, live[s], archive[s])
                    /\ Unambiguous(d.ids)
                    /\ \A s \in ToFlip(d.ids) :
                         \E n \in Numbers : live[s][n] # None /\ archive[s][n] = None
  <2>1. ASSUME Unambiguous(d.ids) PROVE Unambiguous(job.draft.ids)'
    BY <1>1, <1>2, <2>1 DEF Unambiguous, Single
  <2>2. ASSUME NEW s \in Sessions, Fits(s, d.ids, u, live[s], archive[s])
        PROVE  Fits(s, job.draft.ids, job.unit, live[s], archive[s])'
    BY <1>1, <1>2, <2>2 DEF Fits, Single, Copied
  <2> QED
    BY <1>1, <1>2, <2>1, <2>2 DEF ResumeInv, DraftIsDistilled, FlipsAreNew
<1>3. DraftIsDistilled(d)
  BY <1>1 DEF WouldAccept
<1>4. PageStands(d, Promoted(d, pages[d.target]), pages[d.target])
  BY <1>1 DEF PageStands, WouldAccept, TargetFits, Promoted
<1>5. ASSUME NEW s \in Sessions
      PROVE  Fits(s, d.ids, u, live[s], archive[s])
  <2>1. liveCut[s] = 0 /\ archCut[s] = 0
    BY <1>1 DEF WouldAccept, DamageGate
  <2>2. /\ Active(s) = {n \in Numbers : live[s][n] # None}
        /\ Archived(s) = {n \in Numbers : archive[s][n] # None}
        /\ AlreadyAppended(s) <=> Copied(live[s], archive[s]) /\ Single(s)
    BY <2>1, BothAreRead
  <2> SUFFICES ASSUME NEW n \in Numbers, <<s, n>> \in d.ids
               PROVE
      /\ live[s][n] = None =>
           archive[s][n] # None /\ archive[s][n].unit = u /\ archive[s][n].status \in Disposed
      /\ live[s][n] # None =>
           /\ live[s][n].unit = u
           /\ archive[s][n] # None => Copied(live[s], archive[s])
           /\ Single(s) /\ (\E m \in Numbers : live[s][m] # None /\ archive[s][m] # None) =>
                \/ Copied(live[s], archive[s])
                \/ \E m \in Numbers :
                     live[s][m] # None /\ <<s, m>> \notin d.ids /\ live[s][m].status # "consolidated"
    BY DEF Fits
  <2> DEFINE i == <<s, n>>
  <2>3. i[1] = s /\ i[2] = n /\ i \in d.ids
    OBVIOUS
  <2>4. /\ IsActive(i) <=> live[s][n] # None
        /\ IsArchived(i) <=> archive[s][n] # None
    BY <2>2, <2>3 DEF IsActive, IsArchived
  <2>5. /\ IsActive(i) \/ (IsArchived(i) /\ archive[s][n].status = "consolidated")
        /\ ~(IsActive(i) /\ IsArchived(i)) \/ AlreadyAppended(s)
        /\ (IF IsActive(i) THEN live[s][n] ELSE archive[s][n]).unit = u
    <3>1. ManifestIsPromotable(u, d.ids)
      BY <1>1 DEF WouldAccept
    <3> HIDE DEF i
    <3> QED
      BY <2>3, <3>1 DEF ManifestIsPromotable, ManifestIsFound, NotCrossed, RecordOf
  <2>6. ASSUME Single(s), live[s][n] # None, NEW m \in Numbers, live[s][m] # None, archive[s][m] # None,
               \A k \in Numbers : live[s][k] # None => <<s, k>> \in d.ids \/ live[s][k].status = "consolidated"
        PROVE  Copied(live[s], archive[s])
    <3> DEFINE ids == d.ids
    <3>1. AllDisposed(s, Pending(ids))
      <4> SUFFICES ASSUME NEW k \in Active(s), live[s][k].status \notin Disposed
                   PROVE  <<s, k>> \in Pending(ids)
        BY <2>2, <2>6 DEF AllDisposed
      <4>1. k \in Numbers /\ live[s][k] # None /\ live[s][k].status # "consolidated"
        BY <2>2 DEF Disposed
      <4> QED
        BY <2>6, <4>1 DEF Pending, IsActive
    <3>2. s \in ToArchive(ids)
      <4>1. CASE AllDisposed(s, {})
        BY <2>3, <2>4, <2>6, <4>1 DEF ToArchive
      <4>2. CASE ~AllDisposed(s, {})
        <5>1. PICK k \in Active(s) : live[s][k].status \notin Disposed
          BY <3>1, <4>2 DEF AllDisposed
        <5>2. <<s, k>> \in Pending(ids)
          BY <3>1, <5>1 DEF AllDisposed
        <5> QED
          BY <5>2 DEF ToArchive, ToFlip
      <4> QED
        BY <4>1, <4>2
    <3>3. archive[s] # Empty
      BY <2>6 DEF Empty
    <3>4. AlreadyAppended(s) \/ Disjoint(s)
      BY <1>1, <3>1, <3>2, <3>3 DEF WouldAccept, NoCollision
    <3>5. m \in Active(s) \cap Archived(s)
      BY <2>2, <2>6
    <3> QED
      BY <2>2, <3>4, <3>5 DEF Disjoint
  <2> QED
    BY <2>2, <2>4, <2>5, <2>6 DEF Disposed
<1>6. /\ \A s \in Sessions : liveCut[s] = 0 /\ archCut[s] = 0
      /\ ManifestIsPromotable(u, d.ids) /\ d.ids \subseteq Ids
  BY <1>1 DEF WouldAccept, DamageGate, Drafts
<1>7. Unambiguous(d.ids)
  <2>1. \A e \in doubles : <<e[1], e[2]>> \notin d.ids
    <3> SUFFICES ASSUME NEW e \in doubles, <<e[1], e[2]>> \in d.ids PROVE FALSE
      OBVIOUS
    <3> DEFINE i == <<e[1], e[2]>>
    <3>1. i \in d.ids /\ i[1] = e[1] /\ e[1] \in Sessions
      BY DEF TypeOK
    <3>2. IsDouble(i)
      BY <1>6, <3>1 DEF IsDouble
    <3> HIDE DEF i
    <3> QED
      BY <1>6, <3>1, <3>2 DEF ManifestIsPromotable
  <2>2. ASSUME NEW s \in Sessions, NEW n \in Numbers, <<s, n>> \in d.ids,
               live[s][n] # None, archive[s][n] # None
        PROVE  Single(s)
    <3> DEFINE i == <<s, n>>
    <3>1. i[1] = s /\ i[2] = n /\ i \in d.ids
      BY <2>2
    <3>2. /\ Active(s) = {k \in Numbers : live[s][k] # None}
          /\ Archived(s) = {k \in Numbers : archive[s][k] # None}
          /\ AlreadyAppended(s) => Single(s)
      BY <1>6, BothAreRead
    <3> HIDE DEF i
    <3>3. IsActive(i) /\ IsArchived(i)
      BY <2>2, <3>1, <3>2 DEF IsActive, IsArchived
    <3>4. AlreadyAppended(s)
      BY <1>6, <3>1, <3>3 DEF ManifestIsPromotable, NotCrossed
    <3> QED
      BY <3>2, <3>4
  <2> QED
    BY <2>1, <2>2 DEF Unambiguous
<1>8. ASSUME NEW s \in ToFlip(d.ids)
      PROVE  \E n \in Numbers : live[s][n] # None /\ archive[s][n] = None
  <2>1. PICK i \in d.ids : /\ i[1] = s /\ IsActive(i)
                           /\ live[i[1]][i[2]].status # "consolidated"
    BY DEF ToFlip, Pending
  <2>2. s \in Sessions /\ i[2] \in Numbers /\ i[2] \in Active(s)
    BY <1>6, <2>1 DEF Ids, IsActive
  <2>3. /\ Active(s) = {k \in Numbers : live[s][k] # None}
        /\ Archived(s) = {k \in Numbers : archive[s][k] # None}
    BY <1>6, <2>2, BothAreRead
  <2>4. live[s][i[2]] # None /\ live[s][i[2]] \in Records
    BY <2>2, <2>3 DEF TypeOK, Files
  <2>5. RecordOf(i) = live[s][i[2]] /\ RecordOf(i).status \notin {"archived", "superseded"}
    BY <1>6, <2>1 DEF RecordOf, ManifestIsPromotable
  <2>6. live[s][i[2]].status \notin Disposed
    BY <2>1, <2>5 DEF Disposed
  <2>7. ~AlreadyAppended(s)
    BY <2>2, <2>6 DEF AlreadyAppended, AllDisposed
  <2>8. ~IsArchived(i)
    BY <1>6, <2>1, <2>7 DEF ManifestIsPromotable, NotCrossed
  <2> QED
    BY <2>1, <2>2, <2>3, <2>4, <2>8 DEF IsArchived
<1> QED
  BY <1>3, <1>4, <1>5, <1>7, <1>8

\* What the run of a unit left, the next run accepts.
LEMMA NextRunAccepts ==
  ASSUME TypeOK, RunInv, ResumeInv, job # None,
         \A s \in Sessions : archCut[s] = 0,
         \A i \in job.draft.ids :
            /\ RecordOf(i).status \notin {"archived", "superseded"}
            /\ HalfArchived(i[1]) =>
                 \A n \in Active(i[1]) : live[i[1]][n].status \notin {"archived", "superseded"}
  PROVE  Accepts(job.unit)
<1> DEFINE d == job.draft  ids == d.ids
<1>1. d \in Drafts /\ ids \in SUBSET Ids /\ drafts[job.unit] = d /\ d # None
  BY JobType, NoneIsNothing DEF Jobs, Drafts, RunInv
<1>2. \A s \in Sessions :
        /\ liveCut[s] = 0 /\ archCut[s] = 0
        /\ Active(s) = {n \in Numbers : live[s][n] # None}
        /\ Archived(s) = {n \in Numbers : archive[s][n] # None}
        /\ AlreadyAppended(s) <=> Copied(live[s], archive[s]) /\ Single(s)
  BY BothAreRead DEF RunInv
<1>3. /\ DraftIsDistilled(d) /\ PageStands(d, job.page, pages[d.target])
      /\ \A s \in Sessions : Fits(s, ids, job.unit, live[s], archive[s])
      /\ Unambiguous(ids)
  BY DEF ResumeInv
<1>4. TargetFits(d, pages[d.target])
  BY <1>3 DEF PageStands, TargetFits, Promoted
<1>5. DamageGate
  BY <1>2 DEF DamageGate, ArchiveIsTrusted
<1> HIDE DEF d
<1>6. \A i \in ids :
        /\ i[1] \in Sessions /\ i[2] \in Numbers /\ i = <<i[1], i[2]>>
        /\ IsActive(i) <=> live[i[1]][i[2]] # None
        /\ IsArchived(i) <=> archive[i[1]][i[2]] # None
  BY <1>1, <1>2 DEF Ids, IsActive, IsArchived
<1>7. \A i \in ids : RecordOf(i).status \notin {"archived", "superseded"}
  BY DEF d
<1>8. ManifestIsPromotable(job.unit, ids)
  <2> SUFFICES ASSUME NEW i \in ids
               PROVE  /\ IsActive(i) \/ (IsArchived(i) /\ archive[i[1]][i[2]].status = "consolidated")
                      /\ ~(IsActive(i) /\ IsArchived(i)) \/ AlreadyAppended(i[1])
                      /\ ~IsDouble(i)
                      /\ RecordOf(i).unit = job.unit
    BY <1>7 DEF ManifestIsPromotable, ManifestIsFound, NotCrossed
  <2>1. Fits(i[1], ids, job.unit, live[i[1]], archive[i[1]])
    BY <1>3, <1>6
  <2>4. ~IsDouble(i)
    BY <1>3 DEF IsDouble, Unambiguous
  <2>2. CASE live[i[1]][i[2]] = None
    <3>1. /\ archive[i[1]][i[2]] # None /\ archive[i[1]][i[2]].unit = job.unit
          /\ archive[i[1]][i[2]].status \in Disposed
      BY <1>6, <2>1, <2>2 DEF Fits
    <3>2. RecordOf(i) = archive[i[1]][i[2]]
      BY <1>6, <2>2 DEF RecordOf
    <3> QED
      BY <1>6, <1>7, <2>2, <2>4, <3>1, <3>2 DEF Disposed
  <2>3. CASE live[i[1]][i[2]] # None
    <3>1. /\ live[i[1]][i[2]].unit = job.unit
          /\ archive[i[1]][i[2]] # None => Copied(live[i[1]], archive[i[1]])
      BY <1>6, <2>1, <2>3 DEF Fits
    <3>2. RecordOf(i) = live[i[1]][i[2]]
      BY <1>6, <2>3 DEF RecordOf
    <3>3. archive[i[1]][i[2]] # None => Single(i[1])
      BY <1>3, <1>6, <2>3 DEF Unambiguous
    <3> QED
      BY <1>2, <1>6, <2>3, <2>4, <3>1, <3>2, <3>3
  <2> QED
    BY <2>2, <2>3
<1>9. NoCollision(ids)
  <2> SUFFICES ASSUME NEW s \in ToArchive(ids), AllDisposed(s, Pending(ids)), archive[s] # Empty,
                      ~AlreadyAppended(s), ~Disjoint(s)
               PROVE  FALSE
    <3>1. \A s \in ToArchive(ids) : s \in Sessions
      BY <1>1, <1>6 DEF ToArchive, ToFlip, Pending
    <3> QED
      BY <1>2, <3>1 DEF NoCollision
  <2>1. PICK i \in ids : i[1] = s /\ IsActive(i)
    BY DEF ToArchive, ToFlip, Pending
  <2>2. s \in Sessions /\ i[2] \in Numbers /\ <<s, i[2]>> \in ids /\ live[s][i[2]] # None
    BY <1>6, <2>1
  <2>3. \E n \in Numbers : archive[s][n] # None
    <3>1. archive[s] \in Files
      BY <2>2 DEF TypeOK
    <3>2. archive[s] = [n \in Numbers |-> archive[s][n]]
      BY <3>1 DEF Files
    <3> QED
      BY <3>2 DEF Empty
  <2>4. PICK m \in Numbers : live[s][m] # None /\ archive[s][m] # None
    <3>1. Archived(s) # {}
      BY <1>2, <2>2, <2>3
    <3>2. Active(s) \cap Archived(s) # {}
      BY <3>1 DEF Disjoint
    <3> QED
      BY <1>2, <2>2, <3>2
  <2>9. Single(s)
    BY <1>2, <2>2 DEF AllDisposed
  <2>5. PICK n \in Numbers : live[s][n] # None /\ <<s, n>> \notin ids /\ live[s][n].status # "consolidated"
    BY <1>2, <1>3, <2>2, <2>4, <2>9 DEF Fits
  <2>6. n \in Active(s) /\ <<s, n>> \notin Pending(ids)
    BY <1>2, <2>2, <2>5 DEF Pending
  <2>7. live[s][n].status \in {"archived", "superseded"}
    BY <2>5, <2>6 DEF AllDisposed, Disposed
  <2>8. HalfArchived(s)
    BY <1>2, <2>2, <2>4 DEF HalfArchived
  <2> QED
    BY <2>1, <2>6, <2>7, <2>8 DEF d
<1> QED
  BY <1>1, <1>3, <1>4, <1>5, <1>8, <1>9 DEF Accepts, WouldAccept

\* While a run is under way its draft and its planned page stay, no fence is opened
\* or closed, and the page it is to write is as it was or as planned.
LEMMA RunStays ==
  ASSUME IInv, [Next]_vars, job # None, job' # None
  PROVE  /\ job'.unit = job.unit /\ job'.draft = job.draft /\ job'.page = job.page
         /\ archCut' = archCut /\ doubles' = doubles
         /\ job'.flips \subseteq job.flips
         /\ job'.at \in {"page", "flip", "write"} => job.at \in {"page", "flip", "write"}
         /\ pages'[job.draft.target] \in {pages[job.draft.target], job.page}
<1> USE DEF files
<1>1. job \in Jobs /\ TypeOK
  BY JobType DEF IInv
<1>2. CASE UNCHANGED <<job, doubles, archCut, pages>>
  BY <1>2
<1>3. CASE WritePage
  <2>1. job'.unit = job.unit /\ job'.draft = job.draft /\ job'.page = job.page
          /\ job'.flips = job.flips
    BY <1>1, <1>3 DEF WritePage, Jobs
  <2>2. pages'[job.draft.target] \in {pages[job.draft.target], job.page}
    BY <1>1, <1>3 DEF WritePage, TypeOK
  <2> QED
    BY <1>3, <2>1, <2>2 DEF WritePage
<1>4. CASE FlipsDone \/ ArchiveDone
  <2>1. job'.unit = job.unit /\ job'.draft = job.draft /\ job'.page = job.page
          /\ job'.flips = job.flips
    BY <1>1, <1>4 DEF FlipsDone, ArchiveDone, Jobs
  <2>2. job'.at \notin {"page", "flip", "write"}
    BY <1>1, <1>4 DEF FlipsDone, ArchiveDone, Jobs
  <2> QED
    BY <1>4, <2>1, <2>2 DEF FlipsDone, ArchiveDone
<1>5. ASSUME NEW s \in Sessions, FlipReads(s) \/ FlipWrites \/ Archive(s)
      PROVE  /\ job'.unit = job.unit /\ job'.draft = job.draft /\ job'.page = job.page
             /\ job'.flips \subseteq job.flips
             /\ job'.at \in {"page", "flip", "write"} => job.at \in {"page", "flip", "write"}
             /\ UNCHANGED <<doubles, archCut, pages>>
  <2>1. CASE FlipReads(s)
    BY <1>1, <2>1 DEF FlipReads, Jobs
  <2>2. CASE FlipWrites
    BY <1>1, <2>2 DEF FlipWrites, Jobs
  <2>3. CASE Archive(s)
    BY <1>1, <2>3 DEF Archive, Jobs
  <2> QED
    BY <1>5, <2>1, <2>2, <2>3
<1>6. CASE Remove
  <2>1. job'.unit = job.unit /\ job'.draft = job.draft /\ job'.page = job.page
          /\ job'.flips = job.flips
    BY <1>1, <1>6 DEF Remove, Jobs
  <2>2. job'.at = "archive"
    BY <1>1, <1>6 DEF Remove, Jobs
  <2> QED
    BY <1>6, <2>1, <2>2 DEF Remove
<1>7. \A s \in Sessions, n \in Numbers, status \in {"archived", "superseded"} :
        Shelve(s, n, status) => UNCHANGED <<job, doubles, archCut, pages>>
  BY DEF Shelve
<1>8. \A s \in Sessions, u \in Units : ~Capture(s, u)
  BY DEF Capture
<1>9. \A s \in Sessions, k \in 2 .. MaxDelta + 1 : ~Damage(s, k)
  BY DEF Damage
<1>10. \A s \in Sessions, place \in Places : ~(Repair(s) \/ Acknowledge(place, s))
  BY DEF Repair, Acknowledge
<1>11. \A u \in Units : ~(Draft(u) \/ Distil(u) \/ Revise(u) \/ Apply(u))
  BY DEF Draft, Distil, Revise, Apply
<1>12. ~(Finish \/ Crash)
  BY DEF Finish, Crash
<1>13. UNCHANGED vars => UNCHANGED <<job, doubles, archCut, pages>>
  BY DEF vars
<1>14. FlipWrites => \E s \in Sessions : FlipWrites
  BY <1>1 DEF FlipWrites, IInv, RunInv
<1> QED
  BY <1>2, <1>3, <1>4, <1>5, <1>6, <1>7, <1>8, <1>9, <1>10, <1>11, <1>12, <1>13, <1>14
  DEF Next, ByHand, Run, Places

\* What a run, or a person while it is under way, makes of the files of a session.
LEMMA RunMoves ==
  ASSUME IInv, [Next]_vars, job # None, job' # None, NEW s \in Sessions, archCut[s] = 0,
         FlipsAreNew
  PROVE  \/ Rewritten(s, job.draft.ids, live[s], archive[s], live'[s]) /\ archive'[s] = archive[s]
         \/ /\ MovedAway(live[s], archive[s], archive'[s])
            /\ \A n \in Numbers : live'[s][n] = None
         \/ AppendedTo(live[s], archive[s], archive'[s]) /\ live'[s] = live[s] /\ Single(s)
<1>1. job \in Jobs /\ live \in [Sessions -> Files] /\ archive \in [Sessions -> Files]
  BY JobType DEF IInv, TypeOK
<1>2. liveCut[s] = 0
  BY DEF IInv, RunInv
<1>3. /\ Active(s) = {n \in Numbers : live[s][n] # None}
      /\ Archived(s) = {n \in Numbers : archive[s][n] # None}
      /\ AlreadyAppended(s) <=> Copied(live[s], archive[s]) /\ Single(s)
  BY <1>2, BothAreRead
<1>4. \A r \in Records : \A status : /\ [r EXCEPT !.status = status].status = status
                                     /\ [r EXCEPT !.status = status].unit = r.unit
  BY DEF Records
<1>5. CASE live'[s] = live[s] /\ archive'[s] = archive[s]
  BY <1>5 DEF Rewritten
<1>6. ASSUME NEW t \in Sessions, NEW n \in Numbers, NEW status \in {"archived", "superseded"},
             Shelve(t, n, status)
      PROVE  Rewritten(s, job.draft.ids, live[s], archive[s], live'[s]) /\ archive'[s] = archive[s]
  <2>1. /\ archive' = archive /\ n \in Active(t) /\ live[t][n].status \in Open
        /\ live' = [live EXCEPT ![t][n].status = status]
    BY <1>6 DEF Shelve
  <2>2. CASE t # s
    BY <1>1, <2>1, <2>2 DEF Rewritten
  <2>3. CASE t = s
    <3>1. live[s][n] # None /\ live[s][n] \in Records
      BY <1>1, <1>3, <2>1, <2>3 DEF Files
    <3>2. live'[s][n] = [live[s][n] EXCEPT !.status = status]
      BY <1>1, <2>1, <2>3 DEF Files
    <3>3. \A m \in Numbers : m # n => live'[s][m] = live[s][m]
      BY <1>1, <2>1, <2>3 DEF Files
    <3>4. live'[s][n] # None /\ live'[s][n].unit = live[s][n].unit /\ live'[s][n].status = status
      <4>1. live'[s][n] \in Records
        BY <3>1, <3>2 DEF Records, Disposed
      <4> QED
        BY <1>4, <3>1, <3>2, <4>1, NoneIsNothing
    <3>5. ~Copied(live[s], archive[s])
      BY <2>1, <2>3, <3>1 DEF Copied, Open, Disposed
    <3>6. status # "consolidated"
      OBVIOUS
    <3> QED
      BY <2>1, <2>3, <3>1, <3>3, <3>4, <3>5, <3>6 DEF Rewritten
  <2> QED
    BY <2>2, <2>3
<1>7. CASE FlipWrites
  <2>1. /\ job.at = "write" /\ archive' = archive /\ job.file \in Sessions /\ job.file \in job.flips
        /\ \A t \in Sessions, n \in Numbers :
             \/ live'[t][n] = live[t][n]
             \/ /\ t = job.file /\ live[t][n] \in Records /\ live'[t][n] \in Records
                /\ live'[t][n].unit = live[t][n].unit
                /\ \/ live'[t][n].status \in Open
                   \/ live'[t][n].status = "consolidated" /\ <<t, n>> \in job.draft.ids
    BY <1>7, FlipMoves DEF IInv
  <2>2. CASE s # job.file
    BY <2>1, <2>2 DEF Rewritten
  <2>3. CASE s = job.file
    <3>1. PICK n \in Numbers : live[s][n] # None /\ archive[s][n] = None
      BY <2>1, <2>3 DEF FlipsAreNew
    <3>2. ~Copied(live[s], archive[s])
      BY <3>1 DEF Copied
    <3>3. \A m \in Numbers :
             \/ live'[s][m] = live[s][m]
             \/ /\ live[s][m] # None /\ live'[s][m] # None /\ live'[s][m].unit = live[s][m].unit
                /\ <<s, m>> \in job.draft.ids \/ live'[s][m].status # "consolidated"
      BY <2>1, NoneIsNothing DEF Open
    <3> QED
      BY <2>1, <3>2, <3>3 DEF Rewritten
  <2> QED
    BY <2>2, <2>3
<1>8. ASSUME NEW t \in Sessions, Archive(t), t # s
      PROVE  live'[s] = live[s] /\ archive'[s] = archive[s]
  BY <1>1, <1>8 DEF Archive
<1>9. CASE Archive(s)
  <2>1. CASE UNCHANGED <<live, archive>>
    BY <1>5, <2>1
  <2>2. CASE /\ AllDisposed(s, {}) /\ archive[s] = Empty
             /\ archive' = [archive EXCEPT ![s] = live[s]]
             /\ live' = [live EXCEPT ![s] = Empty]
    <3>1. live'[s] = Empty /\ archive'[s] = live[s]
      BY <1>1, <2>2
    <3>2. \A n \in Numbers : live[s][n] # None => live[s][n].status \in Disposed
      BY <1>3, <2>2 DEF AllDisposed
    <3> QED
      BY <2>2, <3>1, <3>2 DEF MovedAway, Empty
  <2>3. CASE /\ AlreadyAppended(s) /\ archive' = archive
             /\ live' = [live EXCEPT ![s] = Empty]
    <3>1. live'[s] = Empty
      BY <1>1, <2>3
    <3> QED
      BY <1>3, <2>3, <3>1 DEF MovedAway, Copied, Empty
  <2>4. CASE /\ AllDisposed(s, {}) /\ Disjoint(s)
             /\ archive' = [archive EXCEPT ![s] = Joined(s)] /\ live' = live
    <3>1. \A n \in Numbers : archive'[s][n] = IF archive[s][n] # None THEN archive[s][n] ELSE live[s][n]
      BY <1>1, <2>4 DEF Joined
    <3>2. \A n \in Numbers : live[s][n] # None => live[s][n].status \in Disposed /\ archive[s][n] = None
      BY <1>3, <2>4 DEF AllDisposed, Disjoint
    <3>3. \E n \in Numbers : live[s][n] # None
      BY <1>3, <2>4 DEF AllDisposed
    <3>4. MovedAway(live[s], archive[s], archive'[s])
      <4> SUFFICES ASSUME NEW n \in Numbers
                   PROVE  IF live[s][n] # None
                          THEN live[s][n].status \in Disposed /\ archive'[s][n] = live[s][n]
                          ELSE archive'[s][n] = archive[s][n]
        BY DEF MovedAway
      <4> QED
        BY <3>1, <3>2
    <3>5. Single(s)
      BY <1>2, <2>4 DEF AllDisposed
    <3> QED
      BY <2>4, <3>2, <3>3, <3>4, <3>5 DEF AppendedTo
  <2> QED
    BY <1>9, <2>1, <2>2, <2>3, <2>4 DEF Archive
<1>10. CASE Remove
  <2>1. job.at = "remove" /\ live' = [live EXCEPT ![job.file] = Empty] /\ archive' = archive
    BY <1>10 DEF Remove
  <2>2. CASE job.file = s
    <3>1. \A n \in Numbers : live[s][n] # None => live[s][n].status \in Disposed /\ archive[s][n] = live[s][n]
      BY <2>1, <2>2 DEF IInv, RunInv
    <3>2. live'[s] = Empty
      BY <1>1, <2>1, <2>2
    <3> QED
      BY <2>1, <3>1, <3>2 DEF MovedAway, Empty
  <2>3. CASE job.file # s
    <3>1. live'[s] = live[s]
      BY <1>1, <2>1, <2>3
    <3> QED
      BY <1>5, <2>1, <3>1
  <2> QED
    BY <2>2, <2>3
<1>11. \A t \in Sessions, u \in Units : ~Capture(t, u)
  BY DEF Capture
<1> QED
  BY <1>5, <1>6, <1>7, <1>8, <1>9, <1>10, <1>11, WhoWrites

\* A run that has files to flip leaves the archive alone.
LEMMA FlipsOnly ==
  ASSUME [Next]_vars, job # None, job.at \in {"page", "flip", "write"}
  PROVE  archive' = archive
<1>1. \A s \in Sessions : ~Archive(s)
  BY DEF Archive
<1>2. ~Remove
  BY DEF Remove
<1>3. \A s \in Sessions, u \in Units : Capture(s, u) => archive' = archive
  BY DEF Capture
<1>4. \A s \in Sessions, n \in Numbers, status \in {"archived", "superseded"} :
        Shelve(s, n, status) => archive' = archive
  BY DEF Shelve
<1>5. FlipWrites => archive' = archive
  BY DEF FlipWrites
<1> QED
  BY <1>1, <1>2, <1>3, <1>4, <1>5, WhoWrites

\* Every step keeps what the next run asks for.
LEMMA ResumeStep ==
  ASSUME IInv, ResumeInv, [Next]_vars
  PROVE  ResumeInv'
<1>1. CASE job' = None
  BY <1>1 DEF ResumeInv
<1>2. CASE job = None /\ job' # None
  <2>1. PICK u \in Units : Apply(u)
    <3>1. job' # job
      BY <1>2
    <3>2. \A s \in Sessions, u \in Units : ~Capture(s, u)
      BY <3>1 DEF Capture
    <3>3. \A s \in Sessions, n \in Numbers, status \in {"archived", "superseded"} : ~Shelve(s, n, status)
      BY <3>1 DEF Shelve
    <3>4. \A s \in Sessions, k \in 2 .. MaxDelta + 1 : ~Damage(s, k)
      BY <3>1 DEF Damage
    <3>5. \A s \in Sessions, place \in Places :
            ~(Repair(s) \/ Acknowledge(place, s) \/ FlipReads(s) \/ Archive(s))
      BY <1>2, <3>1 DEF Repair, Acknowledge, FlipReads, Archive
    <3>6. \A u \in Units : ~(Draft(u) \/ Distil(u) \/ Revise(u))
      BY <3>1 DEF Draft, Distil, Revise
    <3>7. ~(WritePage \/ FlipWrites \/ FlipsDone \/ Remove \/ ArchiveDone \/ Finish \/ Crash)
      BY <1>2 DEF WritePage, FlipWrites, FlipsDone, Remove, ArchiveDone, Finish, Crash
    <3>8. ~UNCHANGED vars
      BY <3>1 DEF vars
    <3> QED
      BY <3>2, <3>3, <3>4, <3>5, <3>6, <3>7, <3>8 DEF Next, ByHand, Run, Places
  <2> QED
    BY <2>1, BeginFits DEF IInv
<1>3. CASE job # None /\ job' # None
  <2>1. /\ job'.unit = job.unit /\ job'.draft = job.draft /\ job'.page = job.page
        /\ archCut' = archCut /\ doubles' = doubles
        /\ job'.flips \subseteq job.flips
        /\ job'.at \in {"page", "flip", "write"} => job.at \in {"page", "flip", "write"}
        /\ pages'[job.draft.target] \in {pages[job.draft.target], job.page}
    BY <1>3, RunStays
  <2> SUFFICES ASSUME \A s \in Sessions : archCut[s] = 0
               PROVE  /\ DraftIsDistilled(job.draft)
                      /\ PageStands(job.draft, job.page, pages'[job.draft.target])
                      /\ \A s \in Sessions : Fits(s, job.draft.ids, job.unit, live'[s], archive'[s])
                      /\ Unambiguous(job.draft.ids)'
                      /\ FlipsAreNew'
    <3>1. ASSUME NEW s \in Sessions,
                 Fits(s, job.draft.ids, job.unit, live'[s], archive'[s])
          PROVE  Fits(s, job.draft.ids, job.unit, live[s], archive[s])'
      BY <2>1, <3>1 DEF Fits, Single, Copied
    <3> QED
      BY <2>1, <3>1 DEF ResumeInv, DraftIsDistilled
  <2>2. /\ DraftIsDistilled(job.draft)
        /\ PageStands(job.draft, job.page, pages[job.draft.target])
        /\ \A s \in Sessions : Fits(s, job.draft.ids, job.unit, live[s], archive[s])
        /\ Unambiguous(job.draft.ids)
        /\ FlipsAreNew
    BY <1>3 DEF ResumeInv
  <2>3. PageStands(job.draft, job.page, pages'[job.draft.target])
    <3>1. job.page # None
      <4>1. job.page \in Pages
        BY <1>3, JobType DEF IInv, Jobs
      <4> QED
        BY <4>1, NoneIsNothing
    <3> QED
      BY <2>1, <2>2, <3>1 DEF PageStands
  <2>4. ASSUME NEW s \in Sessions
        PROVE  \/ Rewritten(s, job.draft.ids, live[s], archive[s], live'[s]) /\ archive'[s] = archive[s]
               \/ /\ MovedAway(live[s], archive[s], archive'[s])
                  /\ \A n \in Numbers : live'[s][n] = None
               \/ AppendedTo(live[s], archive[s], archive'[s]) /\ live'[s] = live[s] /\ Single(s)
    BY <1>3, <2>2, RunMoves
  <2>5. ASSUME NEW s \in Sessions
        PROVE  Fits(s, job.draft.ids, job.unit, live'[s], archive'[s])
    BY <2>2, <2>4, FitsStays
  <2>6. Unambiguous(job.draft.ids)'
    <3> SUFFICES ASSUME NEW s \in Sessions, NEW n \in Numbers, <<s, n>> \in job.draft.ids,
                        live'[s][n] # None, archive'[s][n] # None
                 PROVE  Single(s)
      BY <2>1, <2>2 DEF Unambiguous, Single
    <3>1. CASE Rewritten(s, job.draft.ids, live[s], archive[s], live'[s]) /\ archive'[s] = archive[s]
      BY <2>2, <3>1 DEF Rewritten, Unambiguous
    <3> QED
      BY <2>4, <3>1
  <2>7. FlipsAreNew'
    <3> SUFFICES ASSUME job'.at \in {"page", "flip", "write"}, NEW s \in job'.flips
                 PROVE  \E n \in Numbers : live'[s][n] # None /\ archive'[s][n] = None
      BY DEF FlipsAreNew
    <3>1. s \in job.flips /\ s \in Sessions /\ job.at \in {"page", "flip", "write"}
      BY <1>3, <2>1, JobType DEF IInv, Jobs
    <3>2. PICK n \in Numbers : live[s][n] # None /\ archive[s][n] = None
      BY <2>2, <3>1 DEF FlipsAreNew
    <3>3. archive' = archive
      BY <1>3, <3>1, FlipsOnly
    <3>4. ~(MovedAway(live[s], archive[s], archive'[s]))
      BY <3>2, <3>3 DEF MovedAway
    <3>5. Rewritten(s, job.draft.ids, live[s], archive[s], live'[s])
      BY <2>4, <3>1, <3>4 DEF AppendedTo
    <3> QED
      BY <3>2, <3>3, <3>5 DEF Rewritten
  <2> QED
    BY <2>2, <2>3, <2>5, <2>6, <2>7
<1> QED
  BY <1>1, <1>2, <1>3

\* What apply accepts depends on the files, the pages and the drafts alone.
LEMMA SameFiles ==
  ASSUME UNCHANGED <<files, pages, drafts>>, NEW u \in Units
  PROVE  Accepts(u)' = Accepts(u)
<1> USE DEF files
<1>1. \A s : Active(s)' = Active(s) /\ Archived(s)' = Archived(s)
  BY DEF Active, Archived, Parsed
<1>2. \A s : AlreadyAppended(s)' = AlreadyAppended(s) /\ Disjoint(s)' = Disjoint(s)
  BY <1>1 DEF AlreadyAppended, AllDisposed, Single, Disjoint
<1>3. \A i : /\ IsActive(i)' = IsActive(i) /\ IsArchived(i)' = IsArchived(i)
            /\ RecordOf(i)' = RecordOf(i) /\ IsDouble(i)' = IsDouble(i)
  BY <1>1 DEF IsActive, IsArchived, RecordOf, IsDouble
<1>4. \A s, p : AllDisposed(s, p)' = AllDisposed(s, p)
  BY <1>1 DEF AllDisposed, Single
<1>5. \A ids : Pending(ids)' = Pending(ids)
  BY <1>3 DEF Pending
<1>6. \A ids : ToArchive(ids)' = ToArchive(ids)
  BY <1>3, <1>4, <1>5 DEF ToArchive, ToFlip
<1>7. \A ids : NoCollision(ids)' = NoCollision(ids)
  BY <1>2, <1>4, <1>5, <1>6 DEF NoCollision
<1>8. \A v, ids : ManifestIsPromotable(v, ids)' = ManifestIsPromotable(v, ids)
  BY <1>2, <1>3 DEF ManifestIsPromotable, ManifestIsFound, NotCrossed
<1>9. DamageGate' = DamageGate
  BY DEF DamageGate, ArchiveIsTrusted
<1>10. \A v, e, page : WouldAccept(v, e, page)' = WouldAccept(v, e, page)
  BY <1>7, <1>8, <1>9 DEF WouldAccept
<1> QED
  BY <1>10 DEF Accepts

\* Wherever a run is killed, the next run of its unit is accepted, unless one of its
\* deltas was shelved meanwhile, or another one of a file that an earlier run left half
\* archived, or a fence cuts an archive file (the idempotent resume of consolidate.py).
THEOREM ResumeStands == Spec => ResumeIsAccepted
<1> DEFINE A ==
      \A u \in Units :
        /\ Crash /\ job.unit = u
        /\ \A s \in Sessions : archCut[s] = 0
        /\ \A i \in job.draft.ids :
             /\ RecordOf(i).status \notin {"archived", "superseded"}
             /\ HalfArchived(i[1]) =>
                  \A n \in Active(i[1]) : live[i[1]][n].status \notin {"archived", "superseded"}
        => Accepts(u)'
<1>1. Init => ResumeInv
  BY DEF Init, ResumeInv
<1>2. IInv /\ ResumeInv /\ [Next]_vars => ResumeInv'
  BY ResumeStep
<1>3. ASSUME IInv, ResumeInv, NEW u \in Units, Crash, job.unit = u,
             \A s \in Sessions : archCut[s] = 0,
             \A i \in job.draft.ids :
               /\ RecordOf(i).status \notin {"archived", "superseded"}
               /\ HalfArchived(i[1]) =>
                    \A n \in Active(i[1]) : live[i[1]][n].status \notin {"archived", "superseded"}
      PROVE  Accepts(u)'
  <2>1. job # None /\ UNCHANGED <<files, pages, drafts>>
    BY <1>3 DEF Crash, files
  <2>2. Accepts(u)
    BY <1>3, <2>1, NextRunAccepts DEF IInv
  <2>3. Accepts(u)' = Accepts(u)
    BY <2>1, SameFiles
  <2> QED
    BY <2>2, <2>3
<1>4. IInv /\ ResumeInv => A
  BY <1>3
<1>5. IInv /\ ResumeInv => [A]_vars
  BY <1>4
<1>6. Spec => []ResumeInv
  BY <1>1, <1>2, Invariance, PTL DEF Spec
<1> QED
  BY <1>5, <1>6, Invariance, PTL DEF ResumeIsAccepted
=============================================================================
