----------------------------- MODULE Consolidate -----------------------------
(***************************************************************************)
(* Promotion of knowledge deltas into curated pages:                       *)
(* skills/knowledge-fragment/scripts/consolidate.py, with the allocation   *)
(* of ids and the damage rules of deltas-for.py.                           *)
(*                                                                         *)
(* A session captures deltas into its fragment file, live/<session>.md.    *)
(* --draft gathers the outstanding deltas of a unit into a draft, an agent *)
(* distils it, and --apply writes the page, marks the deltas consolidated  *)
(* file by file, moves files without outstanding deltas to the archive and *)
(* removes the draft.  Each write is a step of its own; a run may stop     *)
(* between any two of them and the next run starts from the files alone.   *)
(*                                                                         *)
(* The module docstring assumes a single writer.  The one edit modelled    *)
(* while apply runs is a disposition, which the code guards against where  *)
(* it writes; the other edits happen while no apply runs.                  *)
(***************************************************************************)
EXTENDS Naturals, FiniteSets, FiniteSetsExt

CONSTANTS
  Sessions,    \* session ids, the names of fragment files
  Units,       \* unit ids; the page a unit is routed to bears its name
  MaxDelta,    \* bound on the number in a delta id <session>-NNN
  MaxEdits,    \* bound on hand edits
  MaxCrashes,  \* bound on runs of apply that are killed
  Start,       \* the fragment directories the project may begin with
  None         \* no record, no page, no draft, no run

ASSUME ConsolidateConstants ==
  /\ MaxDelta \in Nat /\ MaxEdits \in Nat /\ MaxCrashes \in Nat

Numbers == 1..MaxDelta
Ids == Sessions \X Numbers
Open == {"provisional", "accepted"}
Disposed == {"consolidated", "archived", "superseded"}
Bodies == {"first", "again", "edited"}
Texts == {"distilled", "revised"}
Records == [unit : Units, status : Open \cup Disposed, body : Bodies]
Files == [Numbers -> {None} \cup Records]
Pages == [ids : SUBSET Ids, text : Texts]
Modes == {"create", "update-existing"}
Drafts == [ids : SUBSET Ids, banner : {"kept", "gone"}, mode : Modes,
           target : Units, text : Texts]
Phases == {"page", "flip", "write", "archive", "remove", "verify"}
Jobs == [unit : Units, draft : Drafts, page : Pages, flips : SUBSET Sessions,
         archives : SUBSET Sessions, file : {None} \cup Sessions, text : Files, at : Phases,
         issue : {"no", "yes"}]
Places == {"live", "archive"}

ASSUME NoneIsNothing ==
  None \notin Records /\ None \notin Pages /\ None \notin Drafts /\ None \notin Jobs
    /\ None \notin Sessions /\ None \notin Texts

\* The project begins with files whose deltas are all outstanding.
ASSUME StartIsOpen ==
  \A d \in Start :
    /\ d \in [Sessions -> Files]
    /\ \A s \in Sessions, n \in Numbers : d[s][n] # None => d[s][n].status \in Open

VARIABLES
  live,      \* _fragments/<session>.md: the records by number
  doubles,   \* records at the end of live files under a number that live has already
  archive,   \* _fragments/_archive/<session>.md
  liveCut,   \* 0, or the first number that an unclosed fence hides from the parser
  archCut,   \* the same of the archive file
  acked,     \* the files that quarantine.json holds the present digest of
  pages,     \* the curated pages
  drafts,    \* _fragments/_drafts/<unit>.md
  job,       \* the run of apply that is under way, or None
  captured,  \* history: every delta captured, as <<session, number, body>>
  edits,     \* bound: hand edits so far
  crashes    \* bound: crashes so far

files == <<live, doubles, archive, liveCut, archCut, acked>>
vars == <<live, doubles, archive, liveCut, archCut, acked, pages, drafts, job, captured,
          edits, crashes>>

Empty == [n \in Numbers |-> None]

\* What parse_fragment returns of a file: the records no unclosed fence absorbs.
Parsed(f, cut) == {n \in Numbers : f[n] # None /\ (cut = 0 \/ n < cut)}
Active(s) == Parsed(live[s], liveCut[s])
Archived(s) == Parsed(archive[s], archCut[s])

\* A second record of a number is outstanding, and at the end of its file: an
\* unclosed fence hides it.
Single(s) == \A d \in doubles : d[1] # s

\* all_disposed, with the ids a caller is about to consolidate.
AllDisposed(s, pending) ==
  /\ Active(s) # {}
  /\ Single(s) \/ liveCut[s] # 0
  /\ \A n \in Active(s) : live[s][n].status \in Disposed \/ <<s, n>> \in pending

\* snapshot_scan: a damaged file blocks unless its present bytes are acknowledged.
LiveIsTrusted == \A s \in Sessions : liveCut[s] = 0 \/ <<"live", s>> \in acked
ArchiveIsTrusted == \A s \in Sessions : archCut[s] = 0 \/ <<"archive", s>> \in acked

\* A digest covers one byte state of a file.
Rewrites(place, s) == acked' = acked \ {<<place, s>>}

-----------------------------------------------------------------------------
(* Capture and hand edits.                                                 *)

\* Mutant of NextNumber: the archive is not looked at.
NextNumberOfLive(s) == IF Active(s) = {} THEN 1 ELSE Max(Active(s)) + 1

\* next_id: one above every number seen, live and archived.
NextNumber(s) == IF Active(s) \cup Archived(s) = {} THEN 1
                 ELSE Max(Active(s) \cup Archived(s)) + 1

\* The agent appends the delta to the session's file; an unclosed fence in the file
\* absorbs it, and hides the record that has the number already.  Provisional and
\* accepted are one to every reader (Open), so that one of them will do.
Capture(s, u) ==
  /\ job = None
  /\ LiveIsTrusted /\ ArchiveIsTrusted
  /\ NextNumber(s) \in Numbers
  /\ LET n == NextNumber(s)
         body == IF \E b \in Bodies : <<s, n, b>> \in captured THEN "again" ELSE "first"
         record == [unit |-> u, status |-> "provisional", body |-> body]
     IN /\ IF live[s][n] = None
           THEN live' = [live EXCEPT ![s][n] = record] /\ UNCHANGED doubles
           ELSE doubles' = doubles \cup {<<s, n, record>>} /\ UNCHANGED live
        /\ liveCut' = [liveCut EXCEPT ![s] = IF n < @ THEN n ELSE @]
        /\ captured' = captured \cup {<<s, n, body>>}
  /\ Rewrites("live", s)
  /\ UNCHANGED <<archive, archCut, pages, drafts, job, edits, crashes>>

Edit == edits < MaxEdits /\ edits' = edits + 1

\* A delta is deliberately not promoted, at any moment.
Shelve(s, n, status) ==
  /\ Edit
  /\ n \in Active(s) /\ live[s][n].status \in Open
  /\ live' = [live EXCEPT ![s][n].status = status]
  /\ Rewrites("live", s)
  /\ UNCHANGED <<doubles, archive, liveCut, archCut, pages, drafts, job, captured, crashes>>

\* An edit opens a fence after the record before k: the rest is absorbed.
Damage(s, k) ==
  /\ Edit /\ job = None
  /\ \/ /\ live[s] # Empty /\ liveCut[s] = 0
        /\ liveCut' = [liveCut EXCEPT ![s] = k]
        /\ Rewrites("live", s)
        /\ UNCHANGED archCut
     \/ /\ archive[s] # Empty /\ archCut[s] = 0
        /\ archCut' = [archCut EXCEPT ![s] = k]
        /\ Rewrites("archive", s)
        /\ UNCHANGED liveCut
  /\ UNCHANGED <<live, doubles, archive, pages, drafts, job, captured, crashes>>

Repair(s) ==
  /\ job = None
  /\ liveCut[s] # 0 \/ archCut[s] # 0
  /\ liveCut' = [liveCut EXCEPT ![s] = 0]
  /\ archCut' = [archCut EXCEPT ![s] = 0]
  /\ acked' = acked \ (Places \X {s})
  /\ UNCHANGED <<live, doubles, archive, pages, drafts, job, captured, edits, crashes>>

\* A person inspects a damaged file, live or archived, and records its digest.
Acknowledge(place, s) ==
  /\ job = None
  /\ (IF place = "live" THEN liveCut ELSE archCut)[s] # 0
  /\ <<place, s>> \notin acked
  /\ acked' = acked \cup {<<place, s>>}
  /\ UNCHANGED <<live, doubles, archive, liveCut, archCut, pages, drafts, job, captured,
                 edits, crashes>>

-----------------------------------------------------------------------------
(* --draft, and what the agent makes of it.                                *)

\* A number that two records of one active file bear.
IsDouble(i) == liveCut[i[1]] = 0 /\ \E d \in doubles : <<d[1], d[2]>> = i

\* gather: the outstanding deltas of a unit in the active files.
Outstanding(u) ==
  {i \in Ids :
     \/ /\ i[2] \in Active(i[1])
        /\ live[i[1]][i[2]].unit = u /\ live[i[1]][i[2]].status \in Open
     \/ IsDouble(i) /\ \E d \in doubles : <<d[1], d[2]>> = i /\ d[3].unit = u}

\* route: the page that bears the unit's name if there is one, else a new page.
Route(u) == IF pages[u] = None THEN "create" ELSE "update-existing"

Draft(u) ==
  /\ job = None
  /\ Outstanding(u) # {}
  /\ \/ drafts[u] = None /\ UNCHANGED edits
     \/ drafts[u] # None /\ Edit  \* --force
  /\ drafts' = [drafts EXCEPT ![u] =
                  [ids |-> Outstanding(u), banner |-> "kept", mode |-> Route(u),
                   target |-> u, text |-> "distilled"]]
  /\ UNCHANGED <<files, pages, job, captured, crashes>>

\* The agent writes the prose, may prune the manifest, may choose another page
\* (into which it merges the prose by hand), and removes the banner.
Distil(u) ==
  /\ job = None
  /\ drafts[u] # None /\ drafts[u].banner = "kept"
  /\ \E ids \in SUBSET drafts[u].ids :
       /\ ids # {}
       /\ \/ drafts' = [drafts EXCEPT ![u].banner = "gone", ![u].ids = ids]
          \/ \E t \in Units \ {u} :
               /\ pages[t] # None
               /\ drafts' = [drafts EXCEPT ![u].banner = "gone", ![u].ids = ids,
                                           ![u].mode = "update-existing", ![u].target = t]
  /\ UNCHANGED <<files, pages, job, captured, edits, crashes>>

\* A second edit: other prose, or the prose is merged by hand after all.
Revise(u) ==
  /\ Edit /\ job = None
  /\ drafts[u] # None /\ drafts[u].banner = "gone"
  /\ \/ drafts' = [drafts EXCEPT ![u].text = "revised"]
     \/ drafts' = [drafts EXCEPT ![u].mode = "update-existing"]
  /\ UNCHANGED <<files, pages, job, captured, crashes>>

-----------------------------------------------------------------------------
(* apply_preflight: every check apply makes before its first write.        *)

\* Mutant of Promoted: a page that exists is not told which deltas it holds.
PromotedUnmerged(d, page) ==
  IF d.mode = "create" THEN [ids |-> d.ids, text |-> d.text] ELSE page

\* create_text_from_draft, or the target with the manifest merged in.
Promoted(d, page) ==
  IF d.mode = "create" THEN [ids |-> d.ids, text |-> d.text]
  ELSE [page EXCEPT !.ids = @ \cup d.ids]

DraftIsDistilled(d) == d.banner = "gone" /\ d.ids # {}

\* Mutant of TargetFits: a page of an earlier run is a conflict.
TargetFitsOnce(d, page) == IF d.mode = "create" THEN page = None ELSE page # None

\* A new page, or one that an earlier run wrote byte for byte; or a page to add to.
TargetFits(d, page) ==
  IF d.mode = "create" THEN page \in {None, Promoted(d, page)} ELSE page # None

\* damage_gate: no escape for the working set, acknowledgements for the archive alone.
DamageGate == (\A s \in Sessions : liveCut[s] = 0) /\ ArchiveIsTrusted

IsActive(i) == i[2] \in Active(i[1])
IsArchived(i) == i[2] \in Archived(i[1])

\* fragment_already_appended: a prior run appended the active file to its twin
\* in the archive and stopped before it removed the active file.
AlreadyAppended(s) ==
  /\ archCut[s] = 0
  /\ AllDisposed(s, {})
  /\ \A n \in Active(s) : archive[s][n] = live[s][n]

\* Mutant of Disjoint: the file of the same session is always appended.
DisjointAlways(s) == Archived(s) # {}

\* same_session_disjoint: the session continued after its file was archived.
Disjoint(s) == Archived(s) # {} /\ Active(s) \cap Archived(s) = {}

\* Every id is active, or was archived as consolidated by an earlier run.
ManifestIsFound(ids) ==
  \A i \in ids :
    \/ IsActive(i)
    \/ IsArchived(i) /\ archive[i[1]][i[2]].status = "consolidated"

\* cross_archive_dups: no id names a delta both here and there.
NotCrossed(ids) ==
  \A i \in ids : ~(IsActive(i) /\ IsArchived(i)) \/ AlreadyAppended(i[1])

RecordOf(i) == IF IsActive(i) THEN live[i[1]][i[2]] ELSE archive[i[1]][i[2]]

ManifestIsPromotable(u, ids) ==
  /\ ManifestIsFound(ids) /\ NotCrossed(ids)
  /\ \A i \in ids : ~IsDouble(i)  \* dups
  /\ \A i \in ids : RecordOf(i).unit = u /\ RecordOf(i).status \notin {"archived", "superseded"}

\* by_file, and archive_paths with the files an earlier run left fully disposed.
Pending(ids) == {i \in ids : IsActive(i) /\ live[i[1]][i[2]].status # "consolidated"}
ToFlip(ids) == {i[1] : i \in Pending(ids)}
ToArchive(ids) == ToFlip(ids) \cup {s \in {i[1] : i \in {j \in ids : IsActive(j)}} : AllDisposed(s, {})}

\* Mutant of NoCollision: collisions are met when the file moves.
NoCollisionLater(ids) == ids \subseteq Ids

\* The archive preflight: a file that would move meets no twin, or one it may join.
NoCollision(ids) ==
  \A s \in ToArchive(ids) :
    AllDisposed(s, Pending(ids)) /\ archive[s] # Empty =>
      archCut[s] = 0 /\ (AlreadyAppended(s) \/ Disjoint(s))

\* The checks with a draft and a target page that need not be those on disk.
WouldAccept(u, d, page) ==
  /\ DraftIsDistilled(d)
  /\ TargetFits(d, page)
  /\ DamageGate
  /\ ManifestIsPromotable(u, d.ids)
  /\ NoCollision(d.ids)

Accepts(u) == drafts[u] # None /\ WouldAccept(u, drafts[u], pages[drafts[u].target])

-----------------------------------------------------------------------------
(* apply.                                                                  *)

\* Mutant of Begin: the deltas are flipped before the page is written.
BeginFlipping(u) ==
  LET d == drafts[u] IN
  [unit |-> u, draft |-> d, page |-> Promoted(d, pages[d.target]), flips |-> ToFlip(d.ids),
   archives |-> ToArchive(d.ids), file |-> None, text |-> Empty, at |-> "flip", issue |-> "no"]

Begin(u) ==
  LET d == drafts[u] IN
  [unit |-> u, draft |-> d, page |-> Promoted(d, pages[d.target]), flips |-> ToFlip(d.ids),
   archives |-> ToArchive(d.ids), file |-> None, text |-> Empty, at |-> "page", issue |-> "no"]

\* A refusal changes nothing and is no step.
Apply(u) ==
  /\ job = None
  /\ Accepts(u)
  /\ job' = Begin(u)
  /\ UNCHANGED <<files, pages, drafts, captured, edits, crashes>>

\* 1. The page; one that is already there as planned is left alone.
WritePage ==
  /\ job # None /\ job.at = "page"
  /\ pages' = [pages EXCEPT ![job.draft.target] = job.page]
  /\ job' = [job EXCEPT !.at = "flip"]
  /\ UNCHANGED <<files, drafts, captured, edits, crashes>>

\* Mutant of Flipped: the status line of a manifest id is rewritten whatever it says.
FlippedBlindly(f, s, ids) ==
  [n \in Numbers |-> IF f[n] # None /\ <<s, n>> \in ids
                     THEN [f[n] EXCEPT !.status = "consolidated"] ELSE f[n]]

\* Mutant of Flipped: a status outside the vocabulary.
FlippedToPromoted(f, s, ids) ==
  [n \in Numbers |-> IF f[n] # None /\ <<s, n>> \in ids /\ f[n].status \in Open
                     THEN [f[n] EXCEPT !.status = "promoted"] ELSE f[n]]

\* flip_statuses: what was disposed of since the preflight is left alone.
Flipped(f, s, ids) ==
  [n \in Numbers |-> IF f[n] # None /\ <<s, n>> \in ids /\ f[n].status \in Open
                     THEN [f[n] EXCEPT !.status = "consolidated"] ELSE f[n]]

\* not_consolidated: the file is read again, whatever the flip reported.
Unflipped(f, s, ids) == {n \in Numbers : f[n] # None /\ <<s, n>> \in ids /\ f[n].status # "consolidated"}

\* 2. One file.  flip_statuses reads it and builds the new text of it.
FlipReads(s) ==
  /\ job # None /\ job.at = "flip" /\ s \in job.flips
  /\ job' = [job EXCEPT !.file = s, !.text = live[s], !.at = "write"]
  /\ UNCHANGED <<files, pages, drafts, captured, edits, crashes>>

\* It replaces the file, if it changed a record, whatever became of the file since;
\* then not_consolidated reads it once more.
FlipWrites ==
  /\ job # None /\ job.at = "write"
  /\ LET s == job.file
         flipped == Flipped(job.text, s, job.draft.ids)
     IN /\ live' = IF flipped = job.text THEN live ELSE [live EXCEPT ![s] = flipped]
        /\ job' = [job EXCEPT !.flips = @ \ {s}, !.file = None, !.text = Empty, !.at = "flip",
                     !.issue = IF Unflipped(live'[s], s, job.draft.ids) = {} THEN @ ELSE "yes"]
  /\ UNCHANGED <<doubles, archive, liveCut, archCut, acked, pages, drafts, captured,
                 edits, crashes>>

\* 2 ends: an id that did not flip ends the run, and the draft stays.
FlipsDone ==
  /\ job # None /\ job.at = "flip" /\ job.flips = {}
  /\ job' = IF job.issue = "yes" THEN None ELSE [job EXCEPT !.at = "archive"]
  /\ UNCHANGED <<files, pages, drafts, captured, edits, crashes>>

Joined(s) == [n \in Numbers |-> IF archive[s][n] # None THEN archive[s][n] ELSE live[s][n]]

\* 3. One file: it stays, it moves, a proven append is finished, it is appended
\* to its twin (the removal is a step of its own), or it is an issue.
Archive(s) ==
  /\ job # None /\ job.at = "archive" /\ s \in job.archives
  /\ \/ /\ ~AllDisposed(s, {})
        /\ job' = [job EXCEPT !.archives = @ \ {s}]
        /\ UNCHANGED <<live, archive, acked>>
     \/ /\ AllDisposed(s, {}) /\ archive[s] = Empty
        /\ archive' = [archive EXCEPT ![s] = live[s]]
        /\ live' = [live EXCEPT ![s] = Empty]
        /\ Rewrites("archive", s)
        /\ job' = [job EXCEPT !.archives = @ \ {s}]
     \/ /\ AllDisposed(s, {}) /\ archive[s] # Empty /\ AlreadyAppended(s)
        /\ live' = [live EXCEPT ![s] = Empty]
        /\ job' = [job EXCEPT !.archives = @ \ {s}]
        /\ UNCHANGED <<archive, acked>>
     \/ /\ AllDisposed(s, {}) /\ archive[s] # Empty /\ archCut[s] = 0
        /\ ~AlreadyAppended(s) /\ Disjoint(s)
        /\ archive' = [archive EXCEPT ![s] = Joined(s)]
        /\ Rewrites("archive", s)
        /\ job' = [job EXCEPT !.archives = @ \ {s}, !.file = s, !.at = "remove"]
        /\ UNCHANGED live
     \/ /\ AllDisposed(s, {}) /\ archive[s] # Empty
        /\ archCut[s] # 0 \/ ~(AlreadyAppended(s) \/ Disjoint(s))
        /\ job' = [job EXCEPT !.archives = @ \ {s}, !.issue = "yes"]
        /\ UNCHANGED <<live, archive, acked>>
  /\ UNCHANGED <<doubles, liveCut, archCut, pages, drafts, captured, edits, crashes>>

\* append_archive, its second half.
Remove ==
  /\ job # None /\ job.at = "remove"
  /\ live' = [live EXCEPT ![job.file] = Empty]
  /\ job' = [job EXCEPT !.file = None, !.at = "archive"]
  /\ UNCHANGED <<doubles, archive, liveCut, archCut, acked, pages, drafts, captured,
                 edits, crashes>>

\* An archive issue keeps the draft.
ArchiveDone ==
  /\ job # None /\ job.at = "archive" /\ job.archives = {}
  /\ job' = IF job.issue = "yes" THEN None ELSE [job EXCEPT !.at = "verify"]
  /\ UNCHANGED <<files, pages, drafts, captured, edits, crashes>>

\* manifest_unverified: some copy of an id, or no copy, reads consolidated.
Unverified(ids) ==
  {i \in ids : \/ ~IsActive(i) /\ ~IsArchived(i)
               \/ IsActive(i) /\ live[i[1]][i[2]].status # "consolidated"
               \/ IsArchived(i) /\ archive[i[1]][i[2]].status # "consolidated"}

\* The draft, the only recovery anchor, goes last.
Finish ==
  /\ job # None /\ job.at = "verify"
  /\ IF Unverified(job.draft.ids) = {}
     THEN drafts' = [drafts EXCEPT ![job.unit] = None] ELSE UNCHANGED drafts
  /\ job' = None
  /\ UNCHANGED <<files, pages, captured, edits, crashes>>

Crash ==
  /\ job # None
  /\ crashes < MaxCrashes /\ crashes' = crashes + 1
  /\ job' = None
  /\ UNCHANGED <<files, pages, drafts, captured, edits>>

Run == WritePage \/ FlipWrites \/ FlipsDone \/ Remove \/ ArchiveDone \/ Finish
         \/ \E s \in Sessions : FlipReads(s) \/ Archive(s)

-----------------------------------------------------------------------------

Init ==
  /\ live \in Start
  /\ archive = [s \in Sessions |-> Empty]
  /\ liveCut = [s \in Sessions |-> 0]
  /\ archCut = [s \in Sessions |-> 0]
  /\ doubles = {}
  /\ acked = {}
  /\ pages = [u \in Units |-> None]
  /\ drafts = [u \in Units |-> None]
  /\ job = None
  /\ captured = {<<i[1], i[2], live[i[1]][i[2]].body>> : i \in {j \in Ids : live[j[1]][j[2]] # None}}
  /\ edits = 0
  /\ crashes = 0

ByHand ==
  \/ \E s \in Sessions, u \in Units : Capture(s, u)
  \/ \E s \in Sessions, n \in Numbers, status \in {"archived", "superseded"} : Shelve(s, n, status)
  \/ \E s \in Sessions, k \in 2..MaxDelta + 1 : Damage(s, k)
  \/ \E s \in Sessions : Repair(s) \/ \E place \in Places : Acknowledge(place, s)
  \/ \E u \in Units : Draft(u) \/ Distil(u) \/ Revise(u)

Next == ByHand \/ Run \/ Crash \/ \E u \in Units : Apply(u)

Spec == Init /\ [][Next]_vars

\* A run that is not killed goes on; a draft that apply accepts is applied again.
FairSpec == Spec /\ WF_vars(Run) /\ \A u \in Units : WF_vars(Apply(u))

-----------------------------------------------------------------------------

\* The variables hold what their comments say (one type invariant).
TypeOK ==
  /\ live \in [Sessions -> Files]
  /\ archive \in [Sessions -> Files]
  /\ liveCut \in [Sessions -> 0..MaxDelta + 1]
  /\ archCut \in [Sessions -> 0..MaxDelta + 1]
  /\ doubles \subseteq Sessions \X Numbers \X [unit : Units, status : Open, body : Bodies]
  /\ acked \subseteq Places \X Sessions
  /\ pages \in [Units -> {None} \cup Pages]
  /\ drafts \in [Units -> {None} \cup Drafts]
  /\ job \in {None} \cup Jobs
  /\ captured \subseteq Sessions \X Numbers \X Bodies
  /\ edits \in 0..MaxEdits
  /\ crashes \in 0..MaxCrashes

Doubles(s, n) == {d[3] : d \in {e \in doubles : e[1] = s /\ e[2] = n}}
Somewhere(s, n) == ({live[s][n], archive[s][n]} \ {None}) \cup Doubles(s, n)

\* No step of apply, in whatever state an earlier run died, takes the last copy
\* of a delta: what was ever captured is in the active file or in the archive,
\* hidden or not.
NothingIsLost ==
  \A c \in captured : \E r \in Somewhere(c[1], c[2]) : r.body = c[3]

\* A delta reads consolidated only when a page names it: the page is written
\* before the first flip, so a crash leaves debt, never knowledge that reads as
\* promoted and is in no page.
ConsolidatedIsPublished ==
  \A s \in Sessions, n \in Numbers : \A r \in Somewhere(s, n) :
    r.status = "consolidated" => \E u \in Units : pages[u] # None /\ <<s, n>> \in pages[u].ids

\* The draft is removed only when its page names every delta of its manifest and
\* every copy of each of them that can be read says consolidated.
DraftGoesLast ==
  [][\A u \in Units : drafts[u] # None /\ drafts'[u] = None =>
       /\ pages[drafts[u].target] # None
       /\ drafts[u].ids \subseteq pages[drafts[u].target].ids
       /\ Unverified(drafts[u].ids) = {}]_vars

\* The record has changed since flip_statuses read the file that it is to replace.
Overtaken(s, n) ==
  job # None /\ job.at = "write" /\ job.file = s /\ job.text[n] # live[s][n]

\* A disposition made at any moment of a run is not flipped by it, however the run
\* planned to publish the delta, and no archive step undoes it.  The one exception is
\* what flip_statuses names itself: a disposition made after it has read the file and
\* before it replaces it is overwritten.  (The page may name a delta that was shelved
\* after the preflight; a run that meets one stops with its draft in place.)
DispositionStands ==
  [][\A s \in Sessions, n \in Numbers : \A r \in Somewhere(s, n) :
       r.status \in {"archived", "superseded"} =>
         Overtaken(s, n) \/ \E q \in Somewhere(s, n)' : q.status = r.status]_vars

\* A fence in a file that a person acknowledged as it is hides a record of the number.
HiddenByConsent(s, n) ==
  \/ live[s][n] # None /\ n \notin Active(s) /\ <<"live", s>> \in acked
  \/ archive[s][n] # None /\ n \notin Archived(s) /\ <<"archive", s>> \in acked

\* An id is given to a second delta only from behind an acknowledgement: the record
\* that has it is hidden in a damaged file, live or archived, that a person accepted.
IdsAreNotReused ==
  [][\A c \in captured' \ captured : \A b \in captured :
       b[1] = c[1] /\ b[2] = c[2] => HiddenByConsent(c[1], c[2])]_vars

\* An append to the archive file was left unfinished, and the session went on.
HalfArchived(s) == Active(s) \cap Archived(s) # {} /\ ~AlreadyAppended(s)

\* Idempotent resume: wherever a run is killed, the next run of the unit is not
\* refused, unless one of its deltas was shelved meanwhile, or another one of a file
\* that is half archived, or an acknowledged archive file stands in the way.
ResumeIsAccepted ==
  [][\A u \in Units :
       /\ Crash /\ job.unit = u
       /\ \A s \in Sessions : archCut[s] = 0
       /\ \A i \in job.draft.ids :
            /\ RecordOf(i).status \notin {"archived", "superseded"}
            /\ HalfArchived(i[1]) =>
                 \A n \in Active(i[1]) : live[i[1]][n].status \notin {"archived", "superseded"}
       => Accepts(u)']_vars

\* No run is repeated for ever: a draft that apply accepts is consumed, or a run
\* ends in a state that apply refuses.
RunsConverge == \A u \in Units : []<>~Accepts(u)
=============================================================================
