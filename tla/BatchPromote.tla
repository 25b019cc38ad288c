----------------------------- MODULE BatchPromote -----------------------------
(***************************************************************************)
(* skills/knowledge-fragment/scripts/batch-promote.py: several units       *)
(* promoted into one page, one draft that creates it and the others that   *)
(* are merged into it by hand beforehand, with witnesses.                  *)
(*                                                                         *)
(* --transition turns the carriers' drafts into update-existing ones,      *)
(* --init records the statuses and the bytes expected in the state file,   *)
(* and --execute applies the units in order, comparing the disk with the   *)
(* state file before and after every apply; each apply is a run of         *)
(* Consolidate.  A command may be killed between any two writes, and the   *)
(* only memory it leaves is the state file.                                *)
(*                                                                         *)
(* A digest is modelled as the value digested, a file as its records.      *)
(***************************************************************************)
EXTENDS Consolidate, Sequences

CONSTANTS
  Order,     \* the units of the specification file: the create, then the carriers
  Manifest   \* unit -> the number of ids the specification file gives it

Create == Order[1]
Batch == {Order[k] : k \in 1..Len(Order)}
Rows == 1..Len(Order)

ASSUME BatchConstants ==
  /\ Order \in Seq(Units) /\ Order # <<>>
  /\ \A k, l \in Rows : Order[k] = Order[l] => k = l
  /\ Manifest \in [Batch -> Nat \ {0}]

VARIABLES
  state,  \* the state file, or None
  proc    \* the command under way, or None

batchVars == <<state, proc>>

Snapshots(sources) == [sources -> [where : {"live", "_archive"}, records : Files]]
Processes == {"transition", "row", "apply"}

\* A state file whose batch has its deltas in the files of sources.
States(sources) ==
  [units : [Batch -> SUBSET Ids], initial : Snapshots(sources), last : Snapshots(sources),
   final : [sources -> Files], created : Pages, integrity : {None} \cup Texts, landed : Nat,
   witness : {None} \cup [page : Pages, sources : Snapshots(sources)]]

ASSUME NoneIsNoState == \A sources \in SUBSET Sessions : None \notin States(sources)

-----------------------------------------------------------------------------
(* What the commands read.                                                 *)

\* A unit whose draft is gone has the manifest that the state file recorded.
ManifestOf(u, st) == IF drafts[u] # None THEN drafts[u].ids ELSE st.units[u]

\* Mutant of Transitioned: an apply mode that consolidate does not know.
TransitionedToMerge(d) == [d EXCEPT !.banner = "gone", !.mode = "merge", !.target = Create]

\* transitioned_text: the carrier's draft aimed at the created page.
Transitioned(d) == [d EXCEPT !.banner = "gone", !.mode = "update-existing", !.target = Create]

\* classify.
StateOf(u, st) ==
  LET d == drafts[u] IN
  CASE d = None -> IF st = None THEN "inconsistent" ELSE "absent"
    [] d # None /\ Cardinality(d.ids) # Manifest[u] -> "inconsistent"
    [] d # None /\ Cardinality(d.ids) = Manifest[u] /\ u = Create ->
         IF d.mode # "create" \/ d.target # Create THEN "inconsistent"
         ELSE IF d.banner = "kept" THEN "undistilled" ELSE "ready"
    [] OTHER -> IF d.banner = "kept" THEN "fresh"
                ELSE IF d = Transitioned(d) THEN "transitioned" ELSE "inconsistent"

\* resolve_source and snapshot: the file is in one place, and hides nothing.
Resolves(s) == (live[s] = Empty) # (archive[s] = Empty)
CanSnapshot(sources) ==
  \A s \in sources : Resolves(s) /\ (IF live[s] # Empty THEN liveCut[s] ELSE archCut[s]) = 0
Snapshot(sources) ==
  [s \in sources |-> IF live[s] # Empty THEN [where |-> "live", records |-> live[s]]
                     ELSE [where |-> "_archive", records |-> archive[s]]]

Sources(ids) == {i[1] : i \in {j \in ids : IsActive(j)}}

BatchIds(st) == UNION {st.units[u] : u \in Batch}
IdsThrough(st, k) == UNION {st.units[Order[l]] : l \in 1..k}

\* manifest_state_ok: the page names the ids of the first units, whole units only.
AtUnitBoundary(st, ids) == \E k \in 0..Len(Order) : ids = IdsThrough(st, k)

\* projected_sha: the file as it will be when the ids are flipped.
Projected(f, s, ids) == Flipped(f, s, {i \in ids : i[1] = s})
ProjectsTo(st, snap) ==
  \A s \in DOMAIN snap : Projected(snap[s].records, s, BatchIds(st)) = st.final[s]

\* map_diff: the ids expected to change read consolidated (or, where a part will
\* do, have not changed); nothing else has, and no file moved without cause.
Agree(before, after, expected, partial) ==
  /\ \A i \in expected : i[1] \in DOMAIN before /\ before[i[1]].records[i[2]] # None
  /\ \A s \in DOMAIN before :
       LET b == before[s].records
           a == after[s].records
       IN /\ after[s] = before[s] \/ \E n \in Numbers : <<s, n>> \in expected
          /\ \A n \in Numbers :
               \/ a[n] = b[n] /\ (<<s, n>> \notin expected \/ partial)
               \/ <<s, n>> \in expected /\ a[n] = [b[n] EXCEPT !.status = "consolidated"]

\* lines_changed_ok: an apply rewrites status lines, at most as many as it should.
LinesChangedOk(pre, post, allowed) ==
  /\ \A n \in Numbers : post[n] # pre[n] =>
       pre[n] # None /\ post[n] = [pre[n] EXCEPT !.status = "consolidated"]
  /\ Cardinality({n \in Numbers : post[n] # pre[n]}) <= allowed

-----------------------------------------------------------------------------
(* assess: every check before a command does anything.                     *)

UnitHasNoProblem(u, st) ==
  LET ids == ManifestOf(u, st) IN
  /\ StateOf(u, st) \notin {"inconsistent", "undistilled"}
  /\ st # None /\ drafts[u] # None => ids = st.units[u]
  /\ \A i \in ids : IsActive(i) =>
       live[i[1]][i[2]].unit = u /\ live[i[1]][i[2]].status \notin {"archived", "superseded"}
  /\ IF drafts[u] = None THEN Outstanding(u) = {}
     ELSE Outstanding(u) \subseteq ids /\ \A i \in ids : IsActive(i)

\* The preflight of every draft that is left, the carriers' over the page that
\* the create will make and as --transition will make them.
PreflightsPass(st) ==
  \A u \in Batch : drafts[u] # None =>
    IF u = Create THEN Accepts(u)
    ELSE WouldAccept(u, IF StateOf(u, st) = "fresh" THEN Transitioned(drafts[u]) ELSE drafts[u],
                     IF drafts[Create] # None THEN Promoted(drafts[Create], None)
                     ELSE pages[Create])

ManifestsAreDisjoint(st) ==
  \A u, v \in Batch : u # v => ManifestOf(u, st) \cap ManifestOf(v, st) = {}

\* Mutant of NoProblem: the carriers are looked at when their turn comes.
NoProblemOfCreate(st) ==
  /\ \A u \in Batch : StateOf(u, st) \notin {"inconsistent", "undistilled"}
  /\ drafts[Create] # None => UnitHasNoProblem(Create, st) /\ Accepts(Create)

NoProblem(st) ==
  /\ \A u \in Batch : UnitHasNoProblem(u, st)
  /\ ManifestsAreDisjoint(st)
  /\ DamageGate
  /\ PreflightsPass(st)
  /\ drafts[Create] = None => pages[Create] # None \/ Batch = {Create}
  /\ LET sources == Sources(UNION {ManifestOf(u, st) : u \in Batch}) IN
     /\ CanSnapshot(sources)
     /\ st # None => /\ sources \subseteq DOMAIN st.last
                     /\ \A s \in DOMAIN st.last \ sources : Resolves(s)
  /\ st # None /\ pages[Create] # None => AtUnitBoundary(st, pages[Create].ids)

NoneIs(which, st) == \A u \in Batch : StateOf(u, st) # which

-----------------------------------------------------------------------------
(* --transition, a carrier at a time.                                      *)

Transition ==
  /\ job = None /\ proc = None
  /\ NoProblem(state)
  /\ ~NoneIs("fresh", state)
  /\ \A u \in Batch \ {Create} : StateOf(u, state) \in {"fresh", "transitioned"}
  /\ proc' = [at |-> "transition", row |-> 2, mem |-> None, before |-> None, edits |-> edits]
  /\ UNCHANGED <<vars, state>>

TransitionRow ==
  /\ proc # None /\ proc.at = "transition"
  /\ LET u == Order[proc.row] IN
     drafts' = IF drafts[u].banner = "gone" THEN drafts
               ELSE [drafts EXCEPT ![u] = Transitioned(@)]
  /\ proc' = IF proc.row = Len(Order) THEN None ELSE [proc EXCEPT !.row = @ + 1]
  /\ UNCHANGED <<files, pages, job, captured, edits, crashes, state>>

-----------------------------------------------------------------------------
(* --init.                                                                 *)

InitialState ==
  LET sources == Sources(UNION {drafts[u].ids : u \in Batch})
      snap == Snapshot(sources)
      ids == UNION {drafts[u].ids : u \in Batch}
  IN [units |-> [u \in Batch |-> drafts[u].ids],
      initial |-> snap, last |-> snap,
      final |-> [s \in sources |-> Projected(snap[s].records, s, ids)],
      created |-> Promoted(drafts[Create], None),
      integrity |-> None, landed |-> 0, witness |-> None]

InitState ==
  /\ job = None /\ proc = None /\ state = None
  /\ \A u \in Batch : drafts[u] # None
  /\ NoProblem(None) /\ NoneIs("fresh", None)
  /\ state' = InitialState
  /\ UNCHANGED <<vars, proc>>

-----------------------------------------------------------------------------
(* --execute.                                                              *)

Halt == proc' = None /\ UNCHANGED <<vars, state>>

\* A recorded witness is only verified: no step.
Execute ==
  /\ job = None /\ proc = None
  /\ state # None /\ state.witness = None
  /\ NoProblem(state) /\ NoneIs("fresh", state)
  /\ proc' = [at |-> "row", row |-> 1, mem |-> state, before |-> None, edits |-> edits]
  /\ UNCHANGED <<vars, state>>

AtRow == proc # None /\ proc.at = "row" /\ job = None
Row == Order[proc.row]

NoDrift ==
  LET sources == DOMAIN proc.mem.last IN
  /\ CanSnapshot(sources)
  /\ Agree(proc.mem.last, Snapshot(sources), BatchIds(proc.mem), TRUE)
  /\ ProjectsTo(proc.mem, Snapshot(sources))

\* Mutant of LandedOk: the page of a create that was not recorded is taken as it is.
LandedOkAnyBytes(u, k) ==
  LET page == pages[Create] IN
  /\ page # None
  /\ AtUnitBoundary(proc.mem, page.ids) /\ IdsThrough(proc.mem, k) \subseteq page.ids
  /\ proc.mem.integrity = None \/ page.text = proc.mem.integrity

\* Mutant of LandedOk: a create that was not recorded did not land.
LandedOkRecorded(u, k) ==
  LET page == pages[Create] IN
  /\ page # None
  /\ AtUnitBoundary(proc.mem, page.ids) /\ IdsThrough(proc.mem, k) \subseteq page.ids
  /\ page.text = proc.mem.integrity

\* landed_ok: what a unit without a draft must look like.
LandedOk(u, k) ==
  LET page == pages[Create]
      snap == Snapshot(DOMAIN proc.mem.last)
  IN /\ \A i \in proc.mem.units[u] : snap[i[1]].records[i[2]].status = "consolidated"
     /\ page # None
     /\ AtUnitBoundary(proc.mem, page.ids)
     /\ IdsThrough(proc.mem, k) \subseteq page.ids
     /\ IF proc.mem.integrity = None
        THEN u = Create /\ (page.ids = IdsThrough(proc.mem, k) => page = proc.mem.created)
        ELSE page.text = proc.mem.integrity

Save(st) == state' = st

\* Mutant of VerifyLanded: a unit that landed unrecorded is not recorded.
VerifyLandedSilently ==
  /\ AtRow /\ proc.row \in Rows /\ drafts[Row] = None
  /\ IF NoDrift /\ LandedOk(Row, proc.row)
     THEN LET mem == [proc.mem EXCEPT !.integrity = IF @ = None THEN pages[Create].text ELSE @,
                        !.last = Snapshot(DOMAIN proc.mem.last)]
          IN Save(mem) /\ proc' = [proc EXCEPT !.mem = mem, !.row = @ + 1] /\ UNCHANGED vars
     ELSE Halt

\* A draft that is gone is a unit that landed, if the disk says so too.
VerifyLanded ==
  /\ AtRow /\ proc.row \in Rows /\ drafts[Row] = None
  /\ IF NoDrift /\ LandedOk(Row, proc.row)
     THEN LET mem == [proc.mem EXCEPT !.integrity = IF @ = None THEN pages[Create].text ELSE @,
                        !.landed = IF @ < proc.row THEN proc.row ELSE @,
                        !.last = Snapshot(DOMAIN proc.mem.last)]
          IN /\ Save(mem)
             /\ proc' = [proc EXCEPT !.mem = mem, !.row = @ + 1]
             /\ UNCHANGED vars
     ELSE Halt

\* The create's expectation, or the page as the units before left it.
TargetIsAsExpected(u) ==
  IF u = Create THEN Promoted(drafts[u], None) = proc.mem.created
  ELSE /\ pages[Create] # None
       /\ AtUnitBoundary(proc.mem, pages[Create].ids)
       /\ pages[Create].text = proc.mem.integrity

\* The witnesses before an apply, and the apply, which may refuse.
BeginApply ==
  /\ AtRow /\ proc.row \in Rows /\ drafts[Row] # None
  /\ IF NoDrift /\ TargetIsAsExpected(Row) /\ Accepts(Row)
     THEN /\ job' = Begin(Row)
          /\ proc' = [proc EXCEPT !.at = "apply",
                        !.before = [snap |-> Snapshot(DOMAIN proc.mem.last), page |-> pages[Create]]]
          /\ UNCHANGED <<files, pages, drafts, captured, edits, crashes, state>>
     ELSE Halt

PageGrewBy(u) ==
  /\ pages[Create] # None
  /\ IF u = Create THEN pages[Create] = proc.mem.created
     ELSE /\ pages[Create].ids = proc.before.page.ids \cup proc.mem.units[u]
          /\ AtUnitBoundary(proc.mem, pages[Create].ids)
          /\ pages[Create].text = proc.mem.integrity

\* Mutant of AppliedAsPlanned: the page is the only witness.
AppliedAsPlannedOnPage(u) == PageGrewBy(u)

AppliedAsPlanned(u) ==
  LET sources == DOMAIN proc.mem.last
      ids == proc.mem.units[u]
  IN /\ drafts[u] = None
     /\ CanSnapshot(sources)
     /\ Agree(proc.before.snap, Snapshot(sources), ids, FALSE)
     /\ \A s \in {i[1] : i \in ids} :
          LET pre == proc.before.snap[s].records IN
          LinesChangedOk(pre, Snapshot(sources)[s].records,
            Cardinality({i \in ids : i[1] = s /\ pre[i[2]].status # "consolidated"}))
     /\ ProjectsTo(proc.mem, Snapshot(sources))
     /\ PageGrewBy(u)

\* The witnesses after an apply that succeeded, which removed the draft.
EndApply ==
  /\ proc # None /\ proc.at = "apply" /\ job = None
  /\ IF AppliedAsPlanned(Row)
     THEN LET mem == [proc.mem EXCEPT !.last = Snapshot(DOMAIN @), !.landed = @ + 1,
                        !.integrity = IF Row = Create THEN pages[Create].text ELSE @]
          IN /\ Save(mem)
             /\ proc' = [proc EXCEPT !.mem = mem, !.row = @ + 1, !.at = "row", !.before = None]
             /\ UNCHANGED vars
     ELSE Halt

\* final_verification, where no witness is recorded yet.
FinallyVerified(st) ==
  /\ pages[Create] # None
  /\ pages[Create].ids = BatchIds(st)
  /\ pages[Create].text = st.integrity
  /\ Unverified(BatchIds(st)) = {}
  /\ \A u \in Batch : drafts[u] = None
  /\ CanSnapshot(DOMAIN st.last)
  /\ ProjectsTo(st, Snapshot(DOMAIN st.last))
  /\ Agree(st.initial, Snapshot(DOMAIN st.last), BatchIds(st), FALSE)

MintWitness ==
  /\ AtRow /\ proc.row \notin Rows
  /\ IF FinallyVerified(proc.mem)
     THEN /\ Save([proc.mem EXCEPT !.witness =
                     [page |-> pages[Create], sources |-> Snapshot(DOMAIN proc.mem.last)]])
          /\ proc' = None
          /\ UNCHANGED vars
     ELSE Halt

Kill ==
  /\ proc # None \/ job # None
  /\ crashes < MaxCrashes /\ crashes' = crashes + 1
  /\ job' = None /\ proc' = None
  /\ UNCHANGED <<files, pages, drafts, captured, edits, state>>

-----------------------------------------------------------------------------
(* What people do meanwhile.                                               *)

\* The repair the tool names when a unit's ids have left the active fragments
\* and its draft is still there: finish that unit by consolidate alone.
HandFinish ==
  /\ proc = None /\ state # None
  /\ \E u \in Batch :
       /\ drafts[u] # None /\ ~(\A i \in drafts[u].ids : IsActive(i))
       /\ Apply(u)
  /\ UNCHANGED batchVars

DistilCreate ==
  /\ drafts[Create] # None /\ drafts[Create].banner = "kept"
  /\ drafts' = [drafts EXCEPT ![Create].banner = "gone"]
  /\ UNCHANGED <<files, pages, job, captured, edits, crashes, state, proc>>

Edited(f, n) == [f EXCEPT ![n].body = "edited"]

\* Edits out of band, at any moment: a body, live or archived, the page, the
\* create's draft, another delta, a disposition.
OutOfBand ==
  /\ \/ /\ Edit
        /\ \E s \in Sessions, n \in Numbers :
             \/ live[s][n] # None /\ live' = [live EXCEPT ![s] = Edited(@, n)] /\ UNCHANGED archive
             \/ archive[s][n] # None /\ archive' = [archive EXCEPT ![s] = Edited(@, n)]
                  /\ UNCHANGED live
        /\ UNCHANGED <<doubles, liveCut, archCut, acked, pages, drafts, job, captured, crashes>>
     \/ /\ Edit
        /\ pages[Create] # None /\ pages' = [pages EXCEPT ![Create].text = "revised"]
        /\ UNCHANGED <<files, drafts, job, captured, crashes>>
     \/ /\ Edit
        /\ drafts[Create] # None /\ drafts' = [drafts EXCEPT ![Create].text = "revised"]
        /\ UNCHANGED <<files, pages, job, captured, crashes>>
     \/ /\ Edit
        /\ \E s \in Sessions, u \in Units :
             /\ NextNumber(s) \in Numbers
             /\ live' = [live EXCEPT ![s][NextNumber(s)] =
                           [unit |-> u, status |-> "provisional", body |-> "first"]]
        /\ UNCHANGED <<doubles, archive, liveCut, archCut, acked, pages, drafts, job, captured, crashes>>
     \/ \E s \in Sessions, n \in Numbers : Shelve(s, n, "superseded")
  /\ UNCHANGED batchVars

BatchInit ==
  /\ live \in Start
  /\ archive = [s \in Sessions |-> Empty]
  /\ liveCut = [s \in Sessions |-> 0]
  /\ archCut = [s \in Sessions |-> 0]
  /\ doubles = {}
  /\ acked = {}
  /\ pages = [u \in Units |-> None]
  /\ drafts = [u \in Units |-> IF u \in Batch
                THEN [ids |-> Outstanding(u), banner |-> "kept", mode |-> "create",
                      target |-> u, text |-> "distilled"] ELSE None]
  /\ job = None
  /\ captured = {}
  /\ edits = 0
  /\ crashes = 0
  /\ state = None
  /\ proc = None

Command == Transition \/ InitState \/ Execute \/ HandFinish \/ DistilCreate
Progress == \/ TransitionRow \/ VerifyLanded \/ BeginApply \/ EndApply \/ MintWitness
            \/ Run /\ UNCHANGED batchVars

BatchNext == Command \/ Progress \/ Kill \/ OutOfBand

BatchSpec == BatchInit /\ [][BatchNext]_<<vars, batchVars>>

\* Whoever promotes the batch repeats the command that the tool asks for, and a
\* command that is not killed goes on.
FairBatchSpec ==
  BatchSpec /\ WF_<<vars, batchVars>>(Progress) /\ WF_<<vars, batchVars>>(Command)
-----------------------------------------------------------------------------

\* validate_state with its cross-checks: what load_state accepts.
ValidState(st) ==
  /\ DOMAIN st.units = Batch /\ \A u \in Batch : st.units[u] # {}
  /\ DOMAIN st.initial = DOMAIN st.last /\ DOMAIN st.final = DOMAIN st.last
  /\ st.landed \in 0..Len(Order)
  /\ st.witness # None =>
       /\ st.landed = Len(Order)
       /\ st.witness.page.ids = BatchIds(st)
       /\ st.witness.page.text = st.integrity
       /\ DOMAIN st.witness.sources = DOMAIN st.last

\* The variables hold what their comments say (one type invariant).
BatchTypeOK ==
  /\ TypeOK
  /\ state # None => \E sources \in SUBSET Sessions : state \in States(sources)
  /\ proc # None => proc.at \in Processes /\ proc.row \in 1..Len(Order) + 1

\* Whatever a killed command left, what it saved is a state file that the next
\* command does not refuse to load.
SavedStateLoads == state # None => ValidState(state)

\* A unit that the state file calls landed has landed, and stays so: its draft is
\* gone, the page names its ids, and every copy of each of them is consolidated.
LandedIsTrue ==
  state # None => \A k \in 1..state.landed :
    /\ drafts[Order[k]] = None
    /\ pages[Create] # None /\ IdsThrough(state, k) \subseteq pages[Create].ids
    /\ Unverified(state.units[Order[k]]) = {}

\* A completion witness is written only over a disk that is what was approved at
\* --init with exactly the batch flipped, however many runs, kills, hand-finished
\* units and edits out of band lie between: every source file, wherever it is now,
\* and the page's text are those of the state file.
WitnessIsEarned ==
  [][state # None /\ state.witness = None /\ state'.witness # None =>
       /\ pages[Create] = [ids |-> BatchIds(state), text |-> state.created.text]
       /\ \A s \in DOMAIN state.initial :
            {live[s], archive[s]} \ {Empty} =
              {Flipped(state.initial[s].records, s, BatchIds(state))}
       /\ \A u \in Batch : drafts[u] = None]_<<vars, batchVars>>

\* The verdict of the assessment covers the whole batch: once --execute has begun,
\* no apply of it is refused halfway, unless somebody edits meanwhile.
VerdictHolds ==
  [][AtRow /\ proc.row \in Rows /\ drafts[Row] # None /\ NoDrift
       /\ TargetIsAsExpected(Row) /\ ~Accepts(Row) => edits > proc.edits]_<<vars, batchVars>>

\* Idempotent resume: killed anywhere, the batch is completed by repeating the
\* commands, if nobody edits out of band.
BatchCompletes == [](edits = 0) => <>(state # None /\ state.witness # None)
=============================================================================
