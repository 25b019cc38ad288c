----------------------------- MODULE Lifecycle -----------------------------
(***************************************************************************)
(* Installation, rollback and uninstallation of the managed files of one   *)
(* CODEX_HOME: scripts/lifecycle.py with the install engine it drives      *)
(* (scripts/install.py, and the hook merge of scripts/native-hooks.py).    *)
(*                                                                         *)
(* Every installation appends a row to a recovery journal.  The row holds  *)
(* the original bytes of each target before the installer writes it and a  *)
(* digest of each target after.  Rollback restores the originals of the    *)
(* newest row, uninstall those of all rows; both compare the targets with  *)
(* the recorded digests first, to spare what the user edited in between.   *)
(*                                                                         *)
(* A file's bytes are a record of what the code tells apart: the user's    *)
(* own part, the version of the managed part, the source directories its   *)
(* hook commands execute, and whether an installation state names a        *)
(* preserved source.  A digest stands for the bytes it is taken of.        *)
(*                                                                         *)
(* Each write of a target is one step: staged_write re-reads the target    *)
(* and replaces it, and the gap between the two, which its comment names,  *)
(* is not opened here.                                                     *)
(***************************************************************************)
EXTENDS Naturals, Sequences, FiniteSetsExt

CONSTANTS
  Procs,        \* installer processes run by the user, one per terminal
  Versions,     \* versions of the distribution
  Skills,       \* skill files that some version ships
  Ships,        \* Ships[v]: the skill files of version v
  Checkout,     \* the source directory the user installs from
  Absent,       \* the target does not exist
  Untracked,    \* the journal row has no entry for the target
  Free, Stale,  \* lock file states: no lock file, or one whose owner died
  Collisions,   \* sets of targets the user may already have as own files
  MaxRows,      \* bound: rows the journal may hold
  MaxEdits,     \* bound: edits the user makes
  MaxFaults     \* bound: crashes, failed recordings and damaged snapshots

Policy == "AGENTS.md"
State  == "dev-setup-codex-community-state.json"
Hooks  == "hooks.json"
Targets == {Policy, State, Hooks} \cup Skills

NoVersion == "no version"
Sources == {Checkout} \cup Versions     \* v: the preserved source of version v
Bytes == {b \in [user: Nat, ver: Versions \cup {NoVersion},
                 exec: SUBSET Sources, saved: BOOLEAN] : b.saved => b.ver # NoVersion}
Content == Bytes \cup {Absent}
Cell == Content \cup {Untracked}

ASSUME LifecycleConstants ==
  /\ Ships \in [Versions -> SUBSET Skills]
  /\ NoVersion \notin Versions
  /\ Checkout \notin Versions
  /\ Absent \notin Bytes
  /\ Untracked \notin Content
  /\ Free # Stale /\ {Free, Stale} \cap Procs = {}
  /\ {Policy, State, Hooks} \cap Skills = {}
  /\ Collisions \subseteq SUBSET (Targets \ {State})
  /\ {MaxRows, MaxEdits, MaxFaults} \subseteq Nat

VARIABLES
  file,       \* file[f]: the bytes at target f
  journal,    \* the rows of the recovery journal, oldest first
  lock,       \* .community-install.lock: Free, Stale, or the owning process
  checkout,   \* version of the source directory's current content
  preserved,  \* preserved[v]: the snapshot of v under CODEX_HOME
  pc,         \* pc[p]: where process p is
  version,    \* version[p]: the version whose source p preserved
  captured,   \* captured[p]: the version whose files p installs
  seen,       \* seen[p]: target bytes p sampled before it took the lock
  base,       \* base[p]: the journal as p read it or last wrote it
  plan,       \* plan[p]: target bytes a restore of p writes
  kind,       \* kind[p]: "rollback" or "uninstall"
  todo,       \* todo[p]: targets p has still to write
  edits,      \* number of edits made (also numbers the user's bytes)
  faults,     \* number of faults that happened
  blessed,    \* history: bytes at each target as a tool last left or recorded it
  baseline    \* history: each target before the first active row tracked it

disk  == <<file, journal, lock, preserved>>
local == <<pc, version, captured, seen, base, plan, kind, todo>>
bound == <<edits, faults>>
ghost == <<blessed, baseline>>
vars  == <<disk, checkout, local, bound, ghost>>

-----------------------------------------------------------------------------
(* Bytes the installer produces *)

Blank == [user |-> 0, ver |-> NoVersion, exec |-> {}, saved |-> FALSE]
Base(c) == IF c = Absent THEN Blank ELSE c

\* update_custom_block: the managed block is replaced or appended, the rest kept.
MergeBlock(c, v) == [Base(c) EXCEPT !.ver = v]

\* native-hooks install: owned handlers of the recorded source are retargeted,
\* those of the checkout are added once, all other handlers are kept.
MergeHooks(c, state) ==
  [Base(c) EXCEPT !.exec = (@ \ Base(state).exec) \cup {Checkout}]

\* A shipped skill file, byte for byte.
Shipped(v) == [Blank EXCEPT !.ver = v]

\* Mutant of StateOf: write_state forgets the recovery source.
StateWithoutSource(v) == [user |-> 0, ver |-> v, exec |-> {Checkout}]

\* write_state: the state of an installation of version v from the checkout.
StateOf(v) == [user |-> 0, ver |-> v, exec |-> {Checkout}, saved |-> TRUE]

Manifest(state) == IF Base(state).ver = NoVersion THEN {} ELSE Ships[state.ver]
TargetSet(state, v) == {Policy, State, Hooks} \cup Ships[v] \cup Manifest(state)

\* produced_hashes of the live targets are those of version v.
LiveIs(v) == /\ Base(file[Policy]).ver = v
             /\ \A s \in Ships[v] : file[s] = Shipped(v)

\* sync_reason finds nothing: an installation without --force may be skipped.
InSync == /\ file[State] # Absent
          /\ file[State].ver = checkout
          /\ file[State].exec = {Checkout}
          /\ file[State].saved => preserved[checkout] = "intact"
          /\ LiveIs(checkout)

-----------------------------------------------------------------------------
(* The recovery journal *)

Statuses == {"prepared", "installed", "failed", "restored"}
Cells == [Targets -> Cell]
Row == [status: Statuses, before: Cells, after: Cells]
NoCells == [f \in Targets |-> Untracked]

Active(rows) == {i \in DOMAIN rows : rows[i].status # "restored"}
Unfinished(rows) == {i \in DOMAIN rows : rows[i].status \in {"prepared", "failed"}}

\* Mutant of NothingUnfinished: failed installations are forgotten.
NothingPrepared(rows) == \A i \in DOMAIN rows : rows[i].status # "prepared"

\* What lifecycle.install asks of the journal.
NothingUnfinished(rows) == Unfinished(rows) = {}

Tracking(rows, S, f) == {i \in S : rows[i].before[f] # Untracked}
Recorded(row) == \A f \in Targets : (row.before[f] = Untracked) <=> (row.after[f] = Untracked)

\* Mutant of Selection: rollback takes the oldest installation.
SelectionOldest(rows, k) == IF k = "uninstall" THEN Active(rows) ELSE {Min(Active(rows))}

\* The installations that a rollback or an uninstallation undoes.
Selection(rows, k) == IF k = "uninstall" THEN Active(rows) ELSE {Max(Active(rows))}

\* Mutant of Desired: a newer row overrides an older one.
DesiredNewest(rows, S) ==
  [f \in Targets |-> LET T == Tracking(rows, S, f)
                     IN  IF T = {} THEN Untracked ELSE rows[Max(T)].before[f]]

\* Originals to restore: of each target those of the oldest selected row.
Desired(rows, S) ==
  [f \in Targets |-> LET T == Tracking(rows, S, f)
                     IN  IF T = {} THEN Untracked ELSE rows[Min(T)].before[f]]

\* Digests the targets should have: those of the newest selected row.
Expected(rows, S) ==
  [f \in Targets |-> LET T == Tracking(rows, S, f)
                     IN  IF T = {} THEN Untracked ELSE rows[Max(T)].after[f]]

\* No user edit lies between two of the selected installations.
Chained(rows, S) ==
  \A f \in Targets : \A k \in Tracking(rows, S, f) :
    LET prior == {i \in Tracking(rows, S, f) : i < k}
    IN  prior # {} => rows[k].before[f] = rows[Max(prior)].after[f]

\* Mutant of Conflicts: only missing files are noticed.
ConflictsOfMissing(rows, S) ==
  {f \in Targets : /\ Desired(rows, S)[f] # Untracked
                   /\ file[f] = Absent
                   /\ Expected(rows, S)[f] # Absent}

\* Targets that are neither as recorded nor already restored.
Conflicts(rows, S) ==
  {f \in Targets : /\ Desired(rows, S)[f] # Untracked
                   /\ file[f] \notin {Expected(rows, S)[f], Desired(rows, S)[f]}}

\* What activate_source needs of the files a rollback would restore.
Activatable(d) ==
  LET state == d[State] IN
  \/ state = Absent
  \/ state # Absent /\ ~state.saved /\ checkout = state.ver
  \/ /\ state # Absent /\ state.saved
     /\ preserved[state.ver] = "intact"
     /\ d[Hooks] # Absent /\ state.exec \subseteq d[Hooks].exec

\* activate_source: restored hooks and state execute the preserved source.
Activated(d) ==
  LET state == d[State] IN
  IF state = Absent \/ ~Base(state).saved THEN d
  ELSE [d EXCEPT ![State].exec = {state.ver},
                 ![Hooks].exec = (@ \ state.exec) \cup {state.ver}]

-----------------------------------------------------------------------------
(* Initial states: what a user's CODEX_HOME may hold before the first       *)
(* recorded installation, a release without recovery support included.      *)

UsersOwn == [Blank EXCEPT !.user = 1]
Unmanaged == {[f \in Targets |-> IF f \in C THEN UsersOwn ELSE Absent] : C \in Collisions}
Predating ==
  {[f \in Targets |->
      CASE f = Policy -> MergeBlock(Absent, v)
        [] f = Hooks  -> MergeHooks(Absent, Absent)
        [] f = State  -> [StateOf(v) EXCEPT !.saved = FALSE]
        [] OTHER      -> IF f \in Ships[v] THEN Shipped(v) ELSE Absent] : v \in Versions}

\* A process that ends forgets what it held in memory.
Exit(p) ==
  /\ pc' = [pc EXCEPT ![p] = "idle"]
  /\ version' = [version EXCEPT ![p] = NoVersion]
  /\ captured' = [captured EXCEPT ![p] = NoVersion]
  /\ seen' = [seen EXCEPT ![p] = NoCells]
  /\ base' = [base EXCEPT ![p] = <<>>]
  /\ plan' = [plan EXCEPT ![p] = NoCells]
  /\ kind' = [kind EXCEPT ![p] = "rollback"]
  /\ todo' = [todo EXCEPT ![p] = {}]

Init ==
  /\ file \in Unmanaged \cup Predating
  /\ journal = <<>>
  /\ lock = Free
  /\ checkout \in Versions
  /\ preserved = [v \in Versions |-> "none"]
  /\ pc = [p \in Procs |-> "idle"]
  /\ version = [p \in Procs |-> NoVersion]
  /\ captured = [p \in Procs |-> NoVersion]
  /\ seen = [p \in Procs |-> NoCells]
  /\ base = [p \in Procs |-> <<>>]
  /\ plan = [p \in Procs |-> NoCells]
  /\ kind = [p \in Procs |-> "rollback"]
  /\ todo = [p \in Procs |-> {}]
  /\ edits = 1
  /\ faults = 0
  /\ blessed = file
  /\ baseline = file

\* Mutant of Acquire: the lock file is opened, not created exclusively.
AcquireAnyway(p) == lock' = p

\* locked creates the lock file, and fails where there is one.
Acquire(p) == lock = Free /\ lock' = p

\* Mutant of Release: no finally clause, a failed installation keeps the lock file.
ReleaseInstalled(p) == lock' = IF pc[p] = "failed" THEN lock ELSE Free

\* locked deletes the lock file however its body ends.
Release(p) == lock' = Free

Goto(p, label) == pc' = [pc EXCEPT ![p] = label]
Write(f, bytes) == file' = [file EXCEPT ![f] = bytes]

-----------------------------------------------------------------------------
(* Installation *)

\* prepare_install_recovery: sample state and hooks, preserve the source.
Prepare(p) ==
  /\ pc[p] = "idle"
  /\ preserved[checkout] # "damaged"
  /\ preserved' = [preserved EXCEPT ![checkout] = "intact"]
  /\ version' = [version EXCEPT ![p] = checkout]
  /\ seen' = [seen EXCEPT ![p] =
       [f \in Targets |-> IF f \in {State, Hooks} THEN file[f] ELSE Untracked]]
  /\ Goto(p, "prepared")
  /\ UNCHANGED <<file, journal, lock, checkout, captured, base, plan, kind, todo, bound, ghost>>

\* The head of lifecycle.install: append and save a prepared row under the lock.
Begin(p) ==
  /\ pc[p] = "prepared"
  /\ Acquire(p)
  /\ NothingUnfinished(journal)
  /\ \A f \in {State, Hooks} : seen[p][f] = file[f]
  /\ Len(journal) < MaxRows
  /\ LET tracked == TargetSet(file[State], checkout)
         row == [status |-> "prepared", after |-> NoCells,
                 before |-> [f \in Targets |-> IF f \in tracked THEN file[f] ELSE Untracked]]
     IN  /\ journal' = Append(journal, row)
         /\ base' = [base EXCEPT ![p] = Append(journal, row)]
         /\ baseline' = [f \in Targets |->
              IF Tracking(journal, Active(journal), f) = {} THEN file[f] ELSE baseline[f]]
  /\ Goto(p, "hooks")
  /\ UNCHANGED <<file, preserved, checkout, version, captured, seen, plan, kind, todo, bound,
                 blessed>>

\* native-hooks.py install, before the decision to skip.
WriteHooks(p) ==
  /\ pc[p] = "hooks"
  /\ Write(Hooks, MergeHooks(file[Hooks], file[State]))
  /\ Goto(p, "decide")
  /\ UNCHANGED <<journal, lock, preserved, checkout, version, captured, seen, base, plan, kind,
                 todo, bound, ghost>>

\* The fast path: without --force a proven installation is not re-applied.
Skip(p) ==
  /\ pc[p] = "decide" /\ InSync
  /\ Goto(p, "installed")
  /\ UNCHANGED <<disk, checkout, version, captured, seen, base, plan, kind, todo, bound, ghost>>

\* The source is captured once, and every managed output is written from it.
Capture(p) ==
  /\ pc[p] = "decide"
  /\ captured' = [captured EXCEPT ![p] = checkout]
  /\ todo' = [todo EXCEPT ![p] = Ships[checkout] \cup Manifest(file[State])]
  /\ Goto(p, "block")
  /\ UNCHANGED <<disk, checkout, version, seen, base, plan, kind, bound, ghost>>

\* update_custom_block on AGENTS.md.
WriteBlock(p) ==
  /\ pc[p] = "block"
  /\ Write(Policy, MergeBlock(file[Policy], captured[p]))
  /\ Goto(p, "skills")
  /\ UNCHANGED <<journal, lock, preserved, checkout, version, captured, seen, base,
                 plan, kind, todo, bound, ghost>>

\* sync_tree: every shipped skill is written before a retired one is pruned.
SyncSkill(p, s) ==
  LET ships == Ships[captured[p]] IN
  /\ pc[p] = "skills" /\ s \in todo[p]
  /\ s \in ships \/ todo[p] \cap ships = {}
  /\ Write(s, IF s \in ships THEN Shipped(captured[p]) ELSE Absent)
  /\ todo' = [todo EXCEPT ![p] = @ \ {s}]
  /\ UNCHANGED <<journal, lock, preserved, checkout, pc, version, captured, seen, base,
                 plan, kind, bound, ghost>>

\* Mutant of SourceHolds: the source is compared with the capture only.
CaptureHolds(p) == checkout = captured[p]

\* The source is still what was captured, and what was preserved.
SourceHolds(p) == checkout = captured[p] /\ checkout = version[p]

\* The live targets are what the source produces: write_state records it.
WriteState(p) ==
  /\ pc[p] = "skills" /\ todo[p] = {}
  /\ SourceHolds(p)
  /\ LiveIs(checkout)
  /\ Write(State, StateOf(checkout))
  /\ Goto(p, "installed")
  /\ UNCHANGED <<journal, lock, preserved, checkout, version, captured, seen, base,
                 plan, kind, todo, bound, ghost>>

\* Lint, a refusal, an I/O error or an interrupt ends apply_install anywhere.
ApplyFails(p) ==
  /\ pc[p] \in {"hooks", "decide", "block", "skills"}
  /\ Goto(p, "failed")
  /\ UNCHANGED <<disk, checkout, version, captured, seen, base, plan, kind, todo,
                 bound, ghost>>

\* The finally clause of lifecycle.install: digest the targets, drop the row of
\* an installation that changed none of them, save, release the lock.
Finish(p) ==
  LET last == Len(journal)
      row == journal[last]
      after == [f \in Targets |-> IF row.before[f] = Untracked THEN Untracked ELSE file[f]]
  IN
  /\ pc[p] \in {"installed", "failed"}
  /\ journal = base[p]
  /\ journal' = IF pc[p] = "installed" /\ after = row.before
                THEN SubSeq(journal, 1, last - 1)
                ELSE [journal EXCEPT ![last].status = pc[p], ![last].after = after]
  /\ Release(p)
  /\ blessed' = file
  /\ Exit(p)
  /\ UNCHANGED <<file, preserved, checkout, bound, baseline>>

\* A target is no single regular file any more, or the journal cannot be saved:
\* the finally clause itself raises, and the prepared row stays.
FinishRefused(p) ==
  /\ pc[p] \in {"installed", "failed"}
  /\ faults < MaxFaults /\ faults' = faults + 1
  /\ Release(p)
  /\ Exit(p)
  /\ UNCHANGED <<file, journal, preserved, checkout, edits, ghost>>

-----------------------------------------------------------------------------
(* Rollback and uninstallation *)

\* restore up to the preview: read the journal and the targets, refuse a plan
\* that is not covered by complete, chained records and unchanged files.
Plan(p, k) ==
  LET S == Selection(journal, k)
      d == Desired(journal, S)
  IN
  /\ pc[p] = "idle"
  /\ Active(journal) # {}
  /\ \A i \in S : Recorded(journal[i])
  /\ k = "uninstall" => journal[Min(S)].before[State] = Absent
  /\ Chained(journal, S)
  /\ Conflicts(journal, S) = {}
  /\ k = "rollback" => Activatable(d)
  /\ base' = [base EXCEPT ![p] = journal]
  /\ seen' = [seen EXCEPT ![p] = [f \in Targets |-> IF d[f] = Untracked THEN Untracked ELSE file[f]]]
  /\ plan' = [plan EXCEPT ![p] = IF k = "rollback" THEN Activated(d) ELSE d]
  /\ kind' = [kind EXCEPT ![p] = k]
  /\ Goto(p, "planned")
  /\ UNCHANGED <<disk, checkout, version, captured, todo, bound, ghost>>

\* restore --apply takes the lock and finds its inputs unchanged.
Apply(p) ==
  LET state == plan[p][State] IN
  /\ pc[p] = "planned"
  /\ Acquire(p)
  /\ journal = base[p]
  /\ \A f \in Targets : plan[p][f] # Untracked => file[f] = seen[p][f]
  /\ kind[p] = "rollback" /\ Base(state).saved => preserved[state.ver] = "intact"
  /\ todo' = [todo EXCEPT ![p] = {f \in Targets : plan[p][f] # seen[p][f]}]
  /\ Goto(p, "restoring")
  /\ UNCHANGED <<file, journal, preserved, checkout, version, captured, seen, base, plan,
                 kind, bound, ghost>>

\* Targets are restored in the order of their names, the skills last.
Rank(f) == CASE f = Policy -> 1 [] f = State -> 2 [] f = Hooks -> 3 [] OTHER -> 4

\* One target: re-read, then removed or replaced.
RestoreFile(p, f) ==
  /\ pc[p] = "restoring" /\ f \in todo[p]
  /\ \A g \in todo[p] : Rank(f) <= Rank(g)
  /\ file[f] = seen[p][f]
  /\ Write(f, plan[p][f])
  /\ blessed' = [blessed EXCEPT ![f] = plan[p][f]]
  /\ todo' = [todo EXCEPT ![p] = @ \ {f}]
  /\ UNCHANGED <<journal, lock, preserved, checkout, pc, version, captured, seen, base,
                 plan, kind, bound, baseline>>

\* A target changed during the restore, or an error: what is written stays,
\* the journal is not saved, the lock is released.
RestoreFails(p) ==
  /\ pc[p] = "restoring"
  /\ Release(p)
  /\ Exit(p)
  /\ UNCHANGED <<file, journal, preserved, checkout, bound, ghost>>

\* All targets are written: mark the rows, carry retargeted hooks and state
\* over to the row that is the newest now, save, release the lock.
RestoreDone(p) ==
  LET S == Selection(journal, kind[p])
      original == Desired(journal, S)
      left == Active(journal) \ S
      carried(i) == {f \in {Hooks, State} : /\ kind[p] = "rollback" /\ left # {} /\ i = Max(left)
                                            /\ plan[p][f] # original[f]
                                            /\ journal[i].after[f] = original[f]}
  IN
  /\ pc[p] = "restoring" /\ todo[p] = {}
  /\ journal = base[p]
  /\ journal' = [i \in DOMAIN journal |->
       [journal[i] EXCEPT !.status = IF i \in S THEN "restored" ELSE @,
                          !.after = [f \in Targets |-> IF f \in carried(i) THEN plan[p][f] ELSE @[f]]]]
  /\ Release(p)
  /\ Exit(p)
  /\ UNCHANGED <<file, preserved, checkout, bound, ghost>>

-----------------------------------------------------------------------------
(* The surroundings: refusals, crashes, the user and the disk *)

\* A lock file, changed inputs, an unfinished row, or only a preview: nothing is written.
GiveUp(p) ==
  /\ pc[p] \in {"prepared", "planned"}
  /\ Exit(p)
  /\ UNCHANGED <<disk, checkout, bound, ghost>>

\* The process is killed: the lock file stays behind.
Crash(p) ==
  /\ pc[p] \notin {"idle", "prepared", "planned"}
  /\ faults < MaxFaults /\ faults' = faults + 1
  /\ lock' = Stale
  /\ Exit(p)
  /\ UNCHANGED <<file, journal, preserved, checkout, edits, ghost>>

\* The user deletes the lock file of a process that is gone.
ClearLock ==
  /\ lock = Stale /\ lock' = Free
  /\ UNCHANGED <<file, journal, preserved, checkout, local, bound, ghost>>

\* The user edits, creates or deletes a target, at any time.
UserEdit(f) ==
  /\ edits <= MaxEdits /\ edits' = edits + 1
  /\ \/ Write(f, [Base(file[f]) EXCEPT !.user = edits + 1])
     \/ file[f] # Absent /\ Write(f, Absent)
  /\ baseline' = IF Tracking(journal, Active(journal), f) = {}
                 THEN [baseline EXCEPT ![f] = file'[f]] ELSE baseline
  /\ UNCHANGED <<journal, lock, preserved, checkout, local, faults, blessed>>

\* The user moves the source directory to another version.
Update(v) ==
  /\ checkout # v /\ checkout' = v
  /\ UNCHANGED <<disk, local, bound, ghost>>

\* A preserved source is modified or loses a file.
Damage(v) ==
  /\ preserved[v] = "intact" /\ preserved' = [preserved EXCEPT ![v] = "damaged"]
  /\ faults < MaxFaults /\ faults' = faults + 1
  /\ UNCHANGED <<file, journal, lock, checkout, local, edits, ghost>>

Install(p) ==
  \/ Prepare(p) \/ Begin(p) \/ WriteHooks(p) \/ Skip(p) \/ Capture(p) \/ WriteBlock(p)
  \/ \E s \in Skills : SyncSkill(p, s)
  \/ WriteState(p) \/ ApplyFails(p) \/ Finish(p) \/ FinishRefused(p)

Restore(p) ==
  \/ \E k \in {"rollback", "uninstall"} : Plan(p, k)
  \/ Apply(p)
  \/ \E f \in Targets : RestoreFile(p, f)
  \/ RestoreFails(p) \/ RestoreDone(p)

Surroundings ==
  \/ ClearLock
  \/ \E f \in Targets : UserEdit(f)
  \/ \E v \in Versions : Update(v) \/ Damage(v)

Next == Surroundings \/ \E p \in Procs : Install(p) \/ Restore(p) \/ GiveUp(p) \/ Crash(p)

Spec == Init /\ [][Next]_vars

\* A running process is scheduled; the user, crashes and the disk owe nothing.
FairSpec == Spec /\ \A p \in Procs : WF_vars(Install(p) \/ Restore(p))

-----------------------------------------------------------------------------
(* Properties *)

Labels == {"idle", "prepared", "hooks", "decide", "block", "skills", "installed",
           "failed", "planned", "restoring"}
Critical == Labels \ {"idle", "prepared", "planned"}
Kinds == {"rollback", "uninstall"}

\* Type correctness of the whole state.
TypeOK ==
  /\ file \in [Targets -> Content]
  /\ journal \in Seq(Row)
  /\ lock \in Procs \cup {Free, Stale}
  /\ checkout \in Versions
  /\ preserved \in [Versions -> {"none", "intact", "damaged"}]
  /\ pc \in [Procs -> Labels]
  /\ version \in [Procs -> Versions \cup {NoVersion}]
  /\ captured \in [Procs -> Versions \cup {NoVersion}]
  /\ seen \in [Procs -> Cells] /\ plan \in [Procs -> Cells]
  /\ base \in [Procs -> Seq(Row)]
  /\ kind \in [Procs -> Kinds]
  /\ todo \in [Procs -> SUBSET Targets]
  /\ edits \in Nat /\ faults \in Nat
  /\ blessed \in [Targets -> Content] /\ baseline \in [Targets -> Content]

\* Between taking the lock and releasing it a process owns the lock file, and
\* the journal on disk is the one it read or saved: the save that ends an
\* installation or a restoration is never refused for another writer's sake.
JournalIsOwned ==
  \A p \in Procs : pc[p] \in Critical => lock = p /\ journal = base[p]

\* An installation that crashed or failed is the newest record: the rollback
\* that picks the newest active row meets it first, and no later installation
\* has taken its half-written files for originals.
UnfinishedIsNewest ==
  \A i \in Unfinished(journal) : i = Len(journal)

\* Whatever moves the source directory during an installation, the state file
\* never names a preserved source that was not published: a rollback that
\* returns to this state finds the source it needs.
StateNamesPreserved ==
  Base(file[State]).saved => preserved[file[State].ver] # "none"

\* Recovery never overwrites what the user changed after the last installation
\* or restoration ended (README.md: "Rollback and uninstall refuse to overwrite
\* files changed after installation"): the bytes it replaces are those a tool
\* left at the target, or some installation's recorded result.
RestoreSparesEdits ==
  [][\A p \in Procs, f \in Targets : RestoreFile(p, f) =>
       \/ file[f] = blessed[f]
       \/ \E i \in DOMAIN journal : file[f] = journal[i].after[f]]_vars

\* A completed recovery that leaves no active row has put back the bytes each
\* recorded target had before the first installation that recorded it, whatever
\* upgrades, failures, rollbacks and interrupted recoveries came in between.
UninstallRestoresBaseline ==
  [][\A p \in Procs : RestoreDone(p) /\ Active(journal') = {} =>
       \A f \in Targets : Tracking(journal, Active(journal), f) # {} =>
         file[f] = baseline[f] \/ file[f] # blessed[f]]_vars

\* Whoever holds the lock file gives it up, or dies: no installation or recovery
\* keeps it forever, whatever fails on the way.
LockIsReleased == \A p \in Procs : lock = p ~> lock # p

\* The refusal "files changed since installation; nothing restored" blames a
\* change of the user: a conflicting target holds other bytes than a tool left.
ConflictsAreEdits ==
  lock \in {Free, Stale} /\ Active(journal) # {} =>
    LET S == Selection(journal, "rollback")
    IN  (\A i \in S : Recorded(journal[i])) =>
          \A f \in Conflicts(journal, S) : file[f] # blessed[f]

\* However versions and source directories change, hooks.json holds the handlers
\* of one source only when no tool runs (docs/PACKAGING.md: the installer upgrades
\* "to a different source directory without duplicate hooks").
OneHookSource ==
  lock \in {Free, Stale} => \A c, d \in Base(file[Hooks]).exec : c = d

-----------------------------------------------------------------------------
(* The abstract specification *)

\* A journal without the bytes, and a lock file without an owner that died.
Progress(rows) == [i \in DOMAIN rows |-> rows[i].status]
Writer == IF lock = Stale THEN Free ELSE lock

Ledger == INSTANCE RecoveryLedger
  WITH rows <- Progress(journal), writer <- Writer, Nobody <- Free

\* The journal and its lock implement the ledger: one writer at a time, no new
\* installation over an unfinished one, and recovery from the newest end only.
LedgerSpec == Ledger!Spec
=============================================================================
