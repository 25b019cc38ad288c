# Verification of the Codex workflow harness

This directory holds TLA+ models of the harness in this repository, the TLC
configurations that check them on small instances, and theorems about them
that the TLA+ proof system (TLAPS) checks for every value of the constants.

Run a check with `tlc -config LifecycleTwo.cfg MCLifecycle`, a proof with
`tlapm LifecycleProofs.tla`.  `PROJECT.json` lists every run, the mutation that
shows each property can fail, the source lines of each definition, the hazards
the properties are aimed at, and the findings.

## 1. Inventory

The repository is a portable set of policies, skills and hooks for an agent
command line program, with a Python installer that puts them into a user's
`CODEX_HOME` and takes them out again.

| Component | State it keeps | Operations | Interacts with | Hard behaviour |
|---|---|---|---|---|
| Lifecycle (`scripts/lifecycle.py`) | the recovery journal, `.community-install.lock` | install, rollback, uninstall, previews | drives the install engine; the user edits the same files | lock, crashes, interrupted restores, edits at any time, several versions |
| Install engine (`scripts/install.py`, `community.py`) | `AGENTS.md` block, skill files, state file, backups | apply_install, sync_tree, prune_tree, update_custom_block, write_state | reads a source directory that may move under it; runs native-hooks.py | source changing between capture and record; retired files; concurrent writers |
| Source recovery (`scripts/source_recovery.py`) | content-addressed snapshots under CODEX_HOME | prepare, publish, validate | named by the state file, executed by restored hooks | two publishers of one snapshot; damage after publication |
| Native hook installer (`scripts/native-hooks.py`, `native_hook_io.py`) | `hooks.json` and its lock file | install, merge, retarget, check | other owners of hooks.json; the state file says which handlers are ours | duplicates, handlers of an older source, lock left by a crash |
| Native session (`scripts/native-session.py`) | one carry file per session and project, its lock file | capture before compaction, load at start | two hooks of one session; plan handoff and freshness hook give the text | compare-and-replace under a lock file, hooks killed at any step, old carries |
| Native agent routing (`scripts/native_agents/`, `native-agent-contract.py`) | bindings, sessions, leases, revocations; launches, agents, verdicts | SessionStart: revoke and attest; PreToolUse; PostToolUse; SubagentStop; status | the host runs each hook as a process of its own; the user edits the routing file; the app server names the catalog | several files read without a lock, hooks killed at a timeout, hooks out of order |
| Knowledge fragments (`skills/knowledge-fragment/scripts/`) | fragment files, their archive, drafts, curated pages, `quarantine.json`, the batch's state file | capture, `--draft`, `--apply`; next-id, debt; batch `--transition`, `--init`, `--execute`, `--finish` | agents distil drafts; people edit the same Markdown; batch-promote drives apply | an apply killed between any two files and resumed from the files alone; several grammars for one text; edits between a batch's commands |
| Handoff gates, freshness hook (`templates/hooks/`, `project-health.py`) | sentinel files per concern and session | stop gate, compact gate, inject, check_next, plan handoff | Git, `NEXT.md`, plan files, hook events | Git is asked in several calls while people commit; a gate that blocks forever or never; several caps on one text |
| Backups, interpreter choice, onboarding (`installer_support.py`, `runtime.py`, `onboard.py`) | `.bak` files | allocate, trim, probe, select | install engine | name collisions, retention |
| Sync and bootstrap wrappers | none | git pull, then install | Git | refusals on dirty trees |
| Closeout (`archive-closeout.py`, `archive_digest.py`, `next-stamp.py`) | `NEXT-archive.md`, its digests and its index; the stamp in `NEXT.md` | add a section, check digests, stamp | gates and freshness read the stamp | killed between three renames |
| Wiki lint (`skills/codebase-wiki/scripts/wiki-lint.py`) | the pins of the curated pages | report stale pins, `--update-pins` | Git's history of the pinned file | a pin names a commit, its diff ends at HEAD, its place is read in the working tree |
| Other checks, linters, doctors, packaging, recall, ask | none | one-pass reports or external programs | | none that is stateful |

What makes each component correct:

* Lifecycle: recovery restores the originals and nothing else; it never destroys
  what the user changed after a tool last wrote; a half-done installation is
  met before anything is built on it; one writer at a time; the lock is given up.
* Install engine: the recorded state describes what was installed, from one
  version of the source; a failing step leaves a recoverable record.
* Source recovery: a named snapshot exists and is what its digest says.
* Hook installer: one handler per specification, of one source; foreign handlers
  are kept.
* Session: a carry that was captured is not lost to another hook, is given once
  while it is young, and accounts for every active plan.
* Routing: no agent starts on an expired, revoked or foreign attestation, and a
  role that was managed stays managed.
* Completion: a status without attention vouches for every launch; a mismatch
  stops a child once, not for ever.
* Knowledge: an interrupted apply is resumed to the same result; no delta is lost,
  published over a disposition, or called consolidated while no page names it; a
  batch's completion witness is written only over what was approved; the reader
  and the writers of one text agree on what it says.
* Handoff: FRESH is said of a project only if it was so while the check ran; a
  session hears of each concern once, and is never trapped in a Stop loop.
* Closeout: index, digests and archive nest, wherever the tool is killed.
* Wiki lint: a pin it is silent about still has its text, and a pin it moves keeps it.

## 2. Modules

| Module | Models | Composes |
|---|---|---|
| `Lifecycle` | `lifecycle.py` with the steps of `apply_install`, the hook merge, source publication, the user, crashes and the disk | |
| `RecoveryLedger` | what the journal promises: an abstract specification with statuses and one writer | |
| `MCLifecycle` | constants for TLC | EXTENDS `Lifecycle` |
| `LifecycleProofs` | the inductive invariant and the safety theorems | EXTENDS `Lifecycle` |
| `LifecycleRefines` | the refinement theorem | EXTENDS `LifecycleProofs` |
| `NativeRouting` | `routing.py`, `boundary.py`: attestation of a session and admission of launches | |
| `NativeCompletion` | `completion.py`, `audit.py`: what became of admitted launches | continues `NativeRouting`: its `Launch` is the record that `Admit` writes |
| `MCNativeRouting`, `MCNativeCompletion` | constants for TLC | EXTEND their module |
| `NativeRoutingProofs`, `NativeCompletionProofs` | the inductive invariants and the safety theorems | EXTEND their module |
| `Consolidate` | `consolidate.py`: draft, apply and its resume; ids and damage of `deltas-for.py` | |
| `ConsolidateProofs` | the inductive invariant and the safety theorems | EXTENDS `Consolidate` |
| `BatchPromote` | `batch-promote.py`: several promotions into one page, with witnesses | EXTENDS `Consolidate`: each apply of a batch is a run of it |
| `BatchPromoteProofs` | the inductive invariant of a batch and the safety theorems | EXTENDS `BatchPromote`, `ConsolidateProofs` |
| `PromotionText` | the texts that promotion reads and rewrites, line by line, with the grammar of each reader and writer | |
| `WikiPins` | stale layer 1 and `--update-pins` of `wiki-lint.py` over the history of a pinned file | |
| `CuratedPages` | `PromotionText` beside `WikiPins` | EXTENDS both |
| `CuratedPagesProofs` | what a diff keeps, and that lint is honest | EXTENDS `CuratedPages` |
| `Freshness` | the verdicts of `freshness-inject.sh` and `project-health.py`, `next-stamp.py` and Git | |
| `HandoffGates` | the stop gate and the compact gate | EXTENDS `Freshness` |
| `PlanHandoff` | the text `plan-handoff.py` makes under its caps | |
| `SessionCarry` | `native-session.py` and the atomic write of `native_hook_io.py` | EXTENDS `Freshness`, `PlanHandoff` |
| `Closeout` | `archive-closeout.py`, the sections of `archive_digest.py` | |
| `Handoff` | a project across sessions | EXTENDS `HandoffGates`, `SessionCarry`, `Closeout` |
| `HandoffProofs` | the inductive invariants of carry, contexts, gates, checks and closeout, and a theorem of each | EXTENDS `Handoff` |
| `MCConsolidate`, `MCBatchPromote`, `MCCuratedPages`, `MCHandoff` | constants for TLC | EXTEND their module |

### `Lifecycle`: state and code

| Variable | In the code |
|---|---|
| `file` | the managed targets: `AGENTS.md`, the state file, `hooks.json`, skill files |
| `journal` | the rows of `dev-setup-codex-community-recovery.json`: `before` (original bytes), `after` (digests), `status` |
| `lock` | `.community-install.lock`: absent, left by a dead process, or owned |
| `checkout` | what the source directory contains now |
| `preserved` | the snapshots under `dev-setup-codex-community/sources` |
| `pc`, `version`, `captured`, `seen`, `base`, `plan`, `kind`, `todo` | the local variables of one running `install.py` |
| `edits`, `faults` | counters for the bounds; `edits` also gives each edit new bytes |
| `blessed`, `baseline` | history variables for the properties; no action reads them in a guard |

A file's bytes are a record `[user, ver, exec, saved]`: the user's part, the
version of the managed part, the source directories whose handlers or paths the
bytes name, and whether a state file names a preserved source.  That is what
the code's comparisons tell apart; a digest stands for the bytes.

An installation is `Prepare` (sample state and hooks, publish the source),
`Begin` (lock, refuse unfinished rows, append a prepared row), `WriteHooks`,
then `Skip` (the fast path) or `Capture`, `WriteBlock`, `SyncSkill` for each
skill, `WriteState`, and `Finish` (the `finally` clause).  `ApplyFails` ends the
middle anywhere; `FinishRefused` is a `finally` clause that itself raises.  A
recovery is `Plan` (everything before the lock), `Apply`, `RestoreFile` for each
target in the order of the row, `RestoreDone` or `RestoreFails`.  `GiveUp` is
every refusal before the first write.  Around them the user edits targets
(`UserEdit`), moves the source directory (`Update`), removes a stale lock
(`ClearLock`), a process is killed (`Crash`), a snapshot is damaged (`Damage`).

The initial states are an empty `CODEX_HOME`, one with files of the user at
managed paths, and one left by a release without recovery support.

Limits of the abstraction, in the order of weight:

* One write of a target is one step: the gap between re-reading a target and
  replacing it, which the comment of `staged_write` names, is not opened.
* An edit of the user always yields bytes that were never there before, or a
  deletion; undoing an edit by hand is not modelled, except that a deletion may
  meet a target whose original was "absent".
* `hooks.json` is modelled by the set of sources its handlers execute: two
  identical handlers of one source count as one, as `merge` makes them.
* File modes, backups, platform and interpreter fields, and the lint that
  precedes an installation are left out; each of their refusals is `ApplyFails`,
  `GiveUp` or an action that does not happen.

### `NativeRouting` and `NativeCompletion`: state and code

| Variable | In the code |
|---|---|
| `project`, `global` | the two places of `agent-routing.json`: contents, missing, or broken |
| `catalog`, `found` | the tuples of model and effort the app server advertises, and those SessionStart discovered |
| `binding`, `session`, `lease`, `revoked` | the session's files under `bindings/`, `sessions/`, `leases/`, `revocations/` |
| `expired` | the attestations older than `MAX_AGE` |
| `step`, `draft` | where the SessionStart hook is, and the state it writes |
| `pc`, `ask`, `config`, `again`, `known`, `record`, `fresh` | a PreToolUse process: the launch asked for, the routing as `pre` and as `status` loaded it, the roles and the attestation read, the verdict |
| `launch` | the record of the last launch a hook admitted |
| `launches`, `agents`, `verdicts` | the directories of these names |
| `tool`, `caller`, `runs`, `last` | the host: how a tool ran, which call spawned a child, the identities of its turns |
| `draft` (of a child), `answer` | the verdict its SubagentStop hook is about to write; what it will print once that is written |
| `phase`, `todo`, `launched`, `children`, `judged`, `damaged` | the status command: the directory it reads, the files left, what it read |
| `valid`, `held`, `pinned`, `floor`, `before`, `blocks`, `untold` | history variables for the properties; no action reads them in a guard |

SessionStart is `Revoke` (or `RevokeFails`), `Bind`, `Mark`, `Discover`, `Attest`,
`WriteSession`, `WriteBinding`, `WriteLease`, `ClearRevocation`, and `StartEnds`
wherever it fails or is killed.  A launch hook is `Arrive`, `LoadAgain`, `ReadOwned`,
`ReadRevocation`, `ReadSession`, `ReadLease` and one of `Admit`, `PassOn`, `Deny`;
`Refuse` is a broken routing file.  Around them the user edits (`EditRouting`), the
provider changes the catalog and time passes (`Expire`).  In `NativeCompletion` the host
spawns a child with the recorded input or a changed one (`Spawn`), `Post` registers it,
the child runs turns (`Turn`) and stops (`StopReads`, `StopWrites`, `StopTells`, with
`StopDies` before and after the write), and the status command reads the three
directories one file a step, until `AuditEnds`.

Limits of the abstraction:

* One project and one session, and one SessionStart hook of it at a time, as one
  host process runs them.  Events from outside the bound project are denied before
  anything is read.  The pointer file under `projects/` serves `status` only.
* An attestation is a number; the code's time stamp is in the state whose digest
  the lease holds, so two attestations never share one.
* Model and effort of a launch are one value: both explicit or both omitted.  The
  denials of a full-history fork or of a launch without message are in `Deny`.
* The exchange with the app server is one step that finds the catalog or, as
  `StartEnds`, fails.
* The host gives a child a fresh identifier and spawns one child for a call.  A
  verdict's copy of the observed identity, which status compares again, is left
  out: `VERIFIED_RUNTIME` already says that it agreed.

### `Consolidate` and `BatchPromote`: state and code

| Variable | In the code |
|---|---|
| `live`, `archive` | `_fragments/<session>.md` and `_fragments/_archive/<session>.md`: the record of each delta number |
| `liveCut`, `archCut` | the first number an unclosed fence hides from `parse_fragment` |
| `doubles` | second records at the end of live files, under a number the file already has: captured behind a fence of a file whose damage was acknowledged |
| `acked` | the files, live or archived, that `quarantine.json` holds the present digest of |
| `pages`, `drafts` | the curated pages and `_drafts/<unit>.md`: the ids each names, mode, target, banner |
| `job` | the running `--apply`: what its preflight planned, the phase, the file it is at, and the text of it that `flip_statuses` has read and not yet written |
| `state` | the batch's state file: manifests, statuses and bytes expected, how many units landed, the witness |
| `proc` | the running batch command: `--transition`, the row of `--execute`, its apply |
| `captured`, `edits`, `crashes` | history of the captures; the bounds |

People `Capture`, `Shelve`, `Damage`, `Repair`, `Acknowledge`, `Draft`, `Distil` and
`Revise`.  A run is `Apply` (everything `apply_preflight` refuses, and the plan),
`WritePage`, `FlipReads` and `FlipWrites` per file, `FlipsDone`, `Archive` per file
(move it, or append it to its twin and then `Remove` it), `ArchiveDone` and `Finish` (the
read-back, and the draft goes); `Crash` may stand between any two.  A batch is `Transition`,
`InitState`, `Execute` with `VerifyLanded`, `BeginApply`, the steps of `Consolidate`,
`EndApply` and `MintWitness`; `Kill` stops it anywhere, `HandFinish` is `--apply` of a
unit by hand, `OutOfBand` an edit.

Limits of the abstraction:

* A file is a function from numbers to records; its damage is the number from
  which an unclosed fence hides the rest.  Which text makes a record, and which
  damage is seen, is the subject of `PromotionText`.
* A manifest is a set of ids, a page's text is one of two values.  Aliases of
  units, nested archive directories, one id in two files, a malformed registry of
  units, and errors of the directory walk are left out.
* A second record of an id stays as it was captured: nobody shelves or renumbers it.  A
  delta captured into a file with an unclosed fence is absorbed by it.
* While apply runs the only edit is `Shelve`, as the module's docstring assumes a
  single writer.  By hand a unit is applied only by the repair the tool names; an
  unsanctioned apply of a carrier before its first digest is not modelled.
* Digests are injective.  The fields of the specification file, anchors, line pins
  and the shape checks of `validate_state` beyond `ValidState` are abstracted.

### `PromotionText`, `WikiPins` and `CuratedPages`: state and code

| Variable | In the code |
|---|---|
| `live`, `twin`, `page` | the lines of a fragment, of the archive file of its session, of a curated page |
| `issue` | the read-back of `apply` found an id that a flip reported and did not flip |
| `commits`, `tree` | the history of a pinned file and the working tree: its path and lines |
| `pins` | a file pin, a symbol pin and a range pin of one page |
| `report` | the last lint, while nothing changed since |
| `edits`, `changes` | the bounds |

`Scan` is the reader's automaton; `Flip`, `Archive` and `Merge` are the rewrites of
`apply`, each with the scan of its own that the code has; `Edit` writes, inserts or
removes any line.  `Lint` is `check_stale_layer1` over the three pins and, with
`--update-pins`, the rewrite; `EditSource`, `MoveSource`, `CommitSource` and `Refresh`
are people.  The two halves share no line, and a behaviour begins with one of them.

Limits of the abstraction:

* A line is what the grammars tell apart.  Blank lines, line terminators, quotes and
  trailing comments of a status are left out.  The properties of fragments name their
  preconditions, which are on the text before a step and never on the one after it: no
  header in the envelope, a plain preamble, no indented fence, headers that differ.
  Without them they fail, as section 4 says.
* One source file, one page and three pins, of a valid commit.  Bodies end by
  indentation, as in Python; brace languages and the window of other languages are
  not modelled, nor blank blocks, unreadable files, the labels of layer 2, layer 3,
  and pins whose text occurs twice in a page.
* Git's diff keeps any longest common part and is one hunk; whether it takes a move
  for a rename is a choice.
* `LintIsHonest` speaks of a clean working tree, for symbols of histories without a line
  that begins with two dashes or two pluses, and of bodies as far as both go: section 4
  says why.

### `Handoff` and its parts: state and code

| Variable | In the code |
|---|---|
| `head`, `trees`, `tree` | Git: the commits of HEAD, what each holds, the working tree with `NEXT.md` |
| `sentinels` | `.codex/.stop-warned-*` and `.compact-warned-*` |
| `checks` | the local variables of a run of `freshness-inject.sh` or `project-health.py`, one Git call a step |
| `session`, `turn`, `active`, `gate` | the host: the session, whose move it is, `stop_hook_active`; the running gate |
| `plans` | `workflow/plans/`: what `read_plan` makes of each file |
| `file`, `lock`, `hook` | the carry file and its lock file; the running hooks of the session |
| `registers`, `staged`, `closeout` | the three archive files, their staged siblings, the running closeout |
| `moments`, `raised`, `excused`, `printed` | history variables for the properties |
| `aged`, `changes`, `prompts`, `events`, `actors` | carries past `CARRY_AGE`; the bounds; who is at work in this behaviour |

A check is `BeginCheck`, `Identity`, `Ancestry`, `Status`, `Exists`, `Log`, `Dirty`,
`Context`, or `GitFails`.  A gate is `RunGate`, `GateStatus`, `GateLint`, `GateBudget`,
`GateRemember`, `Speak` or `LetGo`, or `GateDies`; in `Reenter` the host may say that
the stop gate spoke a moment ago.  A carry hook is `HookBegins`, `HookReads`,
`HookGathers`, then `HookLocks`, `HookCompares`, `HookReplaces`, `HookUnlocks` of
`atomic_write`, and `HookPrints`.  A closeout is `BeginCloseout`, `StageOne` and
`RenameOne` per file.

Limits of the abstraction:

* History is linear apart from resets, there is no index, and the content of a file is
  a number.  `NEXT.md` is read in one step.  HEAD is rewritten, by a soft or a hard reset,
  only between checks: the code does nothing against a reset between two Git calls of a
  check, and one between status and log can make it say FRESH of files that never were.
  The stamp is one step: an edit of `NEXT.md` between its read and its write is lost.
* A day passes only while no hook runs.  The plans stay as they are in a behaviour.
* One closeout at a time: the tool takes no lock, and two would lose one update.
* `actors` and the used-up bounds of `Starts` choose scenarios: who works on the project
  at once.  The parts meet where the code does: the gates' sentinels are dirt that the
  freshness checks must not count, the edits that a gate asks for are those a check
  sees, and a carry holds the `NEXT.md` that people go on editing.
* The owner marker, the age note and the version report of the hooks are left out.

### Properties

| Property | Says |
|---|---|
| `TypeOK` | type correctness of the whole state |
| `JournalIsOwned` | between lock and unlock the lock file is the process's, and the journal is what it last read or saved |
| `UnfinishedIsNewest` | a crashed or failed installation is the newest row, so recovery meets it first |
| `StateNamesPreserved` | a state file names a recovery source only if one was published, however the source directory moves |
| `RestoreSparesEdits` | recovery overwrites only bytes a tool left there or an installation recorded |
| `UninstallRestoresBaseline` | a recovery that leaves no active row has put back, in every target, what was there before the first row that tracked it |
| `LockIsReleased` | whoever holds the lock gives it up or dies |
| `LedgerSpec` | journal and lock implement `RecoveryLedger` |
| `ConflictsAreEdits` | (violated) a refusal "files changed since installation" blames a change of the user |
| `OneHookSource` | (violated) when no tool runs, `hooks.json` holds handlers of one source only |
| `AdmissionIsAttested` | a launch is admitted only on an attestation that was complete, unrevoked and of age at some moment since its hook began |
| `ManagedStaysManaged` | a role that a completed attestation named is never passed on as a host profile later |
| `AdmissionUsesAttestedRouting` | (violated) an admitted launch gets the pin of the routing that was attested |
| `AuditIsSound` | a status without attention: every launch recorded when it began has a registered child of that call that ran a turn as requested |
| `BlockedOnce` | a child is blocked at most once, and a MISMATCH verdict stands only for a child that was blocked, is about to be, or whose hook was killed between writing the verdict and printing the block |
| `VerifiedRan` | a verified verdict rests on one turn with the model and the effort requested |
| `NothingIsLost` | what was ever captured is in the active file or the archive, wherever an apply died |
| `ConsolidatedIsPublished` | a delta reads consolidated only when a page names it |
| `DraftGoesLast` | a draft is removed only when its page names its ids and every readable copy says consolidated |
| `DispositionStands` | a disposition made at any moment of a run is not flipped by it, save one made between the read and the write of `flip_statuses` in that file |
| `IdsAreNotReused` | an id is given twice only when a record of it is hidden in a file, live or archived, whose damage was acknowledged |
| `ResumeIsAccepted` | the run after a killed one is not refused, unless a delta was shelved (of the draft, or of a half-archived file) or an acknowledged file is in the way |
| `RunsConverge` | no run is repeated for ever |
| `BatchTypeOK`, `SavedStateLoads` | types; what a killed command saved is a state file the next one loads |
| `LandedIsTrue` | a unit the state file calls landed has landed, and stays so |
| `WitnessIsEarned` | a completion witness is written only over what was approved at `--init`, exactly flipped |
| `VerdictHolds` | once `--execute` has begun, no apply of the batch is refused unless somebody edits |
| `BatchCompletes` | killed anywhere, the batch completes by repeating the commands |
| `FlipsLand` | what the dry run of a flip promised is what the reader, the line witness and the projection see, and nothing else changed, unless a header stands in the envelope |
| `ArchiveKeepsDeltas` | a fragment is removed only when its archive file holds each delta whole and readable |
| `SingleFaultIsSeen` | one edited line hides no delta of an undamaged file without a report of damage, as long as its header still stands below the envelope |
| `MergeIsSeen` | a merged manifest is the same to writer, witness and reader |
| `LintIsHonest` | of a committed file: a moved range pin keeps its text, a silent file pin has its file, an untouched symbol its body |
| `FreshIsEarned` | FRESH was true at some moment since the check began |
| `EachConcernOnce` | a session hears of a concern at most once, and of one that stands unless a gate could not look, remember or speak |
| `TurnEnds` | an agent that keeps asking to stop does stop |
| `CarryIsNotLost` | a carry is dropped only by a hook that read it there, for a reason |
| `ContextIsHonest` | "emitted" means printed; a carry is young; every context accounts for every plan |
| `RegistersNest` | index, digests and archive nest wherever a closeout is killed, and a digest stays that of its section |

## 3. Runs

| Run | Instance | Shows | States |
|---|---|---|---|
| `lifecycle_upgrades` | 1 process, 2 versions of which one retires the skill, 3 rows, no edits, no faults | invariants, baseline and refinement over installs, failures, upgrades, rollbacks and uninstalls in any order | 709 thousand |
| `lifecycle_edits` | 1 process, 2 versions of which one retires the skill, 2 rows, 1 edit | recovery spares the user's bytes | 2.9 million |
| `lifecycle_two` | 2 processes, 1 row, 1 fault; fairness | one writer, lock released, with crash, refused recording or damage | 125 thousand |
| `lifecycle_resume` | 1 process, 2 rows | finding 1 | violation |
| `lifecycle_hooks` | 1 process, 3 rows | finding 2 | violation |
| `native_routing` | 1 launch hook, 2 SessionStarts, 2 configurations of different roles, 2 tuples, 1 change | admission and management of roles while hooks are killed, files edited, attestations expire | 4.1 million |
| `native_routing_race` | 1 launch hook, 1 SessionStart, 2 changes | finding 3 | violation |
| `native_completion` | 2 calls, 1 child, 2 requests, 4 identities | verdicts, blocking and status over late, repeated, missing and killed hooks | 2.1 million |
| `consolidate` | 1 session, 2 units, 3 numbers, 1 edit, 1 crash; fairness | capture, draft, apply, kill and resume, damage, repair and acknowledgement | 419 thousand |
| `batch_promote` | 3 units of one page and one outside, 2 layouts over 2 files, 2 edits, 2 kills; fairness | a batch from its drafts to its witness | 298 thousand |
| `curated_pages` | 4 texts, 2 edited lines; 2 histories, 2 changes of files of up to 4 lines | the grammars of promotion agree; pins follow their text | 378 thousand |
| `handoff` | 2 checkers, 1 session, 2 carry hooks, 2 headings; 8 kinds of beginnings; fairness | freshness, gates, carry, plans and closeout | 183 thousand |

The bounds.  Three rows are the least with an oldest, a middle and a newest row:
selection, chaining and the carry of retargeted digests to a surviving row all
need two, and a middle row that tracks other targets needs three.  Two versions
suffice because a row and the state compare a version only with the one before
or the current source.  One skill that is shipped by both versions, or by one
only, gives a target that all rows or some rows track.  One edit at any moment,
in any target, is enough to spoil any one comparison; `baseline` follows edits
between rows.  One fault and two processes give every place a crash can meet
another process's start.  Larger combinations (two processes with an edit and a
fault, two rows with a fault, two processes with two rows and a fault) were run
once and hold; they repeat these with more states.

One launch hook meets every interleaving that matters to it: hooks only read the
files of the attestation, so a second one changes nothing the first could see.
Two SessionStarts give an old and a new attestation and a third state, none;
one change (an edit or a new catalog) falls between any two steps; the race needs
two, there and back.  Two configurations that name different roles let a role lose
its pin.  In `native_completion` the only bounds are the sets: turns and status
commands may repeat without end.  Two calls and one child give a call that is
registered beside one that is not; four identities let a child miss the request
by model, effort or type alone and piece it together from two turns.  The
theorems below carry both modules to any sets.

In `consolidate` three numbers give a file a delta that is consolidated, one that is
outstanding and one captured later; two units share the file, so that it moves only
when both are done, and one crash gives every place to resume from.  A second
session adds a second file to flip; the theorems cover any number.  The batch has the
two kinds of units, a create and carriers, the first and a later carrier, a file with
units of the batch alone and one with another unit's delta, and two kills, one of
which may strike the resume of the other.  Two edited lines are the least that make a
fault and mend or double it; the texts are chosen so that each grammar has something
to misread.  Two changes of a source file, each committed or not, give a pin an
insertion and a removal, or a change and a move.  Three changes of a project hold an
edit, its commit and a stamp; one session meets both gates and both concerns of the
stop gate; two hooks of one session meet at every step; the caps on the plans are
small enough that every one is reached, alone and with others.

Symmetry is used in runs without liveness only: over versions that ship the same
skills in the two violation runs, and over calls.

Fairness.  `FairSpec` adds weak fairness of `Install(p) \/ Restore(p)` for each
process: a process that can take a step is scheduled, which is what an operating
system gives a running program.  The user, the disk and crashes owe nothing.
A process may die, which ends its duty; the stale lock is then not a process's.

The routing and completion modules promise nothing that must happen, and have no
fairness: a hook may die at any point, and nobody owes a retry.

`consolidate` has weak fairness of `Run`, a process that is not killed goes on, and of
`Apply(u)`: a draft that apply accepts is applied again.  That is the retry the
documents tell a person to make, and `RunsConverge` says that it does not go on for
ever.  `batch_promote` has weak fairness of `Progress`, likewise, and of `Command`: the
operator repeats the command that the tool names.  Kills are bounded, as the promise
is to finish once they cease.  `handoff` has weak fairness of a gate's steps, as the
host waits for the hook it runs, and strong fairness of the stop gate: the agent, sent
back to work, asks to stop again.  `SessionCarry`, `Closeout`, `PromotionText` and
`WikiPins` have none.

Deadlock is checked in the runs of the lifecycle and of native routing: the source
directory can always move, a hook can always start or end, a status command can always
begin.  The other four runs stop of themselves: all is promoted, the batch has its
witness, or the bounds on edits and prompts are used up.

## 4. Findings

1. `lifecycle_resume`: `restore` compares a target with the recorded digest and
   with the original of the row, but writes the *activated* state file and hooks.
   A rollback that stops after its first activated write is refused ever after,
   as is uninstall, with "files changed since installation; nothing restored",
   though the user changed nothing.
2. `lifecycle_hooks`: state file and `hooks.json` are restored by two writes, and
   an installation retargets the handlers of the source its state file names.  A
   completed rollback, a second one that fails between the two writes, and an
   installation leave two sets of handlers in `hooks.json`.

3. `native_routing_race`: `pre` loads the routing for the pin, then `status` loads
   it again and compares it with the attestation.  A file edited before the first
   load and put back before the second is "unchanged", but the launch gets the
   pin of the edited one.  The documents say that changed state denies launches.

All three were reproduced with the program itself.

Divergences without a run.  The models of promotion, handoff and wiki lint met the
following too.  Each is what the code does, was reproduced with the program, and is
excepted from the property it would break, by a condition the property states.

* A SubagentStop hook writes its verdict with `blocked_once` (`completion.py:98-102`)
  before `native-agent-contract.py:75` prints the block.  A hook killed in between leaves
  a MISMATCH of a child that was never blocked, and that later stops do not block either.
  `status` still counts it.  `BlockedOnce` excepts such children as `untold`.
* `flip_statuses` reads a fragment (`consolidate.py:382`) and replaces it (`:471`).  A
  disposition made in between is overwritten: the delta reads consolidated.  The comment
  above the check of the status owns to it: "a writer that shelves the delta between them
  is overwritten from the stale snapshot" (`consolidate.py:438-441`).  `DispositionStands`
  holds from the start of the run to that read and after the write, and excepts what is
  between as `Overtaken`.
* `next_id` goes on over a live file whose damage was acknowledged by its digest
  (`deltas-for.py:203-207`, `601-610`), as over an archived one, and gives the hidden
  numbers again; once the fence is closed the file has two records of an id, which
  `gather` shows twice and the preflight refuses as duplicates.  `IdsAreNotReused`
  excepts this as `HiddenByConsent`.
* Two metadata fences in a row that are not closed pair up: the records between
  them are hidden without the report that `fragment_damage` (`deltas-for.py:86-93`)
  makes of one.  `SingleFaultIsSeen` is about one fault.
* An envelope whose closing `---` is lost goes on to the next `---`, that of a body: the
  deltas before it are read as frontmatter (`deltas-for.py:371-375`) and nothing is
  reported.  The code reports only the envelope that runs to the end of the file, as
  "silent loss, in the module whose contract is that a dropped delta is lost knowledge"
  (`deltas-for.py:377-382`).  `SingleFaultIsSeen` excepts headers that come to stand in
  the envelope (`HeaderLines`); the fragment of `MCCuratedPages` with a rule in a body
  reaches the exception.
* A stray fence before the first header and a fenced sample of a header in a body make
  `delta_section` (`consolidate.py:630-641`) start in the middle: `append_archive`
  copies the rest, and the deltas before it go with the source, against its
  docstring.  `ArchiveKeepsDeltas` asks for a plain preamble.
* A header among the lines of the envelope, with a metadata fence after it: the reader
  starts after the envelope, `flip_statuses` at the first line, against "Mirrors
  parse_fragment's locked split grammar" (`consolidate.py:358`).  When the reader's record
  has the same id, the preflight promises the flip, `apply` rewrites the envelope's line
  and then stops at its own read-back.  `FlipsLand` excepts it as `PlainEnvelope`.
* `NEXT.md` with unclosed frontmatter is read by the hook and the gates, and
  UNVERIFIED to `project-health.py`; dates are `????-??-??` to the one and digits to the
  other, against "keep the two aligned" (`project-health.py:207-208`).
* A killed run may leave a file half archived: the archive has its deltas and the active
  file still does.  When the session goes on in that file, another unit's apply is killed,
  and a delta of the file that is not in that draft is shelved meanwhile, the next apply
  of the draft is refused with "archive collision", against "resumes idempotently"
  (`consolidate.py:28-30`): with the shelved delta the file counts as fully disposed, and
  is neither the copy nor disjoint.  `ResumeIsAccepted` excepts it as `HalfArchived`.
  It takes two kills and four deltas of a session, more than the run's bounds: the
  attempt at the proof found it, and TLC with `MaxDelta = 4` and `MaxCrashes = 2` the trace.
* When the log of the context files fails, `freshness-inject.sh:242` takes it for no
  commits and says FRESH without a warning, against its comment at line 172;
  `project-health.py:255-256` warns.  `FreshIsEarned` excepts it as `blind`.
* A body that ends with a rule is registered with its digest; the next closeout's
  separator makes `archive_digest.py` strip the rule, and the digest differs.
  `RegistersNest` excepts such bodies.
* `wiki-lint.py --update-pins` rewrites a renamed symbol pin to HEAD even when the body
  changed as well, so that the touched finding is gone on the next lint;
  `references/lint-script.md` says that updates are applied only where the content was
  unchanged.  A renamed file pin loses its count of commits in the same way.
* With uncommitted edits the place is taken from the working tree and the commit from
  HEAD: a shifted range then pins other lines, against the comment at
  `wiki-lint.py:1036-1041`.  Uncommitted changes of a symbol's body are not reported,
  as the diff ends at HEAD.
* A line at the left margin within a Python body cuts the body for lint: what follows
  it is no longer looked at.
* A removed line that begins with two dashes, or an added one that begins with two
  pluses, looks like a header of the diff (`wiki-lint.py:627`) and is dropped without
  being counted, so that later removals or additions of its hunk are placed too early:
  with two such lines added above a symbol, a line added right after its declaration is
  placed before it, and the changed body is not called touched.  `LintIsHonest` excepts
  both as `Unsigned`.
* A pinned range is found as a substring, and at the first place where it occurs.

## 5. Proofs

`LifecycleProofs` proves, from `LifecycleConstants` alone (the sentinels differ
from the data, `Ships` is a function of the versions, bounds are naturals):

* `TypeCorrect`: `Spec => []TypeOK`
* `Ownership`: `Spec => []JournalIsOwned`
* `UnfinishedNewest`: `Spec => []UnfinishedIsNewest`
* `StateNamesSource`: `Spec => []StateNamesPreserved`
* `EditsAreSpared`: `Spec => RestoreSparesEdits`
* `BaselineIsRestored`: `Spec => UninstallRestoresBaseline`

and `LifecycleRefines` proves `LifecycleImplementsLedger`: `Spec => LedgerSpec`.

The argument.  `TypeOK` is not inductive alone: a restore writes cells of its
plan, and merging reads cells of rows.  `Tracked` (every row tracks `AGENTS.md`,
the state file and `hooks.json`) and `Remembered` (a plan and the bytes seen for
it cover the same targets, what is still to be restored is in the plan, and an
installation that writes has captured a version) join it as `TypeInv`.  `Inv`
adds `JournalIsOwned` and `OpenRow`: the last row of the journal is the prepared
row of the installation that runs.  `OpenRow` is what lets `Finish` write the
last row; with `JournalIsOwned` it gives `UnfinishedIsNewest`, as only an owner
changes rows and `Begin` refuses when one is unfinished.  `StateNamesPreserved`
needs `SourcesKept`: not only the state file but the originals in every row, every
plan and every running installation name published sources, since each may become
the state file.  The refinement needs `Complete`: a prepared row has no recorded
results, and no row that a planned recovery has selected is prepared.

The two theorems about recovery build on `Complete`: while a plan's journal stands, no
installation is open or interrupted (`NoneOpen`).  `EditInv` says where the plan of a
restore comes from (`Planned`) and how recorded bytes and edits are told apart: edits
are numbered, and unless an installation is open or was interrupted, a target that is
not as a tool left it is missing, or carries a later edit than any recorded original
(`EditsAreNew`).  A restore writes a target that reads as the newest row recorded it, or
one that reads as the oldest row found it and that the activation of a source changes;
such bytes carry no later edit, so a tool left them.  This rests on how the model numbers
edits: a user who types the recorded original back is not told apart from a restore that
already ran, in the code either.  `BaselineInv` adds that the oldest active record of a
target holds its baseline (`OldestIsBaseline`: rows leave from the newest end), that what
a completed restore wrote or found in place is still there unless it was edited
(`WrittenBack`), and that the installation state before the first active row names no
preserved source (`UnsavedAtFirst`), so that the rollback that ends at the baseline
activates none and restores it byte for byte.

`NativeRoutingProofs` proves, from `RoutingConstants`:

* `RoutingTypes`: `Spec => []TypeOK`
* `Admission`: `Spec => []AdmissionIsAttested`
* `Management`: `Spec => []ManagedStaysManaged`

`AdmissionInv` says why reading without a lock is safe.  A lease that exists is
valid or expired, or else a revocation stands that only a new lease may clear
(`LeaseCovered`: SessionStart deletes the lease first and writes it last, and
writes the revocation when it cannot delete).  A hook that read "no revocation"
can from then on find only leases that were valid since it began (`LeaseSeen`).
`RolesInv` says that the binding keeps every role a completed attestation named,
and that an attestation being written carries what the binding holds.

`NativeCompletionProofs` proves, from `CompletionConstants` and `RecordsDiffer`:

* `CompletionTypes`: `Spec => []TypeOK`
* `Verification`: `Spec => []VerifiedRan`
* `Blocked`: `Spec => []BlockedOnce`
* `Auditing`: `Spec => []AuditIsSound`

`VerdictInv` ties the records of a child together: a registration is of the call that
spawned it and of that call's last launch, and every verdict, drafted, written or read
by status, has the request of the registration and, if verified, a turn of the child
behind it (lemma `Evidence`).  `BlockInv` says that for a child whose verdict has
`blocked_once` the block was told, is about to be told, or was lost with its hook,
exactly one of the three, and for any other child none.  `AuditInv` adds that status,
unless it counted damage, has read or will read every launch recorded before it began,
and that registrations it read still stand.

`ConsolidateProofs` proves, from `ConsolidateConstants` and `NoneIsNothing`, for
`StartIsOpen` beginnings:

* `TypeCorrect`: `Spec => []TypeOK`
* `NoDeltaIsLost`: `Spec => []NothingIsLost`
* `PublishedFirst`: `Spec => []ConsolidatedIsPublished`
* `DraftIsLast`: `Spec => DraftGoesLast`
* `DispositionsStand`: `Spec => DispositionStands`
* `IdsStayUnique`: `Spec => IdsAreNotReused`
* `ResumeStands`: `Spec => ResumeIsAccepted`

`RunInv` relates a running apply to the disk: no active file is damaged and the draft
is the one the run began with; the page it is about to write holds the ids of the draft
and of the page it replaces, and once that phase is over the page on disk holds the
draft's; and the file it is about to remove has only disposed records, each of which
the archive holds.  It says as well what `flip_statuses` has read of the file that it is
about to replace (`Since`): each record is as it was read, or was disposed of since.  So
the write (`FlipMoves`) loses no delta and un-publishes none, and what it may lose is a
disposition of just that window, as `DispositionStands` states.  Second records stay
where they are and outstanding (`DoublesStay`), and the preflight's check for duplicates
keeps them out of every manifest.  `IInv` joins it with `TypeOK`, `NothingIsLost` and
`ConsolidatedIsPublished`, of which none is inductive without it.
The step that could lose a delta is `Archive` (lemma `ArchiveMoves`): it removes the
active file only after joining it with an archive file that holds none of its ids, or
all of them.  That a new id is new rests on `NextIsNew`, which needs that `Max` of a
set of numbers is its greatest element; the library has no such fact for `CHOOSE`,
and `MaxOfNumbers` derives it from well-foundedness of the naturals.

`ResumeStands` needs `ResumeInv`, which keeps the preflight's answer true while the run
changes what it asked about: the page is the planned one or as it was (`PageStands`), and
of each session's files (`Fits`) every id of the draft is in the active file, or disposed
of in the archive, or in both with the whole file copied; a file with an archived twin
that is neither its copy nor apart from it is one that the run will not move, since a
delta outside the draft keeps it open.  Every step of a run rewrites statuses, moves a
file or appends to one (`RunMoves`), and each keeps `Fits` (`FitsStays`).  What is left
of the preflight at the next run is `NextRunAccepts`; the one thing that can reopen the
question is that delta outside the draft, shelved while the run is under way.

`BatchPromoteProofs` proves, from `BatchConstants`, `NoneIsNoState` (a state file is not
the sign that there is none) and the assumptions of `Consolidate`:

* `BatchTypesHold`: `BatchSpec => []BatchTypeOK`
* `StateLoads`: `BatchSpec => []SavedStateLoads`
* `LandedStays`: `BatchSpec => []LandedIsTrue`
* `WitnessStands`: `BatchSpec => WitnessIsEarned`
* `VerdictStands`: `BatchSpec => VerdictHolds`

`BInv` joins seven parts, none of which is inductive alone.  `StateInv` is of the state
file: the manifests are apart, the files of `--init` held nothing but deltas to promote
in them, and the expected text is that of the page to create.  `DiskInv` compares the
disk with it: a unit that is recorded as landed has landed, each draft that is left has
the manifest recorded, and until the text of the page is recorded nothing but the create
was promoted (`Uncarried`).  `JobInv` is of the apply that runs, `ProcInv` of the command
around it: it works with the state it saved, and has the rows before its own behind it.
`Whole`, `CreateDraft` and `Untouched` say that no file of a batch is cut or has a second
record of an id, what the
create's draft is, and that nothing happens before `--init`.  An edit may fall between
the read and the write of a flip here too; `TextReads` says that what was read is
promoted exactly where the file is, so that such an edit cannot undo or forge a landing
(`FlipKeeps`).  What carries `LandedIsTrue`
over hours of edits is `VerifiedStep`: a delta every copy of which reads consolidated
stays so in every step, of apply, of people, or of a kill.  `WitnessIsEarned` then
needs no more than the comparison that `--execute` makes before it writes the witness,
read over files of which `StateInv` says what they were.

`VerdictStands` adds `VerdictInv`: what `--init` saw of every delta and expects of every
file (`PlanInv`), that the archive holds disposed deltas only, and that the drafts which
`--execute` found ready, and the create's page, are as it found them, but for edits that
are counted (`ReadyInv`).  A file that is expected to end as another one does has the
same deltas, outstanding or promoted (`ProjectionTells`), so a row that finds no drift
finds everything the preflight asks for (`RowIsAccepted`), whatever the rows before it
flipped and moved to the archive.

`HandoffProofs` proves, from `CarryConstants` and `StartsAreProjects`, for any set of
hooks, sessions, plans and starts:

* `CarryStands`: `Spec => CarryIsNotLost`
* `ContextStands`: `Spec => []ContextIsHonest`
* `ToldOnce`: `Spec => EachConcernOnce`
* `FreshStands`: `Spec => []FreshIsEarned`
* `RegistersStand`: `Spec => RegistersNest`

`StartsAreProjects` says what a project is found in: it has a commit, a directory of
plans whose names have an order, and a carry file that an earlier hook wrote: a carry
shows what the plans say, and "emitted" stands for something printed.

`CarryInv` says of every hook that it holds the lock file from the comparison to the
unlock, that the state file is the one it compared until it replaces it
(`OnlyHolder`: no other hook can), and what it is about to write: first its own
capture, the carry it read or, for a reason, none; then, after printing, the carry of
its first write.  That last part is why a carry survives the second write of a hook
that another one overtook.  `GateInv` says that a sentinel stands for every concern
that was raised and for no other, unless a gate is about to speak of it or failed
(`Remembered`), and that a gate whose project stood still since it began missed no
concern (`Complete`).  Neither property is inductive alone: whether a concern may be
raised again, or a carry dropped, depends on what a gate or a hook read several steps
before.

`HonestInv` says where the text of a context comes from: a captured carry, in a hook or
in the file, is one of `TextsOf(plans)`, and an emission was printed before it is called
emitted.  That such a text accounts for every plan is `RenderAccounts`, a lemma about
`plan-handoff.py` alone: the files are taken in the order of their names, and each one
that is not shown under the caps is named or counted, or the text says that it is not
complete.  The model defines it by a recursive function over that order.  The proof
shows that the function exists and goes through the files by their least
counterexample, as the library's induction cannot be instantiated.

`FreshInv` follows a check call by call.  Past `git status` there was a moment of the
check, one that the history variable `moments` holds, at which the clean files were those
of a commit of HEAD not before the handoff's (`Seen`).  HEAD holds a commit once
(`HistoryInv`), so a log without commits since the handoff's means that this later commit
holds the files as that one does (`NothingSince`, again by least counterexample, over the
commits between); by the end the files were those of the handoff's commit itself.
`RegistersStand` rests on `Nested`, of the three files as they are, and on `Renaming`,
of a run that renames: each staged sibling is its file with one more line, of a heading
that the file does not have, and the renames done are the first ones, so that the index
follows the digests and these the archive wherever the run is killed.

`CuratedPagesProofs` proves, from `OriginsAreHistories` (a page is written in a project
with a commit, and lines are texts) and `TextConstants` (ids are names, fragments and
pages are sequences of lines):

* `LintStands`: `PagesSpec => []LintIsHonest`
* `FlipsStand`: `PagesSpec => FlipsLand`
* `ArchiveStands`: `PagesSpec => ArchiveKeepsDeltas`
* `SingleFaultStands`: `PagesSpec => SingleFaultIsSeen`
* `MergeStands`: `PagesSpec => MergeIsSeen`

`PinInv` says that what stands in the report is what lint says of those pins now, and
that the range pin is what it was or what lint made of it; a lint that nobody followed by
a change is all that the property is about.  The rest is about diffs.  `Kept` is a
recursive function, so the lines that two texts have in common are told apart by `Rank`,
the number of kept lines up to one (`KeptIs`).  Two bodies without an added and without a
removed line lie in the kept lines of both texts (`RankRuns`: over such a run the rank
grows by one with each line), both begin at the first declaration (`DeclaredFirst`), and
so have equal lines as far as both go (`BodiesContinue`).  That lint is silent about a
file only when it is that of the pin's commit is `UntouchedFile`: the first commit where
it differs touched it.

The theorems about texts need little of the history (`TextInv`: the files are sequences
of lines) and much of the grammars.  A scan is a function from the number of lines read
to a state (`ScanBy`, `SectionBy`), and two scans are compared by following them until
the first line at which they would part (`LeastOf`).  `FlippedScan` follows the reader
through a text and through the flipped text: the same states but for the status of the
records whose line was rewritten.  `FlipKeepsLines` and `FlipDoes` say that this line is
the one that the reader takes for the status.  `GoesOn` follows the reader of a
fragment and of an archive file with the fragment's section appended to it: from the
first header they add the same records (`SectionStart` is that header when the preamble
is plain).  For a single fault, `FencesPair` says that in a plain text each fence ends
what the one before it began, whatever stands between.  Nothing is known of the text
after the edit but that it is not damaged.  In a common beginning that holds its
envelope the two scans are the same (`EnvelopeShared`, `PrefixScans`); in a common end,
where both texts end outside of fences, the scan of the edited text is inside of fences
where that of the plain one is, or has found no header yet (`EndsPair`).  One edit leaves
only one line that is in neither (`EditIsOne`), and a header below the envelope and
outside of fences is read (`HeadersAre`).
`MergeStands` gives the three scans of a manifest one shape, `Block`: a key at a line, so
many items after it, and no further item before the next key.  A page that a scan does
not refuse has one or none (`CarriesBlock`), scans that both accept it find the same one
(`SameBlock`), the readers take just its items (`ConsumerBlock`), and lines after the
last item, or a key and items before the closing rule, make a longer one
(`GrownBlock`, `FreshBlock`) and leave what is around it (`GapIs`).

So each safety and action property that a passing run checks is a theorem as well.
Model-checked only: `LockIsReleased`, `RunsConverge`, `BatchCompletes` and `TurnEnds`,
which are liveness under fairness, out of the prover's reach.

## 6. Plan

Done: the lifecycle, native routing and completion; promotion, its batch and its
texts; the pins of wiki lint; freshness, gates, carry, plans and closeout.  Next:
`SourcePublish` (the rename race of two publishers) and backup retention.

Not modelled, and why:

* Secret, model-name and portability gates, the other checks of `wiki-lint.py`,
  `kb-lint.py`, doctors, status reports, setup checks, recall: they read text once and
  keep no state between two steps.  What could be wrong in them is a pattern or a
  message, which tests reach.
* `external-review.py` and the ask helpers drive external programs; onboarding,
  interpreter choice and the shell wrappers run one command after another.
* Hazards outside the models.  The targets of an installation are computed before
  the lock and its files are written after it.  Three backups of a target are kept,
  and a fourth update drops the oldest.  Two publishers of one snapshot race for one
  rename, and the loser validates what the other published.  A lease that cannot be
  deleted is covered by `RevokeFails`.  Roles of a SessionStart hook killed between
  session and binding stay in the session file.  Status stops at 1024 records.  A child
  that stops before it is registered, and never again, is never judged.
