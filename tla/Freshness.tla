------------------------------ MODULE Freshness ------------------------------
(***************************************************************************)
(* Does NEXT.md, the handoff a session left, still describe the project?   *)
(* Two programs answer, one Git call a step, while people and other        *)
(* sessions go on editing and committing: freshness-inject.sh in a hook    *)
(* and check_next of project-health.py.  next-stamp.py moves the commit    *)
(* the handoff was verified at.                                            *)
(*                                                                         *)
(* The content of a file is a number, 0 when the file is not there.  HEAD  *)
(* is a linear history of commits; a commit is a number.                   *)
(***************************************************************************)
EXTENDS Naturals, Sequences, FiniteSets

CONSTANTS
  Checkers,    \* what runs checks: "inject", "health"
  MaxChanges,  \* bound on edits, commits, rewrites and stamps
  MaxVersion   \* bound on the content of a file

ASSUME FreshnessConstants ==
  /\ Checkers \subseteq {"inject", "health"}
  /\ MaxChanges \in Nat /\ MaxVersion \in Nat \ {0}

VARIABLES
  head,       \* the commits of HEAD, the last one is HEAD
  trees,      \* what each commit holds
  tree,       \* the working tree
  sentinels,  \* the files .codex/.stop-warned-* and .compact-warned-*: <<concern, session>>
  checks,     \* for each checker, the check that runs or ran last
  moments,    \* history: the working trees since the check began
  changes     \* bound: changes so far

repo == <<head, trees, tree>>
freshnessVars == <<head, trees, tree, sentinels, checks, moments, changes>>

-----------------------------------------------------------------------------

\* The unit's files, the project's context files (status, logs), all others.
Files == {"unit", "context", "other"}

Shapes == {"usable", "unclosed", "broken"}
Unknown == 0   \* a commit that git does not know

\* NEXT.md: the commit it names, the state of its frontmatter and sections, and
\* whether it exceeds its line budget.
Handoff(verified, shape, long) == [verified |-> verified, shape |-> shape, long |-> long]
Missing == Handoff(Unknown, "missing", FALSE)

\* `git status`: what differs from HEAD, with the hooks' own state files.
HeadTree == trees[head[Len(head)]]
Dirt ==
  {f \in Files : tree[f] # HeadTree[f]}
    \cup (IF tree.next # HeadTree.next THEN {"next"} ELSE {})
    \cup (IF sentinels # {} THEN {"tooling"} ELSE {})

Ancestor(c) == \E n \in DOMAIN head : head[n] = c

\* `git log c..HEAD -- f` prints something.
ChangedSince(c, f) ==
  \E n \in 2..Len(head) :
    /\ \A m \in n..Len(head) : head[m] # c
    /\ trees[head[n]][f] # trees[head[n - 1]][f]

\* The linters want the same fields and sections.  The shell's reader and the gates'
\* go to the end of the file when the frontmatter is not closed, project-health does not.
HealthAccepts(next) == next.shape = "usable"
HookAccepts(next) == next.shape \in {"usable", "unclosed"}
GateAccepts(next) == next.shape \in {"usable", "unclosed"}

\* _is_tooling_state, and the same filter in the hook.
RealDirt(dirt) == dirt \ {"tooling"}

-----------------------------------------------------------------------------
(* A check.                                                                *)

Idle ==
  [at |-> "idle", verified |-> Unknown, dirt |-> {}, verdict |-> "none", warn |-> {}, blind |-> FALSE]

Verdict(by, v) == checks' = [checks EXCEPT ![by].at = "idle", ![by].verdict = v]
Goes(by, at) == checks' = [checks EXCEPT ![by].at = at]

\* The frontmatter, the schema.
BeginCheck(by) ==
  /\ checks[by].at = "idle"
  /\ moments' = [moments EXCEPT ![by] = {tree}]
  /\ LET next == tree.next IN
     checks' = [checks EXCEPT ![by] =
       IF next = Missing THEN [Idle EXCEPT !.verdict = "none"]
       ELSE IF ~(IF by = "health" THEN HealthAccepts(next) ELSE HookAccepts(next)) THEN [Idle EXCEPT !.verdict = "UNVERIFIED"]
       ELSE [Idle EXCEPT !.at = "identity", !.verified = next.verified]]

\* Check 0: git rev-parse --verify.
Identity(by) ==
  /\ checks[by].at = "identity"
  /\ IF checks[by].verified = Unknown THEN Verdict(by, "UNVERIFIED") ELSE Goes(by, "ancestry")

\* Check 1: git merge-base --is-ancestor.
Ancestry(by) ==
  /\ checks[by].at = "ancestry"
  /\ IF Ancestor(checks[by].verified) THEN Goes(by, "status") ELSE Verdict(by, "STALE")

Status(by) ==
  /\ checks[by].at = "status"
  /\ checks' = [checks EXCEPT ![by].at = "exists", ![by].dirt = RealDirt(Dirt)]

\* The paths the handoff names are there.
Exists(by) ==
  /\ checks[by].at = "exists"
  /\ IF tree.unit = 0 THEN Verdict(by, "STALE") ELSE Goes(by, "log")

\* Check 2: commits since the handoff that touch the unit.  The hook calls them
\* PARTIALLY STALE.
Log(by) ==
  /\ checks[by].at = "log"
  /\ IF ChangedSince(checks[by].verified, "unit") THEN Verdict(by, "STALE") ELSE Goes(by, "dirt")

\* Mutant of Dirty: the dirt is looked at after the log was read, not before.
DirtyNow(by) ==
  /\ checks[by].at = "dirt"
  /\ IF "unit" \in RealDirt(Dirt) THEN Verdict(by, "WIP") ELSE Goes(by, "context")

\* Uncommitted work on the unit, as `git status` gave it.
Dirty(by) ==
  /\ checks[by].at = "dirt"
  /\ IF "unit" \in checks[by].dirt THEN Verdict(by, "WIP") ELSE Goes(by, "context")

\* Commits since the handoff that touch the context files; FRESH, with warnings.  When
\* this Git call fails project-health warns, and the hook takes it for "no commits".
Context(by) ==
  /\ checks[by].at = "context"
  /\ \E fails \in BOOLEAN :
       LET dirt == IF checks[by].dirt # {} THEN {"dirt"} ELSE {}
           context == IF fails THEN by = "health" ELSE ChangedSince(checks[by].verified, "context")
       IN checks' = [checks EXCEPT ![by].at = "idle", ![by].verdict = "FRESH",
            ![by].warn = dirt \cup (IF context THEN {"context"} ELSE {}),
            ![by].blind = fails /\ by = "inject"]

\* A Git call fails or times out.
GitFails(by) ==
  /\ checks[by].at \in {"identity", "ancestry", "status", "log"}
  /\ Verdict(by, "UNVERIFIED")

CheckStep(by) ==
  /\ \/ BeginCheck(by)
     \/ /\ \/ Identity(by) \/ Ancestry(by) \/ Status(by) \/ Exists(by) \/ Log(by) \/ Dirty(by)
           \/ Context(by) \/ GitFails(by)
        /\ UNCHANGED moments
  /\ UNCHANGED <<repo, sentinels, changes>>

-----------------------------------------------------------------------------
(* What changes the project meanwhile.                                     *)

Running == {by \in Checkers : checks[by].at # "idle"}

Changes(t) ==
  /\ changes < MaxChanges /\ changes' = changes + 1
  /\ tree' = t
  /\ moments' = [by \in Checkers |-> IF by \in Running THEN moments[by] \cup {t} ELSE moments[by]]

EditFile ==
  /\ \E f \in Files, v \in 0..MaxVersion : v # tree[f] /\ Changes([tree EXCEPT ![f] = v])
  /\ UNCHANGED <<head, trees>>

\* The agent or a person rewrites the handoff, after looking at a commit.
EditNext ==
  /\ \E c \in {Unknown} \cup DOMAIN trees, shape \in Shapes, long \in BOOLEAN :
       Changes([tree EXCEPT !.next = Handoff(c, shape, long)])
  /\ UNCHANGED <<head, trees>>

\* All that is dirty, or one file of it.
Commit ==
  /\ \E S \in {Dirt \ {"tooling"}} \cup {{f} : f \in Dirt \ {"tooling"}} :
       LET c == Cardinality(DOMAIN trees) + 1 IN
       /\ S # {}
       /\ trees' = [n \in 1..c |-> IF n < c THEN trees[n] ELSE [f \in DOMAIN tree |-> IF f \in S THEN tree[f] ELSE HeadTree[f]]]
       /\ head' = Append(head, c)
  /\ Changes(tree)

\* HEAD loses its last commit, by a soft reset or a hard one, which takes the working
\* tree back as well.  Not during a check, which has no protection from it.
Rewrite ==
  /\ Running = {} /\ Len(head) > 1
  /\ head' = SubSeq(head, 1, Len(head) - 1)
  /\ \E t \in {tree, trees[head[Len(head) - 1]]} : Changes(t)
  /\ UNCHANGED trees

\* next-stamp.py: a handoff that is committed and clean names another commit.
Stamp ==
  /\ tree.next # Missing /\ "next" \notin Dirt
  /\ \E c \in DOMAIN trees :
       /\ tree.next.verified # c
       /\ Changes([tree EXCEPT !.next.verified = c])
  /\ UNCHANGED <<head, trees>>

ProjectChanges ==
  /\ EditFile \/ EditNext \/ Commit \/ Rewrite \/ Stamp
  /\ UNCHANGED <<sentinels, checks>>

-----------------------------------------------------------------------------

\* A FRESH verdict is earned: at some moment since the check began the unit's files
\* in the working tree were those of the commit the handoff names; when the verdict
\* carries no warning, the context files were as well, unless the hook could not see.
FreshIsEarned ==
  \A by \in Checkers : checks[by].at = "idle" /\ checks[by].verdict = "FRESH" =>
    \E t \in moments[by] :
      /\ t.unit = trees[checks[by].verified].unit
      /\ checks[by].warn = {} /\ ~checks[by].blind => t.context = trees[checks[by].verified].context
=============================================================================
