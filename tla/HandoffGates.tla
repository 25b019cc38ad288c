---------------------------- MODULE HandoffGates ----------------------------
(***************************************************************************)
(* The two gates that ask a session for its handoff: stop-handoff-gate.sh  *)
(* when the agent wants to end its turn, compact-handoff-gate.sh before    *)
(* the context is compacted.  A gate speaks once per concern and session;  *)
(* the sentinel file that remembers it is written before it speaks, and a  *)
(* gate that cannot write it lets go.  stop_hook_active tells the gate     *)
(* that it spoke a moment ago, but the host does not always set it.        *)
(***************************************************************************)
EXTENDS Freshness

CONSTANTS
  Sessions,    \* sessions of this project, one at a time
  MaxPrompts   \* bound on the prompts of a behaviour

ASSUME GateConstants == MaxPrompts \in Nat

VARIABLES
  session,  \* the session that is open
  turn,     \* "idle", "working", "stop" or "compact": whose move it is
  active,   \* stop_hook_active: the turn goes on because the gate spoke
  gate,     \* the gate that runs
  raised,   \* history: how often each session was told of each concern, 2 is more than once
  excused,  \* history: what a gate failed to look at, remember or say
  prompts   \* bound: prompts so far

gateVars == <<session, turn, active, gate, raised, excused, prompts>>

-----------------------------------------------------------------------------

Concerns == {"handoff", "budget", "compact"}
ConcernsOf(g) == IF g = "stop" THEN {"handoff", "budget"} ELSE {"compact"}

Closed == [at |-> "closed", work |-> {}, block |-> {}, since |-> 0]

\* The concerns that stand, by the working tree at this moment: work without a
\* handoff that a gate can use, and a handoff that is too long.
Work == Dirt \ {"tooling"}
Unhanded(work, next) == work # {} /\ ~("next" \in work /\ GateAccepts(next))
Stands(c) == IF c = "budget" THEN tree.next.long ELSE Unhanded(Work, tree.next)

Warned(c) == <<c, session>> \in sentinels

-----------------------------------------------------------------------------

\* The user's next prompt, of this session or of a new one.
Prompt ==
  /\ turn = "idle" /\ prompts < MaxPrompts /\ prompts' = prompts + 1
  /\ session' \in {session} \cup {s \in Sessions : \A c \in Concerns : raised[s][c] = 0}
  /\ turn' = "working" /\ active' = FALSE
  /\ UNCHANGED <<gate, raised, excused, sentinels>>

\* The host runs a gate: the agent wants to stop, or the context is full.
RunGate(g) ==
  /\ turn = "working"
  /\ turn' = g
  /\ gate' = [Closed EXCEPT !.at = IF g = "stop" THEN "reenter" ELSE "status", !.since = changes]
  /\ UNCHANGED <<session, active, raised, excused, prompts, sentinels>>

\* Stop only: the host may say that the gate just spoke.
Reenter ==
  /\ gate.at = "reenter"
  /\ \/ active /\ turn' = "idle" /\ gate' = Closed
     \/ gate' = [gate EXCEPT !.at = "status"] /\ UNCHANGED turn
  /\ UNCHANGED <<session, active, raised, excused, prompts, sentinels>>

Concern == IF turn = "stop" THEN "handoff" ELSE "compact"

\* What changed in the project; a failure reads as no work.
GateStatus ==
  /\ gate.at = "status"
  /\ \/ gate' = [gate EXCEPT !.at = "lint", !.work = IF Warned(Concern) THEN {} ELSE Work]
        /\ UNCHANGED excused
     \/ gate' = [gate EXCEPT !.at = "lint"] /\ excused' = excused \cup {<<Concern, session>>}
  /\ UNCHANGED <<session, turn, active, raised, prompts, sentinels>>

\* NEXT.md is not among it, or not usable.
GateLint ==
  /\ gate.at = "lint"
  /\ gate' = [gate EXCEPT !.at = "budget",
       !.block = IF Unhanded(gate.work, tree.next) THEN {Concern} ELSE {}]
  /\ UNCHANGED <<session, turn, active, raised, excused, prompts, sentinels>>

\* Mutant of BudgetWarned: the handoff's sentinel stands for both concerns.
AnyWarned == Warned("budget") \/ Warned("handoff")

BudgetWarned == Warned("budget")

GateBudget ==
  /\ gate.at = "budget"
  /\ gate' = [gate EXCEPT !.at = "remember",
       !.block = @ \cup (IF turn = "stop" /\ tree.next.long /\ ~BudgetWarned THEN {"budget"} ELSE {})]
  /\ UNCHANGED <<session, turn, active, raised, excused, prompts, sentinels>>

\* Mutant of Kept: a concern is raised whether or not its sentinel was written.
KeptAnyway(block, written) == block

\* The concerns still raised when only these sentinels could be written.
Kept(block, written) == block \cap written

GateRemember ==
  /\ gate.at = "remember"
  /\ \E written \in SUBSET gate.block :
       /\ sentinels' = sentinels \cup {<<c, session>> : c \in written}
       /\ gate' = [gate EXCEPT !.at = "say", !.block = Kept(gate.block, written)]
       /\ excused' = excused \cup {<<c, session>> : c \in gate.block \ written}
  /\ UNCHANGED <<session, turn, active, raised, prompts>>

\* exit 2, or {"continue": false}: the turn goes on; exit 0: the host goes on.
Speak ==
  /\ gate.at = "say" /\ gate.block # {}
  /\ raised' = [raised EXCEPT ![session] =
       [c \in Concerns |-> IF c \in gate.block /\ @[c] < 2 THEN @[c] + 1 ELSE @[c]]]
  /\ turn' = "working" /\ active' = (turn = "stop" \/ active)
  /\ gate' = Closed
  /\ UNCHANGED <<session, excused, prompts, sentinels>>

LetGo ==
  /\ gate.at = "say" /\ gate.block = {}
  /\ turn' = IF turn = "stop" THEN "idle" ELSE "working"
  /\ gate' = Closed
  /\ UNCHANGED <<session, active, raised, excused, prompts, sentinels>>

\* The host kills a gate that takes too long, or it has no Python: the host goes on.
GateDies ==
  /\ gate.at \notin {"closed"}
  /\ turn' = IF turn = "stop" THEN "idle" ELSE "working"
  /\ gate' = Closed
  /\ excused' = excused \cup {<<c, session>> : c \in ConcernsOf(turn)}
  /\ UNCHANGED <<session, active, raised, prompts, sentinels>>

GateSteps ==
  Reenter \/ GateStatus \/ GateLint \/ GateBudget \/ GateRemember \/ Speak \/ LetGo

SessionSteps ==
  /\ Prompt \/ (\E g \in {"stop", "compact"} : RunGate(g)) \/ GateSteps \/ GateDies
  /\ UNCHANGED <<repo, checks, moments, changes>>

-----------------------------------------------------------------------------

\* A session hears of a concern at most once; and a gate that lets it go while a
\* concern stands, with the project as it found it, has told the session of it
\* before, or failed to look, to remember or to speak.
EachConcernOnce ==
  [][/\ \A s \in Sessions, c \in Concerns : raised'[s][c] <= 1
     /\ gate.at = "say" /\ gate.block = {} /\ gate'.at = "closed" /\ gate.since = changes =>
          \A c \in ConcernsOf(turn) :
            Stands(c) => raised[session][c] = 1 \/ <<c, session>> \in excused]_gateVars

\* A turn is never trapped in a Stop loop: when the agent keeps asking to stop,
\* it gets there, even if the host never says that the gate just spoke.
TurnEnds == turn = "stop" ~> turn = "idle"
=============================================================================
