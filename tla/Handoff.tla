------------------------------- MODULE Handoff -------------------------------
(***************************************************************************)
(* The continuity of a project across sessions, composed: the project and  *)
(* the checks of its handoff (Freshness), the gates of a session           *)
(* (HandoffGates), the carry across compactions (SessionCarry) and the     *)
(* archive of closed units (Closeout).  They meet in the working tree:     *)
(* gates and captures read it, the gates' sentinel files are in it, and    *)
(* the checks must not take those for work.                                *)
(***************************************************************************)
EXTENDS HandoffGates, SessionCarry, Closeout

CONSTANTS
  Starts   \* the projects at the beginning: [actors, trees, tree, plans,
           \* changes, events, file]

\* A project begins with at least one commit and some of its bound used up; what its
\* state file says is emitted was, and a carry in it was captured from its plans.
ASSUME StartsAreProjects ==
  \A s \in Starts :
    /\ s.changes \in Nat
    /\ Len(s.trees) \in Nat \ {0} /\ DOMAIN s.trees = 1..Len(s.trees)
    /\ IsDirectory(s.plans)
    /\ s.file.status = "emitted" => s.file.emission \in 1..s.events
    /\ s.file.carry = NoCarry \/ s.file.carry.plans \in TextsOf(s.plans)

VARIABLES
  actors   \* what is at work in this behaviour: checkers, "session", "carry", "closeout"

vars == <<freshnessVars, gateVars, carryVars, hook, closeoutVars, actors>>

Init ==
  /\ \E s \in Starts :
       /\ actors = s.actors /\ trees = s.trees /\ tree = s.tree /\ plans = s.plans
       /\ head = [n \in DOMAIN s.trees |-> n]
       /\ changes = s.changes /\ events = s.events /\ file = s.file
  /\ sentinels = {}
  /\ checks = [by \in Checkers |-> Idle] /\ moments = [by \in Checkers |-> {}]
  /\ session \in Sessions /\ turn = "idle" /\ active = FALSE /\ gate = Closed
  /\ raised = [s \in Sessions |-> [c \in Concerns |-> 0]] /\ excused = {} /\ prompts = 0
  /\ lock = "nobody" /\ hook = [h \in Hooks |-> NoHook]
  /\ aged = {} /\ printed = 1..events
  /\ registers = Nowhere /\ staged = Nowhere /\ closeout = NoCloseout

Project ==
  /\ actors # {"closeout"} /\ ProjectChanges
  /\ UNCHANGED <<gateVars, carryVars, hook, closeoutVars, actors>>

Check ==
  /\ \E by \in Checkers \cap actors : CheckStep(by)
  /\ UNCHANGED <<gateVars, carryVars, hook, closeoutVars, actors>>

Gates ==
  /\ "session" \in actors /\ SessionSteps
  /\ UNCHANGED <<carryVars, hook, closeoutVars, actors>>

Carry ==
  /\ "carry" \in actors /\ CarrySteps
  /\ UNCHANGED <<gateVars, closeoutVars, actors>>

CloseUnit ==
  /\ "closeout" \in actors /\ CloseoutSteps
  /\ UNCHANGED <<freshnessVars, gateVars, carryVars, hook, actors>>

Next == Project \/ Check \/ Gates \/ Carry \/ CloseUnit

\* A gate that started ends, if it is not killed; and the agent asks again to stop.
Fairness ==
  /\ WF_vars(GateSteps /\ Gates)
  /\ SF_vars(RunGate("stop") /\ Gates)

Spec == Init /\ [][Next]_vars /\ Fairness
=============================================================================
