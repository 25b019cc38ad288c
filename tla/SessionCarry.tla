----------------------------- MODULE SessionCarry -----------------------------
(***************************************************************************)
(* native-session.py: the hook that captures the project's handoff before  *)
(* a compaction and gives it back at the SessionStart after it, through    *)
(* one state file per session and project.  Two terminals can resume the   *)
(* same session, so two hooks may run at once; atomic_write of             *)
(* native_hook_io.py compares the file with what the hook read under a     *)
(* lock file and then replaces it.  A hook can be killed at any step, and  *)
(* then its lock file stays.                                               *)
(***************************************************************************)
EXTENDS Freshness, PlanHandoff

CONSTANTS
  Hooks,      \* hook processes of the session
  MaxEvents   \* bound on the events of a behaviour

ASSUME CarryConstants == MaxEvents \in Nat /\ Hooks \cap {"nobody"} = {}

VARIABLES
  plans,      \* workflow/plans/
  file,       \* the state file
  lock,       \* its lock file: who created it
  hook,       \* the hooks
  aged,       \* carries older than CARRY_AGE
  events,     \* bound, and the source of nonces: events so far
  printed     \* history: the emissions that were printed

carryVars == <<plans, file, lock, hook, aged, events, printed>>

-----------------------------------------------------------------------------

\* A carry, and what a hook takes from it: its nonce, NEXT.md and the plans.
NoCarry == [nonce |-> 0, next |-> Missing, plans |-> Bounded(<<>>)]

NoFile == [carry |-> NoCarry, emission |-> 0, status |-> "absent"]
StateFile(carry, emission, status) == [carry |-> carry, emission |-> emission, status |-> status]

\* The sources of a session start; startup, resume and clear are alike.
Sources == {"startup", "compact"}

NoHook ==
  [at |-> "idle", mode |-> "session", source |-> "startup", nonce |-> 0, read |-> NoFile,
   carry |-> NoCarry, context |-> NoCarry, expected |-> NoFile, content |-> NoFile]

At(h, at) == hook[h].at = at
Moves(h, at) == hook' = [hook EXCEPT ![h].at = at]
Ends(h) == hook' = [hook EXCEPT ![h] = NoHook]

\* The texts that a capture may make of these plans: rendered, or a pointer to them.
TextsOf(ps) ==
  {Bounded(Render(ps, scan)) : scan \in Scans(ps)} \cup {[parts |-> <<>>, cut |-> TRUE]}

\* capture: NEXT.md and the plans as they are now.
Captures(nonce) == {[nonce |-> nonce, next |-> tree.next, plans |-> text] : text \in TextsOf(plans)}

-----------------------------------------------------------------------------

\* The host runs the hook: before a compaction, or at a session start.
HookBegins(h) ==
  /\ At(h, "idle") /\ events < MaxEvents /\ events' = events + 1
  /\ \E mode \in {"session", "compact"}, source \in Sources :
       /\ mode = "compact" => source = "compact"
       /\ hook' = [hook EXCEPT ![h] =
            [NoHook EXCEPT !.at = "read", !.mode = mode, !.source = source, !.nonce = events + 1]]
  /\ UNCHANGED <<plans, file, lock, aged, printed>>

\* load_carry.
Loaded(f) == IF f.carry.nonce \in aged THEN NoCarry ELSE f.carry

HookReads(h) ==
  /\ At(h, "read")
  /\ hook' = [hook EXCEPT ![h].at = "gather", ![h].read = file, ![h].carry = Loaded(file),
                          ![h].expected = file]
  /\ UNCHANGED <<plans, file, lock, aged, events, printed>>

\* session_context: the carry, or else what stands in the project now.
Given(carry, new) == IF carry = NoCarry THEN new ELSE carry

\* main: what becomes of the carry, and the context of a session start.
HookGathers(h) ==
  /\ At(h, "gather")
  /\ \E new \in Captures(hook[h].nonce) :
       LET keeps == hook[h].mode = "session" /\ hook[h].source = "compact"
           carry == CASE hook[h].mode = "compact" -> new
                      [] keeps -> hook[h].carry
                      [] OTHER -> NoCarry
       IN hook' = [hook EXCEPT ![h].at = "lock", ![h].carry = carry,
                    ![h].context = Given(carry, new),
                    ![h].content = StateFile(carry, hook[h].nonce, "prepared")]
  /\ UNCHANGED <<plans, file, lock, aged, events, printed>>

\* Mutant of Exclusive: a lock file that exists is no obstacle.
Shared == TRUE

\* open(lock, "x").
Exclusive == lock = "nobody"

HookLocks(h) ==
  /\ At(h, "lock")
  /\ IF Exclusive THEN lock' = h /\ Moves(h, "compare") ELSE UNCHANGED lock /\ Ends(h)
  /\ UNCHANGED <<plans, file, aged, events, printed>>

\* The file is what the hook captured, before the new one is staged and after.
HookCompares(h) ==
  /\ At(h, "compare")
  /\ IF file = hook[h].expected
     THEN Moves(h, "replace") /\ UNCHANGED lock
     ELSE Ends(h) /\ lock' = "nobody"
  /\ UNCHANGED <<plans, file, aged, events, printed>>

HookReplaces(h) ==
  /\ At(h, "replace")
  /\ file' = hook[h].content
  /\ Moves(h, "unlock")
  /\ UNCHANGED <<plans, lock, aged, events, printed>>

HookUnlocks(h) ==
  /\ At(h, "unlock")
  /\ lock' = "nobody"
  /\ IF hook[h].content.status = "prepared" THEN Moves(h, "print") ELSE Ends(h)
  /\ UNCHANGED <<plans, file, aged, events, printed>>

\* The output, and then the second write.
HookPrints(h) ==
  /\ At(h, "print")
  /\ printed' = printed \cup {hook[h].nonce}
  /\ hook' = [hook EXCEPT ![h].at = "lock", ![h].expected = hook[h].content,
                          ![h].content.status = "emitted"]
  /\ UNCHANGED <<plans, file, lock, aged, events>>

\* What it reads is a link, too large or not a state file, or an access fails: it
\* ends, and lets go of the lock file.
HookRefuses(h) ==
  /\ \/ hook[h].at \in {"read", "gather", "print"} /\ UNCHANGED lock
     \/ hook[h].at \in {"compare", "replace"} /\ lock' = "nobody"
  /\ Ends(h)
  /\ UNCHANGED <<plans, file, aged, events, printed>>

\* A timeout of the host.
HookDies(h) ==
  /\ ~At(h, "idle") /\ Ends(h)
  /\ UNCHANGED <<plans, file, lock, aged, events, printed>>

\* A person removes the lock file of a hook that is gone.
ClearLock ==
  /\ lock # "nobody" /\ hook[lock].at \notin {"compare", "replace", "unlock"}
  /\ lock' = "nobody"
  /\ UNCHANGED <<plans, file, hook, aged, events, printed>>

\* A day passes, which no hook lives to see.
Age ==
  /\ aged' = aged \cup 1..events /\ aged' # aged
  /\ \A h \in Hooks : At(h, "idle")
  /\ UNCHANGED <<plans, file, lock, hook, events, printed>>

HookSteps(h) ==
  HookReads(h) \/ HookGathers(h) \/ HookLocks(h) \/ HookCompares(h) \/ HookReplaces(h)
    \/ HookUnlocks(h) \/ HookPrints(h) \/ HookRefuses(h)

CarrySteps ==
  /\ (\E h \in Hooks : HookBegins(h) \/ HookSteps(h) \/ HookDies(h)) \/ ClearLock \/ Age
  /\ UNCHANGED freshnessVars

-----------------------------------------------------------------------------

\* A carry that is in the file is dropped only by a hook that read it there: by the
\* capture of a later compaction, by a session start that has no use for it, or
\* because it is too old.
CarryIsNotLost ==
  [][file'.carry # file.carry =>
       \E h \in Hooks :
         /\ At(h, "replace") /\ hook[h].read.carry = file.carry
         /\ \/ file'.carry.nonce = hook[h].nonce
            \/ file'.carry = NoCarry /\ (hook[h].source # "compact" \/ file.carry.nonce \in aged)]_carryVars

\* The record says "emitted" of what was printed and of nothing else; a context that
\* claims to be a carry comes from a capture that is not too old; and every context
\* accounts for the plans of the project.
ContextIsHonest ==
  /\ file.status = "emitted" => file.emission \in printed
  /\ \A h \in Hooks : At(h, "print") =>
       /\ Accounted(plans, hook[h].context.plans)
       /\ hook[h].mode = "session" /\ hook[h].carry # NoCarry => hook[h].carry.nonce \notin aged
       /\ hook[h].context.nonce = hook[h].nonce \/ hook[h].source = "compact"
=============================================================================
