----------------------- MODULE NativeCompletionProofs -----------------------
(***************************************************************************)
(* Proofs about NativeCompletion: type correctness, that a verified        *)
(* verdict rests on one turn, that a child is blocked once, and that a     *)
(* status without attention is sound, for any number of calls, children    *)
(* and identities.                                                         *)
(***************************************************************************)
EXTENDS NativeCompletion, TLAPS

LEMMA StateType ==
  ASSUME NEW a, NEW o, NEW b
  PROVE  StateFor(a, o, b) \in States
BY DEF StateFor, States

LEMMA JudgedType ==
  ASSUME TypeOK, NEW k \in Children, NEW named, NEW told
  PROVE  Judged(k, named, told) \in Verdicts
<1>1. WasBlocked(k) \in BOOLEAN
  BY DEF TypeOK, Verdicts, WasBlocked
<1>2. agents[k] # None => agents[k].request \in Requests
  BY DEF TypeOK, Agents
<1> QED
  BY <1>1, <1>2, StateType DEF Judged, Verdicts

\* A tool runs only for a launch that was recorded.
Recorded == \A c \in Calls : tool[c] # None => launches[c] # None

TypeInv == TypeOK /\ Recorded

LEMMA TypeInit == Init => TypeInv
<1> SUFFICES ASSUME Init PROVE TypeInv
  OBVIOUS
<1>1. /\ launches \in [Calls -> Requests \cup {None}] /\ tool \in [Calls -> Inputs \cup {None}]
      /\ agents \in [Children -> Agents \cup {None}]
      /\ verdicts \in [Children -> Verdicts \cup {None}]
      /\ draft \in [Children -> Verdicts \cup {None}]
      /\ caller \in [Children -> Calls \cup {None}]
  BY DEF Init, NoneOf
<1>2. /\ runs \in [Children -> SUBSET Identities] /\ last \in [Children -> Identities \cup {None}]
      /\ blocks \in [Children -> Nat] /\ untold \in SUBSET Children
      /\ answer \in [Children -> Answers \cup {None}]
  BY DEF Init, NoneOf
<1>3. /\ launched \in [Calls -> Requests \cup {None}] /\ children \in [Children -> Agents \cup {None}]
      /\ judged \in [Children -> Verdicts \cup {None}]
  BY DEF Init, NoneOf
<1>4. Recorded
  BY DEF Init, NoneOf, Recorded
<1> QED
  BY <1>1, <1>2, <1>3, <1>4 DEF Init, TypeOK, TypeInv, Phases

LEMMA TypeNext == ASSUME TypeInv, [Next]_vars PROVE TypeInv'
<1> USE DEF TypeInv, Recorded, TypeOK, records, host, stop, audit
<1>1. CASE \E c \in Calls : Launch(c)
  BY <1>1, CompletionConstants DEF Launch
<1>2. CASE \E c \in Calls, k \in Children : Spawn(c, k)
  <2>1. PICK c \in Calls, k \in Children : Spawn(c, k)
    BY <1>2
  <2>2. PICK as \in Inputs, i \in Identities :
          /\ tool' = [tool EXCEPT ![c] = as] /\ caller' = [caller EXCEPT ![k] = c]
          /\ last' = [last EXCEPT ![k] = i] /\ runs' = [runs EXCEPT ![k] = {i}]
    BY <2>1 DEF Spawn
  <2>3. runs' \in [Children -> SUBSET Identities] /\ last' \in [Children -> Identities \cup {None}]
    BY <2>2
  <2>4. tool' \in [Calls -> Inputs \cup {None}] /\ caller' \in [Children -> Calls \cup {None}]
    BY <2>2
  <2>5. Recorded'
    BY <2>1, <2>2 DEF Spawn
  <2> QED
    BY <2>1, <2>3, <2>4, <2>5 DEF Spawn
<1>3. CASE \E c \in Calls, k \in Children : Post(c, k)
  <2>1. PICK c \in Calls, k \in Children : Post(c, k)
    BY <1>3
  <2>2. launches[c] \in Requests
    BY <2>1, CompletionConstants DEF Post
  <2> QED
    BY <2>1, <2>2 DEF Post, Agents
<1>4. CASE \E k \in Children : Turn(k)
  BY <1>4 DEF Turn
<1>5. CASE \E k \in Children : StopReads(k)
  BY <1>5, JudgedType DEF StopReads
<1>6. CASE \E k \in Children : StopWrites(k)
  BY <1>6 DEF StopWrites, Answers
<1>7. CASE \E k \in Children : StopTells(k) \/ StopDies(k)
  BY <1>7 DEF StopTells, StopDies
<1>8. CASE AuditBegins
  BY <1>8 DEF AuditBegins, Phases
<1>9. CASE AuditMisses
  BY <1>9 DEF AuditMisses, Unread
<1>10. CASE NextDirectory
  <2>1. phase' \in Phases
    BY <1>10 DEF NextDirectory, Phases
  <2>2. todo' \in (SUBSET Calls) \cup (SUBSET Children)
    BY <1>10 DEF NextDirectory
  <2> QED
    BY <1>10, <2>1, <2>2 DEF NextDirectory
<1>11. CASE AuditEnds
  BY <1>11 DEF AuditEnds, Phases, NoneOf
<1>12. CASE \E c \in Calls : ReadLaunch(c)
  BY <1>12 DEF ReadLaunch
<1>13. CASE \E k \in Children : ReadAgent(k)
  BY <1>13 DEF ReadAgent
<1>14. CASE \E k \in Children : ReadVerdict(k)
  BY <1>14 DEF ReadVerdict
<1>15. CASE UNCHANGED vars
  BY <1>15 DEF vars
<1> QED
  BY <1>1, <1>2, <1>3, <1>4, <1>5, <1>6, <1>7, <1>8, <1>9, <1>10, <1>11, <1>12, <1>13, <1>14,
     <1>15 DEF Next, Status

\* Every reachable state is well typed.
THEOREM CompletionTypes == Spec => []TypeOK
<1>1. TypeInv => TypeOK
  BY DEF TypeInv
<1> QED
  BY <1>1, TypeInit, TypeNext, PTL DEF Spec

-----------------------------------------------------------------------------
(* Registration and verdicts *)

\* What a child that has not been spawned cannot have.
Unborn(k) == caller[k] = None => /\ agents[k] = None /\ verdicts[k] = None
                                 /\ draft[k] = None /\ judged[k] = None

\* A registration is of the call that spawned the child, with its last launch.
Registered(k) == agents[k] # None => /\ caller[k] = agents[k].call
                                     /\ tool[agents[k].call] = "kept"
                                     /\ agents[k].request = launches[agents[k].call]

\* A child keeps its type, and ran its last turn.
Ran(k) == caller[k] # None => last[k] \in runs[k] /\ \A i \in runs[k] : i.type = last[k].type

\* A verdict, written or not, read or not, is of the registration and true.
Truthful(k, v) == v # None =>
  /\ v.request # None => agents[k] # None /\ v.request = agents[k].request
  /\ v.state = "VERIFIED_RUNTIME" => v.request # None /\ v.request \in runs[k]

VerdictInv ==
  /\ TypeInv
  /\ \A k \in Children : /\ Unborn(k) /\ Registered(k) /\ Ran(k)
                         /\ Truthful(k, verdicts[k]) /\ Truthful(k, draft[k])
                         /\ Truthful(k, judged[k])

LEMMA VerdictInit == Init => VerdictInv
BY TypeInit DEF Init, VerdictInv, Unborn, Registered, Ran, Truthful, NoneOf

\* Evidence that verifies a request shows one turn that ran as requested.
LEMMA Evidence ==
  ASSUME TypeOK, NEW k \in Children, Ran(k), caller[k] # None,
         NEW named \in {last[k].model, None}, NEW told \in Transcripts(k),
         Judged(k, named, told).state = "VERIFIED_RUNTIME"
  PROVE  agents[k] # None /\ agents[k].request \in runs[k]
<1> DEFINE q == agents[k].request
           o == [type |-> last[k].type, effort |-> told.effort,
                 model |-> IF named # None THEN named ELSE told.model]
           b == told.model # None /\ named # None /\ told.model # named
<1>0. StateFor(agents[k], o, b) = "VERIFIED_RUNTIME" /\ agents[k] # None
  BY DEF Judged, StateFor
<1>1. q \in Identities
  BY <1>0, CompletionConstants DEF TypeOK, Agents
<1>2. ~Mismatch(q, o, b) /\ o.model # None /\ o.effort # None
  BY <1>0 DEF StateFor
<1>3. o.type = q.type /\ ~b /\ o.model = q.model /\ o.effort = q.effort
  BY <1>2 DEF Mismatch
<1>4. told.effort # None
  BY <1>2
<1>5. PICK i \in runs[k] : told \in [model : {i.model}, effort : {i.effort, None}]
  BY <1>4 DEF Transcripts
<1>6. i \in Identities
  BY DEF TypeOK
<1>7. told.model = i.model /\ told.effort = i.effort /\ i.model # None
  BY <1>4, <1>5, <1>6, CompletionConstants
<1>8. o.model = i.model
  BY <1>3, <1>7
<1>9. q.type = i.type /\ q.model = i.model /\ q.effort = i.effort
  BY <1>3, <1>7, <1>8 DEF Ran
<1> QED
  BY <1>0, <1>1, <1>6, <1>9, CompletionConstants

\* One step keeps registrations and verdicts as they should be.
LEMMA VerdictNext == ASSUME VerdictInv, [Next]_vars PROVE VerdictInv'
<1> DEFINE Good(k) == /\ Unborn(k) /\ Registered(k) /\ Ran(k) /\ Truthful(k, verdicts[k])
                      /\ Truthful(k, draft[k]) /\ Truthful(k, judged[k])
<1>1. TypeInv'
  BY TypeNext DEF VerdictInv
<1> SUFFICES ASSUME NEW k \in Children PROVE Good(k)'
  BY <1>1 DEF VerdictInv
<1>2. TypeOK /\ Recorded /\ Good(k)
  BY DEF VerdictInv, TypeInv
<1> USE DEF Unborn, Registered, Ran, Truthful, records, host, stop, audit
<1>3. CASE \E c \in Calls : Launch(c)
  <2>1. PICK c \in Calls : Launch(c)
    BY <1>3
  <2>2. agents[k] # None => agents[k].call # c
    BY <1>2, <2>1, CompletionConstants DEF Launch
  <2> QED
    BY <1>2, <2>1, <2>2 DEF Launch, TypeOK, Agents
<1>4. CASE \E c \in Calls, j \in Children : Spawn(c, j)
  <2>1. PICK c \in Calls, j \in Children : Spawn(c, j)
    BY <1>4
  <2>2. agents[k] # None => agents[k].call # c
    BY <1>2, <2>1, CompletionConstants DEF Spawn
  <2>3. PICK as \in Inputs, i \in Identities :
          /\ tool' = [tool EXCEPT ![c] = as] /\ caller' = [caller EXCEPT ![j] = c]
          /\ last' = [last EXCEPT ![j] = i] /\ runs' = [runs EXCEPT ![j] = {i}]
    BY <2>1 DEF Spawn
  <2>4. UNCHANGED <<launches, agents, verdicts, draft, judged>> /\ caller[j] = None
    BY <2>1 DEF Spawn
  <2>5. CASE k = j
    BY <1>2, <2>3, <2>4, <2>5 DEF TypeOK
  <2>6. CASE k # j
    <3>1. /\ caller'[k] = caller[k] /\ last'[k] = last[k] /\ runs'[k] = runs[k]
          /\ \A d \in Calls \ {c} : tool'[d] = tool[d]
      BY <2>3, <2>6, <1>2 DEF TypeOK
    <3>2. agents[k] # None => agents[k].call \in Calls \ {c}
      BY <1>2, <2>2 DEF TypeOK, Agents
    <3> QED
      BY <1>2, <2>4, <3>1, <3>2
  <2> QED
    BY <2>5, <2>6
<1>5. CASE \E c \in Calls, j \in Children : Post(c, j)
  <2>1. PICK c \in Calls, j \in Children : Post(c, j)
    BY <1>5
  <2>2. CASE k # j
    BY <1>2, <2>1, <2>2 DEF Post, TypeOK
  <2>3. CASE k = j
    <3>1. agents'[k] = [call |-> c, request |-> launches[c]] /\ caller[k] = c /\ tool[c] = "kept"
      BY <1>2, <2>1, <2>3 DEF Post, TypeOK
    <3>2. agents[k] # None => agents[k].request = launches[c]
      BY <1>2, <3>1
    <3>3. [call |-> c, request |-> launches[c]] # None
      <4>1. launches[c] \in Requests
        BY <1>2, <3>1, CompletionConstants DEF TypeOK, Recorded
      <4> QED
        BY <4>1, RecordsDiffer DEF Agents
    <3> QED
      BY <1>2, <2>1, <3>1, <3>2, <3>3, CompletionConstants DEF Post
  <2> QED
    BY <2>2, <2>3
<1>6. CASE \E j \in Children : Turn(j)
  BY <1>2, <1>6 DEF Turn, TypeOK
<1>7. CASE \E j \in Children : StopReads(j)
  <2>1. PICK j \in Children : StopReads(j)
    BY <1>7
  <2>2. CASE k # j
    BY <1>2, <2>1, <2>2 DEF StopReads, TypeOK
  <2>3. CASE k = j
    <3>1. PICK named \in {last[k].model, None}, told \in Transcripts(k) :
            draft' = [draft EXCEPT ![k] = Judged(k, named, told)]
      BY <2>1, <2>3 DEF StopReads
    <3>2. caller[k] # None
      BY <2>1, <2>3 DEF StopReads
    <3>3. draft'[k] = Judged(k, named, told)
      BY <1>2, <3>1 DEF TypeOK
    <3>4. draft'[k].state = "VERIFIED_RUNTIME"
            => agents[k] # None /\ agents[k].request \in runs[k]
      BY <1>2, <3>2, <3>3, Evidence
    <3>5. draft'[k].request = IF agents[k] = None THEN None ELSE agents[k].request
      BY <3>3 DEF Judged
    <3>6. agents[k] # None => agents[k].request # None
      BY <1>2, CompletionConstants DEF TypeOK, Agents
    <3> QED
      BY <1>2, <2>1, <2>3, <3>2, <3>4, <3>5, <3>6 DEF StopReads
  <2> QED
    BY <2>2, <2>3
<1>8. CASE \E j \in Children : StopWrites(j)
  BY <1>2, <1>8 DEF StopWrites, TypeOK
<1>9. CASE \E j \in Children : StopTells(j) \/ StopDies(j)
  BY <1>2, <1>9 DEF StopTells, StopDies, TypeOK
<1>10. CASE AuditBegins \/ AuditMisses \/ NextDirectory
  BY <1>2, <1>10 DEF AuditBegins, AuditMisses, NextDirectory
<1>11. CASE AuditEnds
  BY <1>2, <1>11 DEF AuditEnds, NoneOf
<1>12. CASE \E c \in Calls : ReadLaunch(c)
  BY <1>2, <1>12 DEF ReadLaunch
<1>13. CASE \E j \in Children : ReadAgent(j)
  BY <1>2, <1>13 DEF ReadAgent
<1>14. CASE \E j \in Children : ReadVerdict(j)
  BY <1>2, <1>14 DEF ReadVerdict, TypeOK
<1>15. CASE UNCHANGED vars
  BY <1>2, <1>15 DEF vars
<1> QED
  BY <1>3, <1>4, <1>5, <1>6, <1>7, <1>8, <1>9, <1>10, <1>11, <1>12, <1>13, <1>14, <1>15
  DEF Next, Status

LEMMA VerdictsVerified == VerdictInv => VerifiedRan
BY DEF VerdictInv, Truthful, VerifiedRan

\* A verified verdict rests on one turn with the model and the effort requested.
THEOREM Verification == Spec => []VerifiedRan
BY VerdictInit, VerdictNext, VerdictsVerified, PTL DEF Spec

-----------------------------------------------------------------------------
(* Blocking *)

\* A verdict that says its child was blocked has had one answer of its hook: told,
\* still to be told, or lost with the hook.
Told(k) == blocks[k] = 1 /\ answer[k] # "block" /\ k \notin untold
ToTell(k) == blocks[k] = 0 /\ answer[k] = "block" /\ k \notin untold
Lost(k) == blocks[k] = 0 /\ answer[k] # "block" /\ k \in untold
NeverDue(k) == blocks[k] = 0 /\ answer[k] # "block" /\ k \notin untold

\* The verdict remembers whether its child was to be blocked; one of MISMATCH says so.
Blocking(k) ==
  /\ IF WasBlocked(k) THEN Told(k) \/ ToTell(k) \/ Lost(k) ELSE NeverDue(k)
  /\ verdicts[k] # None /\ verdicts[k].state = "MISMATCH" => verdicts[k].blocked
  /\ draft[k] # None => /\ answer[k] = None
                        /\ draft[k].blocked <=> WasBlocked(k) \/ draft[k].state = "MISMATCH"

BlockInv == TypeInv /\ \A k \in Children : Blocking(k)

LEMMA BlockInit == Init => BlockInv
BY TypeInit, RecordsDiffer
DEF Init, BlockInv, Blocking, WasBlocked, NeverDue, NoneOf, Answers

LEMMA BlockNext == ASSUME BlockInv, [Next]_vars PROVE BlockInv'
<1>1. TypeInv'
  BY TypeNext DEF BlockInv
<1> SUFFICES ASSUME NEW k \in Children PROVE Blocking(k)'
  BY <1>1 DEF BlockInv
<1>2. TypeOK /\ Blocking(k)
  BY DEF BlockInv, TypeInv
<1> DEFINE Same == UNCHANGED <<verdicts, draft, answer, blocks, untold>>
<1>3. CASE \E j \in Children : StopReads(j)
  <2>1. PICK j \in Children : StopReads(j)
    BY <1>3
  <2>2. UNCHANGED <<verdicts, answer, blocks, untold>>
    BY <2>1 DEF StopReads, records
  <2>3. CASE k # j
    <3>1. draft'[k] = draft[k]
      BY <1>2, <2>1, <2>3 DEF StopReads, TypeOK
    <3> QED
      BY <1>2, <2>2, <3>1 DEF Blocking, WasBlocked, Told, ToTell, Lost, NeverDue
  <2>4. CASE k = j
    <3>1. PICK named, told : draft' = [draft EXCEPT ![k] = Judged(k, named, told)]
      BY <2>1, <2>4 DEF StopReads
    <3>2. (draft'[k].blocked <=> WasBlocked(k) \/ draft'[k].state = "MISMATCH")
      BY <1>2, <3>1 DEF TypeOK, Judged
    <3>3. answer[k] = None
      BY <2>1, <2>4 DEF StopReads, Undisturbed
    <3> QED
      BY <1>2, <2>2, <3>2, <3>3 DEF Blocking, WasBlocked, Told, ToTell, Lost, NeverDue
  <2> QED
    BY <2>3, <2>4
<1>4. CASE \E j \in Children : StopWrites(j)
  <2>1. PICK j \in Children : StopWrites(j)
    BY <1>4
  <2>2. CASE k # j
    <3>1. /\ verdicts'[k] = verdicts[k] /\ draft'[k] = draft[k] /\ answer'[k] = answer[k]
          /\ UNCHANGED <<blocks, untold>>
      BY <1>2, <2>1, <2>2 DEF StopWrites, TypeOK
    <3> QED
      BY <1>2, <3>1 DEF Blocking, WasBlocked, Told, ToTell, Lost, NeverDue
  <2>3. CASE k = j
    <3>1. /\ verdicts'[k] = draft[k] /\ draft[k] # None /\ draft'[k] = None
          /\ UNCHANGED <<blocks, untold>>
      BY <1>2, <2>1, <2>3 DEF StopWrites, TypeOK
    <3>2. answer'[k] = IF draft[k].state = "MISMATCH" /\ ~WasBlocked(k) THEN "block" ELSE "silent"
      BY <1>2, <2>1, <2>3 DEF StopWrites, TypeOK
    <3>3. answer[k] = None /\ (draft[k].blocked <=> WasBlocked(k) \/ draft[k].state = "MISMATCH")
      BY <1>2, <3>1 DEF Blocking
    <3>4. WasBlocked(k)' <=> draft[k].blocked
      BY <3>1 DEF WasBlocked
    <3>5. answer[k] # "block"
      BY <3>3, RecordsDiffer DEF Answers
    <3>6. CASE WasBlocked(k)
      <4>1. (Told(k) \/ Lost(k))'
        BY <1>2, <3>1, <3>2, <3>5, <3>6 DEF Blocking, Told, ToTell, Lost
      <4> QED
        BY <3>1, <3>3, <3>4, <3>6, <4>1 DEF Blocking
    <3>7. CASE ~WasBlocked(k) /\ draft[k].state = "MISMATCH"
      <4>1. ToTell(k)'
        BY <1>2, <3>1, <3>2, <3>7 DEF Blocking, NeverDue, ToTell
      <4> QED
        BY <3>1, <3>3, <3>4, <3>7, <4>1 DEF Blocking
    <3>8. CASE ~WasBlocked(k) /\ draft[k].state # "MISMATCH"
      <4>1. NeverDue(k)'
        BY <1>2, <3>1, <3>2, <3>8 DEF Blocking, NeverDue
      <4> QED
        BY <3>1, <3>3, <3>4, <3>8, <4>1 DEF Blocking
    <3> QED
      BY <3>6, <3>7, <3>8
  <2> QED
    BY <2>2, <2>3
<1>5. CASE \E j \in Children : StopTells(j)
  <2>1. PICK j \in Children : StopTells(j)
    BY <1>5
  <2>2. UNCHANGED <<verdicts, draft, untold>>
    BY <2>1 DEF StopTells, records
  <2>3. CASE k # j
    <3>1. answer'[k] = answer[k] /\ blocks'[k] = blocks[k]
      BY <1>2, <2>1, <2>3 DEF StopTells, TypeOK
    <3> QED
      BY <1>2, <2>2, <3>1 DEF Blocking, WasBlocked, Told, ToTell, Lost, NeverDue
  <2>4. CASE k = j
    <3>1. /\ answer[k] # None /\ answer'[k] = None
          /\ blocks'[k] = IF answer[k] = "block" THEN blocks[k] + 1 ELSE blocks[k]
      BY <1>2, <2>1, <2>4 DEF StopTells, TypeOK
    <3>2. answer'[k] # "block"
      BY <3>1, RecordsDiffer DEF Answers
    <3> QED
      BY <1>2, <2>2, <3>1, <3>2 DEF Blocking, WasBlocked, Told, ToTell, Lost, NeverDue
  <2> QED
    BY <2>3, <2>4
<1>6. CASE \E j \in Children : StopDies(j)
  <2>1. PICK j \in Children : StopDies(j)
    BY <1>6
  <2>2. UNCHANGED <<verdicts, blocks>>
    BY <2>1 DEF StopDies, records
  <2>3. CASE k # j
    <3>1. answer'[k] = answer[k] /\ draft'[k] = draft[k] /\ (k \in untold' <=> k \in untold)
      BY <1>2, <2>1, <2>3 DEF StopDies, TypeOK
    <3> QED
      BY <1>2, <2>2, <3>1 DEF Blocking, WasBlocked, Told, ToTell, Lost, NeverDue
  <2>4. CASE k = j
    <3>1. /\ answer'[k] = None /\ draft'[k] = None
          /\ k \in untold' <=> k \in untold \/ answer[k] = "block"
      BY <1>2, <2>1, <2>4 DEF StopDies, TypeOK
    <3>2. answer'[k] # "block"
      BY <3>1, RecordsDiffer DEF Answers
    <3> QED
      BY <1>2, <2>2, <3>1, <3>2 DEF Blocking, WasBlocked, Told, ToTell, Lost, NeverDue
  <2> QED
    BY <2>3, <2>4
<1>7. CASE Same
  BY <1>2, <1>7 DEF Blocking, WasBlocked, Told, ToTell, Lost, NeverDue
<1>8. ASSUME NEW c \in Calls, Launch(c) \/ ReadLaunch(c) PROVE Same
  BY <1>8 DEF Launch, ReadLaunch, records, stop
<1>9. ASSUME NEW c \in Calls, NEW j \in Children, Spawn(c, j) \/ Post(c, j) PROVE Same
  BY <1>9 DEF Spawn, Post, records, stop
<1>10. ASSUME NEW j \in Children, Turn(j) \/ ReadAgent(j) \/ ReadVerdict(j) PROVE Same
  BY <1>10 DEF Turn, ReadAgent, ReadVerdict, records, stop
<1>11. ASSUME AuditBegins \/ AuditMisses \/ NextDirectory \/ AuditEnds \/ UNCHANGED vars
       PROVE  Same
  BY <1>11 DEF AuditBegins, AuditMisses, NextDirectory, AuditEnds, vars, records, stop
<1> QED
  BY <1>3, <1>4, <1>5, <1>6, <1>7, <1>8, <1>9, <1>10, <1>11 DEF Next, Status

LEMMA BlocksCounted == BlockInv => BlockedOnce
BY DEF BlockInv, Blocking, BlockedOnce, WasBlocked, Told, ToTell, Lost, NeverDue

\* A child is blocked at most once, and a mismatch stands for one that was blocked, is
\* about to be, or whose hook was killed before it could tell the host.
THEOREM Blocked == Spec => []BlockedOnce
BY BlockInit, BlockNext, BlocksCounted, PTL DEF Spec

-----------------------------------------------------------------------------
(* Status *)

\* Unless damage is counted, every launch recorded before the command began has
\* been read, or is still to be read.
Covered == phase # "idle" /\ ~damaged => \A c \in before :
  /\ launches[c] # None
  /\ launched[c] # None \/ (phase = "launches" /\ c \in todo)

\* A registration that was read is the one that stands.
Standing == \A k \in Children : children[k] # None => children[k] = agents[k]

AuditInv == VerdictInv /\ Covered /\ Standing

LEMMA AuditInit == Init => AuditInv
BY VerdictInit DEF Init, AuditInv, Covered, Standing, NoneOf

LEMMA AuditNext == ASSUME AuditInv, [Next]_vars PROVE AuditInv'
<1>1. VerdictInv'
  BY VerdictNext DEF AuditInv
<1>2. TypeOK /\ Recorded /\ Covered /\ Standing /\ \A k \in Children : Registered(k)
  BY DEF AuditInv, VerdictInv, TypeInv
<1> SUFFICES Covered' /\ Standing'
  BY <1>1 DEF AuditInv
<1> USE DEF Covered, Standing, records, host, stop, audit
<1>3. CASE \E c \in Calls : Launch(c)
  BY <1>2, <1>3, CompletionConstants DEF Launch, TypeOK
<1>4. CASE \E c \in Calls, k \in Children : Spawn(c, k)
  BY <1>2, <1>4 DEF Spawn
<1>5. CASE \E c \in Calls, k \in Children : Post(c, k)
  <2>1. PICK c \in Calls, k \in Children : Post(c, k)
    BY <1>5
  <2>2. agents[k] # None => agents[k] = [call |-> c, request |-> launches[c]]
    BY <1>2, <2>1 DEF Post, Registered, TypeOK, Agents
  <2>3. \A j \in Children : agents[j] # None => agents'[j] = agents[j]
    BY <1>2, <2>1, <2>2 DEF Post, TypeOK
  <2> QED
    BY <1>2, <2>1, <2>3 DEF Post
<1>6. CASE \E k \in Children : Turn(k) \/ StopReads(k) \/ StopWrites(k) \/ StopTells(k) \/ StopDies(k)
  BY <1>2, <1>6 DEF Turn, StopReads, StopWrites, StopTells, StopDies
<1>7. CASE AuditBegins
  BY <1>2, <1>7 DEF AuditBegins
<1>8. CASE AuditMisses
  BY <1>2, <1>8 DEF AuditMisses, Unread
<1>9. CASE NextDirectory
  BY <1>2, <1>9 DEF NextDirectory
<1>10. CASE AuditEnds
  BY <1>2, <1>10 DEF AuditEnds, NoneOf
<1>11. CASE \E c \in Calls : ReadLaunch(c)
  BY <1>2, <1>11 DEF ReadLaunch, TypeOK
<1>12. CASE \E k \in Children : ReadAgent(k)
  BY <1>2, <1>12 DEF ReadAgent, TypeOK
<1>13. CASE \E k \in Children : ReadVerdict(k)
  BY <1>2, <1>13 DEF ReadVerdict
<1>14. CASE UNCHANGED vars
  BY <1>2, <1>14 DEF vars
<1> QED
  BY <1>3, <1>4, <1>5, <1>6, <1>7, <1>8, <1>9, <1>10, <1>11, <1>12, <1>13, <1>14 DEF Next, Status

LEMMA AuditSafe == AuditInv => AuditIsSound
<1> SUFFICES ASSUME AuditInv, phase = "verdicts", todo = {}, ~NeedsAttention, NEW c \in before
             PROVE  \E k \in Children : caller[k] = c /\ agents[k] # None /\ launches[c] \in runs[k]
  BY DEF AuditIsSound
<1>1. c \in Calls /\ launched[c] # None
  BY DEF AuditInv, VerdictInv, TypeInv, TypeOK, Covered, NeedsAttention
<1>2. PICK k \in Children : Verified(c, k)
  BY <1>1 DEF NeedsAttention
<1>3. children[k] # None /\ children[k].call = c
  BY <1>2 DEF Verified, Linked
<1>4. agents[k] # None /\ agents[k].call = c
  BY <1>3 DEF AuditInv, Standing
<1>5. caller[k] = c /\ agents[k].request = launches[c]
  BY <1>4 DEF AuditInv, VerdictInv, Registered
<1>6. agents[k].request \in runs[k]
  BY <1>2 DEF AuditInv, VerdictInv, Truthful, Verified
<1> QED
  BY <1>4, <1>5, <1>6

\* A status without attention vouches for every launch recorded when it began.
THEOREM Auditing == Spec => []AuditIsSound
BY AuditInit, AuditNext, AuditSafe, PTL DEF Spec
=============================================================================
