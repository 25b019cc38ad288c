-------------------------- MODULE NativeCompletion --------------------------
(***************************************************************************)
(* What became of admitted launches: scripts/native_agents/completion.py   *)
(* and audit.py, as driven by scripts/native-agent-contract.py.            *)
(*                                                                         *)
(* PreToolUse has recorded the requested identity of a call (NativeRouting *)
(* tells which calls).  The host spawns a child, perhaps as something      *)
(* else.  PostToolUse registers the child under its call.  SubagentStop    *)
(* compares what event and transcript tell of the child with the request,  *)
(* writes a verdict and then, if they differ, tells the host to block the  *)
(* child, once; the hook can be killed before or after the write.  The     *)
(* status command reads all launches, then all children, then all          *)
(* verdicts, file by file and without a lock, and says whether anything    *)
(* needs attention.                                                        *)
(*                                                                         *)
(* One session of one project.  The host calls SubagentStop for a child    *)
(* when the child stops, so there is one such hook for a child at a time;  *)
(* PostToolUse may come before it, meanwhile, after it, twice or never.    *)
(***************************************************************************)
EXTENDS Naturals

CONSTANTS
  Calls,       \* delegating tool calls
  Children,    \* native child agents
  Identities,  \* records of an agent type, a model and a reasoning effort
  Requests,    \* identities that a pin requests
  None         \* no record, or a value that is not reported

ASSUME CompletionConstants ==
  /\ Requests \subseteq Identities
  /\ \A i, j \in Identities :
       i.type = j.type /\ i.model = j.model /\ i.effort = j.effort => i = j
  /\ \A i \in Identities : i.model # None /\ i.effort # None
  /\ None \notin Identities /\ None \notin Calls /\ None \notin {"kept", "changed"}

Agents == [call : Calls, request : Requests]
Inputs == {"kept", "changed"}
States == {"VERIFIED_RUNTIME", "MISMATCH", "UNVERIFIED"}
Verdicts == [state : States, request : Requests \cup {None}, blocked : BOOLEAN]
Answers == {"silent", "block"}
Phases == {"idle", "launches", "agents", "verdicts"}

ASSUME RecordsDiffer == None \notin Agents /\ None \notin Verdicts /\ None \notin Answers

VARIABLES
  launches,   \* launches/<call>.json: the identity requested
  agents,     \* agents/<child>.json: the launch the child is registered under
  verdicts,   \* verdicts/<child>.json
  tool,       \* the tool of a call ran with what pre recorded ("kept") or not ("changed")
  caller,     \* the call that spawned a child
  runs,       \* the identities a child ran its turns as
  last,       \* the identity of its last turn
  draft,      \* the verdict its SubagentStop hook is about to write, or None
  answer,     \* what that hook, its verdict written, is about to tell the host, or None
  blocks,     \* history: how often the host was told to block a child
  untold,     \* history: children whose hook was killed before it told the host so
  phase,      \* the directory the status command reads
  todo,       \* the files of it that are still to be read
  launched,   \* the launches it has read
  children,   \* the children it has read
  judged,     \* the verdicts it has read
  damaged,    \* a record could not be read
  before      \* history: calls recorded when the command began

\* The fields that "requested" holds.
SameTuple(x, y) == x.model = y.model /\ x.effort = y.effort

records == <<launches, agents, verdicts>>
host  == <<tool, caller, runs, last>>
stop  == <<draft, answer, blocks, untold>>
audit == <<phase, todo, launched, children, judged, damaged, before>>
vars  == <<records, host, stop, audit>>

NoneOf(S) == [x \in S |-> None]

Init ==
  /\ launches = NoneOf(Calls) /\ agents = NoneOf(Children) /\ verdicts = NoneOf(Children)
  /\ tool = NoneOf(Calls) /\ caller = NoneOf(Children)
  /\ runs = [k \in Children |-> {}] /\ last = NoneOf(Children)
  /\ draft = NoneOf(Children) /\ answer = NoneOf(Children)
  /\ blocks = [k \in Children |-> 0] /\ untold = {}
  /\ phase = "idle" /\ todo = {} /\ damaged = FALSE /\ before = {}
  /\ launched = NoneOf(Calls) /\ children = NoneOf(Children) /\ judged = NoneOf(Children)

-----------------------------------------------------------------------------
(* Launch and registration *)

\* pre admits the call and records it; two handlers may do so, before the tool runs.
Launch(c) ==
  /\ tool[c] = None
  /\ \E i \in Requests : launches' = [launches EXCEPT ![c] = i]
  /\ UNCHANGED <<agents, verdicts, host, stop, audit>>

\* The host runs the tool, with this input or with what other hooks made of it,
\* and a child starts its first turn.
Spawn(c, k) ==
  /\ launches[c] # None /\ tool[c] = None /\ caller[k] = None
  /\ \E as \in Inputs : tool' = [tool EXCEPT ![c] = as]
  /\ caller' = [caller EXCEPT ![k] = c]
  /\ \E i \in Identities : /\ last' = [last EXCEPT ![k] = i]
                           /\ runs' = [runs EXCEPT ![k] = {i}]
  /\ UNCHANGED <<records, stop, audit>>

\* No SubagentStop hook of the child runs.
Undisturbed(k) == draft[k] = None /\ answer[k] = None

\* A child that was blocked, or is sent input, runs another turn.
Turn(k) ==
  /\ caller[k] # None /\ Undisturbed(k)
  /\ \E i \in Identities : /\ i.type = last[k].type
                           /\ last' = [last EXCEPT ![k] = i]
                           /\ runs' = [runs EXCEPT ![k] = @ \cup {i}]
  /\ UNCHANGED <<records, tool, caller, stop, audit>>

\* post: the child is registered under its call, unless the tool ran with another
\* role, model or effort.
Post(c, k) ==
  /\ caller[k] = c /\ tool[c] = "kept"
  /\ agents' = [agents EXCEPT ![k] = [call |-> c, request |-> launches[c]]]
  /\ UNCHANGED <<launches, verdicts, host, stop, audit>>

-----------------------------------------------------------------------------
(* SubagentStop *)

\* What event and transcript tell.  The event may lack the model.  The transcript
\* may be missing or unlinked (None), lack values, or end at an earlier turn.
Transcripts(k) ==
  {[model |-> None, effort |-> None]}
  \cup UNION {[model : {i.model}, effort : {i.effort, None}] : i \in runs[k]}

\* Mutant of Mismatch: event and transcript are not compared.
MismatchOfRequest(q, o, contradiction) ==
  \/ o.type # q.type
  \/ o.model \notin {None, q.model} \/ o.effort \notin {None, q.effort}

Mismatch(q, o, contradiction) ==
  \/ o.type # q.type \/ contradiction
  \/ o.model \notin {None, q.model} \/ o.effort \notin {None, q.effort}

\* Mutant of StateFor: a child without a registration is left pending.
StateForPending(a, o, contradiction) ==
  IF a = None THEN "PENDING"
  ELSE IF Mismatch(a.request, o, contradiction) THEN "MISMATCH"
  ELSE IF o.model # None /\ o.effort # None THEN "VERIFIED_RUNTIME" ELSE "UNVERIFIED"

StateFor(a, o, contradiction) ==
  IF a = None THEN "UNVERIFIED"
  ELSE IF Mismatch(a.request, o, contradiction) THEN "MISMATCH"
  ELSE IF o.model # None /\ o.effort # None THEN "VERIFIED_RUNTIME" ELSE "UNVERIFIED"

\* Mutant of WasBlocked: the verdict before is not consulted.
WasBlockedNever(k) == FALSE

WasBlocked(k) == verdicts[k] # None /\ verdicts[k].blocked

\* The verdict on what the event names as model and the transcript tells.
Judged(k, named, told) ==
  LET observed == [type |-> last[k].type, effort |-> told.effort,
                   model |-> IF named # None THEN named ELSE told.model]
      contradiction == told.model # None /\ named # None /\ told.model # named
      state == StateFor(agents[k], observed, contradiction)
  IN  [state |-> state, blocked |-> WasBlocked(k) \/ state = "MISMATCH",
       request |-> IF agents[k] = None THEN None ELSE agents[k].request]

\* stopped: registration and verdict before are read, and the evidence.
StopReads(k) ==
  /\ caller[k] # None /\ Undisturbed(k)
  /\ \E named \in {last[k].model, None}, told \in Transcripts(k) :
       draft' = [draft EXCEPT ![k] = Judged(k, named, told)]
  /\ UNCHANGED <<records, host, answer, blocks, untold, audit>>

\* The verdict replaces the one before, and says already that its child was blocked
\* once; a mismatch is to block the child the first time.
StopWrites(k) ==
  /\ draft[k] # None
  /\ verdicts' = [verdicts EXCEPT ![k] = draft[k]]
  /\ answer' = [answer EXCEPT ![k] =
       IF draft[k].state = "MISMATCH" /\ ~WasBlocked(k) THEN "block" ELSE "silent"]
  /\ draft' = [draft EXCEPT ![k] = None]
  /\ UNCHANGED <<launches, agents, host, blocks, untold, audit>>

\* The answer is returned and printed: only now does the host block the child.
StopTells(k) ==
  /\ answer[k] # None
  /\ answer' = [answer EXCEPT ![k] = None]
  /\ blocks' = [blocks EXCEPT ![k] = IF answer[k] = "block" THEN @ + 1 ELSE @]
  /\ UNCHANGED <<records, host, draft, untold, audit>>

\* The host's timeout kills the hook, or it fails, before or after it wrote the
\* verdict; the child goes on.
StopDies(k) ==
  /\ ~Undisturbed(k)
  /\ draft' = [draft EXCEPT ![k] = None] /\ answer' = [answer EXCEPT ![k] = None]
  /\ untold' = IF answer[k] = "block" THEN untold \cup {k} ELSE untold
  /\ UNCHANGED <<records, host, blocks, audit>>

-----------------------------------------------------------------------------
(* Status *)

AuditBegins ==
  /\ phase = "idle"
  /\ phase' = "launches" /\ todo' = Calls
  /\ before' = {c \in Calls : launches[c] # None}
  /\ UNCHANGED <<records, host, stop, launched, children, judged, damaged>>

\* records: a file that is absent when its turn comes is not in the result.
ReadLaunch(c) ==
  /\ phase = "launches" /\ c \in todo
  /\ launched' = [launched EXCEPT ![c] = launches[c]]
  /\ todo' = todo \ {c}
  /\ UNCHANGED <<records, host, stop, phase, children, judged, damaged, before>>

ReadAgent(k) ==
  /\ phase = "agents" /\ k \in todo
  /\ children' = [children EXCEPT ![k] = agents[k]]
  /\ todo' = todo \ {k}
  /\ UNCHANGED <<records, host, stop, phase, launched, judged, damaged, before>>

ReadVerdict(k) ==
  /\ phase = "verdicts" /\ k \in todo
  /\ judged' = [judged EXCEPT ![k] = verdicts[k]]
  /\ todo' = todo \ {k}
  /\ UNCHANGED <<records, host, stop, phase, launched, children, damaged, before>>

\* Mutant of Unread: records beyond the limit are ignored.
UnreadSilently == todo' = {} /\ UNCHANGED damaged

\* Files beyond the limit of 1024, or that cannot be read, are counted as damaged.
Unread == todo' = {} /\ damaged' = TRUE

AuditMisses ==
  /\ phase # "idle" /\ todo # {}
  /\ Unread
  /\ UNCHANGED <<records, host, stop, phase, launched, children, judged, before>>

NextDirectory ==
  /\ phase \in {"launches", "agents"} /\ todo = {}
  /\ phase' = IF phase = "launches" THEN "agents" ELSE "verdicts"
  /\ todo' = Children
  /\ UNCHANGED <<records, host, stop, launched, children, judged, damaged, before>>

Linked(c) == {k \in Children : children[k] # None /\ children[k].call = c}

\* The child is verified, and launch, registration and verdict agree.  (A verdict
\* also keeps what was observed, which is compared again; VERIFIED_RUNTIME says
\* that it agreed with the request.)
Verified(c, k) ==
  /\ Linked(c) = {k} /\ judged[k] # None
  /\ judged[k].state = "VERIFIED_RUNTIME"
  /\ \A x \in {judged[k].request, children[k].request} : SameTuple(x, launched[c])

\* The attention that summary reports: pending, unregistered, unverified, mismatch or damaged is not zero.
NeedsAttention ==
  \/ damaged
  \/ \E k \in Children : children[k] # None /\ launched[children[k].call] = None
  \/ \E c \in Calls : launched[c] # None /\ ~\E k \in Children : Verified(c, k)
  \/ \E k \in Children : judged[k] # None /\ ~\E c \in Calls : launched[c] # None /\ Linked(c) = {k}

AuditEnds ==
  /\ phase = "verdicts" /\ todo = {}
  /\ phase' = "idle" /\ damaged' = FALSE /\ before' = {}
  /\ launched' = NoneOf(Calls) /\ children' = NoneOf(Children) /\ judged' = NoneOf(Children)
  /\ UNCHANGED <<records, host, stop, todo>>

Status ==
  \/ AuditBegins \/ AuditMisses \/ NextDirectory \/ AuditEnds
  \/ \E c \in Calls : ReadLaunch(c)
  \/ \E k \in Children : ReadAgent(k) \/ ReadVerdict(k)

Next ==
  \/ \E c \in Calls : Launch(c)
  \/ \E c \in Calls, k \in Children : Spawn(c, k) \/ Post(c, k)
  \/ \E k \in Children : Turn(k) \/ StopReads(k) \/ StopWrites(k) \/ StopTells(k) \/ StopDies(k)
  \/ Status

Spec == Init /\ [][Next]_vars

-----------------------------------------------------------------------------
(* Properties *)

\* Type correctness of the whole state.
TypeOK ==
  /\ launches \in [Calls -> Requests \cup {None}] /\ tool \in [Calls -> Inputs \cup {None}]
  /\ agents \in [Children -> Agents \cup {None}]
  /\ verdicts \in [Children -> Verdicts \cup {None}] /\ draft \in [Children -> Verdicts \cup {None}]
  /\ caller \in [Children -> Calls \cup {None}]
  /\ runs \in [Children -> SUBSET Identities] /\ last \in [Children -> Identities \cup {None}]
  /\ answer \in [Children -> Answers \cup {None}]
  /\ blocks \in [Children -> Nat] /\ untold \in SUBSET Children
  /\ phase \in Phases /\ todo \in (SUBSET Calls) \cup (SUBSET Children)
  /\ launched \in [Calls -> Requests \cup {None}]
  /\ children \in [Children -> Agents \cup {None}]
  /\ judged \in [Children -> Verdicts \cup {None}]
  /\ damaged \in BOOLEAN /\ before \in SUBSET Calls

\* A status without attention is sound: of every launch recorded before the
\* command began, a child of that call ran a turn as the launch requested, and
\* registration and verdict say so, although hooks wrote all along.
AuditIsSound ==
  phase = "verdicts" /\ todo = {} /\ ~NeedsAttention =>
    \A c \in before : \E k \in Children :
      caller[k] = c /\ agents[k] # None /\ launches[c] \in runs[k]

\* A child is blocked at most once, however often it stops, and a verdict of MISMATCH
\* stands only for a child that was blocked, or whose hook is about to tell the host
\* to, or was killed between writing that verdict and telling the host.  Such a child
\* was never blocked, although its verdict says blocked_once.
BlockedOnce ==
  \A k \in Children :
    /\ blocks[k] <= 1
    /\ verdicts[k] # None /\ verdicts[k].state = "MISMATCH"
         => blocks[k] = 1 \/ answer[k] = "block" \/ k \in untold

\* A verified verdict rests on one turn that ran with both the model and the effort
\* requested, never on the model of one turn and the effort of another.
VerifiedRan ==
  \A k \in Children : verdicts[k] # None /\ verdicts[k].state = "VERIFIED_RUNTIME"
    => verdicts[k].request \in runs[k]
=============================================================================
