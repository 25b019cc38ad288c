--------------------------- MODULE NativeRouting ---------------------------
(***************************************************************************)
(* Admission of delegated agents in one host session:                      *)
(* scripts/native_agents/routing.py and boundary.py, as driven by          *)
(* scripts/native-agent-contract.py.                                       *)
(*                                                                         *)
(* The SessionStart hook revokes the last attestation, discovers the       *)
(* catalog and attests the routing configuration against it; PreToolUse    *)
(* hooks, one process for each delegated launch, read the attestation and  *)
(* admit the launch, pass it on as none of theirs, or deny it.  All of     *)
(* them share small JSON files, each replaced atomically and read without  *)
(* a lock, while the user edits the configuration and the host may kill a  *)
(* hook at its timeout.  Every read and write of a file is a step.         *)
(*                                                                         *)
(* A session has one SessionStart hook at a time, and one project: events  *)
(* from outside the bound project are denied before anything is read.      *)
(* An attestation is known by the number of its SessionStart, which stands *)
(* for its time stamp and so for the digest a lease holds.                 *)
(***************************************************************************)
EXTENDS Naturals

CONSTANTS
  Hooks,       \* PreToolUse hook processes
  Roles,       \* role selectors: agent types, or task name prefixes
  Tuples,      \* pairs of a model and a reasoning effort
  Contents,    \* routing configurations: functions from roles to pins
  Missing,     \* the file does not exist
  Broken,      \* a routing file that does not parse, or is a link
  Omitted,     \* a launch that names neither model nor effort
  MaxStarts,   \* bound: SessionStart events
  MaxChanges   \* bound: edits of routing files and changes of the catalog

Pin == [default : Tuples, allowed : SUBSET Tuples]
Sources == {"project", "global"}
Numbers == 0..MaxStarts

ASSUME RoutingConstants ==
  /\ \A c \in Contents : /\ DOMAIN c \subseteq Roles /\ DOMAIN c # {}
                         /\ c \in [DOMAIN c -> Pin]
                         /\ \A r \in DOMAIN c : c[r].default \in c[r].allowed
  /\ Missing # Broken /\ {Missing, Broken} \cap Contents = {}
  /\ Missing \notin [source : Sources, pins : Contents]
  /\ Broken \notin [source : Sources, pins : Contents]
  /\ \A R \in SUBSET Roles : Missing # R
  /\ Missing \notin Numbers
  /\ Missing \notin [state : {"UNVERIFIED", "UNSET", "STALE", "FRESH"}, at : Numbers,
                     config : [source : Sources, pins : Contents] \cup {Missing},
                     roles : SUBSET Roles]
  /\ Omitted \notin Tuples
  /\ MaxStarts \in Nat /\ MaxChanges \in Nat

VARIABLES
  project,   \* <project>/.codex/agent-routing.json
  global,    \* CODEX_HOME/dev-setup-codex-community/agent-routing.json
  catalog,   \* the tuples the app server advertises
  binding,   \* bindings/<session>.json: the roles the session owns
  session,   \* sessions/<session>.json: the attestation
  lease,     \* leases/<session>.json: the number of the attestation it holds
  revoked,   \* revocations/<session>.json exists
  expired,   \* attestations that are older than MAX_AGE
  step,      \* where the SessionStart hook is
  found,     \* the catalog it discovered
  draft,     \* the attestation it is writing
  pc,        \* pc[h]: where hook h is
  ask,       \* ask[h]: the role and tuple of the launch
  config,    \* config[h]: the routing that pre loaded
  again,     \* again[h]: the routing that status loaded
  known,     \* known[h]: roles read from binding and attestation
  record,    \* record[h]: the attestation h read
  fresh,     \* fresh[h]: status reported FRESH
  launch,    \* launch[h]: launches/<call>.json of the last launch admitted
  starts,    \* SessionStart events so far
  changes,   \* changes made by the user and the provider
  valid,     \* history: completed attestations neither revoked nor expired
  held,      \* history: held[h]: those valid at some moment since h began
  pinned,    \* history: roles of completed attestations
  floor      \* history: floor[h]: pinned when h began

files == <<project, global, catalog, changes>>
store == <<binding, session, lease, revoked>>
start == <<step, found, draft, starts>>
hook  == <<pc, ask, config, again, known, record, fresh, launch>>
ghost == <<valid, held, pinned, floor>>
vars  == <<files, store, expired, start, hook, ghost>>

-----------------------------------------------------------------------------
(* Reading *)

\* Mutant of Load: the text of the file is not validated.
LoadUnchecked ==
  LET text == IF project = Missing THEN global ELSE project
  IN  IF text = Missing THEN text
      ELSE [source |-> IF project = Missing THEN "global" ELSE "project", pins |-> text]

\* load: a project file, even a broken one, takes precedence over the global one.
Load == LET text == IF project = Missing THEN global ELSE project
        IN  IF text \in {Missing, Broken} THEN text
            ELSE [source |-> IF project = Missing THEN "global" ELSE "project", pins |-> text]

Pinned(c) == IF c = Missing THEN {} ELSE DOMAIN c.pins
Owned == IF binding = Missing THEN {} ELSE binding

Routing == [source : Sources, pins : Contents] \cup {Missing}
Attestation == [state : {"UNVERIFIED", "UNSET", "STALE", "FRESH"}, at : Numbers,
                config : Routing, roles : SUBSET Roles]
Blank == [state |-> "UNVERIFIED", at |-> 0, config |-> Missing, roles |-> {}]
NoAsk == [role |-> Omitted, tuple |-> Omitted]

Supported(c) == \A r \in DOMAIN c.pins : c.pins[r].allowed \subseteq found

\* Mutant of Attested: the roles of earlier configurations are forgotten.
AttestedAnew(n) ==
  LET c == Load IN
  [at |-> n, config |-> c, roles |-> Pinned(c),
   state |-> IF c = Missing THEN "UNSET" ELSE IF Supported(c) THEN "FRESH" ELSE "STALE"]

\* attest: the state of the session under the routing in force.
Attested(n) ==
  LET c == Load IN
  [at |-> n, config |-> c, roles |-> Owned \cup Pinned(c),
   state |-> IF c = Missing THEN (IF Owned = {} THEN "UNSET" ELSE "STALE")
             ELSE IF Supported(c) THEN "FRESH" ELSE "STALE"]

Init ==
  /\ project \in Contents \cup {Missing} /\ global \in Contents \cup {Missing}
  /\ catalog = Tuples /\ changes = 0
  /\ binding = Missing /\ session = Missing /\ lease = Missing /\ revoked = FALSE
  /\ expired = {}
  /\ step = "idle" /\ found = {} /\ draft = Blank /\ starts = 0
  /\ pc = [h \in Hooks |-> "idle"] /\ ask = [h \in Hooks |-> NoAsk]
  /\ config = [h \in Hooks |-> Missing] /\ again = [h \in Hooks |-> Missing]
  /\ known = [h \in Hooks |-> {}] /\ record = [h \in Hooks |-> Blank]
  /\ fresh = [h \in Hooks |-> FALSE] /\ launch = [h \in Hooks |-> NoAsk]
  /\ valid = {} /\ held = [h \in Hooks |-> {}]
  /\ pinned = {} /\ floor = [h \in Hooks |-> {}]

-----------------------------------------------------------------------------
(* SessionStart: revoke, discover, attest *)

\* Mutant of Unlink: an error of unlink is ignored.
UnlinkQuietly == (lease' = Missing \/ lease' = lease) /\ UNCHANGED revoked

\* The lease is deleted; where that fails a revocation is written.
Unlink == \/ lease' = Missing /\ UNCHANGED revoked
          \/ lease # Missing /\ UNCHANGED lease /\ revoked' = TRUE

Revoke ==
  /\ step = "idle" /\ starts < MaxStarts
  /\ Unlink
  /\ starts' = starts + 1
  /\ valid' = {}
  /\ step' = "bind"
  /\ UNCHANGED <<files, binding, session, expired, found, draft, hook,
                 held, pinned, floor>>

\* Neither can be written: the hook reports "session_revocation_failed".
RevokeFails ==
  /\ step = "idle" /\ starts < MaxStarts /\ lease # Missing
  /\ starts' = starts + 1
  /\ UNCHANGED <<files, store, expired, step, found, draft, hook, ghost>>

\* bind with create: the first SessionStart binds the session to its project.
Bind ==
  /\ step = "bind" /\ step' = "mark"
  /\ binding' = Owned
  /\ UNCHANGED <<files, session, lease, revoked, expired, found, draft, starts, hook, ghost>>

\* The session is marked unverified, and keeps its roles.
Mark ==
  /\ step = "mark" /\ step' = "discover"
  /\ session' = [Blank EXCEPT !.roles = Owned \cup IF session = Missing THEN {} ELSE session.roles]
  /\ UNCHANGED <<files, binding, lease, revoked, expired, found, draft, starts, hook, ghost>>

\* discover: the catalog of the moment.
Discover ==
  /\ step = "discover" /\ step' = "attest"
  /\ found' = catalog
  /\ UNCHANGED <<files, store, expired, draft, starts, hook, ghost>>

Attest ==
  /\ step = "attest" /\ Load # Broken
  /\ draft' = Attested(starts)
  /\ step' = "session"
  /\ UNCHANGED <<files, store, expired, found, starts, hook, ghost>>

WriteSession ==
  /\ step = "session" /\ step' = "binding"
  /\ session' = draft
  /\ UNCHANGED <<files, binding, lease, revoked, expired, found, draft, starts, hook, ghost>>

WriteBinding ==
  /\ step = "binding" /\ step' = "lease"
  /\ binding' = draft.roles
  /\ UNCHANGED <<files, session, lease, revoked, expired, found, draft, starts, hook, ghost>>

\* The lease completes the attestation.
WriteLease ==
  /\ step = "lease" /\ step' = "clear"
  /\ lease' = draft.at
  /\ valid' = valid \cup {draft.at}
  /\ held' = [h \in Hooks |-> IF pc[h] = "idle" THEN held[h] ELSE held[h] \cup {draft.at}]
  /\ pinned' = pinned \cup draft.roles
  /\ UNCHANGED <<files, binding, session, revoked, expired, found, draft, starts, hook, floor>>

ClearRevocation ==
  /\ step = "clear" /\ step' = "idle"
  /\ revoked' = FALSE /\ found' = {} /\ draft' = Blank
  /\ UNCHANGED <<files, binding, session, lease, expired, starts, hook, ghost>>

\* An error, a broken routing file, no catalog, or the host's timeout.
StartEnds ==
  /\ step # "idle" /\ step' = "idle"
  /\ found' = {} /\ draft' = Blank
  /\ UNCHANGED <<files, store, expired, starts, hook, ghost>>

-----------------------------------------------------------------------------
(* PreToolUse *)

Forget(h) ==
  /\ pc' = [pc EXCEPT ![h] = "idle"]
  /\ ask' = [ask EXCEPT ![h] = NoAsk]
  /\ config' = [config EXCEPT ![h] = Missing]
  /\ again' = [again EXCEPT ![h] = Missing]
  /\ known' = [known EXCEPT ![h] = {}]
  /\ record' = [record EXCEPT ![h] = Blank]
  /\ fresh' = [fresh EXCEPT ![h] = FALSE]
  /\ held' = [held EXCEPT ![h] = {}]
  /\ floor' = [floor EXCEPT ![h] = {}]

\* pre: a launch arrives, the routing is loaded to find its pin.
Arrive(h) ==
  /\ pc[h] = "idle" /\ Load # Broken
  /\ \E r \in Roles, t \in Tuples \cup {Omitted} : ask' = [ask EXCEPT ![h] = [role |-> r, tuple |-> t]]
  /\ config' = [config EXCEPT ![h] = Load]
  /\ held' = [held EXCEPT ![h] = valid]
  /\ floor' = [floor EXCEPT ![h] = pinned]
  /\ pc' = [pc EXCEPT ![h] = "load"]
  /\ UNCHANGED <<files, store, expired, start, again, known, record, fresh, launch,
                 valid, pinned>>

\* status loads the routing once more.
LoadAgain(h) ==
  /\ pc[h] = "load" /\ Load # Broken
  /\ again' = [again EXCEPT ![h] = Load]
  /\ pc' = [pc EXCEPT ![h] = "owned"]
  /\ UNCHANGED <<files, store, expired, start, ask, config, known, record, fresh, launch, ghost>>

\* A broken routing file denies the launch, even beside a good global one.
Refuse(h) ==
  /\ pc[h] \in {"idle", "load"} /\ Load = Broken
  /\ pc' = [pc EXCEPT ![h] = "refused"]
  /\ UNCHANGED <<files, store, expired, start, ask, config, again, known, record, fresh,
                 launch, ghost>>

ReadOwned(h) ==
  /\ pc[h] = "owned"
  /\ known' = [known EXCEPT ![h] = Owned]
  /\ pc' = [pc EXCEPT ![h] = "revocation"]
  /\ UNCHANGED <<files, store, expired, start, ask, config, again, record, fresh, launch, ghost>>

ReadRevocation(h) ==
  /\ pc[h] = "revocation"
  /\ pc' = [pc EXCEPT ![h] = IF revoked THEN "decide" ELSE "session"]
  /\ UNCHANGED <<files, store, expired, start, ask, config, again, known, record, fresh,
                 launch, ghost>>

ReadSession(h) ==
  /\ pc[h] = "session"
  /\ IF session = Missing
     THEN /\ pc' = [pc EXCEPT ![h] = "decide"]
          /\ UNCHANGED <<known, record>>
     ELSE /\ pc' = [pc EXCEPT ![h] = "lease"]
          /\ record' = [record EXCEPT ![h] = session]
          /\ known' = [known EXCEPT ![h] = @ \cup session.roles]
  /\ UNCHANGED <<files, store, expired, start, ask, config, again, fresh, launch,
                 ghost>>

\* The lease, the age and the routing decide whether the attestation is fresh.
ReadLease(h) ==
  /\ pc[h] = "lease"
  /\ fresh' = [fresh EXCEPT ![h] = /\ record[h].state = "FRESH"
                                   /\ lease = record[h].at
                                   /\ record[h].at \notin expired
                                   /\ record[h].config = again[h]]
  /\ pc' = [pc EXCEPT ![h] = "decide"]
  /\ UNCHANGED <<files, store, expired, start, ask, config, again, known, record, launch, ghost>>

HasPin(h) == ask[h].role \in Pinned(config[h])
Managed(h) == HasPin(h) \/ ask[h].role \in Owned \cup known[h]
PinOf(h) == config[h].pins[ask[h].role]
Admits(h) == fresh[h] /\ HasPin(h) /\ ask[h].tuple \in PinOf(h).allowed \cup {Omitted}
Requested(h) == IF ask[h].tuple = Omitted THEN PinOf(h).default ELSE ask[h].tuple

\* A launch of a managed role is admitted and recorded.
Admit(h) ==
  /\ pc[h] = "decide" /\ Managed(h) /\ Admits(h)
  /\ launch' = [launch EXCEPT ![h] = [role |-> ask[h].role, tuple |-> Requested(h)]]
  /\ Forget(h)
  /\ UNCHANGED <<files, store, expired, start, valid, pinned>>

\* A role that no routing of this session names is left to the host.
PassOn(h) ==
  /\ pc[h] = "decide" /\ ~Managed(h)
  /\ Forget(h)
  /\ UNCHANGED <<files, store, expired, start, launch, valid, pinned>>

\* Denied: not admissible, a full-history fork, no message, an error or a timeout.
Deny(h) ==
  /\ pc[h] # "idle"
  /\ Forget(h)
  /\ UNCHANGED <<files, store, expired, start, launch, valid, pinned>>

-----------------------------------------------------------------------------
(* The user, the provider and the clock *)

EditRouting ==
  /\ changes < MaxChanges /\ changes' = changes + 1
  /\ \/ project' \in Contents \cup {Missing, Broken} /\ UNCHANGED global
     \/ global' \in Contents \cup {Missing, Broken} /\ UNCHANGED project
  /\ UNCHANGED <<catalog, store, expired, start, hook, ghost>>

ChangeCatalog ==
  /\ changes < MaxChanges /\ changes' = changes + 1
  /\ catalog' \in SUBSET Tuples
  /\ UNCHANGED <<project, global, store, expired, start, hook, ghost>>

\* A completed attestation becomes older than MAX_AGE.
Expire ==
  /\ lease # Missing /\ lease \notin expired
  /\ expired' = expired \cup {lease} /\ valid' = valid \ {lease}
  /\ UNCHANGED <<files, store, start, hook, held, pinned, floor>>

SessionStart ==
  \/ Revoke \/ RevokeFails \/ Bind \/ Mark \/ Discover \/ Attest
  \/ WriteSession \/ WriteBinding \/ WriteLease \/ ClearRevocation \/ StartEnds

PreToolUse(h) ==
  \/ Arrive(h) \/ LoadAgain(h) \/ Refuse(h) \/ ReadOwned(h) \/ ReadRevocation(h) \/ ReadSession(h)
  \/ ReadLease(h) \/ Admit(h) \/ PassOn(h) \/ Deny(h)

Next ==
  \/ SessionStart
  \/ \E h \in Hooks : PreToolUse(h)
  \/ EditRouting \/ ChangeCatalog \/ Expire

Spec == Init /\ [][Next]_vars

-----------------------------------------------------------------------------
(* Properties *)

Steps == {"idle", "bind", "mark", "discover", "attest", "session", "binding", "lease", "clear"}
Places == {"idle", "load", "owned", "revocation", "session", "lease", "decide", "refused"}
Asks == [role : Roles \cup {Omitted}, tuple : Tuples \cup {Omitted}]

\* Type correctness of the whole state.
TypeOK ==
  /\ project \in Contents \cup {Missing, Broken} /\ global \in Contents \cup {Missing, Broken}
  /\ catalog \subseteq Tuples /\ found \subseteq Tuples
  /\ binding \in {Missing} \cup SUBSET Roles
  /\ session \in Attestation \cup {Missing}
  /\ lease \in Numbers \cup {Missing} /\ revoked \in BOOLEAN
  /\ step \in Steps /\ draft \in Attestation
  /\ starts \in Numbers /\ changes \in Nat
  /\ pc \in [Hooks -> Places]
  /\ ask \in [Hooks -> Asks] /\ launch \in [Hooks -> Asks]
  /\ config \in [Hooks -> Routing] /\ again \in [Hooks -> Routing]
  /\ known \in [Hooks -> SUBSET Roles]
  /\ record \in [Hooks -> Attestation]
  /\ fresh \in [Hooks -> BOOLEAN]
  /\ expired \subseteq Numbers /\ valid \subseteq Numbers
  /\ held \in [Hooks -> SUBSET Numbers]
  /\ pinned \subseteq Roles /\ floor \in [Hooks -> SUBSET Roles]

\* A launch is admitted only on an attestation that was complete, unrevoked and
\* of age at some moment since its hook began: one that begins after SessionStart
\* revoked the lease waits for the next attestation, wherever a hook was killed,
\* and although four files are read without a lock.
AdmissionIsAttested ==
  \A h \in Hooks : pc[h] = "decide" /\ Admits(h) => record[h].at \in held[h]

\* Once a completed attestation has named a role, a launch of the role that
\* begins later is never passed on as a host profile: not after the routing was
\* removed, replaced or broken, nor while the session is attested anew.
ManagedStaysManaged ==
  \A h \in Hooks : pc[h] = "decide" /\ ask[h].role \in floor[h] => Managed(h)

\* An admitted launch gets the pin of the routing that was attested
\* (docs/NATIVE_AGENT_CONTRACT.md: editing the effective file "invalidates the
\* old attestation", and changed state "denies launches for a managed role").
AdmissionUsesAttestedRouting ==
  \A h \in Hooks : pc[h] = "decide" /\ Admits(h) => config[h] = record[h].config
=============================================================================
