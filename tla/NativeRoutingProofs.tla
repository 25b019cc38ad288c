------------------------ MODULE NativeRoutingProofs ------------------------
(***************************************************************************)
(* Proofs about NativeRouting: type correctness, and the two safety        *)
(* properties of admission, for any number of hooks, starts and changes.   *)
(***************************************************************************)
EXTENDS NativeRouting, TLAPS

LEMMA LoadType == ASSUME TypeOK PROVE Load \in Routing \cup {Broken}
<1> DEFINE text == IF project = Missing THEN global ELSE project
<1>1. text \in Contents \cup {Missing, Broken}
  BY DEF TypeOK
<1>2. CASE text \in {Missing, Broken}
  BY <1>2 DEF Load, Routing
<1>3. CASE text \in Contents
  BY <1>3, RoutingConstants DEF Load, Routing, Sources
<1> QED
  BY <1>1, <1>2, <1>3

LEMMA PinnedType == ASSUME NEW c \in Routing PROVE Pinned(c) \subseteq Roles
BY RoutingConstants DEF Pinned, Routing

LEMMA OwnedType == ASSUME TypeOK PROVE Owned \subseteq Roles
BY DEF TypeOK, Owned

LEMMA BlankType == Blank \in Attestation
BY RoutingConstants DEF Blank, Attestation, Routing, Numbers

LEMMA AttestedType ==
  ASSUME TypeOK, Load # Broken, NEW n \in Numbers
  PROVE  Attested(n) \in Attestation
<1>1. Load \in Routing
  BY LoadType
<1>2. Owned \cup Pinned(Load) \subseteq Roles
  BY <1>1, PinnedType, OwnedType
<1>3. \A c : (IF c = Missing THEN (IF Owned = {} THEN "UNSET" ELSE "STALE")
              ELSE IF Supported(c) THEN "FRESH" ELSE "STALE")
             \in {"UNVERIFIED", "UNSET", "STALE", "FRESH"}
  OBVIOUS
<1> QED
  BY <1>1, <1>2, <1>3 DEF Attested, Attestation

LEMMA TypeInit == Init => TypeOK
<1> SUFFICES ASSUME Init PROVE TypeOK
  OBVIOUS
<1>1. 0 \in Numbers
  BY RoutingConstants DEF Numbers
<1>2. pc \in [Hooks -> Places] /\ ask \in [Hooks -> Asks] /\ launch \in [Hooks -> Asks]
  BY DEF Init, NoAsk, Asks, Places
<1>3. config \in [Hooks -> Routing] /\ again \in [Hooks -> Routing]
  BY DEF Init, Routing
<1>4. /\ known \in [Hooks -> SUBSET Roles] /\ record \in [Hooks -> Attestation]
      /\ fresh \in [Hooks -> BOOLEAN] /\ held \in [Hooks -> SUBSET Numbers]
      /\ floor \in [Hooks -> SUBSET Roles]
  BY BlankType DEF Init
<1> QED
  BY <1>1, <1>2, <1>3, <1>4, BlankType DEF Init, TypeOK, Steps

LEMMA TypeStart == ASSUME TypeOK, SessionStart PROVE TypeOK'
<1> USE DEF TypeOK, files, hook, ghost, store, Steps
<1>1. CASE Revoke
  <2>1. starts' \in Numbers
    BY <1>1, RoutingConstants DEF Revoke, Numbers
  <2> QED
    BY <1>1, <2>1 DEF Revoke, Unlink
<1>2. CASE Bind
  BY <1>2, OwnedType DEF Bind
<1>3. CASE Mark
  <2>1. [Blank EXCEPT !.roles = Owned \cup IF session = Missing THEN {} ELSE session.roles]
          \in Attestation
    BY OwnedType, BlankType DEF Attestation
  <2> QED
    BY <1>3, <2>1 DEF Mark
<1>4. CASE Discover
  BY <1>4 DEF Discover
<1>5. CASE Attest
  BY <1>5, AttestedType DEF Attest
<1>6. CASE WriteSession
  BY <1>6 DEF WriteSession
<1>7. CASE WriteBinding
  BY <1>7 DEF WriteBinding, Attestation
<1>8. CASE WriteLease
  <2>1. draft.at \in Numbers /\ draft.roles \subseteq Roles
    BY DEF Attestation
  <2> QED
    BY <1>8, <2>1 DEF WriteLease
<1>9. CASE ClearRevocation
  BY <1>9, BlankType DEF ClearRevocation
<1>10. CASE StartEnds
  BY <1>10, BlankType DEF StartEnds
<1>11. CASE RevokeFails
  BY <1>11, RoutingConstants DEF RevokeFails, Numbers
<1> QED
  BY <1>1, <1>2, <1>3, <1>4, <1>5, <1>6, <1>7, <1>8, <1>9, <1>10, <1>11 DEF SessionStart

LEMMA ForgetType ==
  ASSUME TypeOK, NEW h \in Hooks, Forget(h)
  PROVE  /\ pc' \in [Hooks -> Places] /\ ask' \in [Hooks -> Asks]
         /\ config' \in [Hooks -> Routing] /\ again' \in [Hooks -> Routing]
         /\ known' \in [Hooks -> SUBSET Roles] /\ record' \in [Hooks -> Attestation]
         /\ fresh' \in [Hooks -> BOOLEAN] /\ held' \in [Hooks -> SUBSET Numbers]
         /\ floor' \in [Hooks -> SUBSET Roles]
BY BlankType DEF TypeOK, Forget, Places, Asks, NoAsk, Routing

LEMMA TypeHook == ASSUME TypeOK, NEW h \in Hooks, PreToolUse(h) PROVE TypeOK'
<1> USE DEF TypeOK, files, store, start, ghost, Places
<1>1. CASE Arrive(h)
  BY <1>1, LoadType DEF Arrive, Asks
<1>2. CASE LoadAgain(h)
  BY <1>2, LoadType DEF LoadAgain
<1>3. CASE Refuse(h)
  BY <1>3 DEF Refuse
<1>4. CASE ReadOwned(h)
  BY <1>4, OwnedType DEF ReadOwned
<1>5. CASE ReadRevocation(h)
  BY <1>5 DEF ReadRevocation
<1>6. CASE ReadSession(h)
  <2>1. CASE session = Missing
    BY <1>6, <2>1 DEF ReadSession
  <2>2. CASE session # Missing
    <3>1. session \in Attestation /\ session.roles \subseteq Roles
      BY <2>2 DEF Attestation
    <3> QED
      BY <1>6, <2>2, <3>1 DEF ReadSession
  <2> QED
    BY <2>1, <2>2
<1>7. CASE ReadLease(h)
  BY <1>7 DEF ReadLease
<1>8. CASE Admit(h)
  <2>1. [role |-> ask[h].role, tuple |-> Requested(h)] \in Asks
    <3>1. ask[h] \in Asks /\ config[h] \in Routing
      OBVIOUS
    <3>2. config[h] \in [source : Sources, pins : Contents] /\ ask[h].role \in DOMAIN config[h].pins
      BY <1>8, <3>1 DEF Admit, Admits, HasPin, Pinned, Routing
    <3>3. PinOf(h) \in Pin
      BY <3>2, RoutingConstants DEF PinOf
    <3> QED
      BY <3>1, <3>3 DEF Requested, Asks, Pin
  <2> QED
    BY <1>8, <2>1, ForgetType DEF Admit
<1>9. CASE PassOn(h)
  BY <1>9, ForgetType DEF PassOn
<1>10. CASE Deny(h)
  BY <1>10, ForgetType DEF Deny
<1> QED
  BY <1>1, <1>2, <1>3, <1>4, <1>5, <1>6, <1>7, <1>8, <1>9, <1>10 DEF PreToolUse

LEMMA TypeOutside == ASSUME TypeOK, EditRouting \/ ChangeCatalog \/ Expire PROVE TypeOK'
<1> USE DEF TypeOK, store, start, hook, ghost, files
<1>1. CASE EditRouting
  BY <1>1, RoutingConstants DEF EditRouting
<1>2. CASE ChangeCatalog
  BY <1>2, RoutingConstants DEF ChangeCatalog
<1>3. CASE Expire
  BY <1>3 DEF Expire
<1> QED
  BY <1>1, <1>2, <1>3

LEMMA TypeNext == ASSUME TypeOK, [Next]_vars PROVE TypeOK'
<1>1. CASE UNCHANGED vars
  BY <1>1 DEF TypeOK, vars, files, store, start, hook, ghost
<1> QED
  BY <1>1, TypeStart, TypeHook, TypeOutside DEF Next

\* Every reachable state is well typed.
THEOREM RoutingTypes == Spec => []TypeOK
BY TypeInit, TypeNext, PTL DEF Spec

-----------------------------------------------------------------------------
(* Admission *)

\* A lease left by an unlink that failed is covered by a revocation.
LeaseCovered ==
  /\ lease \in {Missing} \cup valid \cup expired \/ (revoked /\ step # "clear")

Running(h) == pc[h] \notin {"idle", "refused"}

\* What a hook that found no revocation may still find as lease.
LeaseSeen(h) == pc[h] \in {"session", "lease"} => lease \in {Missing} \cup held[h] \cup expired

Holding(h) ==
  /\ Running(h) => valid \subseteq held[h]
  /\ LeaseSeen(h)
  /\ fresh[h] => pc[h] = "decide" /\ record[h].at \in held[h]

AdmissionInv == TypeOK /\ LeaseCovered /\ \A h \in Hooks : Holding(h)

LEMMA AdmissionInit == Init => AdmissionInv
BY TypeInit DEF Init, AdmissionInv, LeaseCovered, Holding, LeaseSeen, Running

\* Steps of SessionStart keep what the hooks rely on.
LEMMA AdmissionStart ==
  ASSUME AdmissionInv, SessionStart
  PROVE  LeaseCovered' /\ \A h \in Hooks : Holding(h)'
<1> USE DEF AdmissionInv, LeaseCovered, Holding, LeaseSeen, Running, files, hook, ghost, store
<1>1. CASE Revoke
  BY <1>1 DEF Revoke, Unlink
<1>2. CASE Bind
  BY <1>2 DEF Bind
<1>3. CASE Mark
  BY <1>3 DEF Mark
<1>4. CASE Discover
  BY <1>4 DEF Discover
<1>5. CASE Attest
  BY <1>5 DEF Attest
<1>6. CASE WriteSession
  BY <1>6 DEF WriteSession
<1>7. CASE WriteBinding
  BY <1>7 DEF WriteBinding
<1>8. CASE WriteLease
  <2>1. LeaseCovered'
    BY <1>8 DEF WriteLease
  <2>2. ASSUME NEW h \in Hooks PROVE Holding(h)'
    BY <1>8, <2>2 DEF WriteLease, TypeOK
  <2> QED
    BY <2>1, <2>2
<1>9. CASE ClearRevocation
  BY <1>9 DEF ClearRevocation
<1>10. CASE StartEnds
  BY <1>10 DEF StartEnds
<1>11. CASE RevokeFails
  BY <1>11 DEF RevokeFails
<1> QED
  BY <1>1, <1>2, <1>3, <1>4, <1>5, <1>6, <1>7, <1>8, <1>9, <1>10, <1>11 DEF SessionStart

\* A step of a hook keeps what it relies on.
LEMMA AdmissionHook ==
  ASSUME AdmissionInv, NEW h \in Hooks, PreToolUse(h)
  PROVE  LeaseCovered' /\ \A g \in Hooks : Holding(g)'
<1>1. /\ UNCHANGED <<lease, valid, expired, revoked, step>>
      /\ \A g \in Hooks \ {h} : /\ pc'[g] = pc[g] /\ fresh'[g] = fresh[g]
                                /\ record'[g] = record[g] /\ held'[g] = held[g]
  BY DEF AdmissionInv, TypeOK, PreToolUse, Arrive, LoadAgain, Refuse, ReadOwned,
         ReadRevocation, ReadSession, ReadLease, Admit, PassOn, Deny, Forget, files, store,
         start, ghost
<1>2. LeaseCovered' /\ \A g \in Hooks \ {h} : Holding(g)'
  BY <1>1 DEF AdmissionInv, LeaseCovered, Holding, LeaseSeen, Running
<1>3. Holding(h)'
  <2> USE DEF AdmissionInv, TypeOK, Holding, LeaseSeen, Running, ghost
  <2>1. CASE Arrive(h)
    BY <2>1, <1>1 DEF Arrive
  <2>2. CASE LoadAgain(h)
    BY <2>2, <1>1 DEF LoadAgain
  <2>3. CASE Refuse(h)
    BY <2>3, <1>1 DEF Refuse
  <2>4. CASE ReadOwned(h)
    BY <2>4, <1>1 DEF ReadOwned
  <2>5. CASE ReadRevocation(h)
    BY <2>5, <1>1 DEF ReadRevocation, LeaseCovered
  <2>6. CASE ReadSession(h)
    <3>1. CASE session = Missing
      BY <2>6, <1>1, <3>1 DEF ReadSession
    <3>2. CASE session # Missing
      BY <2>6, <1>1, <3>2 DEF ReadSession
    <3> QED
      BY <3>1, <3>2
  <2>7. CASE ReadLease(h)
    <3>1. record[h].at # Missing
      BY RoutingConstants DEF Attestation
    <3> QED
      BY <2>7, <1>1, <3>1 DEF ReadLease
  <2>8. CASE Admit(h) \/ PassOn(h) \/ Deny(h)
    BY <2>8, <1>1 DEF Admit, PassOn, Deny, Forget
  <2> QED
    BY <2>1, <2>2, <2>3, <2>4, <2>5, <2>6, <2>7, <2>8 DEF PreToolUse
<1> QED
  BY <1>2, <1>3

LEMMA AdmissionOutside ==
  ASSUME AdmissionInv, EditRouting \/ ChangeCatalog \/ Expire
  PROVE  LeaseCovered' /\ \A h \in Hooks : Holding(h)'
<1> USE DEF AdmissionInv, LeaseCovered, Holding, LeaseSeen, Running, store, start, hook, ghost
<1>1. CASE EditRouting
  BY <1>1 DEF EditRouting
<1>2. CASE ChangeCatalog
  BY <1>2 DEF ChangeCatalog
<1>3. CASE Expire
  BY <1>3 DEF Expire, files
<1> QED
  BY <1>1, <1>2, <1>3

LEMMA AdmissionNext == ASSUME AdmissionInv, [Next]_vars PROVE AdmissionInv'
<1>1. TypeOK'
  BY TypeNext DEF AdmissionInv
<1>2. CASE UNCHANGED vars
  BY <1>1, <1>2 DEF AdmissionInv, LeaseCovered, Holding, LeaseSeen, Running, vars, files, store,
                    start, hook, ghost
<1> QED
  BY <1>1, <1>2, AdmissionStart, AdmissionHook, AdmissionOutside DEF Next, AdmissionInv

LEMMA AdmissionSafe == AdmissionInv => AdmissionIsAttested
BY DEF AdmissionInv, Holding, AdmissionIsAttested, Admits

\* A launch is admitted only on an attestation that was valid since its hook began.
THEOREM Admission == Spec => []AdmissionIsAttested
BY AdmissionInit, AdmissionNext, AdmissionSafe, PTL DEF Spec

-----------------------------------------------------------------------------
(* Managed roles *)

\* The binding keeps every role that a completed attestation named.
RolesKept ==
  /\ pinned \subseteq Owned
  /\ step \in {"session", "binding"} => Owned \subseteq draft.roles
  /\ step = "lease" => draft.roles \subseteq Owned
  /\ \A h \in Hooks : floor[h] \subseteq pinned

RolesInv == TypeOK /\ RolesKept

LEMMA RolesInit == Init => RolesInv
BY TypeInit DEF Init, RolesInv, RolesKept, Owned

LEMMA RolesStart == ASSUME RolesInv, SessionStart PROVE RolesKept'
<1> USE DEF RolesInv, RolesKept, Owned, files, store, hook, ghost
<1>1. CASE Revoke
  BY <1>1 DEF Revoke
<1>2. CASE Bind
  BY <1>2, RoutingConstants DEF Bind
<1>3. CASE Mark
  BY <1>3 DEF Mark
<1>4. CASE Discover
  BY <1>4 DEF Discover
<1>5. CASE Attest
  BY <1>5 DEF Attest, Attested
<1>6. CASE WriteSession
  BY <1>6 DEF WriteSession
<1>7. CASE WriteBinding
  <2>1. draft.roles \subseteq Roles /\ draft.roles # Missing
    BY RoutingConstants DEF TypeOK, Attestation
  <2> QED
    BY <1>7, <2>1 DEF WriteBinding
<1>8. CASE WriteLease
  BY <1>8 DEF WriteLease
<1>9. CASE ClearRevocation
  BY <1>9 DEF ClearRevocation
<1>10. CASE StartEnds
  BY <1>10 DEF StartEnds
<1>11. CASE RevokeFails
  BY <1>11 DEF RevokeFails
<1> QED
  BY <1>1, <1>2, <1>3, <1>4, <1>5, <1>6, <1>7, <1>8, <1>9, <1>10, <1>11 DEF SessionStart

LEMMA RolesHook == ASSUME RolesInv, NEW h \in Hooks, PreToolUse(h) PROVE RolesKept'
<1>1. UNCHANGED <<binding, step, draft, pinned>>
  BY DEF PreToolUse, Arrive, LoadAgain, Refuse, ReadOwned, ReadRevocation, ReadSession,
         ReadLease, Admit, PassOn, Deny, Forget, files, store, start, ghost
<1>2. \A g \in Hooks : floor'[g] \in {floor[g], {}, pinned}
  BY DEF RolesInv, TypeOK, PreToolUse, Arrive, LoadAgain, Refuse, ReadOwned, ReadRevocation,
         ReadSession, ReadLease, Admit, PassOn, Deny, Forget, files, store, start, ghost
<1> QED
  BY <1>1, <1>2 DEF RolesInv, RolesKept, Owned

LEMMA RolesNext == ASSUME RolesInv, [Next]_vars PROVE RolesInv'
<1>1. TypeOK'
  BY TypeNext DEF RolesInv
<1>2. CASE UNCHANGED vars
  BY <1>1, <1>2 DEF RolesInv, RolesKept, Owned, vars, files, store, start, hook, ghost
<1>3. CASE EditRouting \/ ChangeCatalog \/ Expire
  BY <1>1, <1>3 DEF RolesInv, RolesKept, Owned, EditRouting, ChangeCatalog, Expire, store, start,
                    hook, ghost, files
<1> QED
  BY <1>1, <1>2, <1>3, RolesStart, RolesHook DEF Next, RolesInv

LEMMA RolesSafe == RolesInv => ManagedStaysManaged
BY DEF RolesInv, RolesKept, ManagedStaysManaged, Managed

\* A role once named by a completed attestation is never left to the host.
THEOREM Management == Spec => []ManagedStaysManaged
BY RolesInit, RolesNext, RolesSafe, PTL DEF Spec
=============================================================================
