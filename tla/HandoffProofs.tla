---------------------------- MODULE HandoffProofs ----------------------------
(***************************************************************************)
(* Proofs about Handoff: that a carry is dropped only by a hook that read  *)
(* it, for any number of hooks; that a session hears of each concern once, *)
(* for any number of sessions; that a FRESH verdict was earned during its  *)
(* check; and that the registers of closed units nest after any kill.      *)
(***************************************************************************)
EXTENDS Handoff, FiniteSetTheorems, SequenceTheorems, WellFoundedInduction, TLAPS

-----------------------------------------------------------------------------
(* Numbers                                                                 *)

\* A non-empty set of numbers has a least element.
LEMMA LeastOf ==
  ASSUME NEW T \in SUBSET Nat, T # {}
  PROVE  \E x \in T : \A y \in T : x <= y
<1> DEFINE R == OpToRel(<, Nat)
<1>1. \A x, y \in Nat : x < y => <<x, y>> \in R
  BY Zenon DEF OpToRel
<1>2. IsWellFoundedOn(R, Nat)
  BY NatLessThanWellFounded, Zenon
<1> HIDE DEF R
<1>3. PICK x \in T : \A y \in T : ~(<<y, x>> \in R)
  BY <1>2, WFMin, Zenon
<1>4. \A y \in T : ~(y < x)
  BY <1>1, <1>3, Zenon
<1> QED
  BY <1>4

-----------------------------------------------------------------------------
(* The carry                                                               *)

Steps == {"idle", "read", "gather", "lock", "compare", "replace", "unlock", "print"}
Holding == {"compare", "replace", "unlock"}
Writing == {"lock", "compare", "replace"}
Gathered == {"lock", "compare", "replace", "unlock", "print"}

\* A hook is a record with these fields.
HookShape(r) ==
  r = [at |-> r.at, mode |-> r.mode, source |-> r.source, nonce |-> r.nonce, read |-> r.read,
       carry |-> r.carry, context |-> r.context, expected |-> r.expected, content |-> r.content]

\* What a hook is about to write in place of what it read: its own capture, what it
\* read, or nothing, for a reason.
FirstWrite(r) ==
  /\ r.expected = r.read
  /\ \/ r.content.carry.nonce = r.nonce
     \/ r.content.carry = r.read.carry
     \/ r.content.carry = NoCarry /\ (r.source # "compact" \/ r.read.carry.nonce \in aged)

\* The second write keeps the carry of the first.
SecondWrite(r) == r.content.status = "emitted" /\ r.content.carry = r.expected.carry

HookInv(h) ==
  LET r == hook[h] IN
  /\ HookShape(r)
  /\ r.at \in Steps /\ r.mode \in {"session", "compact"}
  /\ r.at \in Holding => lock = h
  /\ r.at = "gather" =>
       r.expected = r.read /\ (r.carry = r.read.carry \/ (r.carry = NoCarry /\ r.read.carry.nonce \in aged))
  /\ r.at \in Gathered => r.content = StateFile(r.content.carry, r.content.emission, r.content.status)
  /\ r.at \in Writing => FirstWrite(r) \/ SecondWrite(r)
  /\ r.at = "replace" => file = r.expected

CarryInv ==
  /\ hook = [h \in Hooks |-> hook[h]]
  /\ \A h \in Hooks : HookInv(h)

\* No hook runs at the beginning.
LEMMA CarryInit == Init => CarryInv
BY DEF Init, CarryInv, HookInv, HookShape, NoHook, Steps, Holding, Writing, Gathered

\* What a hook does leaves the others as they are, if the lock that one of them
\* holds, the file that it compared and the days that passed are left.
LEMMA OthersKeep ==
  ASSUME CarryInv, NEW h \in Hooks, NEW r, hook' = [hook EXCEPT ![h] = r],
         aged' = aged, NEW g \in Hooks, g # h,
         hook[g].at \in Holding => lock' = g,
         hook[g].at = "replace" => file' = file
  PROVE  HookInv(g)'
<1>1. hook'[g] = hook[g]
  BY DEF CarryInv
<1> QED
  BY <1>1 DEF CarryInv, HookInv, FirstWrite, SecondWrite

\* A hook that ends holds nothing and writes nothing.
LEMMA EndsWell == HookShape(NoHook) /\ NoHook.at = "idle" /\ NoHook.mode = "session"
BY DEF HookShape, NoHook

\* The steps of one hook.
LEMMA BeginsNext ==
  ASSUME CarryInv, NEW h \in Hooks, HookBegins(h)
  PROVE  CarryInv'
<1>1. PICK mode \in {"session", "compact"}, source \in Sources :
        hook' = [hook EXCEPT ![h] =
          [NoHook EXCEPT !.at = "read", !.mode = mode, !.source = source, !.nonce = events + 1]]
  BY DEF HookBegins
<1>2. HookInv(h)'
  BY <1>1 DEF CarryInv, HookInv, HookShape, NoHook, Steps, Holding, Writing, Gathered
<1>3. \A g \in Hooks : g # h => HookInv(g)'
  BY <1>1, OthersKeep DEF HookBegins, CarryInv, HookInv
<1> QED
  BY <1>1, <1>2, <1>3 DEF CarryInv

\* It reads the state file, and drops from what it read a carry past its age.
LEMMA ReadsNext ==
  ASSUME CarryInv, NEW h \in Hooks, HookReads(h)
  PROVE  CarryInv'
<1> DEFINE r == [hook[h] EXCEPT !.at = "gather", !.read = file, !.carry = Loaded(file), !.expected = file]
<1>1. hook' = [hook EXCEPT ![h] = r]
  BY DEF HookReads
<1>2. HookInv(h)'
  <2>1. hook'[h] = r /\ HookShape(hook[h]) /\ hook[h].mode \in {"session", "compact"}
    BY <1>1 DEF CarryInv, HookInv
  <2>2. HookShape(r) /\ r.at = "gather" /\ r.mode = hook[h].mode /\ r.read = file
        /\ r.expected = file /\ r.carry = Loaded(file)
    BY <2>1 DEF HookShape
  <2>3. aged' = aged
    BY DEF HookReads
  <2> HIDE DEF r
  <2> QED
    BY <2>1, <2>2, <2>3 DEF HookInv, Steps, Holding, Writing, Gathered, Loaded
<1> HIDE DEF r
<1>3. \A g \in Hooks : g # h => HookInv(g)'
  <2>1. aged' = aged /\ lock' = lock /\ file' = file
    BY DEF HookReads
  <2> QED
    BY <1>1, <2>1, OthersKeep DEF CarryInv, HookInv
<1> QED
  BY <1>1, <1>2, <1>3 DEF CarryInv

\* It prepares the record that takes the place of the one it read.
LEMMA GathersNext ==
  ASSUME CarryInv, NEW h \in Hooks, HookGathers(h)
  PROVE  CarryInv'
<1> DEFINE carryOf(new) == CASE hook[h].mode = "compact" -> new
                              [] hook[h].mode = "session" /\ hook[h].source = "compact" -> hook[h].carry
                              [] OTHER -> NoCarry
<1>0. PICK new \in Captures(hook[h].nonce) :
        hook' = [hook EXCEPT ![h].at = "lock", ![h].carry = carryOf(new),
                  ![h].context = Given(carryOf(new), new),
                  ![h].content = StateFile(carryOf(new), hook[h].nonce, "prepared")]
  BY Zenon DEF HookGathers
<1>1. PICK carry :
        /\ carry = carryOf(new)
        /\ hook' = [hook EXCEPT ![h].at = "lock", ![h].carry = carry,
                     ![h].context = Given(carry, new),
                     ![h].content = StateFile(carry, hook[h].nonce, "prepared")]
  BY <1>0
<1> DEFINE r == [hook[h] EXCEPT !.at = "lock", !.carry = carry, !.context = Given(carry, new),
                                !.content = StateFile(carry, hook[h].nonce, "prepared")]
<1>2. hook' = [hook EXCEPT ![h] = r]
  BY <1>1
<1>3. new.nonce = hook[h].nonce
  BY DEF Captures
<1>4. hook[h].at = "gather" /\ aged' = aged
  BY DEF HookGathers, At
<1>5. HookInv(h)'
  <2>1. hook'[h] = r /\ HookInv(h)
    BY <1>2 DEF CarryInv
  <2>2. /\ HookShape(r) /\ r.at = "lock" /\ r.mode = hook[h].mode /\ r.source = hook[h].source
        /\ r.nonce = hook[h].nonce /\ r.read = hook[h].read /\ r.expected = hook[h].expected
        /\ r.content = StateFile(carry, hook[h].nonce, "prepared") /\ r.content.carry = carry
        /\ r.content = StateFile(r.content.carry, r.content.emission, r.content.status)
    BY <2>1 DEF HookInv, HookShape, StateFile
  <2>3. FirstWrite(r)
    BY <1>1, <1>3, <1>4, <2>1, <2>2 DEF FirstWrite, HookInv
  <2> HIDE DEF r
  <2> QED
    BY <1>4, <2>1, <2>2, <2>3 DEF HookInv, Steps, Holding, Writing, Gathered, FirstWrite
<1> HIDE DEF r
<1>6. \A g \in Hooks : g # h => HookInv(g)'
  BY <1>2, OthersKeep DEF HookGathers, CarryInv, HookInv
<1> QED
  BY <1>2, <1>5, <1>6 DEF CarryInv

\* A hook goes on to another step of its protocol with what it has.
LEMMA MovesOn ==
  ASSUME CarryInv, NEW h \in Hooks, NEW at \in Steps, Moves(h, at), aged' = aged,
         at # "gather", at \in Gathered => hook[h].at \in Gathered, at \in Writing => hook[h].at \in Writing,
         at \in Holding => lock' = h,
         at = "replace" => file' = hook[h].expected
  PROVE  HookInv(h)'
<1> DEFINE r == [hook[h] EXCEPT !.at = at]
<1>1. hook'[h] = r /\ HookInv(h)
  BY DEF Moves, CarryInv
<1>2. /\ HookShape(r) /\ r.at = at /\ r.mode = hook[h].mode /\ r.source = hook[h].source
      /\ r.nonce = hook[h].nonce /\ r.read = hook[h].read /\ r.expected = hook[h].expected
      /\ r.content = hook[h].content
  BY <1>1 DEF HookInv, HookShape
<1> HIDE DEF r
<1> QED
  BY <1>1, <1>2 DEF HookInv, FirstWrite, SecondWrite

\* It ends, or dies, and leaves every file as it is.
LEMMA EndsNext ==
  ASSUME CarryInv, NEW h \in Hooks, Ends(h), aged' = aged, file' = file, lock' = lock
  PROVE  CarryInv'
<1>1. hook' = [hook EXCEPT ![h] = NoHook]
  BY DEF Ends
<1>2. HookInv(h)'
  BY <1>1, EndsWell DEF CarryInv, HookInv, Steps, Holding, Writing, Gathered
<1>3. \A g \in Hooks : g # h => HookInv(g)'
  BY <1>1, OthersKeep DEF CarryInv, HookInv
<1> QED
  BY <1>1, <1>2, <1>3 DEF CarryInv

\* Only the hook that holds the lock file compares, replaces or unlocks.
LEMMA LocksNext ==
  ASSUME CarryInv, NEW h \in Hooks, HookLocks(h)
  PROVE  CarryInv'
<1>1. At(h, "lock") /\ aged' = aged /\ file' = file
  BY DEF HookLocks
<1>2. CASE lock' = lock /\ Ends(h)
  BY <1>1, <1>2, EndsNext
<1>3. CASE lock = "nobody" /\ lock' = h /\ Moves(h, "compare")
  <2>1. HookInv(h)'
    BY <1>1, <1>3, MovesOn DEF At, Steps, Holding, Writing, Gathered
  <2>2. \A g \in Hooks : hook[g].at \notin Holding
    BY <1>3, CarryConstants DEF CarryInv, HookInv
  <2>3. \A g \in Hooks : g # h => HookInv(g)'
    BY <1>1, <1>3, <2>2, OthersKeep DEF Moves, Holding
  <2> QED
    BY <1>3, <2>1, <2>3 DEF CarryInv, Moves
<1> QED
  BY <1>2, <1>3 DEF HookLocks, Exclusive

\* Two hooks that hold the lock file are one.
LEMMA OnlyHolder ==
  ASSUME CarryInv, NEW h \in Hooks, hook[h].at \in Holding, NEW g \in Hooks, g # h
  PROVE  hook[g].at \notin Holding
BY DEF CarryInv, HookInv

\* A hook ends and lets go of the lock file it holds.
LEMMA GivesUp ==
  ASSUME CarryInv, NEW h \in Hooks, Ends(h), hook[h].at \in Holding, aged' = aged, file' = file
  PROVE  CarryInv'
<1>1. hook' = [hook EXCEPT ![h] = NoHook]
  BY DEF Ends
<1>2. HookInv(h)'
  BY <1>1, EndsWell DEF CarryInv, HookInv, Steps, Holding, Writing, Gathered
<1>3. \A g \in Hooks : g # h => HookInv(g)'
  BY <1>1, OnlyHolder, OthersKeep DEF Holding
<1> QED
  BY <1>1, <1>2, <1>3 DEF CarryInv

\* It finds in the file what it expects, or gives up.
LEMMA ComparesNext ==
  ASSUME CarryInv, NEW h \in Hooks, HookCompares(h)
  PROVE  CarryInv'
<1>1. hook[h].at = "compare" /\ aged' = aged /\ file' = file /\ lock = h
  BY DEF HookCompares, At, CarryInv, HookInv, Holding
<1>2. CASE file = hook[h].expected /\ Moves(h, "replace") /\ lock' = lock
  <2>1. HookInv(h)'
    BY <1>1, <1>2, MovesOn DEF Steps, Holding, Writing, Gathered
  <2>2. \A g \in Hooks : g # h => HookInv(g)'
    BY <1>1, <1>2, OnlyHolder, OthersKeep DEF Moves, Holding
  <2> QED
    BY <1>2, <2>1, <2>2 DEF CarryInv, Moves
<1>3. CASE Ends(h) /\ lock' = "nobody"
  BY <1>1, <1>3, GivesUp DEF Holding
<1> QED
  BY <1>2, <1>3 DEF HookCompares

\* It replaces the file while no other hook may.
LEMMA ReplacesNext ==
  ASSUME CarryInv, NEW h \in Hooks, HookReplaces(h)
  PROVE  CarryInv'
<1>1. hook[h].at = "replace" /\ aged' = aged /\ lock' = lock /\ lock = h /\ Moves(h, "unlock")
  BY DEF HookReplaces, At, CarryInv, HookInv, Holding
<1>2. HookInv(h)'
  BY <1>1, MovesOn DEF Steps, Holding, Writing, Gathered
<1>3. \A g \in Hooks : g # h => HookInv(g)'
  BY <1>1, OnlyHolder, OthersKeep DEF Moves, Holding
<1> QED
  BY <1>1, <1>2, <1>3 DEF CarryInv, Moves

\* It removes its lock file, and prints or ends.
LEMMA UnlocksNext ==
  ASSUME CarryInv, NEW h \in Hooks, HookUnlocks(h)
  PROVE  CarryInv'
<1>1. hook[h].at = "unlock" /\ aged' = aged /\ file' = file /\ lock' = "nobody" /\ lock = h
  BY DEF HookUnlocks, At, CarryInv, HookInv, Holding
<1>2. CASE Moves(h, "print")
  <2>1. HookInv(h)'
    BY <1>1, <1>2, MovesOn DEF Steps, Holding, Writing, Gathered
  <2>2. \A g \in Hooks : g # h => HookInv(g)'
    BY <1>1, <1>2, OnlyHolder, OthersKeep DEF Moves, Holding
  <2> QED
    BY <1>2, <2>1, <2>2 DEF CarryInv, Moves
<1>3. CASE Ends(h)
  BY <1>1, <1>3, GivesUp DEF Holding
<1> QED
  BY <1>2, <1>3 DEF HookUnlocks

\* It prints, and prepares the second write with the carry of the first.
LEMMA PrintsNext ==
  ASSUME CarryInv, NEW h \in Hooks, HookPrints(h)
  PROVE  CarryInv'
<1> DEFINE r == [hook[h] EXCEPT !.at = "lock", !.expected = hook[h].content, !.content.status = "emitted"]
<1>1. hook' = [hook EXCEPT ![h] = r] /\ hook[h].at = "print" /\ aged' = aged
      /\ lock' = lock /\ file' = file
  BY DEF HookPrints, At
<1>2. HookInv(h)'
  <2>1. hook'[h] = r /\ HookInv(h)
    BY <1>1 DEF CarryInv
  <2>2. hook[h].content = StateFile(hook[h].content.carry, hook[h].content.emission, hook[h].content.status)
    BY <1>1, <2>1 DEF HookInv, Gathered
  <2>3. /\ HookShape(r) /\ r.at = "lock" /\ r.mode = hook[h].mode /\ r.expected = hook[h].content
        /\ r.content = [hook[h].content EXCEPT !.status = "emitted"]
    BY <2>1 DEF HookInv, HookShape
  <2> HIDE DEF r
  <2>4. r.content = StateFile(hook[h].content.carry, hook[h].content.emission, "emitted")
    BY <2>2, <2>3 DEF StateFile
  <2>5. SecondWrite(r) /\ r.content = StateFile(r.content.carry, r.content.emission, r.content.status)
    BY <2>3, <2>4 DEF SecondWrite, StateFile
  <2> QED
    BY <2>1, <2>3, <2>5 DEF HookInv, Steps, Holding, Writing, Gathered, SecondWrite
<1> HIDE DEF r
<1>3. \A g \in Hooks : g # h => HookInv(g)'
  BY <1>1, OthersKeep DEF CarryInv, HookInv
<1> QED
  BY <1>1, <1>2, <1>3 DEF CarryInv

\* What is not a step of a hook leaves the invariant alone.
LEMMA CarryStays ==
  ASSUME CarryInv, UNCHANGED carryVars
  PROVE  CarryInv'
BY DEF carryVars, CarryInv, HookInv, FirstWrite, SecondWrite

\* The invariant holds after every step.
LEMMA CarryNext ==
  ASSUME CarryInv, [Next]_vars
  PROVE  CarryInv'
<1>1. CASE \E h \in Hooks : HookBegins(h) \/ HookSteps(h) \/ HookDies(h)
  <2>1. PICK h \in Hooks : HookBegins(h) \/ HookSteps(h) \/ HookDies(h)
    BY <1>1
  <2>2. CASE HookRefuses(h)
    BY <2>2, EndsNext, GivesUp DEF HookRefuses, Holding
  <2>3. CASE HookDies(h)
    BY <2>3, EndsNext DEF HookDies
  <2> QED
    BY <2>1, <2>2, <2>3, BeginsNext, ReadsNext, GathersNext, LocksNext, ComparesNext, ReplacesNext,
       UnlocksNext, PrintsNext DEF HookSteps
<1>2. CASE ClearLock
  BY <1>2 DEF ClearLock, CarryInv, HookInv, Holding, FirstWrite, SecondWrite
<1>3. CASE Age
  BY <1>3 DEF Age, At, CarryInv, HookInv, Holding, Writing, Gathered
<1>4. CASE UNCHANGED carryVars
  BY <1>4, CarryStays
<1>5. CASE UNCHANGED vars
  BY <1>5, CarryStays DEF vars
<1>6. CASE Project \/ Check \/ Gates \/ CloseUnit
  BY <1>6, CarryStays DEF Project, Check, Gates, CloseUnit, carryVars
<1> QED
  BY <1>1, <1>2, <1>3, <1>5, <1>6 DEF Next, Carry, CarrySteps

\* The only step that writes the state file is the replacement, and its content is
\* what HookInv says of it.
LEMMA CarryStep ==
  ASSUME CarryInv, [Next]_vars, file'.carry # file.carry
  PROVE  \E h \in Hooks :
           /\ At(h, "replace") /\ hook[h].read.carry = file.carry
           /\ \/ file'.carry.nonce = hook[h].nonce
              \/ file'.carry = NoCarry /\ (hook[h].source # "compact" \/ file.carry.nonce \in aged)
<1>1. PICK h \in Hooks : HookReplaces(h)
  BY DEF Next, vars, carryVars, Project, Check, Gates, Carry, CloseUnit, CarrySteps, HookSteps, ClearLock,
         Age, HookBegins, HookReads, HookGathers, HookLocks, HookCompares, HookUnlocks, HookPrints,
         HookRefuses, HookDies
<1>2. hook[h].at = "replace" /\ file' = hook[h].content /\ HookInv(h)
  BY <1>1 DEF HookReplaces, At, CarryInv
<1>3. file = hook[h].expected /\ (FirstWrite(hook[h]) \/ SecondWrite(hook[h]))
  BY <1>2 DEF HookInv, Writing
<1>4. FirstWrite(hook[h])
  BY <1>2, <1>3 DEF SecondWrite
<1> WITNESS h \in Hooks
<1> QED
  BY <1>2, <1>3, <1>4 DEF FirstWrite, At

\* A carry in the state file is dropped only by a hook that read it there, for one of
\* the reasons that native-session.py has.
THEOREM CarryStands == Spec => CarryIsNotLost
<1>1. CarryInv /\ [Next]_vars => CarryInv'
  BY CarryNext
<1>2. CarryInv /\ [Next]_vars =>
        [file'.carry # file.carry =>
           \E h \in Hooks :
             /\ At(h, "replace") /\ hook[h].read.carry = file.carry
             /\ \/ file'.carry.nonce = hook[h].nonce
                \/ file'.carry = NoCarry /\ (hook[h].source # "compact" \/ file.carry.nonce \in aged)]_carryVars
  BY CarryStep
<1> QED
  BY CarryInit, <1>1, <1>2, PTL DEF Spec, CarryIsNotLost

-----------------------------------------------------------------------------
(* The texts of the plans                                                  *)

\* What is taken before the first file.
NothingTaken == [parts |-> <<>>, total |-> 0, notes |-> 0]

\* What was taken of the first files is what the recursion says.
LEMMA TakenIs ==
  ASSUME NEW ps, NEW files, Len(files) \in Nat
  PROVE  LET t == Taken(ps, files) IN
         /\ t[0] = NothingTaken
         /\ \A n \in 1..Len(files) : t[n] = OneMore(ps[files[n]], files[n], t[n - 1])
<1> DEFINE Of(f, n) == IF n = 0 THEN NothingTaken ELSE OneMore(ps[files[n]], files[n], f[n - 1])
           Is(m, f) == f = [n \in 0..m |-> Of(f, n)]
           Bad == {m \in Nat : \A f : ~Is(m, f)}
<1>1. Bad = {}
  <2> SUFFICES ASSUME Bad # {} PROVE FALSE
    OBVIOUS
  <2>1. PICK m \in Bad : \A k \in Bad : m <= k
    BY LeastOf
  <2>2. m # 0
    <3>1. Is(0, [n \in 0..0 |-> NothingTaken])
      OBVIOUS
    <3> QED
      BY <2>1, <3>1
  <2>3. m - 1 \in Nat /\ m - 1 \notin Bad
    BY <2>1, <2>2
  <2>4. PICK f : Is(m - 1, f)
    BY <2>3
  <2> DEFINE g == [n \in 0..m |-> IF n = m THEN Of(f, m) ELSE f[n]]
  <2>5. \A n \in 0..m : Of(g, n) = Of(f, n)
    <3> SUFFICES ASSUME NEW n \in 0..m, n # 0 PROVE g[n - 1] = f[n - 1]
      BY DEF Of
    <3>1. n - 1 \in 0..m /\ n - 1 # m
      BY <2>1
    <3> HIDE DEF Of
    <3> QED
      BY <3>1
  <2>6. Is(m, g)
    <3> HIDE DEF Of
    <3>1. \A n \in 0..m - 1 : f[n] = Of(f, n)
      BY <2>4
    <3>2. \A n \in 0..m : g[n] = Of(f, n)
      BY <2>1, <3>1
    <3>3. g = [n \in 0..m |-> g[n]]
      OBVIOUS
    <3> HIDE DEF g
    <3> QED
      BY <2>5, <3>2, <3>3
  <2> QED
    BY <2>1, <2>6
<1>2. \E f : Is(Len(files), f)
  BY <1>1
<1>3. Taken(ps, files) = CHOOSE f : Is(Len(files), f)
  BY Zenon DEF Taken, NothingTaken
<1>4. Is(Len(files), Taken(ps, files))
  BY <1>2, <1>3, Zenon
<1> QED
  BY <1>4

\* Any two files of a scan have different places in the order of their names.
LEMMA RanksDiffer ==
  ASSUME NEW S \in SUBSET Nat, IsFiniteSet(S), NEW f \in S, NEW e \in S, f < e
  PROVE  /\ Cardinality({g \in S : g <= f}) \in Nat /\ Cardinality({g \in S : g <= e}) \in Nat
         /\ Cardinality({g \in S : g <= f}) < Cardinality({g \in S : g <= e})
<1> DEFINE F == {g \in S : g <= f}  E == {g \in S : g <= e}
<1>1. f \in Nat /\ e \in Nat /\ \A g \in S : g \in Nat
  OBVIOUS
<1>2. F \in SUBSET E /\ e \in E /\ e \notin F
  <2>1. \A g \in S : g <= f => g <= e
    BY <1>1
  <2>2. e <= e /\ ~(e <= f)
    BY <1>1
  <2> QED
    BY <2>1, <2>2
<1>3. IsFiniteSet(E) /\ IsFiniteSet(F)
  <2>1. E \in SUBSET S /\ F \in SUBSET S
    OBVIOUS
  <2> HIDE DEF E, F
  <2> QED
    BY <2>1, FS_Subset
<1> HIDE DEF E, F
<1>4. Cardinality(F) \in Nat /\ Cardinality(E) \in Nat
  BY <1>3, FS_CardinalityType
<1>5. Cardinality(F) <= Cardinality(E) /\ Cardinality(F) # Cardinality(E)
  BY <1>2, <1>3, FS_Subset
<1> QED
  BY <1>4, <1>5 DEF E, F

\* InOrder lists every file of a scan, and none twice.
LEMMA InOrderIs ==
  ASSUME NEW S \in SUBSET Nat, IsFiniteSet(S)
  PROVE  LET files == InOrder(S) IN
         /\ Cardinality(S) \in Nat /\ Len(files) = Cardinality(S)
         /\ \A n \in 1..Cardinality(S) : files[n] \in S
         /\ \A n, m \in 1..Cardinality(S) : files[n] = files[m] => n = m
         /\ \A f \in S : \E n \in 1..Cardinality(S) : files[n] = f
<1> DEFINE N == Cardinality(S)  Rank(f) == Cardinality({g \in S : g <= f})
           rank == [f \in S |-> Rank(f)]
<1>1. N \in Nat
  BY FS_CardinalityType
<1>2. \A f, e \in S : f # e => Rank(f) # Rank(e)
  <2> SUFFICES ASSUME NEW f \in S, NEW e \in S, f # e PROVE Rank(f) # Rank(e)
    OBVIOUS
  <2>1. f \in Nat /\ e \in Nat
    OBVIOUS
  <2>2. CASE f < e
    <3>1. Rank(f) < Rank(e) /\ Rank(f) \in Nat /\ Rank(e) \in Nat
      BY <2>2, RanksDiffer
    <3> HIDE DEF Rank
    <3> QED
      BY <3>1
  <2>3. CASE e < f
    <3>1. Rank(e) < Rank(f) /\ Rank(f) \in Nat /\ Rank(e) \in Nat
      BY <2>3, RanksDiffer
    <3> HIDE DEF Rank
    <3> QED
      BY <3>1
  <2> HIDE DEF Rank
  <2> QED
    BY <2>1, <2>2, <2>3
<1>3. \A f \in S : Rank(f) \in 1..N
  <2> SUFFICES ASSUME NEW f \in S PROVE Rank(f) \in 1..N
    OBVIOUS
  <2> DEFINE F == {g \in S : g <= f}
  <2>1. F \in SUBSET S /\ f \in F
    OBVIOUS
  <2>2. Rank(f) = Cardinality(F)
    OBVIOUS
  <2> HIDE DEF F, Rank
  <2>3. IsFiniteSet(F) /\ Cardinality(F) <= N /\ F # {}
    BY <2>1, FS_Subset
  <2>4. Cardinality(F) \in Nat /\ Cardinality(F) # 0
    BY <2>3, FS_CardinalityType, FS_EmptySet
  <2> QED
    BY <1>1, <2>2, <2>3, <2>4
<1> HIDE DEF Rank
<1>4. rank \in [S -> 1..N] /\ \A f \in S : rank[f] = Rank(f)
  BY <1>3
<1> HIDE DEF rank
<1>5. rank \in Injection(S, 1..N)
  BY <1>2, <1>4 DEF Injection, IsInjective
<1>6. IsFiniteSet(1..N) /\ Cardinality(1..N) = N
  <2>1. 1 \in Int /\ N \in Int
    BY <1>1
  <2> HIDE DEF N
  <2>2. Cardinality(1..N) = IF 1 > N THEN 0 ELSE N - 1 + 1
    BY <2>1, FS_Interval
  <2> QED
    BY <1>1, <2>1, <2>2, FS_Interval
<1>7. rank \in Surjection(S, 1..N)
  BY <1>5, <1>6, FS_Injection
<1>8. \A n \in 1..N : \E f \in S : Rank(f) = n
  BY <1>4, <1>7 DEF Surjection
<1> DEFINE files == InOrder(S)
<1>9. files = [n \in 1..N |-> CHOOSE f \in S : Rank(f) = n]
  BY Zenon DEF InOrder, Rank
<1>10. \A n \in 1..N : files[n] \in S /\ Rank(files[n]) = n
  BY <1>8, <1>9
<1>11. Len(files) = N
  BY <1>1, <1>9
<1> HIDE DEF files
<1>12. \A n, m \in 1..N : files[n] = files[m] => n = m
  BY <1>10
<1>13. \A f \in S : \E n \in 1..N : files[n] = f
  BY <1>2, <1>3, <1>10
<1> QED
  BY <1>1, <1>10, <1>11, <1>12, <1>13 DEF files

\* The parts of a text, and what it shows.
Parts == [is : {"body", "omitted", "note", "more", "incomplete"}, of : Nat, n : Nat]
Shows(parts, p) == \E n \in DOMAIN parts : parts[n] = p

\* What two texts show is what one or the other shows.
LEMMA BothShow ==
  ASSUME NEW a \in Seq(Parts), NEW b \in Seq(Parts)
  PROVE  /\ a \o b \in Seq(Parts)
         /\ \A p : Shows(a \o b, p) <=> Shows(a, p) \/ Shows(b, p)
<1> DEFINE t == a \o b
<1>1. /\ t \in Seq(Parts) /\ Len(t) = Len(a) + Len(b) /\ Len(a) \in Nat /\ Len(b) \in Nat
      /\ \A i \in 1..Len(a) + Len(b) : t[i] = IF i <= Len(a) THEN a[i] ELSE b[i - Len(a)]
  BY ConcatProperties
<1>2. DOMAIN a = 1..Len(a) /\ DOMAIN b = 1..Len(b)
  OBVIOUS
<1>3. DOMAIN t = 1..Len(a) + Len(b)
  <2>1. DOMAIN t = 1..Len(t)
    BY <1>1
  <2> QED
    BY <1>1, <2>1
<1> HIDE DEF t
<1>4. ASSUME NEW p, Shows(t, p) PROVE Shows(a, p) \/ Shows(b, p)
  <2>1. PICK i \in 1..Len(a) + Len(b) : t[i] = p
    BY <1>3, <1>4 DEF Shows
  <2>2. CASE i <= Len(a)
    <3>1. i \in 1..Len(a) /\ a[i] = p
      BY <1>1, <2>1, <2>2
    <3> QED
      BY <1>2, <3>1 DEF Shows
  <2>3. CASE ~(i <= Len(a))
    <3>1. i - Len(a) \in 1..Len(b) /\ b[i - Len(a)] = p
      BY <1>1, <2>1, <2>3
    <3> QED
      BY <1>2, <3>1 DEF Shows
  <2> QED
    BY <2>2, <2>3
<1>5. ASSUME NEW p, Shows(a, p) PROVE Shows(t, p)
  <2>1. PICK i \in 1..Len(a) : a[i] = p
    BY <1>2, <1>5 DEF Shows
  <2>2. i \in 1..Len(a) + Len(b) /\ t[i] = p
    BY <1>1, <2>1
  <2> QED
    BY <1>3, <2>2 DEF Shows
<1>6. ASSUME NEW p, Shows(b, p) PROVE Shows(t, p)
  <2>1. PICK i \in 1..Len(b) : b[i] = p
    BY <1>2, <1>6 DEF Shows
  <2>2. i + Len(a) \in 1..Len(a) + Len(b) /\ ~(i + Len(a) <= Len(a)) /\ (i + Len(a)) - Len(a) = i
    BY <1>1, <2>1
  <2>3. t[i + Len(a)] = p
    BY <1>1, <2>1, <2>2
  <2> QED
    BY <1>3, <2>2, <2>3 DEF Shows
<1> QED
  BY <1>1, <1>4, <1>5, <1>6 DEF t

\* A text of one part, of two, and of none.
LEMMA PartsShow ==
  /\ <<>> \in Seq(Parts) /\ \A p : ~Shows(<<>>, p)
  /\ \A a \in Parts : <<a>> \in Seq(Parts) /\ \A p : Shows(<<a>>, p) <=> p = a
<1>1. <<>> \in Seq(Parts) /\ \A p : ~Shows(<<>>, p)
  BY DEF Shows
<1>2. ASSUME NEW a \in Parts
      PROVE  <<a>> \in Seq(Parts) /\ \A p : Shows(<<a>>, p) <=> p = a
  <2>1. <<a>> \in Seq(Parts) /\ DOMAIN <<a>> = {1} /\ <<a>>[1] = a
    OBVIOUS
  <2> QED
    BY <2>1 DEF Shows
<1> QED
  BY <1>1, <1>2

\* The parts of a text are told apart by their kind, their file and their number.
LEMMA PartsAre ==
  /\ \A f, n \in Nat : Body(f, n) \in Parts /\ Omitted(f, n) \in Parts
  /\ \A n \in Nat : Note(n) \in Parts /\ More(n) \in Parts /\ Incomplete \in Parts
  /\ \A f, e, n : Body(f, n) # Note(e) /\ Omitted(f, n) # Note(e) /\ More(n) # Note(e) /\ Incomplete # Note(e)
  /\ \A f, e : Note(f) = Note(e) => f = e
<1>1. \A f, e, n : Body(f, n) # Note(e) /\ Omitted(f, n) # Note(e) /\ More(n) # Note(e) /\ Incomplete # Note(e)
  <2> SUFFICES ASSUME NEW f, NEW e, NEW n
               PROVE  Body(f, n) # Note(e) /\ Omitted(f, n) # Note(e) /\ More(n) # Note(e) /\ Incomplete # Note(e)
    OBVIOUS
  <2>1. Note(e).is = "note" /\ Body(f, n).is = "body" /\ Omitted(f, n).is = "omitted"
        /\ More(n).is = "more" /\ Incomplete.is = "incomplete"
    BY DEF Note, Body, Omitted, More, Incomplete
  <2> QED
    BY <2>1
<1>2. \A f, e : Note(f) = Note(e) => f = e
  <2>1. \A f : Note(f).of = f
    BY DEF Note
  <2> QED
    BY <2>1
<1>3. \A f, n \in Nat : Body(f, n) \in Parts /\ Omitted(f, n) \in Parts
  BY DEF Body, Omitted, Parts
<1>4. \A n \in Nat : Note(n) \in Parts /\ More(n) \in Parts /\ Incomplete \in Parts
  BY DEF Note, More, Incomplete, Parts
<1> QED
  BY <1>1, <1>2, <1>3, <1>4

\* A plan is there in full, or the text says how much of it is missing.
PlanShown(f, plan, parts) ==
  plan.is = "active" =>
    \/ Shows(parts, Body(f, plan.size))
    \/ \E n \in 1..plan.size : Shows(parts, Omitted(f, n)) /\ Shows(parts, Body(f, plan.size - n))

\* The three kinds of plans.
LEMMA PlansAre ==
  ASSUME NEW plan, IsPlan(plan)
  PROVE  /\ plan.is \in {"active", "inactive", "unclear"} /\ plan.size \in Nat
         /\ plan.is # "active" => plan.size = 0
<1>1. /\ Inactive.is = "inactive" /\ Inactive.size = 0 /\ Unclear.is = "unclear" /\ Unclear.size = 0
      /\ \A n : Active(n).is = "active" /\ Active(n).size = n
  BY DEF Inactive, Unclear, Active
<1>2. plan.size \in Nat /\ (plan = Inactive \/ plan = Unclear \/ plan = Active(plan.size))
  BY DEF IsPlan
<1> QED
  BY <1>1, <1>2

\* What a file adds: its body, its note or nothing.
LEMMA PartsOfIs ==
  ASSUME NEW f \in Nat, NEW plan, IsPlan(plan), NEW budget \in Nat, NEW notes \in Nat
  PROVE  LET s == PartsOf(f, plan, budget, notes) IN
         /\ s \in Seq(Parts) /\ PlanShown(f, plan, s)
         /\ \A g : Shows(s, Note(g)) <=> plan.is = "unclear" /\ notes < NoteCap /\ g = f
<1> DEFINE s == PartsOf(f, plan, budget, notes)
<1>1. CASE plan.is = "unclear"
  <2>1. s = IF notes < NoteCap THEN <<Note(f)>> ELSE <<>>
    BY <1>1 DEF PartsOf
  <2>2. s \in Seq(Parts) /\ \A g : Shows(s, Note(g)) <=> notes < NoteCap /\ g = f
    <3>1. CASE notes < NoteCap
      <4>1. s = <<Note(f)>> /\ Note(f) \in Parts
        BY <2>1, <3>1, PartsAre
      <4> HIDE DEF s
      <4>2. s \in Seq(Parts) /\ \A p : Shows(s, p) <=> p = Note(f)
        BY <4>1, PartsShow
      <4> QED
        BY <3>1, <4>2, PartsAre
    <3>2. CASE ~(notes < NoteCap)
      <4>1. s = <<>>
        BY <2>1, <3>2
      <4> HIDE DEF s
      <4> QED
        BY <3>2, <4>1, PartsShow
    <3> QED
      BY <3>1, <3>2
  <2> HIDE DEF s
  <2> QED
    BY <1>1, <2>2 DEF PlanShown, s
<1>2. CASE plan.is = "inactive"
  <2>1. s = <<>>
    BY <1>2 DEF PartsOf
  <2> HIDE DEF s
  <2> QED
    BY <1>2, <2>1, PartsShow DEF PlanShown, s
<1>3. CASE plan.is = "active"
  <2> DEFINE b == Body(f, Least(plan.size, budget))  o == Omitted(f, plan.size - budget)
             t == IF plan.size > budget THEN <<o>> ELSE <<>>
  <2>1. s = <<b>> \o t
    BY <1>3 DEF PartsOf
  <2>2. plan.size \in Nat
    BY PlansAre
  <2>3. Least(plan.size, budget) \in Nat
    BY <2>2 DEF Least
  <2>4. b \in Parts
    BY <2>3, PartsAre
  <2>5. /\ t \in Seq(Parts)
        /\ \A p : Shows(t, p) <=> plan.size > budget /\ p = o
    <3>1. CASE plan.size > budget
      <4>1. plan.size - budget \in Nat
        BY <2>2, <3>1
      <4>2. o \in Parts
        BY <4>1, PartsAre
      <4>3. t = <<o>>
        BY <3>1
      <4> HIDE DEF t, o
      <4> QED
        BY <3>1, <4>2, <4>3, PartsShow
    <3>2. CASE ~(plan.size > budget)
      <4>1. t = <<>>
        BY <3>2
      <4> HIDE DEF t, o
      <4> QED
        BY <3>2, <4>1, PartsShow
    <3> QED
      BY <3>1, <3>2
  <2>6. <<b>> \in Seq(Parts) /\ \A p : Shows(<<b>>, p) <=> p = b
    BY <2>4, PartsShow
  <2> HIDE DEF s, t
  <2>7. s \in Seq(Parts) /\ \A p : Shows(s, p) <=> p = b \/ (plan.size > budget /\ p = o)
    BY <2>1, <2>5, <2>6, BothShow
  <2>8. \A g : ~Shows(s, Note(g))
    <3>1. \A g : b # Note(g) /\ o # Note(g)
      BY PartsAre, Zenon
    <3> HIDE DEF b, o
    <3> QED
      BY <2>7, <3>1
  <2>9. PlanShown(f, plan, s)
    <3>1. CASE plan.size > budget
      <4>1. Least(plan.size, budget) = budget /\ plan.size - budget \in 1..plan.size
            /\ plan.size - (plan.size - budget) = budget
        BY <2>2, <3>1 DEF Least
      <4> QED
        BY <2>7, <3>1, <4>1 DEF PlanShown
    <3>2. CASE ~(plan.size > budget)
      <4>1. Least(plan.size, budget) = plan.size
        BY <2>2, <3>2 DEF Least
      <4> QED
        BY <2>7, <4>1 DEF PlanShown
    <3> QED
      BY <3>1, <3>2
  <2> QED
    BY <1>3, <2>7, <2>8, <2>9 DEF s
<1> QED
  BY <1>1, <1>2, <1>3, PlansAre

\* One more file: what was shown stays, the total stays under its cap.
LEMMA OneMoreIs ==
  ASSUME NEW f \in Nat, NEW plan, IsPlan(plan), NEW d, d.parts \in Seq(Parts), d.total \in Nat,
         d.total <= TotalCap, d.notes \in Nat
  PROVE  LET e == OneMore(plan, f, d) IN
         /\ e.parts \in Seq(Parts) /\ e.total \in Nat /\ e.total <= TotalCap
         /\ e.notes = d.notes + (IF plan.is = "unclear" THEN 1 ELSE 0)
         /\ \A p : Shows(d.parts, p) => Shows(e.parts, p)
         /\ PlanShown(f, plan, e.parts)
         /\ \A g : Shows(e.parts, Note(g)) <=>
              Shows(d.parts, Note(g)) \/ (plan.is = "unclear" /\ d.notes < NoteCap /\ g = f)
<1> DEFINE e == OneMore(plan, f, d)  budget == Least(PlanCap, TotalCap - d.total)
           s == PartsOf(f, plan, budget, d.notes)
<1>1. /\ e.parts = d.parts \o s /\ e.total = d.total + Least(plan.size, budget)
      /\ e.notes = d.notes + (IF plan.is = "unclear" THEN 1 ELSE 0)
  BY DEF OneMore
<1>2. budget \in Nat /\ budget <= TotalCap - d.total
  <2>1. TotalCap - d.total \in Nat
    BY PlanConstants
  <2> QED
    BY <2>1, PlanConstants DEF Least
<1>3. plan.size \in Nat
  BY PlansAre
<1> HIDE DEF e, budget
<1>4. e.total \in Nat /\ e.total <= TotalCap
  <2>1. Least(plan.size, budget) \in Nat /\ Least(plan.size, budget) <= budget
    BY <1>2, <1>3 DEF Least
  <2> QED
    BY <1>1, <1>2, <2>1, PlanConstants
<1>5. /\ s \in Seq(Parts) /\ PlanShown(f, plan, s)
      /\ \A g : Shows(s, Note(g)) <=> plan.is = "unclear" /\ d.notes < NoteCap /\ g = f
  BY <1>2, PartsOfIs
<1> HIDE DEF s
<1>6. e.parts \in Seq(Parts) /\ \A p : Shows(e.parts, p) <=> Shows(d.parts, p) \/ Shows(s, p)
  BY <1>1, <1>5, BothShow
<1>7. PlanShown(f, plan, e.parts)
  BY <1>5, <1>6 DEF PlanShown
<1> QED
  BY <1>1, <1>4, <1>5, <1>6, <1>7 DEF e

\* What is so far in the text, of the first n files of a directory.
UnclearOf(ps, files, n) == {f \in DOMAIN ps : ps[f].is = "unclear" /\ \E m \in 1..n : files[m] = f}
NamedIn(ps, parts) == {f \in DOMAIN ps : Shows(parts, Note(f))}

TakenWell(ps, files, n, d) ==
  /\ d.parts \in Seq(Parts) /\ d.total \in Nat /\ d.total <= TotalCap /\ d.notes \in Nat
  /\ d.notes = Cardinality(UnclearOf(ps, files, n))
  /\ NamedIn(ps, d.parts) \subseteq UnclearOf(ps, files, n)
  /\ Cardinality(NamedIn(ps, d.parts)) = Least(d.notes, NoteCap)
  /\ \A m \in 1..n : PlanShown(files[m], ps[files[m]], d.parts)

\* A file more of a list without repetition.
LEMMA TakesMore ==
  ASSUME NEW ps, IsDirectory(ps), NEW files, NEW n \in Nat \ {0}, \A m \in 1..n : files[m] \in DOMAIN ps,
         \A m \in 1..n - 1 : files[m] # files[n], NEW d, TakenWell(ps, files, n - 1, d)
  PROVE  TakenWell(ps, files, n, OneMore(ps[files[n]], files[n], d))
<1> DEFINE f == files[n]  plan == ps[f]  e == OneMore(plan, f, d)
           U == UnclearOf(ps, files, n - 1)  V == UnclearOf(ps, files, n)
           M == NamedIn(ps, d.parts)  N == NamedIn(ps, e.parts)
<1>1. n \in 1..n /\ f \in DOMAIN ps /\ f \in Nat /\ IsPlan(plan)
  BY DEF IsDirectory
<1>2. /\ d.parts \in Seq(Parts) /\ d.total \in Nat /\ d.total <= TotalCap /\ d.notes \in Nat
      /\ d.notes = Cardinality(U) /\ M \subseteq U /\ Cardinality(M) = Least(d.notes, NoteCap)
      /\ \A m \in 1..n - 1 : PlanShown(files[m], ps[files[m]], d.parts)
  BY DEF TakenWell
<1>3. /\ e.parts \in Seq(Parts) /\ e.total \in Nat /\ e.total <= TotalCap
      /\ e.notes = d.notes + (IF plan.is = "unclear" THEN 1 ELSE 0)
      /\ \A p : Shows(d.parts, p) => Shows(e.parts, p)
      /\ PlanShown(f, plan, e.parts)
      /\ \A g : Shows(e.parts, Note(g)) <=>
           Shows(d.parts, Note(g)) \/ (plan.is = "unclear" /\ d.notes < NoteCap /\ g = f)
  BY <1>1, <1>2, OneMoreIs, Zenon
<1>4. IsFiniteSet(U) /\ IsFiniteSet(M) /\ f \notin U
  <2>1. U \in SUBSET DOMAIN ps /\ M \in SUBSET DOMAIN ps /\ f \notin U
    BY DEF UnclearOf, NamedIn
  <2> HIDE DEF U, M
  <2> QED
    BY <2>1, FS_Subset DEF IsDirectory
<1>5. \A m \in 1..n : m \in 1..n - 1 \/ m = n
  OBVIOUS
<1>6. 1..n - 1 \subseteq 1..n
  OBVIOUS
<1>7. V = IF plan.is = "unclear" THEN U \cup {f} ELSE U
  <2>1. \A g \in DOMAIN ps : (\E m \in 1..n : files[m] = g) <=> (\E m \in 1..n - 1 : files[m] = g) \/ g = f
    BY <1>1, <1>5, <1>6
  <2> QED
    BY <1>1, <2>1 DEF UnclearOf
<1>8. N = IF plan.is = "unclear" /\ d.notes < NoteCap THEN M \cup {f} ELSE M
  BY <1>1, <1>3 DEF NamedIn
<1>9. \A m \in 1..n : PlanShown(files[m], ps[files[m]], e.parts)
  <2> SUFFICES ASSUME NEW m \in 1..n, m # n PROVE PlanShown(files[m], ps[files[m]], e.parts)
    BY <1>3
  <2>1. PlanShown(files[m], ps[files[m]], d.parts)
    BY <1>2, <1>5
  <2> HIDE DEF e
  <2> QED
    BY <1>3, <2>1 DEF PlanShown
<1> HIDE DEF e, U, V, M, N, plan
<1>10. Cardinality(U) \in Nat /\ Cardinality(M) \in Nat
  BY <1>4, FS_CardinalityType
<1>11. /\ e.notes = Cardinality(V) /\ e.notes \in Nat /\ N \subseteq V
       /\ Cardinality(N) = Least(e.notes, NoteCap)
  <2>1. Cardinality(U \cup {f}) = Cardinality(U) + 1
    BY <1>4, FS_AddElement
  <2>2. f \notin M
    BY <1>2, <1>4
  <2>3. Cardinality(M \cup {f}) = Cardinality(M) + 1
    BY <1>4, <2>2, FS_AddElement
  <2>4. CASE plan.is # "unclear"
    <3>1. V = U /\ N = M /\ e.notes = d.notes
      BY <1>2, <1>3, <1>7, <1>8, <2>4
    <3> QED
      BY <1>2, <3>1
  <2>5. CASE plan.is = "unclear" /\ d.notes < NoteCap
    <3>1. V = U \cup {f} /\ N = M \cup {f} /\ e.notes = d.notes + 1
      BY <1>3, <1>7, <1>8, <2>5
    <3>2. Least(d.notes, NoteCap) = d.notes /\ Least(d.notes + 1, NoteCap) = d.notes + 1
      BY <1>2, <2>5, PlanConstants DEF Least
    <3> QED
      BY <1>2, <2>1, <2>3, <3>1, <3>2
  <2>6. CASE plan.is = "unclear" /\ ~(d.notes < NoteCap)
    <3>1. V = U \cup {f} /\ N = M /\ e.notes = d.notes + 1
      BY <1>3, <1>7, <1>8, <2>6
    <3>2. Least(d.notes, NoteCap) = NoteCap /\ Least(d.notes + 1, NoteCap) = NoteCap
      BY <1>2, <2>6, PlanConstants DEF Least
    <3> QED
      BY <1>2, <2>1, <3>1, <3>2
  <2> QED
    BY <2>4, <2>5, <2>6
<1> QED
  BY <1>3, <1>9, <1>11 DEF TakenWell, e, V, N, plan

\* File after file, up to the last of a list without repetition.
LEMMA AllTaken ==
  ASSUME NEW ps, IsDirectory(ps), NEW files, Len(files) \in Nat,
         \A n \in 1..Len(files) : files[n] \in DOMAIN ps,
         \A n, m \in 1..Len(files) : files[n] = files[m] => n = m
  PROVE  TakenWell(ps, files, Len(files), Taken(ps, files)[Len(files)])
<1> DEFINE t == Taken(ps, files)  N == Len(files)
           Bad == {n \in 0..N : ~TakenWell(ps, files, n, t[n])}
<1>1. t[0] = NothingTaken /\ \A n \in 1..N : t[n] = OneMore(ps[files[n]], files[n], t[n - 1])
  BY TakenIs
<1> HIDE DEF t
<1>2. TakenWell(ps, files, 0, t[0])
  <2> DEFINE d == t[0]
  <2>1. d.parts = <<>> /\ d.total = 0 /\ d.notes = 0
    BY <1>1 DEF NothingTaken
  <2>2. UnclearOf(ps, files, 0) = {}
    BY DEF UnclearOf
  <2>3. NamedIn(ps, d.parts) = {}
    BY <2>1, PartsShow DEF NamedIn
  <2>4. Least(0, NoteCap) = 0
    BY PlanConstants DEF Least
  <2> HIDE DEF d
  <2>5. Cardinality(UnclearOf(ps, files, 0)) = 0 /\ Cardinality(NamedIn(ps, d.parts)) = 0
    BY <2>2, <2>3, FS_EmptySet
  <2>6. d.parts \in Seq(Parts) /\ d.total <= TotalCap
    BY <2>1, PartsShow, PlanConstants
  <2> QED
    BY <2>1, <2>2, <2>3, <2>4, <2>5, <2>6 DEF TakenWell, d
<1>3. Bad = {}
  <2> SUFFICES ASSUME Bad # {} PROVE FALSE
    OBVIOUS
  <2>1. PICK n \in Bad : \A k \in Bad : n <= k
    <3>1. Bad \in SUBSET Nat
      OBVIOUS
    <3> HIDE DEF Bad
    <3> QED
      BY <3>1, LeastOf
  <2>2. n \in 1..N /\ n \in Nat \ {0} /\ n - 1 \in 0..N
    BY <1>2, <2>1
  <2>3. TakenWell(ps, files, n - 1, t[n - 1])
    BY <2>1, <2>2
  <2>4. \A m \in 1..n : m \in 1..N
    BY <2>2
  <2>5. \A m \in 1..n - 1 : m \in 1..N /\ m # n
    BY <2>2
  <2>6. TakenWell(ps, files, n, t[n])
    BY <1>1, <2>2, <2>3, <2>4, <2>5, TakesMore
  <2> QED
    BY <2>1, <2>6
<1> QED
  BY <1>3 DEF t

\* A text that is not cut shows all that it is made of.
LEMMA BoundedShows ==
  ASSUME NEW parts \in Seq(Parts), ~Bounded(parts).cut
  PROVE  Bounded(parts).parts = parts
<1>1. Len(parts) \in Nat /\ ~(Len(parts) > TextCap)
  <2>1. ~(Len(parts) > TextCap)
    BY Zenon DEF Bounded
  <2> QED
    BY <2>1
<1>2. Least(Len(parts), TextCap) = Len(parts)
  BY <1>1, PlanConstants DEF Least
<1> QED
  BY <1>2, SubSeqFull DEF Bounded

\* Whatever scan of the directory a hook makes, and whatever the caps: the text that it
\* renders accounts for every plan.
LEMMA RenderAccounts ==
  ASSUME NEW ps, IsDirectory(ps), NEW scan \in Scans(ps)
  PROVE  Accounted(ps, Bounded(Render(ps, scan)))
<1> DEFINE files == InOrder(scan)  N == Cardinality(scan)  all == Taken(ps, files)[N]
           more == IF all.notes > NoteCap THEN <<More(all.notes - NoteCap)>> ELSE <<>>
           rest == IF Cardinality(DOMAIN ps) > FileCap THEN <<Incomplete>> ELSE <<>>
           parts == Render(ps, scan)  text == Bounded(parts)
<1>1. scan \in SUBSET Nat /\ scan \in SUBSET DOMAIN ps /\ IsFiniteSet(scan)
  <2>1. scan \in SUBSET DOMAIN ps
    BY DEF Scans
  <2> QED
    BY <2>1, FS_Subset DEF IsDirectory
<1>2. /\ N \in Nat /\ Len(files) = N /\ \A n \in 1..N : files[n] \in scan
      /\ \A n, m \in 1..N : files[n] = files[m] => n = m
      /\ \A f \in scan : \E n \in 1..N : files[n] = f
  BY <1>1, InOrderIs
<1>3. parts = (all.parts \o more) \o rest
  BY Zenon DEF Render
<1> HIDE DEF files, N
<1>4. TakenWell(ps, files, N, all)
  <2>1. \A n \in 1..N : files[n] \in DOMAIN ps
    BY <1>1, <1>2
  <2> QED
    BY <1>2, <2>1, AllTaken
<1> HIDE DEF all
<1>5. all.parts \in Seq(Parts) /\ all.notes \in Nat
  BY <1>4 DEF TakenWell
<1>6. more \in Seq(Parts) /\ \A p : Shows(more, p) <=> all.notes > NoteCap /\ p = More(all.notes - NoteCap)
  <2>1. CASE all.notes > NoteCap
    <3>1. all.notes - NoteCap \in Nat
      BY <1>5, <2>1, PlanConstants
    <3>2. more = <<More(all.notes - NoteCap)>> /\ More(all.notes - NoteCap) \in Parts
      BY <2>1, <3>1, PartsAre
    <3> HIDE DEF more
    <3> QED
      BY <2>1, <3>2, PartsShow
  <2>2. CASE ~(all.notes > NoteCap)
    <3>1. more = <<>>
      BY <2>2
    <3> HIDE DEF more
    <3> QED
      BY <2>2, <3>1, PartsShow
  <2> QED
    BY <2>1, <2>2
<1>7. rest \in Seq(Parts) /\ \A p : Shows(rest, p) <=> Cardinality(DOMAIN ps) > FileCap /\ p = Incomplete
  <2>1. CASE Cardinality(DOMAIN ps) > FileCap
    <3>1. rest = <<Incomplete>> /\ Incomplete \in Parts
      BY <2>1, PartsAre
    <3> HIDE DEF rest
    <3> QED
      BY <2>1, <3>1, PartsShow
  <2>2. CASE ~(Cardinality(DOMAIN ps) > FileCap)
    <3>1. rest = <<>>
      BY <2>2
    <3> HIDE DEF rest
    <3> QED
      BY <2>2, <3>1, PartsShow
  <2> QED
    BY <2>1, <2>2
<1> HIDE DEF more, rest, parts
<1>8. /\ parts \in Seq(Parts)
      /\ \A p : Shows(parts, p) <=> Shows(all.parts, p) \/ Shows(more, p) \/ Shows(rest, p)
  <2>1. /\ all.parts \o more \in Seq(Parts)
        /\ \A p : Shows(all.parts \o more, p) <=> Shows(all.parts, p) \/ Shows(more, p)
    BY <1>5, <1>6, BothShow
  <2>2. /\ parts \in Seq(Parts)
        /\ \A p : Shows(parts, p) <=> Shows(all.parts \o more, p) \/ Shows(rest, p)
    BY <1>3, <1>7, <2>1, BothShow
  <2> QED
    BY <2>1, <2>2
<1>9. CASE text.cut
  BY <1>9, Zenon DEF Accounted, parts
<1>10. CASE ~text.cut /\ Cardinality(DOMAIN ps) > FileCap
  <2>1. text.parts = parts
    BY <1>8, <1>10, BoundedShows
  <2>2. Shows(text.parts, Incomplete)
    BY <1>7, <1>8, <1>10, <2>1
  <2> HIDE DEF text
  <2> QED
    BY <2>2, Zenon DEF Accounted, Shows, text, parts
<1>11. CASE ~text.cut /\ ~(Cardinality(DOMAIN ps) > FileCap)
  <2>1. text.parts = parts
    BY <1>8, <1>11, BoundedShows
  <2>2. scan = DOMAIN ps
    <3>1. Cardinality(DOMAIN ps) \in Nat
      BY FS_CardinalityType DEF IsDirectory
    <3>2. Cardinality(scan) = Cardinality(DOMAIN ps)
      BY <1>11, <3>1, PlanConstants DEF Scans, Least
    <3> QED
      BY <1>1, <3>2, FS_Subset DEF IsDirectory
  <2> DEFINE unclear == {f \in DOMAIN ps : ps[f].is = "unclear"}
             named == {f \in DOMAIN ps : Shows(text.parts, Note(f))}
  <2>3. UnclearOf(ps, files, N) = unclear
    BY <1>2, <2>2 DEF UnclearOf
  <2>4. named = NamedIn(ps, all.parts)
    <3>1. \A f : ~Shows(more, Note(f)) /\ ~Shows(rest, Note(f))
      BY <1>6, <1>7, PartsAre
    <3> HIDE DEF text
    <3> QED
      BY <1>8, <2>1, <3>1 DEF NamedIn
  <2>5. \A f \in DOMAIN ps : PlanShown(f, ps[f], text.parts)
    <3> SUFFICES ASSUME NEW f \in DOMAIN ps PROVE PlanShown(f, ps[f], text.parts)
      OBVIOUS
    <3>1. PICK n \in 1..N : files[n] = f
      BY <1>2, <2>2
    <3>2. PlanShown(f, ps[f], all.parts)
      BY <1>4, <3>1 DEF TakenWell
    <3> HIDE DEF text
    <3> QED
      BY <1>8, <2>1, <3>2 DEF PlanShown
  <2>6. \/ Cardinality(named) = Cardinality(unclear)
        \/ Shows(text.parts, More(Cardinality(unclear) - Cardinality(named)))
    <3>1. all.notes = Cardinality(unclear) /\ Cardinality(named) = Least(all.notes, NoteCap)
      BY <1>4, <2>3, <2>4 DEF TakenWell
    <3> HIDE DEF text, unclear, named
    <3>2. CASE all.notes > NoteCap
      <4>1. Least(all.notes, NoteCap) = NoteCap
        BY <1>5, <3>2, PlanConstants DEF Least
      <4>2. Shows(parts, More(all.notes - NoteCap))
        BY <1>6, <1>8, <3>2
      <4> QED
        BY <2>1, <3>1, <4>1, <4>2
    <3>3. CASE ~(all.notes > NoteCap)
      <4>1. Least(all.notes, NoteCap) = all.notes
        BY <1>5, <3>3, PlanConstants DEF Least
      <4> QED
        BY <3>1, <4>1
    <3> QED
      BY <3>2, <3>3
  <2> HIDE DEF text
  <2>7. Accounted(ps, text)
    <3>1. ASSUME NEW f \in DOMAIN ps, ps[f].is = "active"
          PROVE  \/ Shows(text.parts, Body(f, ps[f].size))
                 \/ \E n \in 1..ps[f].size : /\ Shows(text.parts, Omitted(f, n))
                                              /\ Shows(text.parts, Body(f, ps[f].size - n))
      BY <2>5, <3>1, Zenon DEF PlanShown
    <3> QED
      BY <2>6, <3>1, Zenon DEF Accounted, Shows
  <2> QED
    BY <2>7 DEF text, parts
<1> QED
  BY <1>9, <1>10, <1>11
-----------------------------------------------------------------------------
(* The contexts that a session is given                                    *)

\* A carry that its reader can rely on for the plans.
Relied(carry) == carry = NoCarry \/ Accounted(plans, carry.plans)

\* What a hook prints and writes, from the time it has gathered it.
HonestHook(h) ==
  LET r == hook[h] IN
  /\ r.mode = "compact" => r.source = "compact"
  /\ r.at = "gather" => Relied(r.carry) /\ (r.carry # NoCarry => r.carry.nonce \notin aged)
  /\ r.at \in Gathered =>
       /\ Relied(r.content.carry) /\ r.content.emission = r.nonce
       /\ r.content.status = "emitted" => r.nonce \in printed
       /\ Accounted(plans, r.context.plans)
       /\ r.mode = "session" /\ r.carry # NoCarry => r.carry.nonce \notin aged
       /\ r.context.nonce = r.nonce \/ r.source = "compact"

HonestFile == Relied(file.carry) /\ (file.status = "emitted" => file.emission \in printed)

HonestInv ==
  /\ IsDirectory(plans) /\ HonestFile
  /\ \A h \in Hooks : HonestHook(h)

\* Each text that a capture makes accounts for the plans.
LEMMA TextsAccount ==
  ASSUME NEW ps, IsDirectory(ps), NEW text \in TextsOf(ps)
  PROVE  Accounted(ps, text)
<1>1. CASE text = [parts |-> <<>>, cut |-> TRUE]
  <2>1. text.cut
    BY <1>1
  <2> QED
    BY <2>1, Zenon DEF Accounted
<1>2. CASE \E scan \in Scans(ps) : text = Bounded(Render(ps, scan))
  BY <1>2, RenderAccounts
<1> QED
  BY <1>1, <1>2 DEF TextsOf

\* The state file of the beginning says what was emitted and carries these plans.
LEMMA HonestInit == Init => HonestInv
<1> SUFFICES ASSUME Init PROVE HonestInv
  OBVIOUS
<1>1. PICK s \in Starts : plans = s.plans /\ events = s.events /\ file = s.file
  BY DEF Init
<1>2. IsDirectory(plans) /\ (file.status = "emitted" => file.emission \in 1..events)
      /\ (file.carry = NoCarry \/ file.carry.plans \in TextsOf(plans))
  BY <1>1, StartsAreProjects
<1>3. HonestFile
  BY <1>2, TextsAccount DEF Init, HonestFile, Relied
<1>4. \A h \in Hooks : HonestHook(h)
  BY DEF Init, HonestHook, NoHook, Gathered
<1> QED
  BY <1>2, <1>3, <1>4 DEF HonestInv

\* What was right of a hook or of the file stays right while the plans and the days
\* are as they were.
LEMMA StaysHonest ==
  ASSUME HonestInv, plans' = plans, printed \subseteq printed'
  PROVE  /\ IsDirectory(plans)' /\ (file' = file => HonestFile')
         /\ \A g \in Hooks : hook'[g] = hook[g] /\ (aged' = aged \/ hook[g].at = "idle") => HonestHook(g)'
BY DEF HonestInv, HonestFile, HonestHook, Relied, Gathered

\* A hook that goes on with what it gathered.
LEMMA HonestMove ==
  ASSUME CarryInv, HonestInv, NEW h \in Hooks, NEW at, Moves(h, at), at # "gather",
         at \in Gathered => hook[h].at \in Gathered, plans' = plans, aged' = aged, printed' = printed
  PROVE  \A g \in Hooks : HonestHook(g)'
<1> DEFINE r == [hook[h] EXCEPT !.at = at]
<1>1. hook' = [hook EXCEPT ![h] = r] /\ hook'[h] = r /\ HookShape(hook[h]) /\ HonestHook(h)
  BY DEF Moves, CarryInv, HookInv, HonestInv
<1>2. /\ r.at = at /\ r.mode = hook[h].mode /\ r.source = hook[h].source /\ r.nonce = hook[h].nonce
      /\ r.carry = hook[h].carry /\ r.context = hook[h].context /\ r.content = hook[h].content
  BY <1>1 DEF HookShape
<1> HIDE DEF r
<1>3. HonestHook(h)'
  BY <1>1, <1>2 DEF HonestHook, Relied
<1>4. \A g \in Hooks : g # h => hook'[g] = hook[g]
  BY <1>1 DEF CarryInv
<1> QED
  BY <1>3, <1>4, StaysHonest

\* A hook that ends says nothing.
LEMMA HonestEnd ==
  ASSUME CarryInv, HonestInv, NEW h \in Hooks, Ends(h), plans' = plans, aged' = aged, printed' = printed
  PROVE  \A g \in Hooks : HonestHook(g)'
<1>1. hook'[h] = NoHook /\ \A g \in Hooks : g # h => hook'[g] = hook[g]
  BY DEF Ends, CarryInv
<1>2. HonestHook(h)'
  BY <1>1 DEF HonestHook, NoHook, Gathered
<1> QED
  BY <1>1, <1>2, StaysHonest

\* A hook begins: before a compaction, or at a session start of any kind.
LEMMA HonestBegin ==
  ASSUME CarryInv, HonestInv, NEW h \in Hooks, HookBegins(h)
  PROVE  HonestInv'
<1>1. PICK mode \in {"session", "compact"}, source \in Sources :
        /\ mode = "compact" => source = "compact"
        /\ hook' = [hook EXCEPT ![h] =
             [NoHook EXCEPT !.at = "read", !.mode = mode, !.source = source, !.nonce = events + 1]]
  BY DEF HookBegins
<1>2. HonestHook(h)'
  BY <1>1 DEF CarryInv, HonestHook, NoHook, Gathered
<1>3. \A g \in Hooks : g # h => hook'[g] = hook[g]
  BY <1>1 DEF CarryInv
<1>4. plans' = plans /\ aged' = aged /\ printed' = printed /\ file' = file
  BY DEF HookBegins
<1> QED
  BY <1>2, <1>3, <1>4, StaysHonest DEF HonestInv

\* It reads a carry, and forgets one that is too old.
LEMMA HonestRead ==
  ASSUME CarryInv, HonestInv, NEW h \in Hooks, HookReads(h)
  PROVE  HonestInv'
<1> DEFINE r == [hook[h] EXCEPT !.at = "gather", !.read = file, !.carry = Loaded(file), !.expected = file]
<1>1. /\ hook' = [hook EXCEPT ![h] = r] /\ plans' = plans /\ aged' = aged /\ printed' = printed
      /\ file' = file
  BY DEF HookReads
<1>2. hook'[h] = r /\ HookShape(hook[h]) /\ HonestHook(h) /\ Relied(file.carry)
  BY <1>1 DEF CarryInv, HookInv, HonestInv, HonestFile
<1>3. /\ r.at = "gather" /\ r.mode = hook[h].mode /\ r.source = hook[h].source /\ r.carry = Loaded(file)
  BY <1>2 DEF HookShape
<1> HIDE DEF r
<1>4. Relied(Loaded(file)) /\ (Loaded(file) # NoCarry => Loaded(file).nonce \notin aged)
  BY <1>2 DEF Loaded, Relied
<1>5. HonestHook(h)'
  BY <1>1, <1>2, <1>3, <1>4 DEF HonestHook, Relied, Gathered
<1>6. \A g \in Hooks : g # h => hook'[g] = hook[g]
  BY <1>1 DEF CarryInv
<1> QED
  BY <1>1, <1>5, <1>6, StaysHonest DEF HonestInv

\* It gathers a context: the carry it read, or its own capture.
LEMMA HonestGather ==
  ASSUME CarryInv, HonestInv, NEW h \in Hooks, HookGathers(h)
  PROVE  HonestInv'
<1> DEFINE carryOf(new) == CASE hook[h].mode = "compact" -> new
                              [] hook[h].mode = "session" /\ hook[h].source = "compact" -> hook[h].carry
                              [] OTHER -> NoCarry
<1>0. PICK new \in Captures(hook[h].nonce) :
        hook' = [hook EXCEPT ![h].at = "lock", ![h].carry = carryOf(new),
                  ![h].context = Given(carryOf(new), new),
                  ![h].content = StateFile(carryOf(new), hook[h].nonce, "prepared")]
  BY Zenon DEF HookGathers
<1>1. PICK carry :
        /\ carry = carryOf(new)
        /\ hook' = [hook EXCEPT ![h].at = "lock", ![h].carry = carry,
                     ![h].context = Given(carry, new),
                     ![h].content = StateFile(carry, hook[h].nonce, "prepared")]
  BY <1>0
<1> DEFINE r == [hook[h] EXCEPT !.at = "lock", !.carry = carry, !.context = Given(carry, new),
                                !.content = StateFile(carry, hook[h].nonce, "prepared")]
<1>2. /\ hook' = [hook EXCEPT ![h] = r] /\ plans' = plans /\ aged' = aged /\ printed' = printed
      /\ file' = file /\ hook[h].at = "gather"
  <2>1. plans' = plans /\ aged' = aged /\ printed' = printed /\ file' = file /\ hook[h].at = "gather"
    BY Zenon DEF HookGathers, At
  <2> QED
    BY <1>1, <2>1
<1>3. new.nonce = hook[h].nonce /\ Accounted(plans, new.plans)
  BY TextsAccount DEF Captures, HonestInv
<1>4. hook'[h] = r /\ HookShape(hook[h]) /\ HonestHook(h) /\ hook[h].mode \in {"session", "compact"}
  BY <1>2 DEF CarryInv, HookInv, HonestInv
<1>5. /\ r.at = "lock" /\ r.mode = hook[h].mode /\ r.source = hook[h].source /\ r.nonce = hook[h].nonce
      /\ r.carry = carry /\ r.context = Given(carry, new)
      /\ r.content = StateFile(carry, hook[h].nonce, "prepared")
  BY <1>4 DEF HookShape
<1>6. r.content.carry = carry /\ r.content.emission = hook[h].nonce /\ r.content.status = "prepared"
  BY <1>5 DEF StateFile
<1> HIDE DEF r
<1>7. /\ hook[h].mode = "compact" => carry = new /\ hook[h].source = "compact"
      /\ hook[h].mode = "session" => carry \in {hook[h].carry, NoCarry}
      /\ hook[h].source # "compact" => carry = NoCarry
      /\ Relied(hook[h].carry) /\ (hook[h].carry # NoCarry => hook[h].carry.nonce \notin aged)
  BY <1>1, <1>2, <1>4 DEF HonestHook
<1> HIDE DEF carryOf
<1>8. /\ Relied(carry)
      /\ Accounted(plans, Given(carry, new).plans)
      /\ Given(carry, new).nonce = hook[h].nonce \/ hook[h].source = "compact"
      /\ hook[h].mode = "session" /\ carry # NoCarry => carry.nonce \notin aged
  BY <1>3, <1>4, <1>7 DEF Relied, Given
<1>9. HonestHook(h)'
  BY <1>2, <1>4, <1>5, <1>6, <1>7, <1>8 DEF HonestHook, Relied, Gathered
<1>10. \A g \in Hooks : g # h => hook'[g] = hook[g]
  BY <1>2 DEF CarryInv
<1> QED
  BY <1>2, <1>9, <1>10, StaysHonest DEF HonestInv

\* It prints, and from then on its record may say so.
LEMMA HonestPrint ==
  ASSUME CarryInv, HonestInv, NEW h \in Hooks, HookPrints(h)
  PROVE  HonestInv'
<1> DEFINE r == [hook[h] EXCEPT !.at = "lock", !.expected = hook[h].content, !.content.status = "emitted"]
<1>1. /\ hook' = [hook EXCEPT ![h] = r] /\ hook[h].at = "print" /\ aged' = aged /\ plans' = plans
      /\ printed' = printed \cup {hook[h].nonce} /\ file' = file
  BY DEF HookPrints, At
<1>2. /\ hook'[h] = r /\ HookShape(hook[h]) /\ HonestHook(h)
      /\ hook[h].content = StateFile(hook[h].content.carry, hook[h].content.emission, hook[h].content.status)
  BY <1>1 DEF CarryInv, HookInv, HonestInv, Gathered
<1>3. /\ r.at = "lock" /\ r.mode = hook[h].mode /\ r.source = hook[h].source /\ r.nonce = hook[h].nonce
      /\ r.carry = hook[h].carry /\ r.context = hook[h].context
  BY <1>2 DEF HookShape
<1>4. r.content.carry = hook[h].content.carry /\ r.content.emission = hook[h].content.emission
  <2>1. r.content = [hook[h].content EXCEPT !.status = "emitted"]
    BY <1>2 DEF HookShape
  <2> HIDE DEF r
  <2> QED
    BY <1>2, <2>1 DEF StateFile
<1> HIDE DEF r
<1>5. HonestHook(h)'
  BY <1>1, <1>2, <1>3, <1>4 DEF HonestHook, Relied, Gathered
<1>6. \A g \in Hooks : g # h => hook'[g] = hook[g]
  BY <1>1 DEF CarryInv
<1> QED
  BY <1>1, <1>5, <1>6, StaysHonest DEF HonestInv

\* It replaces the state file with a record that is true.
LEMMA HonestReplace ==
  ASSUME CarryInv, HonestInv, NEW h \in Hooks, HookReplaces(h)
  PROVE  HonestInv'
<1>1. /\ hook[h].at = "replace" /\ file' = hook[h].content /\ Moves(h, "unlock")
      /\ plans' = plans /\ aged' = aged /\ printed' = printed
  BY DEF HookReplaces, At
<1>2. HonestFile'
  BY <1>1 DEF HonestInv, HonestHook, HonestFile, Relied, Gathered
<1>3. \A g \in Hooks : HonestHook(g)'
  BY <1>1, HonestMove DEF Gathered
<1> QED
  BY <1>1, <1>2, <1>3, StaysHonest DEF HonestInv

\* The invariant holds after every step.
LEMMA HonestNext ==
  ASSUME CarryInv, HonestInv, [Next]_vars
  PROVE  HonestInv'
<1>1. ASSUME NEW h \in Hooks, Ends(h), UNCHANGED <<plans, file, aged, printed>>
      PROVE  HonestInv'
  BY <1>1, HonestEnd, StaysHonest DEF HonestInv
<1>2. ASSUME NEW h \in Hooks, NEW at \in Gathered, Moves(h, at), hook[h].at \in Gathered,
             UNCHANGED <<plans, file, aged, printed>>
      PROVE  HonestInv'
  BY <1>2, HonestMove, StaysHonest DEF HonestInv, Gathered
<1>3. CASE \E h \in Hooks : HookBegins(h) \/ HookSteps(h) \/ HookDies(h)
  <2>1. PICK h \in Hooks : HookBegins(h) \/ HookSteps(h) \/ HookDies(h)
    BY <1>3
  <2>2. CASE HookLocks(h)
    BY <1>1, <1>2, <2>2 DEF HookLocks, At, Gathered
  <2>3. CASE HookCompares(h)
    BY <1>1, <1>2, <2>3 DEF HookCompares, At, Gathered
  <2>4. CASE HookUnlocks(h)
    BY <1>1, <1>2, <2>4 DEF HookUnlocks, At, Gathered
  <2>5. CASE HookRefuses(h) \/ HookDies(h)
    BY <1>1, <2>5 DEF HookRefuses, HookDies
  <2> QED
    BY <2>1, <2>2, <2>3, <2>4, <2>5, HonestBegin, HonestRead, HonestGather, HonestReplace, HonestPrint
       DEF HookSteps
<1>4. CASE UNCHANGED <<plans, file, printed, hook>> /\ (aged' = aged \/ \A h \in Hooks : At(h, "idle"))
  BY <1>4, StaysHonest DEF HonestInv, At
<1>5. ClearLock \/ Age => UNCHANGED <<plans, file, printed, hook>> /\ (aged' = aged \/ \A h \in Hooks : At(h, "idle"))
  BY DEF ClearLock, Age
<1>6. Project \/ Check \/ Gates \/ CloseUnit \/ UNCHANGED vars => UNCHANGED <<plans, file, printed, hook>> /\ aged' = aged
  BY DEF Project, Check, Gates, CloseUnit, vars, carryVars
<1> QED
  BY <1>3, <1>4, <1>5, <1>6 DEF Next, Carry, CarrySteps

\* What a session is told of the handoff and the plans is so, for any number of hooks
\* that run and are killed in any order, any plans and any caps.
THEOREM ContextStands == Spec => []ContextIsHonest
<1>1. CarryInv /\ HonestInv /\ [Next]_vars => CarryInv' /\ HonestInv'
  BY CarryNext, HonestNext
<1>2. CarryInv /\ HonestInv => ContextIsHonest
  <2> SUFFICES ASSUME CarryInv, HonestInv PROVE ContextIsHonest
    OBVIOUS
  <2>1. file.status = "emitted" => file.emission \in printed
    BY DEF HonestInv, HonestFile
  <2>2. \A h \in Hooks : At(h, "print") => hook[h].at \in Gathered /\ HonestHook(h)
    BY DEF HonestInv, At, Gathered
  <2> QED
    BY <2>1, <2>2 DEF HonestHook, ContextIsHonest
<1> QED
  BY CarryInit, HonestInit, <1>1, <1>2, PTL DEF Spec
-----------------------------------------------------------------------------
(* The concerns of the gates                                               *)

Phases == {"closed", "reenter", "status", "lint", "budget", "remember", "say"}

\* What a gate remembers of what it did, and where it may be.
GateTypes ==
  /\ changes \in Nat /\ gate.since \in Nat /\ gate.since <= changes
  /\ gate = [at |-> gate.at, work |-> gate.work, block |-> gate.block, since |-> gate.since]
  /\ gate.at \in Phases /\ session \in Sessions
  /\ turn \in {"idle", "working", "stop", "compact"}
  /\ gate.at = "closed" <=> turn \in {"idle", "working"}
  /\ gate.at \in {"reenter", "status"} => gate.work = {}
  /\ raised \in [Sessions -> [Concerns -> {0, 1}]]

\* The session was told of a concern, or a gate failed it.
Covered(c) == raised[session][c] = 1 \/ <<c, session>> \in excused

\* A sentinel is there for every concern that was raised, and for no other, unless a
\* gate is about to speak or failed; and a gate raises what was not raised before.
Remembered ==
  /\ \A s \in Sessions, c \in Concerns : raised[s][c] = 1 => <<c, s>> \in sentinels
  /\ \A s \in Sessions, c \in Concerns : <<c, s>> \in sentinels =>
       \/ raised[s][c] = 1 \/ <<c, s>> \in excused
       \/ s = session /\ gate.at = "say" /\ c \in gate.block
  /\ gate.at = "lint" /\ gate.work # {} => raised[session][Concern] = 0
  /\ gate.at \in {"budget", "remember", "say"} =>
       gate.block \subseteq ConcernsOf(turn) /\ \A c \in gate.block : raised[session][c] = 0
  /\ gate.at = "say" => \A c \in gate.block : <<c, session>> \in sentinels

\* A gate misses no concern of a project that stood still since it began.
Complete ==
  /\ gate.at = "lint" => gate.work = Work \/ Covered(Concern)
  /\ gate.at = "budget" /\ Stands(Concern) => Covered(Concern) \/ Concern \in gate.block
  /\ gate.at \in {"remember", "say"} =>
       \A c \in ConcernsOf(turn) : Stands(c) => Covered(c) \/ c \in gate.block

GateInv == GateTypes /\ Remembered /\ (gate.since = changes => Complete)

\* No gate runs and nothing was raised at the beginning.
LEMMA GateInit == Init => GateInv
<1> SUFFICES ASSUME Init PROVE GateInv
  OBVIOUS
<1>1. changes \in Nat
  BY StartsAreProjects DEF Init
<1>2. gate = Closed /\ turn = "idle" /\ session \in Sessions /\ sentinels = {}
      /\ raised = [s \in Sessions |-> [c \in Concerns |-> 0]]
  BY DEF Init
<1> QED
  BY <1>1, <1>2 DEF GateInv, GateTypes, Remembered, Complete, Closed, Phases

\* Sentinel files are not work.
LEMMA WorkIsTheProjects ==
  ASSUME UNCHANGED repo
  PROVE  Work' = Work /\ (\A c : Stands(c)' <=> Stands(c))
<1>1. tree' = tree /\ HeadTree' = HeadTree
  BY DEF repo, HeadTree
<1>2. Work' = Work
  BY <1>1 DEF Work, Dirt
<1> QED
  BY <1>1, <1>2 DEF Stands, Unhanded, GateAccepts

\* The concern of a turn is one that the gate knows, and never the budget.
LEMMA ConcernIsOne ==
  ASSUME turn \in {"stop", "compact"}
  PROVE  /\ Concern \in ConcernsOf(turn) /\ ConcernsOf(turn) \subseteq Concerns /\ Concern # "budget"
         /\ ConcernsOf(turn) \subseteq {Concern, "budget"}
         /\ turn = "compact" => ConcernsOf(turn) = {Concern}
BY DEF Concern, ConcernsOf, Concerns

\* The steps of the session and of its gate, first a prompt.
LEMMA PromptNext ==
  ASSUME GateInv, Prompt, UNCHANGED <<repo, changes>>
  PROVE  GateInv'
<1> USE DEF GateInv
<1>0. Work' = Work /\ (\A c : Stands(c)' <=> Stands(c)) /\ changes' = changes
  BY WorkIsTheProjects
<1>1. GateTypes'
  BY <1>0 DEF Prompt, GateTypes
<1>2. gate' = gate /\ gate.at = "closed"
  BY DEF Prompt, GateTypes
<1>3. Remembered'
  BY <1>1, <1>2 DEF Prompt, Remembered
<1> QED
  BY <1>1, <1>2, <1>3 DEF Complete

\* The host calls a gate, which begins with the project as it is.
LEMMA RunGateNext ==
  ASSUME GateInv, NEW g \in {"stop", "compact"}, RunGate(g), UNCHANGED <<repo, changes>>
  PROVE  GateInv'
<1> USE DEF GateInv
<1>0. Work' = Work /\ (\A c : Stands(c)' <=> Stands(c)) /\ changes' = changes
  BY WorkIsTheProjects
<1>1. gate.at = "closed" /\ gate'.at \in {"reenter", "status"} /\ gate'.work = {} /\ turn' = g
      /\ gate' = [at |-> gate'.at, work |-> gate'.work, block |-> gate'.block, since |-> changes]
  BY DEF RunGate, GateTypes, Closed
<1>2. GateTypes'
  BY <1>0, <1>1 DEF RunGate, GateTypes, Phases
<1>3. Remembered'
  BY <1>1, <1>2 DEF RunGate, Remembered
<1> QED
  BY <1>1, <1>2, <1>3 DEF Complete

\* The gate asks whether its host called it again for what it said.
LEMMA ReenterNext ==
  ASSUME GateInv, Reenter, UNCHANGED <<repo, changes>>
  PROVE  GateInv'
<1> USE DEF GateInv
<1>0. Work' = Work /\ (\A c : Stands(c)' <=> Stands(c)) /\ changes' = changes
  BY WorkIsTheProjects
<1>1. gate'.at \in {"closed", "status"}
  BY DEF Reenter, GateTypes, Closed
<1>2. GateTypes'
  BY <1>0 DEF Reenter, GateTypes, Phases, Closed
<1>3. Remembered'
  BY <1>1, <1>2 DEF Reenter, Remembered
<1> QED
  BY <1>1, <1>2, <1>3 DEF Complete

\* The gate looks for work in the tree, or fails to.
LEMMA StatusNext ==
  ASSUME GateInv, GateStatus, UNCHANGED <<repo, changes>>
  PROVE  GateInv'
<1> USE DEF GateInv
<1>0. Work' = Work /\ (\A c : Stands(c)' <=> Stands(c)) /\ changes' = changes
  BY WorkIsTheProjects
<1>1. /\ gate.at = "status" /\ turn \in {"stop", "compact"} /\ Concern' = Concern
      /\ Concern \in Concerns /\ session \in Sessions /\ raised' = raised /\ session' = session
      /\ sentinels' = sentinels /\ turn' = turn
  BY ConcernIsOne DEF GateStatus, GateTypes, Concern
<1>2. CASE /\ gate' = [gate EXCEPT !.at = "lint", !.work = IF Warned(Concern) THEN {} ELSE Work]
           /\ excused' = excused
  <2>1. gate'.at = "lint" /\ gate'.work = (IF Warned(Concern) THEN {} ELSE Work) /\ gate'.since = gate.since
        /\ gate' = [at |-> gate'.at, work |-> gate'.work, block |-> gate'.block, since |-> gate'.since]
    BY <1>2 DEF GateTypes
  <2>2. GateTypes'
    BY <1>0, <1>1, <2>1 DEF GateTypes, Phases
  <2>3. raised[session][Concern] \in {0, 1}
    BY <1>1 DEF GateTypes
  <2>4. Remembered'
    BY <1>1, <1>2, <2>1, <2>3 DEF Remembered, Warned
  <2>5. Warned(Concern) => Covered(Concern)
    BY <1>1 DEF Remembered, Warned, Covered
  <2>6. Covered(Concern)' <=> Covered(Concern)
    BY <1>1, <1>2 DEF Covered
  <2>7. Complete'
    BY <1>0, <1>1, <2>1, <2>5, <2>6 DEF Complete
  <2> QED
    BY <2>2, <2>4, <2>7
<1>3. CASE gate' = [gate EXCEPT !.at = "lint"] /\ excused' = excused \cup {<<Concern, session>>}
  <2>1. gate'.at = "lint" /\ gate'.work = {} /\ gate'.since = gate.since
        /\ gate' = [at |-> gate'.at, work |-> gate'.work, block |-> gate'.block, since |-> gate'.since]
    BY <1>1, <1>3 DEF GateTypes
  <2>2. GateTypes'
    BY <1>0, <1>1, <2>1 DEF GateTypes, Phases
  <2>3. Remembered'
    BY <1>1, <1>3, <2>1 DEF Remembered
  <2>4. Complete'
    BY <1>1, <1>3, <2>1 DEF Complete, Covered
  <2> QED
    BY <2>2, <2>3, <2>4
<1> QED
  BY <1>2, <1>3 DEF GateStatus

\* The gate raises work that was not raised in this session.
LEMMA LintNext ==
  ASSUME GateInv, GateLint, UNCHANGED <<repo, changes>>
  PROVE  GateInv'
<1> USE DEF GateInv
<1>0. Work' = Work /\ (\A c : Stands(c)' <=> Stands(c)) /\ changes' = changes
  BY WorkIsTheProjects
<1>1. /\ gate.at = "lint" /\ turn \in {"stop", "compact"} /\ Concern' = Concern
      /\ raised' = raised /\ session' = session /\ sentinels' = sentinels /\ turn' = turn
      /\ excused' = excused
  BY DEF GateLint, GateTypes, Concern
<1>2. /\ gate'.at = "budget" /\ gate'.since = gate.since
      /\ gate'.block = (IF Unhanded(gate.work, tree.next) THEN {Concern} ELSE {})
      /\ gate' = [at |-> gate'.at, work |-> gate'.work, block |-> gate'.block, since |-> gate'.since]
  BY DEF GateLint, GateTypes
<1>3. GateTypes'
  BY <1>0, <1>1, <1>2 DEF GateTypes, Phases
<1>4. Unhanded(gate.work, tree.next) => gate.work # {}
  BY DEF Unhanded
<1>5. Remembered'
  BY <1>1, <1>2, <1>4, ConcernIsOne DEF Remembered
<1>6. gate.work = Work => (Stands(Concern) <=> Unhanded(gate.work, tree.next))
  BY <1>1, ConcernIsOne DEF Stands
<1>7. (Covered(Concern)' <=> Covered(Concern)) /\ (Stands(Concern)' <=> Stands(Concern))
  BY <1>0, <1>1 DEF Covered
<1>8. gate'.since = changes' => Complete'
  BY <1>0, <1>1, <1>2, <1>6, <1>7 DEF Complete
<1> QED
  BY <1>3, <1>5, <1>8

\* The gate raises a budget that was not raised in this session.
LEMMA BudgetNext ==
  ASSUME GateInv, GateBudget, UNCHANGED <<repo, changes>>
  PROVE  GateInv'
<1> USE DEF GateInv
<1>0. Work' = Work /\ (\A c : Stands(c)' <=> Stands(c)) /\ changes' = changes
  BY WorkIsTheProjects
<1> DEFINE more == IF turn = "stop" /\ tree.next.long /\ ~BudgetWarned THEN {"budget"} ELSE {}
<1>1. /\ gate.at = "budget" /\ turn \in {"stop", "compact"} /\ Concern' = Concern /\ session \in Sessions
      /\ raised' = raised /\ session' = session /\ sentinels' = sentinels /\ turn' = turn
      /\ excused' = excused
  BY DEF GateBudget, GateTypes, Concern
<1>2. /\ gate'.at = "remember" /\ gate'.since = gate.since /\ gate'.block = gate.block \cup more
      /\ gate' = [at |-> gate'.at, work |-> gate'.work, block |-> gate'.block, since |-> gate'.since]
  BY DEF GateBudget, GateTypes
<1>3. GateTypes'
  BY <1>0, <1>1, <1>2 DEF GateTypes, Phases
<1>4. raised[session]["budget"] \in {0, 1} /\ "budget" \in Concerns
  BY <1>1 DEF GateTypes, Concerns
<1>5. BudgetWarned => Covered("budget")
  BY <1>1, <1>4 DEF Remembered, BudgetWarned, Warned, Covered
<1>6. "budget" \in more => turn = "stop" /\ raised[session]["budget"] = 0
  BY <1>1, <1>4 DEF Remembered, BudgetWarned, Warned
<1>7. turn = "stop" /\ Stands("budget") => Covered("budget") \/ "budget" \in more
  BY <1>5 DEF Stands
<1>8. more \subseteq {"budget"} /\ (turn = "stop" => "budget" \in ConcernsOf(turn))
  BY DEF ConcernsOf
<1> HIDE DEF more
<1>9. Remembered'
  BY <1>1, <1>2, <1>6, <1>8 DEF Remembered
<1>10. \A c \in Concerns : (Covered(c)' <=> Covered(c)) /\ (Stands(c)' <=> Stands(c))
  BY <1>0, <1>1 DEF Covered
<1>11. gate'.since = changes' => Complete'
  <2> SUFFICES ASSUME gate.since = changes, NEW c \in ConcernsOf(turn), Stands(c)
               PROVE  Covered(c) \/ c \in gate.block \cup more
    BY <1>0, <1>1, <1>2, <1>10, ConcernIsOne DEF Complete
  <2>1. CASE c = Concern
    BY <1>1, <2>1 DEF Complete
  <2>2. CASE c = "budget"
    BY <1>1, <1>7, <2>2, ConcernIsOne
  <2> QED
    BY <1>1, <2>1, <2>2, ConcernIsOne
<1> QED
  BY <1>3, <1>9, <1>11

\* The gate writes the sentinels, and drops a concern that has none.
LEMMA RememberNext ==
  ASSUME GateInv, GateRemember, UNCHANGED <<repo, changes>>
  PROVE  GateInv'
<1> USE DEF GateInv
<1>0. Work' = Work /\ (\A c : Stands(c)' <=> Stands(c)) /\ changes' = changes
  BY WorkIsTheProjects
<1>1. PICK written \in SUBSET gate.block :
        /\ sentinels' = sentinels \cup {<<c, session>> : c \in written}
        /\ gate' = [gate EXCEPT !.at = "say", !.block = Kept(gate.block, written)]
        /\ excused' = excused \cup {<<c, session>> : c \in gate.block \ written}
  BY DEF GateRemember
<1>2. /\ gate.at = "remember" /\ turn \in {"stop", "compact"} /\ session \in Sessions
      /\ raised' = raised /\ session' = session /\ turn' = turn
  BY DEF GateRemember, GateTypes
<1>3. /\ gate'.at = "say" /\ gate'.since = gate.since /\ gate'.block = written
      /\ gate' = [at |-> gate'.at, work |-> gate'.work, block |-> gate'.block, since |-> gate'.since]
  BY <1>1 DEF GateTypes, Kept
<1>4. GateTypes'
  BY <1>0, <1>2, <1>3 DEF GateTypes, Phases
<1>5. \A c \in Concerns, s \in Sessions : <<c, s>> \in sentinels' =>
        <<c, s>> \in sentinels \/ (s = session /\ c \in written)
  BY <1>1
<1>6. Remembered'
  <2>1. \A s \in Sessions, c \in Concerns : raised'[s][c] = 1 => <<c, s>> \in sentinels'
    BY <1>1, <1>2 DEF Remembered
  <2>2. \A s \in Sessions, c \in Concerns : <<c, s>> \in sentinels' =>
          raised'[s][c] = 1 \/ <<c, s>> \in excused' \/ (s = session' /\ c \in gate'.block)
    BY <1>1, <1>2, <1>3, <1>5 DEF Remembered
  <2>3. \A c \in gate'.block : <<c, session'>> \in sentinels'
    BY <1>1, <1>2, <1>3
  <2> QED
    BY <1>2, <1>3, <2>1, <2>2, <2>3 DEF Remembered
<1>7. \A c \in gate.block : c \in written \/ Covered(c)'
  BY <1>1, <1>2 DEF Covered
<1>8. \A c : Covered(c) => Covered(c)'
  BY <1>1, <1>2 DEF Covered
<1>9. gate'.since = changes' => Complete'
  BY <1>0, <1>2, <1>3, <1>7, <1>8 DEF Complete
<1> QED
  BY <1>4, <1>6, <1>9

\* The gate speaks of what has its sentinel, once.
LEMMA SpeakNext ==
  ASSUME GateInv, Speak, UNCHANGED <<repo, changes>>
  PROVE  GateInv'
<1> USE DEF GateInv
<1>0. Work' = Work /\ (\A c : Stands(c)' <=> Stands(c)) /\ changes' = changes
  BY WorkIsTheProjects
<1>1. /\ gate.at = "say" /\ turn \in {"stop", "compact"} /\ session \in Sessions
      /\ session' = session /\ sentinels' = sentinels /\ turn' = "working" /\ gate' = Closed
      /\ excused' = excused /\ gate.block \subseteq Concerns
  BY ConcernIsOne DEF Speak, GateTypes, Remembered
<1>2. raised \in [Sessions -> [Concerns -> {0, 1}]] /\ \A c \in gate.block : raised[session][c] = 0
  BY <1>1 DEF GateTypes, Remembered
<1>3. raised' = [raised EXCEPT ![session] =
        [c \in Concerns |-> IF c \in gate.block /\ raised[session][c] < 2
                             THEN raised[session][c] + 1 ELSE raised[session][c]]]
  BY DEF Speak
<1>4. raised' = [raised EXCEPT ![session] =
        [c \in Concerns |-> IF c \in gate.block THEN 1 ELSE raised[session][c]]]
  <2>1. \A c \in Concerns : raised[session][c] \in {0, 1} /\ (c \in gate.block => raised[session][c] = 0)
    BY <1>1, <1>2
  <2>2. \A c \in Concerns :
          (IF c \in gate.block /\ raised[session][c] < 2 THEN raised[session][c] + 1 ELSE raised[session][c])
            = (IF c \in gate.block THEN 1 ELSE raised[session][c])
    BY <2>1
  <2> QED
    BY <1>3, <2>2, Zenon
<1>5. GateTypes'
  BY <1>0, <1>1, <1>2, <1>4 DEF GateTypes, Closed, Phases
<1>6. Remembered'
  <2>1. \A s \in Sessions, c \in Concerns :
          raised'[s][c] = IF s = session /\ c \in gate.block THEN 1 ELSE raised[s][c]
    BY <1>1, <1>2, <1>4
  <2> QED
    BY <1>1, <2>1 DEF Remembered, Closed
<1> QED
  BY <1>1, <1>5, <1>6 DEF Complete, Closed

\* The gate lets the turn end.
LEMMA LetGoNext ==
  ASSUME GateInv, LetGo, UNCHANGED <<repo, changes>>
  PROVE  GateInv'
<1> USE DEF GateInv
<1>0. Work' = Work /\ (\A c : Stands(c)' <=> Stands(c)) /\ changes' = changes
  BY WorkIsTheProjects
<1>1. /\ gate.at = "say" /\ gate.block = {} /\ gate' = Closed /\ turn' \in {"idle", "working"}
      /\ session' = session /\ sentinels' = sentinels /\ excused' = excused /\ raised' = raised
  BY DEF LetGo
<1>2. GateTypes'
  BY <1>0, <1>1 DEF GateTypes, Closed, Phases
<1>3. Remembered'
  BY <1>1 DEF Remembered, Closed
<1> QED
  BY <1>1, <1>2, <1>3 DEF Complete, Closed

\* The gate is killed, which excuses what it had not told.
LEMMA DiesNext ==
  ASSUME GateInv, GateDies, UNCHANGED <<repo, changes>>
  PROVE  GateInv'
<1> USE DEF GateInv
<1>0. Work' = Work /\ (\A c : Stands(c)' <=> Stands(c)) /\ changes' = changes
  BY WorkIsTheProjects
<1>1. /\ gate.at # "closed" /\ gate' = Closed /\ turn' \in {"idle", "working"}
      /\ excused' = excused \cup {<<c, session>> : c \in ConcernsOf(turn)}
      /\ session' = session /\ sentinels' = sentinels /\ raised' = raised
  BY DEF GateDies
<1>2. GateTypes'
  BY <1>0, <1>1 DEF GateTypes, Closed, Phases
<1>3. gate.at = "say" => \A c \in gate.block : <<c, session>> \in excused'
  BY <1>1 DEF Remembered
<1>4. Remembered'
  BY <1>1, <1>3 DEF Remembered, Closed
<1> QED
  BY <1>1, <1>2, <1>4 DEF Complete, Closed

\* When the project changes, no gate that runs began with it as it is now.
LEMMA ProjectNext ==
  ASSUME GateInv, ProjectChanges, UNCHANGED gateVars
  PROVE  GateInv'
<1>1. changes' = changes + 1 /\ sentinels' = sentinels
  BY DEF ProjectChanges, EditFile, EditNext, Commit, Rewrite, Stamp, Changes
<1>2. GateTypes'
  BY <1>1 DEF GateInv, GateTypes, gateVars
<1>3. Remembered'
  BY <1>1 DEF GateInv, Remembered, Concern, gateVars
<1>4. gate'.since # changes'
  BY <1>1 DEF GateInv, GateTypes, gateVars
<1> QED
  BY <1>2, <1>3, <1>4 DEF GateInv

\* What is not a step of a gate or of the project leaves the invariant alone.
LEMMA GateStays ==
  ASSUME GateInv, UNCHANGED <<repo, sentinels, changes>>, UNCHANGED gateVars
  PROVE  GateInv'
<1>1. Work' = Work /\ (\A c : Stands(c)' <=> Stands(c))
  BY WorkIsTheProjects
<1>2. GateTypes'
  BY DEF GateInv, GateTypes, gateVars
<1>3. Remembered'
  BY DEF GateInv, Remembered, Concern, gateVars
<1>4. Complete => Complete'
  BY <1>1 DEF Complete, Covered, Concern, gateVars
<1> QED
  BY <1>2, <1>3, <1>4 DEF GateInv, gateVars

\* The invariant holds after every step.
LEMMA GateNext ==
  ASSUME GateInv, [Next]_vars
  PROVE  GateInv'
<1>1. CASE Project
  BY <1>1, ProjectNext DEF Project
<1>2. CASE Check
  BY <1>2, GateStays DEF Check, CheckStep
<1>3. CASE Gates
  BY <1>3, PromptNext, RunGateNext, ReenterNext, StatusNext, LintNext, BudgetNext, RememberNext, SpeakNext,
     LetGoNext, DiesNext DEF Gates, SessionSteps, GateSteps
<1>4. CASE Carry \/ CloseUnit \/ UNCHANGED vars
  BY <1>4, GateStays DEF Carry, CarrySteps, CloseUnit, freshnessVars, repo, vars
<1> QED
  BY <1>1, <1>2, <1>3, <1>4 DEF Next

\* Whatever the gates, the host and the project do, a session is told of a concern at
\* most once, and a gate that lets go of a session with a concern that stands told it.
THEOREM ToldOnce == Spec => EachConcernOnce
<1>1. GateInv /\ [Next]_vars => GateInv'
  BY GateNext
<1>2. ASSUME GateInv, GateInv'
      PROVE  /\ \A s \in Sessions, c \in Concerns : raised'[s][c] <= 1
             /\ gate.at = "say" /\ gate.block = {} /\ gate'.at = "closed" /\ gate.since = changes =>
                  \A c \in ConcernsOf(turn) :
                    Stands(c) => raised[session][c] = 1 \/ <<c, session>> \in excused
  <2>1. \A s \in Sessions, c \in Concerns : raised'[s][c] \in {0, 1}
    BY <1>2 DEF GateInv, GateTypes
  <2>2. \A s \in Sessions, c \in Concerns : raised'[s][c] <= 1
    BY <2>1
  <2>3. gate.at = "say" /\ gate.since = changes =>
          \A c \in ConcernsOf(turn) : Stands(c) => Covered(c) \/ c \in gate.block
    BY <1>2 DEF GateInv, Complete
  <2> QED
    BY <2>2, <2>3 DEF Covered
<1> QED
  BY GateInit, <1>1, <1>2, PTL DEF Spec, EachConcernOnce

-----------------------------------------------------------------------------
(* The verdicts of the checks                                              *)

\* The commits: numbered in the order they were made; HEAD holds each of its own once.
HistoryInv ==
  /\ \E n \in Nat : DOMAIN trees = 1..n
  /\ head \in Seq(DOMAIN trees) /\ head # <<>>
  /\ \A i, j \in DOMAIN head : head[i] = head[j] => i = j

\* A check is a record with these fields.
CheckShape(r) ==
  /\ DOMAIN r = {"at", "verified", "dirt", "verdict", "warn", "blind"}
  /\ r = [f \in DOMAIN r |-> r[f]]

CheckPhases == {"idle", "identity", "ancestry", "status", "exists", "log", "dirt", "context"}

\* What a check that is past `git status` may rely on: the files that were clean were,
\* in the working tree of that moment, those of a commit p of HEAD that is not before
\* the handoff's; and the unit's were those of the handoff's commit, once the log said so.
Seen(by, t, p) ==
  LET r == checks[by] IN
  /\ \E m \in 1..p : head[m] = r.verified
  /\ "context" \notin r.dirt => t.context = trees[head[p]].context
  /\ r.at \in {"exists", "log"} /\ "unit" \notin r.dirt => t.unit = trees[head[p]].unit
  /\ r.at = "dirt" /\ "unit" \notin r.dirt => t.unit = trees[r.verified].unit
  /\ r.at = "context" => t.unit = trees[r.verified].unit

\* What a FRESH verdict stands on.
Earned(by, t) ==
  LET r == checks[by] IN
  /\ t.unit = trees[r.verified].unit
  /\ r.warn = {} /\ ~r.blind => t.context = trees[r.verified].context

CheckInv(by) ==
  LET r == checks[by] IN
  /\ CheckShape(r) /\ r.at \in CheckPhases
  /\ r.at # "idle" => tree \in moments[by]
  /\ r.at = "status" => Ancestor(r.verified)
  /\ r.at \in {"exists", "log", "dirt", "context"} =>
       \E t \in moments[by], p \in DOMAIN head : Seen(by, t, p)
  /\ r.at = "idle" /\ r.verdict = "FRESH" =>
       r.verified \in DOMAIN trees /\ \E t \in moments[by] : Earned(by, t)

FreshInv ==
  /\ HistoryInv
  /\ checks = [by \in Checkers |-> checks[by]]
  /\ moments = [by \in Checkers |-> moments[by]]
  /\ \A by \in Checkers : CheckInv(by)

\* No check has run at the beginning.
LEMMA FreshInit == Init => FreshInv
<1> SUFFICES ASSUME Init PROVE FreshInv
  OBVIOUS
<1>1. HistoryInv
  <2>1. PICK s \in Starts : trees = s.trees /\ head = [n \in DOMAIN s.trees |-> n]
    BY DEF Init
  <2>2. Len(s.trees) \in Nat \ {0} /\ DOMAIN s.trees = 1..Len(s.trees)
    BY StartsAreProjects
  <2> QED
    BY <2>1, <2>2 DEF HistoryInv
<1>2. \A by \in Checkers : checks[by] = Idle
  BY DEF Init
<1>3. \A by \in Checkers : CheckInv(by)
  BY <1>2 DEF CheckInv, CheckShape, Idle, CheckPhases
<1> QED
  BY <1>1, <1>3 DEF FreshInv, Init

\* When `git log` shows no commit that touches a file after one of HEAD, every later
\* commit of HEAD holds that file as this one does.
LEMMA NothingSince ==
  ASSUME HistoryInv, NEW f, NEW m \in DOMAIN head, NEW p \in DOMAIN head, m <= p,
         ~ChangedSince(head[m], f)
  PROVE  trees[head[p]][f] = trees[head[m]][f]
<1> DEFINE T == {q \in m..Len(head) : trees[head[q]][f] # trees[head[m]][f]}
<1>1. DOMAIN head = 1..Len(head) /\ Len(head) \in Nat
  BY DEF HistoryInv
<1>2. T = {}
  <2> SUFFICES ASSUME T # {} PROVE FALSE
    OBVIOUS
  <2>1. T \in SUBSET Nat
    BY <1>1
  <2>2. PICK q \in T : \A y \in T : q <= y
    BY <2>1, LeastOf
  <2>3. q \in 2..Len(head) /\ q - 1 \in m..Len(head) /\ q - 1 \notin T /\ m < q
    BY <1>1, <2>2
  <2>4. trees[head[q]][f] # trees[head[q - 1]][f]
    BY <2>2, <2>3
  <2>5. \A k \in q..Len(head) : head[k] # head[m]
    <3> SUFFICES ASSUME NEW k \in q..Len(head) PROVE head[k] # head[m]
      OBVIOUS
    <3>1. k \in DOMAIN head /\ m # k
      BY <1>1, <2>3
    <3> QED
      BY <3>1 DEF HistoryInv
  <2> QED
    BY <2>3, <2>4, <2>5 DEF ChangedSince
<1> QED
  BY <1>1, <1>2

\* What one checker does leaves the others as they are.
LEMMA OthersCheck ==
  ASSUME FreshInv, NEW by \in Checkers, NEW r, checks' = [checks EXCEPT ![by] = r],
         UNCHANGED repo, NEW c \in Checkers, c # by, moments'[c] = moments[c]
  PROVE  CheckInv(c)'
<1>1. checks'[c] = checks[c]
  BY DEF FreshInv
<1>2. CheckInv(c)
  BY DEF FreshInv
<1> QED
  BY <1>1, <1>2 DEF CheckInv, Seen, Earned, Ancestor, repo

\* A step of a check within its shape.
LEMMA OneChecks ==
  ASSUME FreshInv, NEW by \in Checkers, NEW r, checks' = [checks EXCEPT ![by] = r],
         UNCHANGED repo, UNCHANGED moments, CheckInv(by)'
  PROVE  FreshInv'
<1>1. HistoryInv'
  BY DEF FreshInv, HistoryInv, repo
<1>2. \A c \in Checkers : c # by => CheckInv(c)'
  BY OthersCheck
<1>3. checks' = [c \in Checkers |-> checks'[c]]
  BY DEF FreshInv
<1> QED
  BY <1>1, <1>2, <1>3 DEF FreshInv

\* The steps of a check: the frontmatter, and then the Git calls in their order.
LEMMA BeginCheckNext ==
  ASSUME FreshInv, NEW by \in Checkers, BeginCheck(by), UNCHANGED repo
  PROVE  FreshInv'
<1>1. moments' = [moments EXCEPT ![by] = {tree}] /\ tree' = tree
  BY DEF BeginCheck, repo
<1>2. PICK r : /\ checks' = [checks EXCEPT ![by] = r]
              /\ CheckShape(r) /\ r.at \in {"idle", "identity"} /\ r.verdict # "FRESH"
  <2>1. CASE tree.next = Missing
    <3> DEFINE r == [Idle EXCEPT !.verdict = "none"]
    <3>1. checks' = [checks EXCEPT ![by] = r]
      BY <2>1 DEF BeginCheck
    <3>2. CheckShape(r) /\ r.at = "idle" /\ r.verdict = "none"
      BY DEF CheckShape, Idle
    <3> QED
      BY <3>1, <3>2
  <2>2. CASE checks' = [checks EXCEPT ![by] = [Idle EXCEPT !.verdict = "UNVERIFIED"]]
    <3> DEFINE r == [Idle EXCEPT !.verdict = "UNVERIFIED"]
    <3>1. CheckShape(r) /\ r.at = "idle" /\ r.verdict = "UNVERIFIED"
      BY DEF CheckShape, Idle
    <3> QED
      BY <2>2, <3>1
  <2>3. CASE checks' = [checks EXCEPT ![by] = [Idle EXCEPT !.at = "identity", !.verified = tree.next.verified]]
    <3> DEFINE r == [Idle EXCEPT !.at = "identity", !.verified = tree.next.verified]
    <3>1. CheckShape(r) /\ r.at = "identity" /\ r.verdict = "none"
      BY DEF CheckShape, Idle
    <3> QED
      BY <2>3, <3>1
  <2> QED
    BY <2>1, <2>2, <2>3 DEF BeginCheck
<1>3. checks'[by] = r /\ moments'[by] = {tree}
  BY <1>1, <1>2 DEF FreshInv
<1>4. CheckInv(by)'
  BY <1>1, <1>2, <1>3 DEF CheckInv, CheckPhases
<1>5. \A c \in Checkers : c # by => CheckInv(c)'
  BY <1>1, <1>2, OthersCheck DEF FreshInv
<1>6. HistoryInv'
  BY DEF FreshInv, HistoryInv, repo
<1> QED
  BY <1>1, <1>2, <1>4, <1>5, <1>6 DEF FreshInv

\* Identity, ancestry, a failed call: the verdict is not FRESH, or the check goes on.
LEMMA EarlyNext ==
  ASSUME FreshInv, NEW by \in Checkers, Identity(by) \/ Ancestry(by) \/ GitFails(by),
         UNCHANGED <<repo, moments>>
  PROVE  FreshInv'
<1> DEFINE old == checks[by]
<1>0. CheckInv(by) /\ tree' = tree
  BY DEF FreshInv, repo
<1>1. ASSUME NEW v \in {"UNVERIFIED", "STALE"}, Verdict(by, v)
      PROVE  FreshInv'
  <2> DEFINE r == [old EXCEPT !.at = "idle", !.verdict = v]
  <2>1. checks' = [checks EXCEPT ![by] = r]
    BY <1>1 DEF Verdict
  <2>2. checks'[by] = r
    BY <2>1 DEF FreshInv
  <2>3. CheckShape(r) /\ r.at = "idle" /\ r.verdict # "FRESH"
    BY <1>0 DEF CheckInv, CheckShape
  <2>4. CheckInv(by)'
    BY <2>2, <2>3 DEF CheckInv, CheckPhases
  <2> HIDE DEF r
  <2> QED
    BY <2>1, <2>4, OneChecks
<1>2. ASSUME NEW at \in {"ancestry", "status"}, Goes(by, at), old.at # "idle", at = "status" => Ancestor(old.verified)
      PROVE  FreshInv'
  <2> DEFINE r == [old EXCEPT !.at = at]
  <2>1. checks' = [checks EXCEPT ![by] = r]
    BY <1>2 DEF Goes
  <2>2. checks'[by] = r
    BY <2>1 DEF FreshInv
  <2>3. CheckShape(r) /\ r.at = at /\ r.verified = old.verified
    BY <1>0 DEF CheckInv, CheckShape
  <2>4. CheckInv(by)'
    BY <1>0, <1>2, <2>2, <2>3 DEF CheckInv, CheckPhases, Ancestor, repo
  <2> HIDE DEF r
  <2> QED
    BY <2>1, <2>4, OneChecks
<1> QED
  BY <1>1, <1>2 DEF Identity, Ancestry, GitFails

\* `git status`: the files it does not name are those of HEAD, now.
LEMMA StatusCheckNext ==
  ASSUME FreshInv, NEW by \in Checkers, Status(by), UNCHANGED <<repo, moments>>
  PROVE  FreshInv'
<1> DEFINE old == checks[by]  r == [old EXCEPT !.at = "exists", !.dirt = RealDirt(Dirt)]
<1>0. CheckInv(by) /\ tree' = tree /\ old.at = "status" /\ HistoryInv
  BY DEF FreshInv, repo, Status
<1>1. checks' = [checks EXCEPT ![by] = r]
  BY DEF Status
<1>2. checks'[by] = r
  BY <1>1 DEF FreshInv
<1>3. CheckShape(r) /\ r.at = "exists" /\ r.verified = old.verified /\ r.dirt = RealDirt(Dirt)
  BY <1>0 DEF CheckInv, CheckShape
<1> HIDE DEF r
<1>4. Len(head) \in DOMAIN head /\ \E m \in 1..Len(head) : head[m] = old.verified
  BY <1>0 DEF CheckInv, Ancestor, HistoryInv
<1>5. \A f \in {"unit", "context"} : f \notin r.dirt => tree[f] = trees[head[Len(head)]][f]
  BY <1>3 DEF RealDirt, Dirt, Files, HeadTree
<1>6. Seen(by, tree, Len(head))'
  BY <1>2, <1>3, <1>4, <1>5 DEF Seen, repo
<1>7. CheckInv(by)'
  BY <1>0, <1>2, <1>3, <1>4, <1>6 DEF CheckInv, CheckPhases, repo
<1> QED
  BY <1>1, <1>7, OneChecks

\* The files of the unit are there; and the dirt was not the unit's.
LEMMA GoesOnNext ==
  ASSUME FreshInv, NEW by \in Checkers, Exists(by) \/ Log(by) \/ Dirty(by), UNCHANGED <<repo, moments>>
  PROVE  FreshInv'
<1> DEFINE old == checks[by]
<1>0. CheckInv(by) /\ tree' = tree /\ HistoryInv /\ old.at \in {"exists", "log", "dirt"}
  BY DEF FreshInv, repo, Exists, Log, Dirty
<1>1. ASSUME NEW v \in {"WIP", "STALE"}, Verdict(by, v)
      PROVE  FreshInv'
  <2> DEFINE r == [old EXCEPT !.at = "idle", !.verdict = v]
  <2>1. checks' = [checks EXCEPT ![by] = r]
    BY <1>1 DEF Verdict
  <2>2. checks'[by] = r
    BY <2>1 DEF FreshInv
  <2>3. CheckShape(r) /\ r.at = "idle" /\ r.verdict # "FRESH"
    BY <1>0 DEF CheckInv, CheckShape
  <2>4. CheckInv(by)'
    BY <2>2, <2>3 DEF CheckInv, CheckPhases
  <2> HIDE DEF r
  <2> QED
    BY <2>1, <2>4, OneChecks
<1>2. ASSUME NEW at \in {"log", "dirt", "context"}, Goes(by, at),
             \/ old.at = "exists" /\ at = "log"
             \/ old.at = "log" /\ at = "dirt" /\ ~ChangedSince(old.verified, "unit")
             \/ old.at = "dirt" /\ at = "context" /\ "unit" \notin old.dirt
      PROVE  FreshInv'
  <2> DEFINE r == [old EXCEPT !.at = at]
  <2>1. checks' = [checks EXCEPT ![by] = r]
    BY <1>2 DEF Goes
  <2>2. checks'[by] = r
    BY <2>1 DEF FreshInv
  <2>3. CheckShape(r) /\ r.at = at /\ r.verified = old.verified /\ r.dirt = old.dirt
    BY <1>0 DEF CheckInv, CheckShape
  <2> HIDE DEF r
  <2>4. PICK t \in moments[by], p \in DOMAIN head : Seen(by, t, p)
    BY <1>0 DEF CheckInv
  <2>5. PICK m \in 1..p : head[m] = old.verified
    BY <2>4 DEF Seen
  <2>6. m \in DOMAIN head /\ m <= p
    BY <1>0, <2>5 DEF HistoryInv
  <2>7. old.at = "log" => trees[head[p]].unit = trees[old.verified].unit
    BY <1>0, <1>2, <2>5, <2>6, NothingSince
  <2>8. Seen(by, t, p)'
    BY <1>2, <2>2, <2>3, <2>4, <2>5, <2>7 DEF Seen, repo
  <2>9. CheckInv(by)'
    BY <1>0, <1>2, <2>2, <2>3, <2>4, <2>8 DEF CheckInv, CheckPhases, repo
  <2> QED
    BY <2>1, <2>9, OneChecks
<1> QED
  BY <1>1, <1>2 DEF Exists, Log, Dirty

\* The last call, and FRESH.
LEMMA ContextNext ==
  ASSUME FreshInv, NEW by \in Checkers, Context(by), UNCHANGED <<repo, moments>>
  PROVE  FreshInv'
<1> DEFINE old == checks[by]
<1>0. CheckInv(by) /\ tree' = tree /\ HistoryInv /\ old.at = "context"
  BY DEF FreshInv, repo, Context
<1>1. PICK fails \in BOOLEAN :
        LET dirt == IF old.dirt # {} THEN {"dirt"} ELSE {}
            context == IF fails THEN by = "health" ELSE ChangedSince(old.verified, "context")
        IN checks' = [checks EXCEPT ![by].at = "idle", ![by].verdict = "FRESH",
             ![by].warn = dirt \cup (IF context THEN {"context"} ELSE {}),
             ![by].blind = fails /\ by = "inject"]
  BY DEF Context
<1> DEFINE warn == (IF old.dirt # {} THEN {"dirt"} ELSE {})
             \cup (IF IF fails THEN by = "health" ELSE ChangedSince(old.verified, "context")
                   THEN {"context"} ELSE {})
           blind == fails /\ by = "inject"
           r == [old EXCEPT !.at = "idle", !.verdict = "FRESH", !.warn = warn, !.blind = blind]
<1>2. checks' = [checks EXCEPT ![by] = r]
  BY <1>1 DEF FreshInv
<1>3. checks'[by] = r
  BY <1>2 DEF FreshInv
<1>4. CheckShape(r) /\ r.at = "idle" /\ r.verified = old.verified /\ r.warn = warn /\ (r.blind <=> blind)
  BY <1>0 DEF CheckInv, CheckShape
<1>5. warn = {} /\ ~blind => old.dirt = {} /\ ~ChangedSince(old.verified, "context")
  BY FreshnessConstants
<1> HIDE DEF r, warn, blind
<1>6. PICK t \in moments[by], p \in DOMAIN head : Seen(by, t, p)
  BY <1>0 DEF CheckInv
<1>7. PICK m \in 1..p : head[m] = old.verified
  BY <1>6 DEF Seen
<1>8. m \in DOMAIN head /\ m <= p /\ old.verified \in DOMAIN trees
  BY <1>0, <1>7 DEF HistoryInv
<1>9. ~ChangedSince(old.verified, "context") => trees[head[p]].context = trees[old.verified].context
  BY <1>0, <1>7, <1>8, NothingSince
<1>10. Earned(by, t)'
  BY <1>0, <1>3, <1>4, <1>5, <1>6, <1>9 DEF Earned, Seen, repo
<1>11. CheckInv(by)'
  BY <1>3, <1>4, <1>6, <1>8, <1>10 DEF CheckInv, CheckPhases, repo
<1> QED
  BY <1>2, <1>11, OneChecks

\* What happens to the history does not take from a check what it saw: HEAD loses
\* commits only while no check runs, and a commit keeps what it holds.
LEMMA HistoryMoves ==
  ASSUME FreshInv, HistoryInv', UNCHANGED checks,
         \A c \in DOMAIN trees : c \in DOMAIN trees' /\ trees'[c] = trees[c],
         Running # {} => \A n \in DOMAIN head : n \in DOMAIN head' /\ head'[n] = head[n],
         moments' = [by \in Checkers |-> IF by \in Running THEN moments[by] \cup {tree'} ELSE moments[by]]
  PROVE  FreshInv'
<1>1. ASSUME NEW by \in Checkers PROVE CheckInv(by)'
  <2> DEFINE r == checks[by]
  <2>0. CheckInv(by) /\ checks'[by] = r /\ HistoryInv
    BY DEF FreshInv
  <2>1. CASE r.at = "idle"
    <3>1. moments'[by] = moments[by]
      BY <2>1 DEF Running
    <3>2. r.verdict = "FRESH" => r.verified \in DOMAIN trees' /\ \E t \in moments[by] : Earned(by, t)'
      BY <2>0, <2>1 DEF CheckInv, Earned
    <3> QED
      BY <2>0, <2>1, <3>1, <3>2 DEF CheckInv, CheckPhases
  <2>2. CASE r.at # "idle"
    <3>1. by \in Running /\ moments'[by] = moments[by] \cup {tree'}
      BY <2>2 DEF Running
    <3>2. \A n \in DOMAIN head : n \in DOMAIN head' /\ head'[n] = head[n] /\ head[n] \in DOMAIN trees
      BY <2>0, <3>1 DEF HistoryInv
    <3>3. DOMAIN head = 1..Len(head) /\ Len(head) \in Nat
      BY <2>0 DEF HistoryInv
    <3>4. r.at = "status" => Ancestor(r.verified)'
      BY <2>0, <3>2 DEF CheckInv, Ancestor
    <3>5. ASSUME NEW t \in moments[by], NEW p \in DOMAIN head, Seen(by, t, p)
          PROVE  Seen(by, t, p)'
      <4>1. PICK m \in 1..p : head[m] = r.verified
        BY <3>5 DEF Seen
      <4>2. m \in DOMAIN head /\ head'[m] = r.verified /\ r.verified \in DOMAIN trees
        BY <3>2, <3>3, <4>1
      <4>3. trees'[head'[p]] = trees[head[p]] /\ trees'[r.verified] = trees[r.verified]
        BY <3>2, <4>2
      <4> QED
        BY <2>0, <3>5, <4>1, <4>2, <4>3 DEF Seen
    <3> QED
      BY <2>0, <2>2, <3>1, <3>2, <3>4, <3>5 DEF CheckInv
  <2> QED
    BY <2>1, <2>2
<1> QED
  BY <1>1 DEF FreshInv

\* Edits, stamps, commits and resets.
LEMMA ChangesNext ==
  ASSUME FreshInv, ProjectChanges
  PROVE  FreshInv'
<1>0. HistoryInv /\ UNCHANGED checks
  BY DEF FreshInv, ProjectChanges
<1>1. moments' = [by \in Checkers |-> IF by \in Running THEN moments[by] \cup {tree'} ELSE moments[by]]
  BY DEF ProjectChanges, EditFile, EditNext, Commit, Rewrite, Stamp, Changes
<1>2. CASE UNCHANGED <<head, trees>>
  <2>1. HistoryInv'
    BY <1>0, <1>2 DEF HistoryInv
  <2> QED
    BY <1>0, <1>1, <1>2, <2>1, HistoryMoves
<1>3. CASE Commit
  <2> DEFINE c == Cardinality(DOMAIN trees) + 1
  <2>1. PICK n \in Nat : DOMAIN trees = 1..n
    BY <1>0 DEF HistoryInv
  <2>2. c = n + 1
    <3>1. Cardinality(1..n) = IF 1 > n THEN 0 ELSE n - 1 + 1
      BY FS_Interval
    <3> QED
      BY <2>1, <3>1
  <2>3. /\ DOMAIN trees' = 1..n + 1 /\ head' = Append(head, n + 1)
        /\ \A k \in DOMAIN trees : trees'[k] = trees[k]
    BY <1>3, <2>1, <2>2 DEF Commit
  <2>4. /\ head' \in Seq(DOMAIN trees') /\ head' # <<>> /\ DOMAIN head = 1..Len(head)
        /\ DOMAIN head' = 1..Len(head) + 1 /\ Len(head) \in Nat /\ head'[Len(head) + 1] = n + 1
        /\ \A k \in DOMAIN head : head'[k] = head[k] /\ head[k] \in 1..n
    BY <1>0, <2>1, <2>3 DEF HistoryInv
  <2>5. \A i, j \in DOMAIN head' : head'[i] = head'[j] => i = j
    <3> SUFFICES ASSUME NEW i \in DOMAIN head', NEW j \in DOMAIN head', head'[i] = head'[j]
                 PROVE  i = j
      OBVIOUS
    <3>1. CASE i \in DOMAIN head /\ j \in DOMAIN head
      BY <1>0, <2>4, <3>1 DEF HistoryInv
    <3>2. CASE i \notin DOMAIN head \/ j \notin DOMAIN head
      BY <2>1, <2>4, <3>2
    <3> QED
      BY <3>1, <3>2
  <2>6. HistoryInv'
    BY <2>1, <2>3, <2>4, <2>5 DEF HistoryInv
  <2> QED
    BY <1>0, <1>1, <2>1, <2>3, <2>4, <2>6, HistoryMoves
<1>4. CASE Rewrite
  <2>1. /\ Running = {} /\ Len(head) > 1 /\ head' = SubSeq(head, 1, Len(head) - 1) /\ trees' = trees
    BY <1>4 DEF Rewrite
  <2>2. /\ head' \in Seq(DOMAIN trees) /\ head' # <<>>
        /\ \A k \in DOMAIN head' : k \in DOMAIN head /\ head'[k] = head[k]
    <3>1. /\ head \in Seq(DOMAIN trees) /\ Len(head) \in Nat /\ DOMAIN head = 1..Len(head)
          /\ \A k \in 1..Len(head) - 1 : head[k] \in DOMAIN trees
      BY <1>0 DEF HistoryInv
    <3>2. /\ head' \in Seq(DOMAIN trees) /\ Len(head') = Len(head) - 1
          /\ \A k \in 1..Len(head) - 1 : head'[k] = head[k]
      BY <2>1, <3>1, SubSeqProperties
    <3>3. DOMAIN head' = 1..Len(head) - 1 /\ head' # <<>>
      <4>1. DOMAIN head' = 1..Len(head')
        BY <3>2, LenProperties
      <4>2. 1 \in DOMAIN head'
        BY <2>1, <3>1, <3>2, <4>1
      <4> QED
        BY <3>2, <4>1, <4>2
    <3> QED
      BY <2>1, <3>1, <3>2, <3>3
  <2>3. HistoryInv'
    BY <1>0, <2>1, <2>2 DEF HistoryInv
  <2> QED
    BY <1>0, <1>1, <2>1, <2>3, HistoryMoves
<1> QED
  BY <1>2, <1>3, <1>4 DEF ProjectChanges, EditFile, EditNext, Stamp

\* The invariant of the checks holds after every step.
LEMMA FreshNext ==
  ASSUME FreshInv, [Next]_vars
  PROVE  FreshInv'
<1>1. CASE ProjectChanges
  BY <1>1, ChangesNext
<1>2. ASSUME NEW by \in Checkers, CheckStep(by)
      PROVE  FreshInv'
  <2>1. UNCHANGED repo
    BY <1>2 DEF CheckStep
  <2>2. BeginCheck(by) => FreshInv'
    BY <2>1, BeginCheckNext
  <2>3. UNCHANGED moments /\ Context(by) => FreshInv'
    BY <2>1, ContextNext
  <2>4. UNCHANGED moments /\ Status(by) => FreshInv'
    BY <2>1, StatusCheckNext
  <2>5. UNCHANGED moments /\ (Identity(by) \/ Ancestry(by) \/ GitFails(by)) => FreshInv'
    BY <2>1, EarlyNext
  <2>6. UNCHANGED moments /\ (Exists(by) \/ Log(by) \/ Dirty(by)) => FreshInv'
    BY <2>1, GoesOnNext
  <2> QED
    BY <1>2, <2>2, <2>3, <2>4, <2>5, <2>6 DEF CheckStep
<1>3. CASE UNCHANGED <<repo, checks, moments>>
  <2>1. \A by \in Checkers : CheckInv(by)'
    BY <1>3 DEF FreshInv, CheckInv, Seen, Earned, Ancestor, repo
  <2> QED
    BY <1>3, <2>1 DEF FreshInv, HistoryInv, repo
<1>4. Gates \/ Carry \/ CloseUnit \/ UNCHANGED vars => UNCHANGED <<repo, checks, moments>>
  BY DEF Gates, SessionSteps, Carry, CarrySteps, CloseUnit, freshnessVars, vars, repo
<1> QED
  BY <1>1, <1>2, <1>3, <1>4 DEF Next, Project, Check

\* A FRESH verdict is earned at some moment of its check, whatever people do between
\* the Git calls of freshness-inject.sh and project-health.py.
THEOREM FreshStands == Spec => []FreshIsEarned
<1>1. FreshInv => FreshIsEarned
  BY DEF FreshInv, CheckInv, Earned, FreshIsEarned
<1>2. FreshInv /\ [Next]_vars => FreshInv'
  BY FreshNext
<1> QED
  BY FreshInit, <1>1, <1>2, PTL DEF Spec

-----------------------------------------------------------------------------
(* The registers of closed units                                           *)

Sections == [heading : Headings, body : Nat]
Closeouts == [at : {"idle", "stage", "rename"}, heading : Headings \cup {"none"}, body : Nat, n : 0..3]

\* Headings of a section are found once, those of the index have a digest and those
\* of the digests a section, and a body without rules has a digest without rules.
Nested(archive, digests, index) ==
  /\ HeadingsOf(index) \subseteq HeadingsOf(digests)
  /\ HeadingsOf(digests) \subseteq HeadingsOf(archive)
  /\ \A i, j \in DOMAIN archive : archive[i].heading = archive[j].heading => i = j
  /\ \A d \in DOMAIN digests, n \in DOMAIN archive :
       digests[d].heading = archive[n].heading /\ archive[n].body = 0 => digests[d].body = 0

\* A run that renames: what it staged adds its line to each file it has not replaced
\* yet, none of which has the heading; the archive it replaced ends with its section.
Renaming ==
  LET h == closeout.heading  n == closeout.n IN
  /\ n = 1 => /\ staged["archive"] = Append(registers["archive"], Line(h, closeout.body))
              /\ h \notin HeadingsOf(registers["archive"])
  /\ n \in {1, 2} => /\ h \notin HeadingsOf(registers["digests"])
                     /\ \E x \in Nat : /\ staged["digests"] = Append(registers["digests"], Line(h, x))
                                       /\ closeout.body = 0 => x = 0
  /\ n = 2 => \E k \in DOMAIN registers["archive"] : registers["archive"][k] = Line(h, closeout.body)
  /\ n = 3 => h \in HeadingsOf(registers["digests"])
  /\ staged["index"] = Append(registers["index"], Line(h, 0))

CloseoutInv ==
  /\ registers \in [Registers -> Seq(Sections)]
  /\ staged \in [Registers -> Seq(Sections)]
  /\ closeout \in Closeouts
  /\ closeout.at # "idle" => closeout.heading \in Headings /\ closeout.n \in 1..3
  /\ Nested(registers["archive"], registers["digests"], registers["index"])
  /\ closeout.at = "stage" =>
       /\ ~Registered(closeout.heading)
       /\ \A m \in 1..closeout.n - 1 : staged[Order[m]] = Planned(Order[m])
  /\ closeout.at = "rename" => Renaming

\* How far a run is changes nothing else of it.
LEMMA RunGoesOn ==
  ASSUME closeout \in Closeouts, NEW m \in 1..3, NEW at \in {"stage", "rename"},
         \/ closeout' = [closeout EXCEPT !.n = m] /\ at = closeout.at
         \/ closeout' = [closeout EXCEPT !.at = at, !.n = m]
  PROVE  /\ closeout' \in Closeouts /\ closeout'.heading = closeout.heading
         /\ closeout'.body = closeout.body /\ closeout'.n = m /\ closeout'.at = at
<1>1. m \in 0..3
  OBVIOUS
<1> QED
  BY <1>1 DEF Closeouts

\* What adding a line does to a file.
LEMMA Appending ==
  ASSUME NEW s \in Seq(Sections), NEW h \in Headings, NEW b \in Nat
  PROVE  LET t == Append(s, Line(h, b)) IN
         /\ t \in Seq(Sections) /\ Len(s) \in Nat /\ DOMAIN s = 1..Len(s)
         /\ DOMAIN t = 1..Len(s) + 1 /\ Len(t) = Len(s) + 1
         /\ t[Len(s) + 1] = Line(h, b) /\ Line(h, b).heading = h /\ Line(h, b).body = b
         /\ \A k \in DOMAIN s : t[k] = s[k]
         /\ HeadingsOf(t) = HeadingsOf(s) \cup {h}
         /\ SubSeq(t, 1, Len(s)) = s
<1> DEFINE l == Line(h, b)  t == Append(s, l)
<1>1. l \in Sections /\ l.heading = h /\ l.body = b
  BY DEF Line, Sections
<1> HIDE DEF l
<1>2. /\ t \in Seq(Sections) /\ Len(s) \in Nat /\ DOMAIN s = 1..Len(s)
      /\ DOMAIN t = 1..Len(s) + 1 /\ Len(t) = Len(s) + 1
      /\ t[Len(s) + 1] = l
      /\ \A k \in DOMAIN s : t[k] = s[k]
  BY <1>1, AppendProperties, LenProperties
<1> HIDE DEF t
<1>3. HeadingsOf(t) = HeadingsOf(s) \cup {h}
  BY <1>1, <1>2 DEF HeadingsOf
<1>4. SubSeq(t, 1, Len(s)) = s
  <2>1. \A k \in 1..Len(s) : t[k] \in Sections
    BY <1>2, ElementOfSeq
  <2>2. /\ SubSeq(t, 1, Len(s)) \in Seq(Sections)
        /\ Len(SubSeq(t, 1, Len(s))) = IF 1 <= Len(s) THEN Len(s) - 1 + 1 ELSE 0
        /\ \A k \in 1..Len(s) - 1 + 1 : SubSeq(t, 1, Len(s))[k] = t[1 + k - 1]
    BY <1>2, <2>1, SubSeqProperties
  <2>3. Len(SubSeq(t, 1, Len(s))) = Len(s)
    BY <1>2, <2>2
  <2>4. \A k \in 1..Len(s) : SubSeq(t, 1, Len(s))[k] = s[k]
    BY <1>2, <2>2
  <2> QED
    BY <2>2, <2>3, <2>4, SeqEqual
<1> QED
  BY <1>1, <1>2, <1>3, <1>4 DEF t, l

\* Nothing is registered at the beginning.
LEMMA CloseoutInit == Init => CloseoutInv
<1> SUFFICES ASSUME Init PROVE CloseoutInv
  OBVIOUS
<1>1. registers = Nowhere /\ staged = Nowhere /\ closeout = NoCloseout
  BY DEF Init
<1>2. Nowhere \in [Registers -> Seq(Sections)] /\ \A r \in Registers : HeadingsOf(Nowhere[r]) = {} /\ DOMAIN Nowhere[r] = {}
  BY DEF Nowhere, HeadingsOf
<1> QED
  BY <1>1, <1>2 DEF CloseoutInv, NoCloseout, Closeouts, Nested, Registers

\* The next register of a run, and how far it is.
LEMMA Orders ==
  ASSUME NEW n \in 1..3
  PROVE  /\ Len(Order) = 3 /\ Order[n] \in Registers
         /\ Order[1] = "archive" /\ Order[2] = "digests" /\ Order[3] = "index"
BY DEF Order, Registers

\* What a run plans is a file of sections; and a plan is made of what is registered.
LEMMA PlannedType ==
  ASSUME CloseoutInv, closeout.at = "stage"
  PROVE  /\ Planned("archive") = Append(registers["archive"], Line(closeout.heading, closeout.body))
         /\ \E x \in Nat : /\ Planned("digests") = Append(registers["digests"], Line(closeout.heading, x))
                           /\ closeout.body = 0 => x = 0
         /\ Planned("index") = Append(registers["index"], Line(closeout.heading, 0))
         /\ \A r \in Registers : Planned(r) \in Seq(Sections)
<1> DEFINE archive == Append(registers["archive"], Line(closeout.heading, closeout.body))
           x == CutBody(archive, Len(archive))
<1>1. closeout.heading \in Headings /\ closeout.body \in Nat /\ \A r \in Registers : registers[r] \in Seq(Sections)
  BY DEF CloseoutInv, Closeouts
<1>2. archive \in Seq(Sections) /\ archive[Len(archive)].body = closeout.body
  BY <1>1, Appending DEF Registers
<1>3. x \in Nat /\ (closeout.body = 0 => x = 0)
  BY <1>1, <1>2 DEF CutBody
<1>4. Planned("digests") = Append(registers["digests"], Line(closeout.heading, x))
  BY DEF Planned
<1>5. Planned("archive") = archive
  BY DEF Planned
<1>6. Planned("index") = Append(registers["index"], Line(closeout.heading, 0))
  BY DEF Planned
<1> HIDE DEF archive, x
<1>7. Planned("archive") \in Seq(Sections)
  BY <1>2, <1>5
<1>8. Planned("digests") \in Seq(Sections)
  <2>1. registers["digests"] \in Seq(Sections)
    BY <1>1 DEF Registers
  <2>2. Append(registers["digests"], Line(closeout.heading, x)) \in Seq(Sections)
    BY <1>1, <1>3, <2>1, Appending
  <2> QED
    BY <1>4, <2>2
<1>9. Planned("index") \in Seq(Sections)
  <2>1. registers["index"] \in Seq(Sections)
    BY <1>1 DEF Registers
  <2>2. Append(registers["index"], Line(closeout.heading, 0)) \in Seq(Sections)
    BY <1>1, <2>1, Appending
  <2> QED
    BY <1>6, <2>2
<1> QED
  BY <1>3, <1>4, <1>5, <1>6, <1>7, <1>8, <1>9 DEF archive, Registers

\* A section that is new can be added.
LEMMA MoreSections ==
  ASSUME NEW a \in Seq(Sections), NEW d, NEW x, Nested(a, d, x), NEW h \in Headings, NEW b \in Nat,
         h \notin HeadingsOf(a), h \notin HeadingsOf(d)
  PROVE  Nested(Append(a, Line(h, b)), d, x)
<1> DEFINE t == Append(a, Line(h, b))
<1>1. /\ DOMAIN a = 1..Len(a) /\ Len(a) \in Nat /\ DOMAIN t = 1..Len(a) + 1
      /\ t[Len(a) + 1].heading = h /\ \A k \in DOMAIN a : t[k] = a[k]
      /\ HeadingsOf(t) = HeadingsOf(a) \cup {h}
  BY Appending
<1> HIDE DEF t
<1>2. \A k \in DOMAIN t : k \in DOMAIN a \/ k = Len(a) + 1
  BY <1>1
<1>3. \A i, j \in DOMAIN t : t[i].heading = t[j].heading => i = j
  BY <1>1, <1>2 DEF HeadingsOf, Nested
<1>4. \A e \in DOMAIN d, n \in DOMAIN t :
        d[e].heading = t[n].heading /\ t[n].body = 0 => d[e].body = 0
  BY <1>1, <1>2 DEF HeadingsOf, Nested
<1> QED
  BY <1>1, <1>3, <1>4 DEF Nested, t

\* The digest of a section that has none can be added.
LEMMA MoreDigests ==
  ASSUME NEW a, NEW d \in Seq(Sections), NEW x, Nested(a, d, x), NEW h \in Headings, NEW e \in Nat,
         h \notin HeadingsOf(d), NEW k \in DOMAIN a, a[k].heading = h, a[k].body = 0 => e = 0
  PROVE  Nested(a, Append(d, Line(h, e)), x)
<1> DEFINE t == Append(d, Line(h, e))
<1>1. /\ DOMAIN d = 1..Len(d) /\ Len(d) \in Nat /\ DOMAIN t = 1..Len(d) + 1
      /\ t[Len(d) + 1].body = e /\ t[Len(d) + 1].heading = h
      /\ \A n \in DOMAIN d : t[n] = d[n]
      /\ HeadingsOf(t) = HeadingsOf(d) \cup {h}
  BY Appending
<1> HIDE DEF t
<1>2. h \in HeadingsOf(a)
  BY DEF HeadingsOf
<1>3. \A n \in DOMAIN t : n \in DOMAIN d \/ n = Len(d) + 1
  BY <1>1
<1>4. \A n \in DOMAIN a : a[n].heading = h => n = k
  BY DEF Nested
<1>5. \A m \in DOMAIN t, n \in DOMAIN a :
        t[m].heading = a[n].heading /\ a[n].body = 0 => t[m].body = 0
  BY <1>1, <1>3, <1>4 DEF Nested
<1> QED
  BY <1>1, <1>2, <1>5 DEF Nested, t

\* The heading of a section that has its digest can be added.
LEMMA MoreHeadings ==
  ASSUME NEW a, NEW d, NEW x \in Seq(Sections), Nested(a, d, x), NEW h \in Headings, NEW b \in Nat,
         h \in HeadingsOf(d)
  PROVE  Nested(a, d, Append(x, Line(h, b)))
<1>1. HeadingsOf(Append(x, Line(h, b))) = HeadingsOf(x) \cup {h}
  BY Appending
<1> QED
  BY <1>1 DEF Nested

\* A run that stages: its last write leaves all that it planned.
LEMMA StageNext ==
  ASSUME CloseoutInv, StageOne
  PROVE  CloseoutInv'
<1> DEFINE n == closeout.n  h == closeout.heading
<1>1. /\ closeout.at = "stage" /\ n \in 1..3 /\ h \in Headings /\ closeout.body \in Nat
      /\ registers' = registers /\ registers \in [Registers -> Seq(Sections)]
      /\ staged' = [staged EXCEPT ![Order[n]] = Planned(Order[n])]
      /\ closeout \in Closeouts
  BY DEF CloseoutInv, StageOne, Closeouts
<1>2. staged' \in [Registers -> Seq(Sections)]
  BY <1>1, Orders, PlannedType DEF CloseoutInv
<1>3. \A m \in 1..n : staged'[Order[m]] = Planned(Order[m])
  <2> SUFFICES ASSUME NEW m \in 1..n PROVE staged'[Order[m]] = Planned(Order[m])
    OBVIOUS
  <2>1. m \in 1..3 /\ Order[m] \in Registers /\ Order[n] \in Registers
    BY <1>1, Orders
  <2>2. m = n \/ m \in 1..n - 1
    BY <1>1
  <2> HIDE DEF n
  <2> QED
    BY <1>1, <2>1, <2>2 DEF CloseoutInv, n
<1>4. CASE n # 3
  <2>1. closeout' = [closeout EXCEPT !.n = n + 1]
    BY <1>1, <1>4, Orders DEF StageOne
  <2>2. /\ closeout'.at = "stage" /\ closeout'.heading = h /\ closeout'.body = closeout.body
        /\ closeout'.n = n + 1 /\ n + 1 \in 1..3
        /\ closeout' \in Closeouts
    <3>1. n + 1 \in 1..3
      BY <1>1, <1>4
    <3>2. /\ closeout' \in Closeouts /\ closeout'.heading = closeout.heading
          /\ closeout'.body = closeout.body /\ closeout'.n = n + 1
          /\ closeout'.at = "stage"
      BY <1>1, <2>1, <3>1, RunGoesOn, Zenon
    <3> QED
      BY <3>1, <3>2
  <2>3. \A r \in Registers : Planned(r)' = Planned(r)
    BY <1>1, <2>2 DEF Planned, Registers
  <2>4. \A m \in 1..closeout'.n - 1 : staged'[Order[m]] = Planned(Order[m])'
    <3> SUFFICES ASSUME NEW m \in 1..closeout'.n - 1 PROVE staged'[Order[m]] = Planned(Order[m])'
      OBVIOUS
    <3>1. m \in 1..n /\ m \in 1..3
      BY <1>1, <2>2
    <3>2. Order[m] \in Registers
      BY <3>1, Orders
    <3> QED
      BY <1>3, <2>3, <3>1, <3>2
  <2>5. ~Registered(h)' /\ h' = h
    BY <1>1, <2>2 DEF CloseoutInv, Registered
  <2> QED
    BY <1>1, <1>2, <2>2, <2>4, <2>5 DEF CloseoutInv
<1>5. CASE n = 3
  <2>1. closeout' = [closeout EXCEPT !.at = "rename", !.n = 1]
    BY <1>1, <1>5, Orders DEF StageOne
  <2>2. /\ closeout'.at = "rename" /\ closeout'.heading = h /\ closeout'.body = closeout.body
        /\ closeout'.n = 1
        /\ closeout' \in Closeouts
    <3>1. 1 \in 1..3
      OBVIOUS
    <3> QED
      BY <1>1, <2>1, <3>1, RunGoesOn, Zenon
  <2>3. /\ staged'["archive"] = Planned("archive") /\ staged'["digests"] = Planned("digests")
        /\ staged'["index"] = Planned("index")
    BY <1>3, <1>5, Orders
  <2>4. h \notin HeadingsOf(registers["archive"]) /\ h \notin HeadingsOf(registers["digests"])
    BY <1>1 DEF CloseoutInv, Registered, Registers
  <2>5. PICK e \in Nat : /\ staged'["digests"] = Append(registers["digests"], Line(h, e))
                         /\ closeout.body = 0 => e = 0
    BY <1>1, <2>3, PlannedType
  <2>6. /\ staged'["archive"] = Append(registers["archive"], Line(h, closeout.body))
        /\ staged'["index"] = Append(registers["index"], Line(h, 0))
    BY <1>1, <2>3, PlannedType
  <2>7. Renaming'
    <3> DEFINE b == closeout.body  a == registers["archive"]  d == registers["digests"]
               x == registers["index"]
    <3>1. registers'["archive"] = a /\ registers'["digests"] = d /\ registers'["index"] = x
      BY <1>1
    <3>2. /\ staged'["archive"] = Append(a, Line(h, b)) /\ staged'["digests"] = Append(d, Line(h, e))
          /\ staged'["index"] = Append(x, Line(h, 0)) /\ (b = 0 => e = 0)
          /\ h \notin HeadingsOf(a) /\ h \notin HeadingsOf(d)
      BY <2>4, <2>5, <2>6
    <3>3. closeout'.heading = h /\ closeout'.body = b /\ closeout'.n = 1
      BY <2>2
    <3> HIDE DEF h, b, a, d, x
    <3> QED
      BY <3>1, <3>2, <3>3 DEF Renaming
  <2> QED
    BY <1>1, <1>2, <2>2, <2>7 DEF CloseoutInv
<1> QED
  BY <1>4, <1>5

\* One rename: the register it replaces has one line more, and they still nest.
LEMMA RenameNext ==
  ASSUME CloseoutInv, RenameOne
  PROVE  /\ CloseoutInv'
         /\ \A r \in Registers : registers'[r] = registers[r]
              \/ \E b \in Nat : registers'[r] = Append(registers[r], Line(closeout.heading, b))
<1> DEFINE n == closeout.n  h == closeout.heading  r == Order[n]
           a == registers["archive"]  d == registers["digests"]  x == registers["index"]
           b == closeout.body
<1>1. /\ closeout.at = "rename" /\ n \in 1..3 /\ h \in Headings /\ b \in Nat
      /\ registers \in [Registers -> Seq(Sections)] /\ staged \in [Registers -> Seq(Sections)]
      /\ registers' = [registers EXCEPT ![r] = staged[r]]
      /\ staged' = [staged EXCEPT ![r] = <<>>]
      /\ Nested(a, d, x)
      /\ closeout \in Closeouts
  BY DEF CloseoutInv, RenameOne, Closeouts
<1>2. a \in Seq(Sections) /\ d \in Seq(Sections) /\ x \in Seq(Sections)
  BY <1>1 DEF Registers
<1>3. /\ r \in Registers
      /\ registers' \in [Registers -> Seq(Sections)] /\ staged' \in [Registers -> Seq(Sections)]
  BY <1>1, Orders
<1>4. /\ n = 1 => /\ staged["archive"] = Append(a, Line(h, b)) /\ h \notin HeadingsOf(a)
                  /\ r = "archive"
      /\ n \in {1, 2} => /\ h \notin HeadingsOf(d)
                         /\ \E e \in Nat : staged["digests"] = Append(d, Line(h, e)) /\ (b = 0 => e = 0)
      /\ n = 2 => /\ \E k \in DOMAIN a : a[k] = Line(h, b)
                  /\ r = "digests"
      /\ n = 3 => /\ h \in HeadingsOf(d)
                  /\ r = "index"
      /\ staged["index"] = Append(x, Line(h, 0))
  <2>1. Renaming
    BY <1>1 DEF CloseoutInv
  <2> QED
    BY <2>1, Orders DEF Renaming
<1>5. n # 3 => /\ closeout'.at = "rename" /\ closeout'.heading = h /\ closeout'.body = b
               /\ closeout'.n = n + 1 /\ n + 1 \in 1..3
               /\ closeout' \in Closeouts
  <2> SUFFICES ASSUME n # 3
               PROVE  /\ closeout'.at = "rename" /\ closeout'.heading = h /\ closeout'.body = b
                      /\ closeout'.n = n + 1 /\ n + 1 \in 1..3
                      /\ closeout' \in Closeouts
    OBVIOUS
  <2>1. closeout' = [closeout EXCEPT !.n = n + 1]
    BY <1>1, Orders DEF RenameOne
  <2>2. n + 1 \in 1..3
    BY <1>1
  <2> QED
    BY <1>1, <2>1, <2>2, RunGoesOn, Zenon
<1>6. n = 3 => closeout' = NoCloseout
  BY Orders DEF RenameOne
<1>7. /\ registers["archive"] = a /\ registers["digests"] = d /\ registers["index"] = x
      /\ closeout.heading = h /\ closeout.n = n /\ closeout.body = b
  OBVIOUS
<1> HIDE DEF n, h, r, a, d, x, b
<1>8. CASE n = 1
  <2> DEFINE t == Append(a, Line(h, b))
  <2>1. /\ registers'["archive"] = t /\ registers'["digests"] = d /\ registers'["index"] = x
        /\ staged'["digests"] = staged["digests"] /\ staged'["index"] = staged["index"]
    BY <1>1, <1>4, <1>7, <1>8 DEF Registers
  <2>2. Nested(t, d, x)
    BY <1>1, <1>2, <1>4, <1>8, MoreSections
  <2>3. \E k \in DOMAIN t : t[k] = Line(h, b)
    <3>1. DOMAIN t = 1..Len(a) + 1 /\ Len(a) \in Nat /\ t[Len(a) + 1] = Line(h, b)
      BY <1>1, <1>2, Appending
    <3>2. Len(a) + 1 \in DOMAIN t
      BY <3>1
    <3> QED
      BY <3>1, <3>2
  <2> HIDE DEF t
  <2>4. Renaming'
    BY <1>4, <1>5, <1>8, <2>1, <2>3 DEF Renaming
  <2>5. CloseoutInv'
    BY <1>1, <1>3, <1>5, <1>8, <2>1, <2>2, <2>4 DEF CloseoutInv
  <2>6. \A q \in Registers : registers'[q] = registers[q] \/ registers'[q] = Append(registers[q], Line(h, b))
    BY <1>7, <2>1 DEF Registers, t
  <2> QED
    BY <1>1, <1>7, <2>5, <2>6
<1>9. CASE n = 2
  <2>1. PICK e \in Nat : staged["digests"] = Append(d, Line(h, e)) /\ (b = 0 => e = 0)
    BY <1>4, <1>9
  <2> DEFINE t == Append(d, Line(h, e))
  <2>2. /\ registers'["digests"] = t /\ registers'["archive"] = a /\ registers'["index"] = x
        /\ staged'["index"] = staged["index"]
    BY <1>1, <1>4, <1>7, <1>9, <2>1 DEF Registers
  <2>3. PICK k \in DOMAIN a : a[k] = Line(h, b)
    BY <1>4, <1>9
  <2>4. a[k].heading = h /\ (a[k].body = 0 => e = 0)
    BY <2>1, <2>3 DEF Line
  <2>5. Nested(a, t, x)
    BY <1>1, <1>2, <1>4, <1>9, <2>4, MoreDigests
  <2>6. h \in HeadingsOf(t)
    <3>1. HeadingsOf(t) = HeadingsOf(d) \cup {h}
      BY <1>1, <1>2, Appending, Zenon
    <3> QED
      BY <3>1
  <2> HIDE DEF t
  <2>7. Renaming'
    BY <1>4, <1>5, <1>9, <2>2, <2>6 DEF Renaming
  <2>8. CloseoutInv'
    BY <1>1, <1>3, <1>5, <1>9, <2>2, <2>5, <2>7 DEF CloseoutInv
  <2>9. \A q \in Registers : registers'[q] = registers[q] \/ registers'[q] = Append(registers[q], Line(h, e))
    BY <1>7, <2>2 DEF Registers, t
  <2> QED
    BY <1>1, <1>7, <2>8, <2>9
<1>10. CASE n = 3
  <2> DEFINE t == Append(x, Line(h, 0))
  <2>1. registers'["index"] = t /\ registers'["archive"] = a /\ registers'["digests"] = d
    BY <1>1, <1>4, <1>7, <1>10 DEF Registers
  <2>2. Nested(a, d, t)
    <3>1. h \in HeadingsOf(d) /\ 0 \in Nat
      BY <1>4, <1>10
    <3> QED
      BY <1>1, <1>2, <3>1, MoreHeadings
  <2> HIDE DEF t
  <2>3. CloseoutInv'
    <3>1. closeout' \in Closeouts /\ closeout'.at = "idle"
      BY <1>6, <1>10 DEF NoCloseout, Closeouts
    <3> QED
      BY <1>3, <2>1, <2>2, <3>1 DEF CloseoutInv
  <2>4. \A q \in Registers : registers'[q] = registers[q] \/ registers'[q] = Append(registers[q], Line(h, 0))
    BY <1>7, <2>1 DEF Registers, t
  <2> QED
    BY <1>1, <1>7, <2>3, <2>4
<1> QED
  BY <1>1, <1>8, <1>9, <1>10

\* A step of anybody keeps it, and adds at most a line to a register.
LEMMA CloseoutNext ==
  ASSUME CloseoutInv, [Next]_vars
  PROVE  /\ CloseoutInv'
         /\ \A r \in Registers : registers'[r] = registers[r]
              \/ \E h \in Headings, b \in Nat : registers'[r] = Append(registers[r], Line(h, b))
<1>1. CASE UNCHANGED closeoutVars
  <2>1. CloseoutInv'
    BY <1>1 DEF CloseoutInv, closeoutVars, Renaming, Planned, Registered
  <2> QED
    BY <1>1, <2>1 DEF closeoutVars
<1>2. CASE BeginCloseout
  <2>1. PICK h \in Headings, b \in Bodies :
          ~Registered(h) /\ closeout' = [at |-> "stage", heading |-> h, body |-> b, n |-> 1]
    BY <1>2 DEF BeginCloseout
  <2>2. UNCHANGED <<registers, staged>> /\ b \in Nat
    BY <1>2, CloseoutConstants DEF BeginCloseout
  <2>3. /\ closeout'.at = "stage" /\ closeout'.heading = h /\ closeout'.n = 1
        /\ closeout' \in Closeouts
    BY <2>1, <2>2 DEF Closeouts
  <2>4. ~Registered(closeout.heading)'
    BY <2>1, <2>2, <2>3 DEF Registered
  <2> QED
    BY <2>2, <2>3, <2>4 DEF CloseoutInv, Closeouts
<1>3. CASE StagingFails \/ CloseoutDies
  <2>1. registers' = registers /\ closeout' = NoCloseout /\ staged' \in {Nowhere, staged}
    BY <1>3 DEF StagingFails, CloseoutDies
  <2>2. Nowhere \in [Registers -> Seq(Sections)]
    BY DEF Nowhere
  <2> QED
    BY <2>1, <2>2 DEF CloseoutInv, NoCloseout, Closeouts
<1>4. CASE StageOne
  <2>1. registers' = registers
    BY <1>4 DEF StageOne
  <2> QED
    BY <1>4, <2>1, StageNext
<1>5. CASE RenameOne
  <2>1. closeout.heading \in Headings
    BY <1>5 DEF CloseoutInv, RenameOne, Closeouts
  <2> QED
    BY <1>5, <2>1, RenameNext
<1>6. Project \/ Check \/ Gates \/ Carry \/ UNCHANGED vars => UNCHANGED closeoutVars
  BY DEF Project, Check, Gates, Carry, vars
<1> QED
  BY <1>1, <1>2, <1>3, <1>4, <1>5, <1>6 DEF Next, CloseUnit, CloseoutSteps

\* Whatever a killed archive-closeout.py leaves, its three registers nest and lose
\* nothing, and the digest of a section stands when more sections follow.
THEOREM RegistersStand == Spec => RegistersNest
<1> DEFINE A ==
      /\ HeadingsOf(registers'["index"]) \subseteq HeadingsOf(registers'["digests"])
      /\ HeadingsOf(registers'["digests"]) \subseteq HeadingsOf(registers'["archive"])
      /\ \A r \in Registers : SubSeq(registers'[r], 1, Len(registers[r])) = registers[r]
      /\ \A d \in DOMAIN registers'["digests"], n \in DOMAIN registers'["archive"] :
           LET digest == registers'["digests"][d]  section == registers'["archive"][n] IN
           digest.heading = section.heading /\ section.body = 0 =>
             digest.body = CutBody(registers'["archive"], n)
<1>1. ASSUME CloseoutInv, [Next]_vars
      PROVE  A
  <2>1. Nested(registers["archive"], registers["digests"], registers["index"])'
    BY <1>1, CloseoutNext DEF CloseoutInv
  <2>2. ASSUME NEW r \in Registers
        PROVE  SubSeq(registers'[r], 1, Len(registers[r])) = registers[r]
    <3>1. registers[r] \in Seq(Sections)
      BY <1>1 DEF CloseoutInv
    <3>2. CASE registers'[r] = registers[r]
      BY <3>1, <3>2, SubSeqFull
    <3>3. ASSUME NEW h \in Headings, NEW b \in Nat, registers'[r] = Append(registers[r], Line(h, b))
          PROVE  SubSeq(registers'[r], 1, Len(registers[r])) = registers[r]
      BY <3>1, <3>3, Appending
    <3> QED
      BY <1>1, <3>2, <3>3, CloseoutNext
  <2>3. \A n \in DOMAIN registers'["archive"] :
          registers'["archive"][n].body = 0 => CutBody(registers'["archive"], n) = 0
    BY DEF CutBody
  <2> QED
    BY <2>1, <2>2, <2>3 DEF Nested
<1>2. CloseoutInv /\ [Next]_vars => CloseoutInv' /\ [A]_closeoutVars
  BY <1>1, CloseoutNext
<1> QED
  BY <1>2, CloseoutInit, PTL DEF Spec, RegistersNest
=============================================================================
