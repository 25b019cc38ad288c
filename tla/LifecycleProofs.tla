--------------------------- MODULE LifecycleProofs ---------------------------
(***************************************************************************)
(* Proofs about Lifecycle for every set of processes, versions and skills  *)
(* and every bound.                                                        *)
(***************************************************************************)
EXTENDS Lifecycle, WellFoundedInduction, TLAPS

-----------------------------------------------------------------------------
(* The oldest and the newest of a set of rows *)

\* A non-empty set of naturals has a least element, which Min returns.
LEMMA MinExists ==
  ASSUME NEW T \in SUBSET Nat, T # {}
  PROVE  Min(T) \in T /\ \A y \in T : Min(T) <= y
<1> DEFINE R == OpToRel(<, Nat)
<1>1. \A x, y \in Nat : x < y => <<x, y>> \in R
  BY Zenon DEF OpToRel
<1>2. IsWellFoundedOn(R, Nat)
  BY NatLessThanWellFounded, Zenon
<1> HIDE DEF R
<1>3. \E x \in T : \A y \in T : ~(<<y, x>> \in R)
  BY <1>2, WFMin, Zenon
<1>4. \E x \in T : \A y \in T : ~(y < x)
  BY <1>1, <1>3, Zenon
<1>5. \E x \in T : \A y \in T : x <= y
  BY <1>4
<1> QED
  BY <1>5, Zenon DEF Min

\* A non-empty set of row numbers has a greatest element, which Max returns.
LEMMA MaxExists ==
  ASSUME NEW n \in Nat, NEW T \in SUBSET (1 .. n), T # {}
  PROVE  Max(T) \in T /\ \A y \in T : y <= Max(T)
<1> DEFINE D == {n - i : i \in T}
<1>1. D \in SUBSET Nat
  OBVIOUS
<1>2. D # {}
  OBVIOUS
<1>3. Min(D) \in D /\ \A y \in D : Min(D) <= y
  BY <1>1, <1>2, MinExists, Zenon
<1>4. PICK x \in T : Min(D) = n - x
  BY <1>3
<1>5. \A y \in T : y <= x
  <2> SUFFICES ASSUME NEW y \in T PROVE y <= x
    OBVIOUS
  <2>1. n - y \in D
    OBVIOUS
  <2>2. n - x <= n - y
    BY <2>1, <1>3, <1>4, Zenon
  <2> QED
    BY <2>2
<1>6. \E w \in T : \A y \in T : w >= y
  BY <1>5
<1>7. Max(T) \in T /\ \A y \in T : Max(T) >= y
  BY <1>6, Zenon DEF Max
<1> QED
  BY <1>7

-----------------------------------------------------------------------------
(* The bytes and plans that the operators return *)

\* Blank bytes, and the user's part, version or commands of given bytes replaced.
LEMMA BytesExcept ==
  /\ Blank \in Bytes
  /\ \A b \in Bytes : /\ \A u \in Nat : [b EXCEPT !.user = u] \in Bytes
                      /\ \A v \in Versions : [b EXCEPT !.ver = v] \in Bytes
                      /\ \A e \in SUBSET Sources : [b EXCEPT !.exec = e] \in Bytes
<1> DEFINE Raw == [user: Nat, ver: Versions \cup {NoVersion}, exec: SUBSET Sources,
                   saved: BOOLEAN]
<1>1. Blank \in Bytes
  <2>1. Blank \in Raw /\ ~Blank.saved
    BY DEF Blank
  <2> QED
    BY <2>1 DEF Bytes
<1>2. ASSUME NEW b \in Bytes, NEW u \in Nat
      PROVE  [b EXCEPT !.user = u] \in Bytes
  <2> DEFINE c == [b EXCEPT !.user = u]
  <2>1. b \in Raw /\ (b.saved => b.ver # NoVersion)
    BY DEF Bytes
  <2>2. c \in Raw /\ c.saved = b.saved /\ c.ver = b.ver
    BY <2>1
  <2> QED
    BY <2>1, <2>2 DEF Bytes
<1>3. ASSUME NEW b \in Bytes, NEW v \in Versions
      PROVE  [b EXCEPT !.ver = v] \in Bytes
  <2> DEFINE c == [b EXCEPT !.ver = v]
  <2>1. b \in Raw
    BY DEF Bytes
  <2>2. c \in Raw /\ c.ver = v
    BY <2>1
  <2>3. v # NoVersion
    BY LifecycleConstants
  <2> QED
    BY <2>2, <2>3 DEF Bytes
<1>4. ASSUME NEW b \in Bytes, NEW e \in SUBSET Sources
      PROVE  [b EXCEPT !.exec = e] \in Bytes
  <2> DEFINE c == [b EXCEPT !.exec = e]
  <2>1. b \in Raw /\ (b.saved => b.ver # NoVersion)
    BY DEF Bytes
  <2>2. c \in Raw /\ c.saved = b.saved /\ c.ver = b.ver
    BY <2>1
  <2> QED
    BY <2>1, <2>2 DEF Bytes
<1> QED
  BY <1>1, <1>2, <1>3, <1>4

\* What the installer writes are bytes.
LEMMA BytesTypes ==
  ASSUME NEW c \in Content, NEW d \in Content, NEW v \in Versions
  PROVE  /\ Base(c) \in Bytes
         /\ MergeBlock(c, v) \in Bytes
         /\ MergeHooks(c, d) \in Bytes
         /\ Shipped(v) \in Bytes
         /\ StateOf(v) \in Bytes
<1>1. Base(c) \in Bytes /\ Base(d) \in Bytes
  BY BytesExcept DEF Base, Content
<1>2. (Base(c).exec \ Base(d).exec) \cup {Checkout} \in SUBSET Sources
  <2>1. Base(c).exec \in SUBSET Sources
    BY <1>1 DEF Bytes
  <2> QED
    BY <2>1 DEF Sources
<1>3. MergeHooks(c, d) \in Bytes
  BY <1>1, <1>2, BytesExcept DEF MergeHooks
<1>4. MergeBlock(c, v) \in Bytes /\ Shipped(v) \in Bytes
  BY <1>1, BytesExcept DEF MergeBlock, Shipped
<1>5. StateOf(v) \in Bytes
  <2>1. StateOf(v).ver # NoVersion
    BY LifecycleConstants DEF StateOf
  <2> QED
    BY <2>1 DEF StateOf, Bytes, Sources
<1> QED
  BY <1>1, <1>3, <1>4, <1>5

LEMMA ManifestType ==
  ASSUME NEW c \in Content
  PROVE  Manifest(c) \subseteq Skills
<1>1. Base(c) \in Bytes
  BY BytesExcept DEF Base, Content
<1>2. CASE Base(c).ver = NoVersion
  BY <1>2 DEF Manifest
<1>3. CASE Base(c).ver # NoVersion
  <2>1. Base(c) = c
    BY <1>3 DEF Base, Blank
  <2>2. c.ver \in Versions
    BY <1>1, <1>3, <2>1 DEF Bytes
  <2> QED
    BY <1>3, <2>1, <2>2, LifecycleConstants DEF Manifest
<1> QED
  BY <1>2, <1>3

LEMMA TrackingType ==
  ASSUME NEW rows \in Seq(Row), NEW S \in SUBSET DOMAIN rows, NEW f
  PROVE  /\ Tracking(rows, S, f) \subseteq S
         /\ Tracking(rows, S, f) \in SUBSET Nat
         /\ Tracking(rows, S, f) \in SUBSET (1 .. Len(rows))
BY DEF Tracking

\* The originals to restore are cells, of every target that a selected row tracks.
LEMMA DesiredType ==
  ASSUME NEW rows \in Seq(Row), NEW S \in SUBSET DOMAIN rows
  PROVE  /\ Desired(rows, S) \in Cells
         /\ \A f \in Targets :
              Tracking(rows, S, f) # {} => Desired(rows, S)[f] # Untracked
<1> SUFFICES ASSUME NEW f \in Targets
             PROVE  /\ Desired(rows, S)[f] \in Cell
                    /\ Tracking(rows, S, f) # {} => Desired(rows, S)[f] # Untracked
  BY DEF Desired, Cells
<1> DEFINE T == Tracking(rows, S, f)
<1>1. CASE T = {}
  BY <1>1 DEF Desired, Cell
<1>2. CASE T # {}
  <2>1. Min(T) \in T
    BY <1>2, TrackingType, MinExists
  <2>2. Min(T) \in DOMAIN rows /\ rows[Min(T)].before[f] # Untracked
    BY <2>1 DEF Tracking
  <2>3. rows[Min(T)] \in Row
    BY <2>2
  <2>4. rows[Min(T)].before[f] \in Cell
    BY <2>3 DEF Row, Cells
  <2>5. Desired(rows, S)[f] = rows[Min(T)].before[f]
    BY <1>2 DEF Desired
  <2> QED
    BY <2>2, <2>4, <2>5
<1> QED
  BY <1>1, <1>2

\* A selection is a set of active rows, not empty when there are any.
LEMMA SelectionType ==
  ASSUME NEW rows \in Seq(Row), NEW k \in Kinds, Active(rows) # {}
  PROVE  /\ Selection(rows, k) \subseteq Active(rows)
         /\ Selection(rows, k) # {}
         /\ Selection(rows, k) \in SUBSET DOMAIN rows
<1>1. Active(rows) \in SUBSET (1 .. Len(rows)) /\ Len(rows) \in Nat
  BY DEF Active
<1>2. Max(Active(rows)) \in Active(rows)
  BY <1>1, MaxExists
<1> QED
  BY <1>1, <1>2 DEF Selection, Active

\* Activation changes cells of tracked targets only, into cells of tracked targets.
LEMMA ActivatedType ==
  ASSUME NEW d \in Cells, d[State] # Untracked, d[Hooks] # Untracked, Activatable(d)
  PROVE  /\ Activated(d) \in Cells
         /\ \A f \in Targets : Activated(d)[f] = Untracked <=> d[f] = Untracked
<1> DEFINE state == d[State]
           a == Activated(d)
<1>1. CASE state = Absent \/ ~Base(state).saved
  BY <1>1 DEF Activated
<1>2. CASE ~(state = Absent \/ ~Base(state).saved)
  <2>1. State \in Targets /\ Hooks \in Targets /\ State # Hooks
    BY DEF Targets, State, Hooks
  <2>2. state \in Bytes /\ Base(state) = state
    BY <1>2, <2>1 DEF Base, Cells, Cell, Content
  <2>3. d[Hooks] \in Bytes
    BY <1>2, <2>1, <2>2 DEF Activatable, Cells, Cell, Content
  <2>4. {state.ver} \in SUBSET Sources
    BY <1>2, <2>2 DEF Bytes, Sources
  <2>5. (d[Hooks].exec \ state.exec) \cup {state.ver} \in SUBSET Sources
    BY <2>3, <2>4 DEF Bytes
  <2>6. a = [d EXCEPT ![State] = [state EXCEPT !.exec = {state.ver}],
                      ![Hooks] = [d[Hooks] EXCEPT !.exec = (@ \ state.exec) \cup {state.ver}]]
    BY <1>2, <2>1, Zenon DEF Activated
  <2>7. a[State] \in Bytes /\ a[Hooks] \in Bytes
    BY <2>1, <2>2, <2>3, <2>4, <2>5, <2>6, BytesExcept DEF Cells
  <2>8. \A f \in Targets \ {State, Hooks} : a[f] = d[f]
    BY <2>6 DEF Cells
  <2>9. a = [f \in Targets |-> a[f]]
    BY <2>6 DEF Cells
  <2>10. Untracked \notin Bytes
    BY LifecycleConstants DEF Content
  <2>11. \A f \in Targets : a[f] \in Cell
    BY <2>7, <2>8 DEF Cells, Cell, Content
  <2> QED
    BY <2>7, <2>8, <2>9, <2>10, <2>11 DEF Cells
<1> QED
  BY <1>1, <1>2

-----------------------------------------------------------------------------
(* Type correctness *)

\* Every row tracks the files of every installation, a planned restore writes
\* exactly the targets it sampled, and an installer that writes has captured a
\* version: without this a restore could be asked to write the bytes of a
\* target that no row recorded.
Tracked ==
  \A i \in DOMAIN journal : \A f \in {Policy, State, Hooks} : journal[i].before[f] # Untracked
Remembered ==
  \A p \in Procs :
    /\ pc[p] \in {"planned", "restoring"} =>
         \A f \in Targets : plan[p][f] = Untracked <=> seen[p][f] = Untracked
    /\ pc[p] = "restoring" => \A f \in todo[p] : plan[p][f] # Untracked
    /\ pc[p] \in {"block", "skills"} => captured[p] \in Versions
TypeInv == TypeOK /\ Tracked /\ Remembered

LEMMA NoCellsType == NoCells \in Cells
BY DEF NoCells, Cells, Cell

LEMMA TargetsDistinct ==
  /\ {Policy, State, Hooks} \subseteq Targets /\ Skills \subseteq Targets
  /\ Policy # State /\ Policy # Hooks /\ State # Hooks
BY DEF Targets, Policy, State, Hooks

\* A process that ends leaves well-typed memory and no plan.
LEMMA ExitTypes ==
  ASSUME TypeInv, NEW p \in Procs, Exit(p)
  PROVE  /\ pc' \in [Procs -> Labels]
         /\ version' \in [Procs -> Versions \cup {NoVersion}]
         /\ captured' \in [Procs -> Versions \cup {NoVersion}]
         /\ seen' \in [Procs -> Cells] /\ plan' \in [Procs -> Cells]
         /\ base' \in [Procs -> Seq(Row)]
         /\ kind' \in [Procs -> Kinds]
         /\ todo' \in [Procs -> SUBSET Targets]
         /\ Remembered'
<1>1. "idle" \in Labels /\ "rollback" \in Kinds /\ <<>> \in Seq(Row) /\ {} \in SUBSET Targets
  BY DEF Labels, Kinds
<1>2. Remembered'
  <2> SUFFICES ASSUME NEW q \in Procs
               PROVE  /\ pc'[q] \in {"planned", "restoring"} =>
                           \A f \in Targets : plan'[q][f] = Untracked <=> seen'[q][f] = Untracked
                      /\ pc'[q] = "restoring" => \A f \in todo'[q] : plan'[q][f] # Untracked
                      /\ pc'[q] \in {"block", "skills"} => captured'[q] \in Versions
    BY DEF Remembered
  <2>1. CASE q = p
    BY <2>1 DEF Exit, TypeInv, TypeOK
  <2>2. CASE q # p
    BY <2>2 DEF Exit, TypeInv, TypeOK, Remembered
  <2> QED
    BY <2>1, <2>2
<1> QED
  BY <1>1, <1>2, NoCellsType DEF Exit, TypeInv, TypeOK

LEMMA TypeInit == Init => TypeInv
<1> SUFFICES ASSUME Init PROVE TypeInv
  OBVIOUS
<1>1. UsersOwn \in Content
  BY BytesExcept DEF UsersOwn, Content
<1>2. Unmanaged \subseteq [Targets -> Content]
  BY <1>1 DEF Unmanaged, Content
<1>3. ASSUME NEW v \in Versions
      PROVE  [StateOf(v) EXCEPT !.saved = FALSE] \in Content
  BY <1>3 DEF StateOf, Bytes, Content, Sources
<1>4. Predating \subseteq [Targets -> Content]
  <2>1. Absent \in Content
    BY DEF Content
  <2>2. \A v \in Versions : /\ MergeBlock(Absent, v) \in Content
                            /\ MergeHooks(Absent, Absent) \in Content
                            /\ Shipped(v) \in Content
    BY <2>1, BytesTypes DEF Content
  <2> QED
    BY <1>3, <2>1, <2>2 DEF Predating
<1>5. file \in [Targets -> Content]
  BY <1>2, <1>4 DEF Init
<1>6. "idle" \in Labels /\ "rollback" \in Kinds /\ <<>> \in Seq(Row)
  BY DEF Labels, Kinds
<1>7. TypeOK
  BY <1>5, <1>6, NoCellsType DEF Init, TypeOK
<1>8. Tracked /\ Remembered
  BY DEF Init, Tracked, Remembered
<1> QED
  BY <1>7, <1>8 DEF TypeInv

\* The rows that an installation appends and completes are rows.
LEMMA BeginTypes ==
  ASSUME TypeInv, NEW p \in Procs, Begin(p)
  PROVE  TypeInv'
<1> DEFINE tracked == TargetSet(file[State], checkout)
           before == [f \in Targets |-> IF f \in tracked THEN file[f] ELSE Untracked]
           row == [status |-> "prepared", after |-> NoCells, before |-> before]
<1>1. before \in Cells
  BY DEF Cells, Cell, TypeInv, TypeOK
<1>2. row \in Row
  BY <1>1, NoCellsType DEF Row, Statuses
<1>3. Append(journal, row) \in Seq(Row)
  BY <1>2 DEF TypeInv, TypeOK
<1>4. journal' = Append(journal, row) /\ base' = [base EXCEPT ![p] = Append(journal, row)]
  BY DEF Begin
<1>5. baseline' \in [Targets -> Content]
  BY DEF Begin, TypeInv, TypeOK
<1>6. "hooks" \in Labels
  BY DEF Labels
<1> HIDE DEF before
<1>7. TypeOK'
  BY <1>3, <1>4, <1>5, <1>6 DEF Begin, Acquire, Goto, TypeInv, TypeOK, bound
<1>8. Tracked'
  <2>1. \A f \in {Policy, State, Hooks} : before[f] \in Content
    BY TargetsDistinct DEF before, TargetSet, TypeInv, TypeOK
  <2>2. \A f \in {Policy, State, Hooks} : before[f] # Untracked
    BY <2>1, LifecycleConstants
  <2>3. \A i \in DOMAIN journal' : (i \in DOMAIN journal /\ journal'[i] = journal[i]) \/ journal'[i] = row
    BY <1>2, <1>4 DEF TypeInv, TypeOK
  <2>4. row.before = before
    OBVIOUS
  <2> QED
    BY <2>2, <2>3, <2>4 DEF TypeInv, Tracked
<1>9. Remembered'
  BY DEF Begin, Goto, TypeInv, TypeOK, Remembered
<1> QED
  BY <1>7, <1>8, <1>9 DEF TypeInv

LEMMA FinishTypes ==
  ASSUME TypeInv, NEW p \in Procs, Finish(p), journal # <<>>
  PROVE  TypeInv'
<1> DEFINE last == Len(journal)
           row == journal[last]
           after == [f \in Targets |-> IF row.before[f] = Untracked THEN Untracked ELSE file[f]]
           done == [journal EXCEPT ![last].status = pc[p], ![last].after = after]
<1>1. journal \in Seq(Row) /\ last \in DOMAIN journal /\ row \in Row
  BY DEF TypeInv, TypeOK
<1>2. after \in Cells
  BY DEF Cells, Cell, TypeInv, TypeOK
<1>3. pc[p] \in Statuses
  BY DEF Finish, Statuses
<1> HIDE DEF after
<1>4. [row EXCEPT !.status = pc[p], !.after = after] \in Row
  BY <1>1, <1>2, <1>3 DEF Row
<1>5. done = [journal EXCEPT ![last] = [row EXCEPT !.status = pc[p], !.after = after]]
  BY <1>1
<1>6. /\ done \in Seq(Row)
      /\ \A i \in DOMAIN done : i \in DOMAIN journal /\ done[i].before = journal[i].before
  BY <1>1, <1>4, <1>5 DEF Row
<1>7. /\ SubSeq(journal, 1, last - 1) \in Seq(Row)
      /\ \A i \in DOMAIN SubSeq(journal, 1, last - 1) :
           i \in DOMAIN journal /\ SubSeq(journal, 1, last - 1)[i] = journal[i]
  BY <1>1
<1>8. journal' \in {SubSeq(journal, 1, last - 1), done}
  BY DEF Finish, after
<1> HIDE DEF done, last
<1>9. TypeOK' /\ Remembered'
  BY <1>6, <1>7, <1>8, ExitTypes DEF Finish, Release, TypeInv, TypeOK, bound
<1>10. Tracked'
  BY <1>6, <1>7, <1>8 DEF TypeInv, Tracked
<1> QED
  BY <1>9, <1>10 DEF TypeInv

LEMMA PlanTypes ==
  ASSUME TypeInv, NEW p \in Procs, NEW k \in Kinds, Plan(p, k)
  PROVE  TypeInv'
<1> DEFINE S == Selection(journal, k)
           d == Desired(journal, S)
           planned == IF k = "rollback" THEN Activated(d) ELSE d
           sampled == [f \in Targets |-> IF d[f] = Untracked THEN Untracked ELSE file[f]]
<1>1. S \in SUBSET DOMAIN journal /\ S # {}
  BY SelectionType DEF Plan, TypeInv, TypeOK
<1>2. d \in Cells
  BY <1>1, DesiredType DEF TypeInv, TypeOK
<1>3. d[State] # Untracked /\ d[Hooks] # Untracked
  <2>1. Tracking(journal, S, State) # {} /\ Tracking(journal, S, Hooks) # {}
    BY <1>1 DEF Tracking, TypeInv, Tracked
  <2> QED
    BY <1>1, <2>1, DesiredType, TargetsDistinct DEF TypeInv, TypeOK
<1>4. k = "rollback" => Activatable(d)
  BY DEF Plan
<1>5. planned \in Cells /\ \A f \in Targets : planned[f] = Untracked <=> d[f] = Untracked
  BY <1>2, <1>3, <1>4, ActivatedType
<1>6. sampled \in Cells /\ \A f \in Targets : sampled[f] = Untracked <=> d[f] = Untracked
  BY LifecycleConstants DEF Cells, Cell, TypeInv, TypeOK
<1>7. seen' = [seen EXCEPT ![p] = sampled] /\ plan' = [plan EXCEPT ![p] = planned]
  BY DEF Plan
<1>8. /\ base' = [base EXCEPT ![p] = journal] /\ kind' = [kind EXCEPT ![p] = k]
      /\ pc' = [pc EXCEPT ![p] = "planned"] /\ "planned" \in Labels
      /\ UNCHANGED <<file, journal, lock, preserved, checkout, version, captured, todo, edits,
                     faults, blessed, baseline>>
  BY DEF Plan, Goto, disk, bound, ghost, Labels
<1> HIDE DEF planned, sampled, d, S
<1>9. TypeOK'
  BY <1>5, <1>6, <1>7, <1>8 DEF TypeInv, TypeOK
<1>10. Tracked'
  BY DEF Plan, disk, TypeInv, Tracked
<1>11. Remembered'
  <2> SUFFICES ASSUME NEW q \in Procs
               PROVE  /\ pc'[q] \in {"planned", "restoring"} =>
                           \A f \in Targets : plan'[q][f] = Untracked <=> seen'[q][f] = Untracked
                      /\ pc'[q] = "restoring" => \A f \in todo'[q] : plan'[q][f] # Untracked
                      /\ pc'[q] \in {"block", "skills"} => captured'[q] \in Versions
    BY DEF Remembered
  <2>1. CASE q = p
    BY <1>5, <1>6, <1>7, <2>1 DEF Plan, Goto, TypeInv, TypeOK
  <2>2. CASE q # p
    BY <1>7, <2>2 DEF Plan, Goto, TypeInv, TypeOK, Remembered
  <2> QED
    BY <2>1, <2>2
<1> QED
  BY <1>9, <1>10, <1>11 DEF TypeInv

LEMMA ApplyTypes ==
  ASSUME TypeInv, NEW p \in Procs, Apply(p)
  PROVE  TypeInv'
<1> DEFINE pending == {f \in Targets : plan[p][f] # seen[p][f]}
<1>1. todo' = [todo EXCEPT ![p] = pending] /\ pending \in SUBSET Targets
  BY DEF Apply
<1>2. \A f \in pending : plan[p][f] # Untracked
  BY DEF Apply, TypeInv, Remembered
<1>3. "restoring" \in Labels
  BY DEF Labels
<1> HIDE DEF pending
<1>4. TypeOK'
  BY <1>1, <1>3 DEF Apply, Acquire, Goto, TypeInv, TypeOK, bound, ghost
<1>5. Tracked'
  BY DEF Apply, TypeInv, Tracked
<1>6. Remembered'
  <2> SUFFICES ASSUME NEW q \in Procs
               PROVE  /\ pc'[q] \in {"planned", "restoring"} =>
                           \A f \in Targets : plan'[q][f] = Untracked <=> seen'[q][f] = Untracked
                      /\ pc'[q] = "restoring" => \A f \in todo'[q] : plan'[q][f] # Untracked
                      /\ pc'[q] \in {"block", "skills"} => captured'[q] \in Versions
    BY DEF Remembered
  <2>1. CASE q = p
    BY <1>1, <1>2, <2>1 DEF Apply, Goto, TypeInv, TypeOK, Remembered
  <2>2. CASE q # p
    BY <1>1, <2>2 DEF Apply, Goto, TypeInv, TypeOK, Remembered
  <2> QED
    BY <2>1, <2>2
<1> QED
  BY <1>4, <1>5, <1>6 DEF TypeInv

LEMMA RestoreFileTypes ==
  ASSUME TypeInv, NEW p \in Procs, NEW f \in Targets, RestoreFile(p, f)
  PROVE  TypeInv'
<1>1. plan[p][f] \in Content
  BY DEF RestoreFile, TypeInv, TypeOK, Remembered, Cells, Cell
<1>2. TypeOK'
  BY <1>1 DEF RestoreFile, Write, TypeInv, TypeOK, bound
<1>3. Tracked'
  BY DEF RestoreFile, TypeInv, Tracked
<1>4. Remembered'
  BY DEF RestoreFile, TypeInv, TypeOK, Remembered
<1> QED
  BY <1>2, <1>3, <1>4 DEF TypeInv

\* A completed restoration changes the status of rows and some recorded results.
LEMMA RestoreDoneTypes ==
  ASSUME TypeInv, NEW p \in Procs, RestoreDone(p)
  PROVE  /\ TypeInv'
         /\ Len(journal') = Len(journal) /\ DOMAIN journal' = DOMAIN journal
         /\ \A i \in DOMAIN journal :
              /\ journal'[i].before = journal[i].before
              /\ journal'[i].status =
                   IF i \in Selection(journal, kind[p]) THEN "restored" ELSE journal[i].status
<1> DEFINE S == Selection(journal, kind[p])
           original == Desired(journal, S)
           left == Active(journal) \ S
           carried(i) == {f \in {Hooks, State} : /\ kind[p] = "rollback" /\ left # {} /\ i = Max(left)
                                                 /\ plan[p][f] # original[f]
                                                 /\ journal[i].after[f] = original[f]}
           status(i) == IF i \in S THEN "restored" ELSE journal[i].status
           after(i) == [f \in Targets |-> IF f \in carried(i) THEN plan[p][f] ELSE journal[i].after[f]]
           row(i) == [journal[i] EXCEPT !.status = status(i), !.after = after(i)]
<1>1. journal \in Seq(Row) /\ plan[p] \in Cells
  BY DEF TypeInv, TypeOK
<1>2. journal' = [i \in DOMAIN journal |-> row(i)]
  <2>1. journal' = [i \in DOMAIN journal |->
       [journal[i] EXCEPT !.status = IF i \in S THEN "restored" ELSE @,
                          !.after = [f \in Targets |-> IF f \in carried(i) THEN plan[p][f] ELSE @[f]]]]
    BY DEF RestoreDone
  <2> QED
    BY <1>1, <2>1
<1> HIDE DEF carried, S
<1>3. ASSUME NEW i \in DOMAIN journal
      PROVE  row(i) \in Row /\ row(i).before = journal[i].before /\ row(i).status = status(i)
  <2>1. journal[i] \in Row
    BY <1>1
  <2>2. status(i) \in Statuses
    BY <2>1 DEF Row, Statuses
  <2>3. after(i) \in Cells
    BY <1>1, <2>1 DEF Row, Cells
  <2> QED
    BY <2>1, <2>2, <2>3 DEF Row
<1> HIDE DEF row
<1>4. journal' \in Seq(Row) /\ Len(journal') = Len(journal) /\ DOMAIN journal' = DOMAIN journal
  BY <1>1, <1>2, <1>3
<1>5. TypeOK' /\ Remembered'
  BY <1>4, ExitTypes DEF RestoreDone, Release, TypeInv, TypeOK, bound, ghost
<1>6. Tracked'
  BY <1>2, <1>3, <1>4 DEF TypeInv, Tracked
<1> QED
  BY <1>2, <1>3, <1>4, <1>5, <1>6 DEF TypeInv, S

-----------------------------------------------------------------------------
(* The lock and the journal *)

\* While a process installs, the newest row is its own, still prepared.
Installing == {"hooks", "decide", "block", "skills", "installed", "failed"}
OpenRow ==
  \A p \in Procs : pc[p] \in Installing =>
    Len(journal) > 0 /\ journal[Len(journal)].status = "prepared"

\* The inductive invariant: types, ownership, and what an owner relies on.
Inv == TypeInv /\ JournalIsOwned /\ OpenRow

LEMMA InvInit == Init => Inv
<1> SUFFICES ASSUME Init PROVE Inv
  OBVIOUS
<1>1. TypeInv
  BY TypeInit
<1>2. JournalIsOwned /\ OpenRow
  BY DEF Init, JournalIsOwned, OpenRow, Installing, Critical
<1> QED
  BY <1>1, <1>2 DEF Inv

\* A step that leaves the journal and the lock alone and moves no process into
\* a section it was not in keeps ownership.
LEMMA Bystander ==
  ASSUME Inv, NEW p \in Procs, UNCHANGED <<journal, lock>>,
         base' = base,
         pc' = [pc EXCEPT ![p] = pc'[p]],
         pc'[p] \in Critical => pc[p] \in Critical,
         pc'[p] \in Installing => pc[p] \in Installing
  PROVE  JournalIsOwned' /\ OpenRow'
<1>1. pc \in [Procs -> Labels]
  BY DEF Inv, TypeInv, TypeOK
<1>2. \A q \in Procs : /\ pc'[q] \in Critical => pc[q] \in Critical
                       /\ pc'[q] \in Installing => pc[q] \in Installing
  BY <1>1
<1> QED
  BY <1>2 DEF Inv, JournalIsOwned, OpenRow

\* A process that ends its section leaves no other process in one.
LEMMA LastOut ==
  ASSUME Inv, NEW p \in Procs, pc[p] \in Critical, Exit(p)
  PROVE  JournalIsOwned' /\ OpenRow'
<1>1. \A q \in Procs : q # p => pc[q] \notin Critical
  BY DEF Inv, JournalIsOwned
<1>2. \A q \in Procs : pc'[q] = IF q = p THEN "idle" ELSE pc[q]
  BY DEF Exit, Inv, TypeInv, TypeOK
<1>3. \A q \in Procs : pc'[q] \notin Critical
  BY <1>1, <1>2 DEF Critical
<1>4. Installing \subseteq Critical
  BY DEF Installing, Critical, Labels
<1> QED
  BY <1>3, <1>4 DEF JournalIsOwned, OpenRow

\* Taking the lock: nobody else is in a section, the journal is as the owner read it.
LEMMA FirstIn ==
  ASSUME Inv, NEW p \in Procs, Acquire(p), NEW label \in Critical, Goto(p, label),
         journal' = base'[p],
         label \in Installing =>
           Len(journal') > 0 /\ journal'[Len(journal')].status = "prepared"
  PROVE  JournalIsOwned' /\ OpenRow'
<1>1. \A q \in Procs : pc[q] \notin Critical
  BY LifecycleConstants DEF Acquire, Inv, JournalIsOwned
<1>2. \A q \in Procs : pc'[q] = IF q = p THEN label ELSE pc[q]
  BY DEF Goto, Inv, TypeInv, TypeOK
<1>3. \A q \in Procs : pc'[q] \in Critical => q = p
  BY <1>1, <1>2
<1>4. Installing \subseteq Critical
  BY DEF Installing, Critical, Labels
<1> QED
  BY <1>2, <1>3, <1>4 DEF Acquire, JournalIsOwned, OpenRow

\* Steps of an installation.
LEMMA InstallStep ==
  ASSUME Inv, NEW p \in Procs, Install(p)
  PROVE  Inv'
<1> USE DEF Inv
<1>1. CASE Prepare(p)
  <2>1. "prepared" \in Labels
    BY DEF Labels
  <2>2. [f \in Targets |-> IF f \in {State, Hooks} THEN file[f] ELSE Untracked] \in Cells
    BY DEF Cells, Cell, TypeInv, TypeOK
  <2>3. TypeInv'
    BY <1>1, <2>1, <2>2 DEF Prepare, Goto, TypeInv, TypeOK, Tracked, Remembered, bound, ghost
  <2>4. JournalIsOwned' /\ OpenRow'
    BY <1>1, Bystander DEF Prepare, Goto, TypeInv, TypeOK, Critical, Installing
  <2> QED
    BY <2>3, <2>4
<1>2. CASE Begin(p)
  <2>1. TypeInv'
    BY <1>2, BeginTypes
  <2>2. journal \in Seq(Row) /\ base \in [Procs -> Seq(Row)]
    BY DEF TypeInv, TypeOK
  <2>3. PICK row : row.status = "prepared" /\ journal' = Append(journal, row)
                   /\ base' = [base EXCEPT ![p] = Append(journal, row)]
    BY <1>2 DEF Begin
  <2>4. /\ journal' = base'[p] /\ Len(journal') > 0
        /\ journal'[Len(journal')].status = "prepared"
    BY <2>2, <2>3
  <2>5. Acquire(p) /\ Goto(p, "hooks") /\ "hooks" \in Critical
    BY <1>2 DEF Begin, Critical, Labels
  <2> QED
    BY <2>1, <2>4, <2>5, FirstIn
<1>3. CASE WriteHooks(p)
  <2>1. "decide" \in Labels
    BY DEF Labels
  <2>2. MergeHooks(file[Hooks], file[State]) \in Content
    <3>1. file[Hooks] \in Content /\ file[State] \in Content /\ checkout \in Versions
      BY TargetsDistinct DEF TypeInv, TypeOK
    <3> QED
      BY <3>1, BytesTypes DEF Content
  <2>3. TypeInv'
    BY <1>3, <2>1, <2>2 DEF WriteHooks, Write, Goto, TypeInv, TypeOK, Tracked, Remembered, bound, ghost
  <2>4. JournalIsOwned' /\ OpenRow'
    BY <1>3, Bystander DEF WriteHooks, Goto, TypeInv, TypeOK, Critical, Installing, Labels
  <2> QED
    BY <2>3, <2>4
<1>4. CASE Skip(p)
  <2>1. "installed" \in Labels
    BY DEF Labels
  <2>2. TypeInv'
    BY <1>4, <2>1 DEF Skip, Goto, TypeInv, TypeOK, Tracked, Remembered, disk, bound, ghost
  <2>3. JournalIsOwned' /\ OpenRow'
    BY <1>4, Bystander DEF Skip, Goto, TypeInv, TypeOK, Critical, Installing, Labels, disk
  <2> QED
    BY <2>2, <2>3
<1>5. CASE Capture(p)
  <2>1. "block" \in Labels
    BY DEF Labels
  <2>2. Ships[checkout] \cup Manifest(file[State]) \in SUBSET Targets
    <3>1. file[State] \in Content
      BY TargetsDistinct DEF TypeInv, TypeOK
    <3> QED
      BY <3>1, ManifestType, TargetsDistinct, LifecycleConstants DEF TypeInv, TypeOK
  <2>3. TypeInv'
    BY <1>5, <2>1, <2>2 DEF Capture, Goto, TypeInv, TypeOK, Tracked, Remembered, disk, bound, ghost
  <2>4. JournalIsOwned' /\ OpenRow'
    BY <1>5, Bystander DEF Capture, Goto, TypeInv, TypeOK, Critical, Installing, Labels, disk
  <2> QED
    BY <2>3, <2>4
<1>6. CASE WriteBlock(p)
  <2>1. "skills" \in Labels
    BY DEF Labels
  <2>2. MergeBlock(file[Policy], captured[p]) \in Content
    <3>1. file[Policy] \in Content /\ captured[p] \in Versions
      BY <1>6, TargetsDistinct DEF WriteBlock, TypeInv, TypeOK, Remembered
    <3> QED
      BY <3>1, BytesTypes DEF Content
  <2>3. TypeInv'
    BY <1>6, <2>1, <2>2 DEF WriteBlock, Write, Goto, TypeInv, TypeOK, Tracked, Remembered, bound, ghost
  <2>4. JournalIsOwned' /\ OpenRow'
    BY <1>6, Bystander DEF WriteBlock, Goto, TypeInv, TypeOK, Critical, Installing, Labels
  <2> QED
    BY <2>3, <2>4
<1>7. ASSUME NEW s \in Skills, SyncSkill(p, s)
      PROVE  Inv'
  <2>1. (IF s \in Ships[captured[p]] THEN Shipped(captured[p]) ELSE Absent) \in Content
    <3>1. captured[p] \in Versions
      BY <1>7 DEF SyncSkill, TypeInv, Remembered
    <3> QED
      BY <3>1, BytesTypes DEF Content, TypeInv, TypeOK
  <2>2. TypeInv'
    BY <1>7, <2>1 DEF SyncSkill, Write, TypeInv, TypeOK, Tracked, Remembered, bound, ghost
  <2>3. JournalIsOwned' /\ OpenRow'
    BY <1>7 DEF SyncSkill, JournalIsOwned, OpenRow
  <2> QED
    BY <2>2, <2>3
<1>8. CASE WriteState(p)
  <2>1. "installed" \in Labels
    BY DEF Labels
  <2>2. StateOf(checkout) \in Content
    <3>1. file[State] \in Content /\ checkout \in Versions
      BY TargetsDistinct DEF TypeInv, TypeOK
    <3> QED
      BY <3>1, BytesTypes DEF Content
  <2>3. TypeInv'
    BY <1>8, <2>1, <2>2 DEF WriteState, Write, Goto, TypeInv, TypeOK, Tracked, Remembered, bound, ghost
  <2>4. JournalIsOwned' /\ OpenRow'
    BY <1>8, Bystander DEF WriteState, Goto, TypeInv, TypeOK, Critical, Installing, Labels
  <2> QED
    BY <2>3, <2>4
<1>9. CASE ApplyFails(p)
  <2>1. "failed" \in Labels
    BY DEF Labels
  <2>2. TypeInv'
    BY <1>9, <2>1 DEF ApplyFails, Goto, TypeInv, TypeOK, Tracked, Remembered, disk, bound, ghost
  <2>3. JournalIsOwned' /\ OpenRow'
    BY <1>9, Bystander DEF ApplyFails, Goto, TypeInv, TypeOK, Critical, Installing, Labels, disk
  <2> QED
    BY <2>2, <2>3
<1>10. CASE Finish(p)
  <2>1. journal # <<>> /\ pc[p] \in Critical
    BY <1>10 DEF Finish, OpenRow, Installing, Critical, Labels
  <2> QED
    BY <1>10, <2>1, FinishTypes, LastOut DEF Finish
<1>11. CASE FinishRefused(p)
  <2>1. pc[p] \in Critical
    BY <1>11 DEF FinishRefused, Critical, Labels
  <2>2. TypeInv'
    BY <1>11, ExitTypes DEF FinishRefused, Release, TypeInv, TypeOK, Tracked, ghost
  <2> QED
    BY <1>11, <2>1, <2>2, LastOut DEF FinishRefused
<1> QED
  BY <1>1, <1>2, <1>3, <1>4, <1>5, <1>6, <1>7, <1>8, <1>9, <1>10, <1>11 DEF Install

\* Steps of a rollback or an uninstallation.
LEMMA RestoreStep ==
  ASSUME Inv, NEW p \in Procs, Restore(p)
  PROVE  Inv'
<1> USE DEF Inv
<1>1. ASSUME NEW k \in Kinds, Plan(p, k)
      PROVE  Inv'
  <2>1. TypeInv'
    BY <1>1, PlanTypes
  <2>2. JournalIsOwned' /\ OpenRow'
    <3>1. pc[p] = "idle" /\ pc' = [pc EXCEPT ![p] = "planned"]
          /\ base' = [base EXCEPT ![p] = journal] /\ UNCHANGED <<journal, lock>>
      BY <1>1 DEF Plan, Goto, disk
    <3>2. \A q \in Procs : pc'[q] \in Critical \cup Installing =>
            q # p /\ pc'[q] = pc[q] /\ base'[q] = base[q]
      BY <3>1 DEF TypeInv, TypeOK, Critical, Installing
    <3> QED
      BY <3>1, <3>2 DEF JournalIsOwned, OpenRow
  <2> QED
    BY <2>1, <2>2
<1>2. CASE Apply(p)
  <2>1. TypeInv'
    BY <1>2, ApplyTypes
  <2>2. Acquire(p) /\ Goto(p, "restoring") /\ "restoring" \in Critical /\ journal' = base'[p]
        /\ "restoring" \notin Installing
    BY <1>2 DEF Apply, Critical, Labels, Installing
  <2> QED
    BY <2>1, <2>2, FirstIn
<1>3. ASSUME NEW f \in Targets, RestoreFile(p, f)
      PROVE  Inv'
  <2>1. TypeInv'
    BY <1>3, RestoreFileTypes
  <2>2. JournalIsOwned' /\ OpenRow'
    BY <1>3 DEF RestoreFile, JournalIsOwned, OpenRow
  <2> QED
    BY <2>1, <2>2
<1>4. CASE RestoreFails(p)
  <2>1. pc[p] \in Critical
    BY <1>4 DEF RestoreFails, Critical, Labels
  <2>2. TypeInv'
    BY <1>4, ExitTypes DEF RestoreFails, Release, TypeInv, TypeOK, Tracked, bound, ghost
  <2> QED
    BY <1>4, <2>1, <2>2, LastOut DEF RestoreFails
<1>5. CASE RestoreDone(p)
  <2>1. pc[p] \in Critical
    BY <1>5 DEF RestoreDone, Critical, Labels
  <2>2. TypeInv'
    BY <1>5, RestoreDoneTypes
  <2> QED
    BY <1>5, <2>1, <2>2, LastOut DEF RestoreDone
<1> QED
  BY <1>1, <1>2, <1>3, <1>4, <1>5 DEF Restore, Kinds

\* Refusals, crashes, and what the user and the disk do.
LEMMA OtherStep ==
  ASSUME Inv, Surroundings \/ (\E p \in Procs : GiveUp(p) \/ Crash(p))
  PROVE  Inv'
<1> USE DEF Inv
<1>1. CASE ClearLock
  <2>1. TypeInv'
    BY <1>1 DEF ClearLock, TypeInv, TypeOK, Tracked, Remembered, local, bound, ghost
  <2>2. \A p \in Procs : pc[p] \notin Critical
    BY <1>1, LifecycleConstants DEF ClearLock, JournalIsOwned
  <2> QED
    BY <1>1, <2>1, <2>2 DEF ClearLock, JournalIsOwned, OpenRow, local
<1>2. ASSUME NEW f \in Targets, UserEdit(f)
      PROVE  Inv'
  <2>1. file[f] \in Content /\ Base(file[f]) \in Bytes
    BY BytesExcept DEF TypeInv, TypeOK, Base, Content
  <2>2. [Base(file[f]) EXCEPT !.user = edits + 1] \in Content /\ Absent \in Content
    <3> DEFINE c == Base(file[f])
    <3>1. edits + 1 \in Nat /\ c \in Bytes
      BY <2>1 DEF TypeInv, TypeOK
    <3> HIDE DEF c
    <3>2. [c EXCEPT !.user = edits + 1] \in Bytes
      BY <3>1, BytesExcept, Zenon
    <3> QED
      BY <3>2 DEF c, Content
  <2>3. file' \in [Targets -> Content]
    BY <1>2, <2>2 DEF UserEdit, Write, TypeInv, TypeOK
  <2>4. baseline' \in [Targets -> Content]
    BY <1>2, <2>3 DEF UserEdit, TypeInv, TypeOK
  <2>5. edits' \in Nat
    BY <1>2 DEF UserEdit, TypeInv, TypeOK
  <2>6. TypeInv'
    BY <1>2, <2>3, <2>4, <2>5 DEF UserEdit, TypeInv, TypeOK, Tracked, Remembered, local
  <2>7. JournalIsOwned' /\ OpenRow'
    BY <1>2 DEF UserEdit, JournalIsOwned, OpenRow, local
  <2> QED
    BY <2>6, <2>7
<1>3. ASSUME NEW v \in Versions, Update(v)
      PROVE  Inv'
  BY <1>3 DEF Update, TypeInv, TypeOK, Tracked, Remembered, JournalIsOwned, OpenRow,
              disk, local, bound, ghost
<1>4. ASSUME NEW v \in Versions, Damage(v)
      PROVE  Inv'
  BY <1>4 DEF Damage, TypeInv, TypeOK, Tracked, Remembered, JournalIsOwned, OpenRow, local, ghost
<1>5. ASSUME NEW p \in Procs, GiveUp(p)
      PROVE  Inv'
  <2>1. TypeInv'
    BY <1>5, ExitTypes DEF GiveUp, TypeInv, TypeOK, Tracked, disk, bound, ghost
  <2>2. \A q \in Procs : pc'[q] \in Critical \cup Installing =>
          q # p /\ pc'[q] = pc[q] /\ base'[q] = base[q]
    BY <1>5 DEF GiveUp, Exit, TypeInv, TypeOK, Critical, Installing
  <2>3. JournalIsOwned' /\ OpenRow'
    BY <1>5, <2>2 DEF GiveUp, JournalIsOwned, OpenRow, disk
  <2> QED
    BY <2>1, <2>3
<1>6. ASSUME NEW p \in Procs, Crash(p)
      PROVE  Inv'
  <2>1. TypeInv'
    BY <1>6, ExitTypes DEF Crash, TypeInv, TypeOK, Tracked, ghost
  <2>2. pc[p] \in Critical
    BY <1>6 DEF Crash, Critical, TypeInv, TypeOK
  <2> QED
    BY <1>6, <2>1, <2>2, LastOut DEF Crash
<1> QED
  BY <1>1, <1>2, <1>3, <1>4, <1>5, <1>6 DEF Surroundings

LEMMA InvNext == Inv /\ [Next]_vars => Inv'
<1> SUFFICES ASSUME Inv, [Next]_vars PROVE Inv'
  OBVIOUS
<1>1. CASE Next
  BY <1>1, InstallStep, RestoreStep, OtherStep DEF Next
<1>2. CASE UNCHANGED vars
  BY <1>2 DEF vars, disk, local, bound, ghost, Inv, TypeInv, TypeOK, Tracked, Remembered,
              JournalIsOwned, OpenRow
<1> QED
  BY <1>1, <1>2

LEMMA InvAlways == Spec => []Inv
BY InvInit, InvNext, PTL DEF Spec

\* Types hold in every reachable state: in particular a restore never writes
\* the bytes of a target that no selected row recorded.
THEOREM TypeCorrect == Spec => []TypeOK
<1>1. Inv => TypeOK
  BY DEF Inv, TypeInv
<1> QED
  BY <1>1, InvAlways, PTL

\* Whoever is inside an installation or a restoration owns the lock file, and
\* nobody else has written the journal since it read or saved it.
THEOREM Ownership == Spec => []JournalIsOwned
<1>1. Inv => JournalIsOwned
  BY DEF Inv
<1> QED
  BY <1>1, InvAlways, PTL

-----------------------------------------------------------------------------
(* The unfinished installation is the newest *)

LEMMA UnfinishedInit == Init => UnfinishedIsNewest
BY DEF Init, UnfinishedIsNewest, Unfinished

LEMMA UnfinishedNext == Inv /\ UnfinishedIsNewest /\ [Next]_vars => UnfinishedIsNewest'
<1> SUFFICES ASSUME Inv, UnfinishedIsNewest, [Next]_vars PROVE UnfinishedIsNewest'
  OBVIOUS
<1>1. journal \in Seq(Row)
  BY DEF Inv, TypeInv, TypeOK
<1>2. CASE journal' = journal
  BY <1>2 DEF UnfinishedIsNewest, Unfinished
<1>3. ASSUME NEW p \in Procs, Begin(p)
      PROVE  UnfinishedIsNewest'
  <2>1. PICK row : journal' = Append(journal, row)
    BY <1>3 DEF Begin
  <2>2. Unfinished(journal) = {}
    BY <1>3 DEF Begin, NothingUnfinished
  <2> QED
    BY <1>1, <2>1, <2>2 DEF UnfinishedIsNewest, Unfinished
<1>4. ASSUME NEW p \in Procs, Finish(p)
      PROVE  UnfinishedIsNewest'
  <2> DEFINE last == Len(journal)
  <2>1. last \in Nat \ {0}
    BY <1>1, <1>4 DEF Finish, Inv, OpenRow, Installing
  <2>2. \A i \in DOMAIN journal : i # last => journal[i].status \notin {"prepared", "failed"}
    BY <1>1 DEF UnfinishedIsNewest, Unfinished
  <2>3. PICK after :
          journal' \in {SubSeq(journal, 1, last - 1),
                       [journal EXCEPT ![last].status = pc[p], ![last].after = after]}
    BY <1>4 DEF Finish
  <2>4. CASE journal' = SubSeq(journal, 1, last - 1)
    <3>1. \A i \in DOMAIN journal' : i \in DOMAIN journal /\ i # last /\ journal'[i] = journal[i]
      BY <1>1, <2>1, <2>4
    <3> QED
      BY <2>2, <3>1 DEF UnfinishedIsNewest, Unfinished
  <2>5. CASE journal' = [journal EXCEPT ![last].status = pc[p], ![last].after = after]
    <3>1. Len(journal') = last /\ DOMAIN journal' = DOMAIN journal
      BY <1>1, <2>1, <2>5
    <3>2. \A i \in DOMAIN journal : i # last => journal'[i] = journal[i]
      BY <1>1, <2>1, <2>5
    <3> QED
      BY <2>2, <3>1, <3>2 DEF UnfinishedIsNewest, Unfinished
  <2> QED
    BY <2>3, <2>4, <2>5
<1>5. ASSUME NEW p \in Procs, RestoreDone(p)
      PROVE  UnfinishedIsNewest'
  <2>1. /\ Len(journal') = Len(journal) /\ DOMAIN journal' = DOMAIN journal
        /\ \A i \in DOMAIN journal : journal'[i].status \in {"restored", journal[i].status}
    BY <1>5, RestoreDoneTypes DEF Inv
  <2> QED
    BY <2>1 DEF UnfinishedIsNewest, Unfinished
<1>6. CASE Next
  <2>1. ASSUME NEW p \in Procs, Install(p), ~Begin(p), ~Finish(p)
        PROVE  journal' = journal
    BY <2>1 DEF Install, Prepare, WriteHooks, Skip, Capture, WriteBlock, SyncSkill, WriteState,
                ApplyFails, FinishRefused, disk
  <2>2. ASSUME NEW p \in Procs, Restore(p), ~RestoreDone(p)
        PROVE  journal' = journal
    BY <2>2 DEF Restore, Plan, Apply, RestoreFile, RestoreFails, disk
  <2>3. ASSUME NEW p \in Procs, GiveUp(p) \/ Crash(p)
        PROVE  journal' = journal
    BY <2>3 DEF GiveUp, Crash, disk
  <2>4. ASSUME Surroundings
        PROVE  journal' = journal
    BY <2>4 DEF Surroundings, ClearLock, UserEdit, Update, Damage, disk
  <2> QED
    BY <1>2, <1>3, <1>4, <1>5, <1>6, <2>1, <2>2, <2>3, <2>4 DEF Next
<1>7. CASE UNCHANGED vars
  BY <1>2, <1>7 DEF vars, disk
<1> QED
  BY <1>6, <1>7

\* Rollback meets an installation that crashed or failed before any older one:
\* no later installation takes its half-written files for originals.
THEOREM UnfinishedNewest == Spec => []UnfinishedIsNewest
BY InvAlways, UnfinishedInit, UnfinishedNext, PTL DEF Spec

-----------------------------------------------------------------------------
(* State files name published sources *)

\* The bytes c name no source that is missing from the published ones.
Kept(c, published) == c \in Bytes /\ c.saved => published[c.ver] # "none"

\* The strengthening: every state file that may come back, from a row or a
\* plan, names a published source, and so will the one an installer writes.
SourcesKept ==
  /\ Kept(file[State], preserved)
  /\ \A i \in DOMAIN journal : Kept(journal[i].before[State], preserved)
  /\ \A p \in Procs : Kept(plan[p][State], preserved)
  /\ \A p \in Procs : pc[p] \in Installing \cup {"prepared"} =>
                         version[p] \in Versions /\ preserved[version[p]] # "none"

LEMMA KeptStays ==
  ASSUME NEW published, NEW later, NEW c, Kept(c, published),
         \A v \in Versions : published[v] # "none" => later[v] # "none"
  PROVE  Kept(c, later)
<1> SUFFICES ASSUME c \in Bytes, c.saved PROVE later[c.ver] # "none"
  BY DEF Kept
<1>1. c.ver \in Versions /\ published[c.ver] # "none"
  BY DEF Kept, Bytes
<1> QED
  BY <1>1

\* Sources are published and damaged, never withdrawn.
LEMMA SourcesStay ==
  ASSUME Inv, [Next]_vars
  PROVE  \A v \in Versions : preserved[v] # "none" => preserved'[v] # "none"
<1>1. preserved \in [Versions -> {"none", "intact", "damaged"}]
  BY DEF Inv, TypeInv, TypeOK
<1>2. CASE preserved' = preserved
  BY <1>2
<1>3. ASSUME NEW p \in Procs, Prepare(p)
      PROVE  \A v \in Versions : preserved[v] # "none" => preserved'[v] # "none"
  BY <1>1, <1>3 DEF Prepare
<1>4. ASSUME NEW v \in Versions, Damage(v)
      PROVE  \A w \in Versions : preserved[w] # "none" => preserved'[w] # "none"
  BY <1>1, <1>4 DEF Damage
<1>5. CASE Next
  <2>1. ASSUME NEW p \in Procs, Install(p), ~Prepare(p)
        PROVE  preserved' = preserved
    BY <2>1 DEF Install, Begin, WriteHooks, Skip, Capture, WriteBlock, SyncSkill, WriteState,
                ApplyFails, Finish, FinishRefused, disk
  <2>2. ASSUME NEW p \in Procs, Restore(p) \/ GiveUp(p) \/ Crash(p)
        PROVE  preserved' = preserved
    BY <2>2 DEF Restore, Plan, Apply, RestoreFile, RestoreFails, RestoreDone, GiveUp, Crash, disk
  <2>3. ASSUME Surroundings, \A v \in Versions : ~Damage(v)
        PROVE  preserved' = preserved
    BY <2>3 DEF Surroundings, ClearLock, UserEdit, Update, disk
  <2> QED
    BY <1>2, <1>3, <1>4, <1>5, <2>1, <2>2, <2>3 DEF Next
<1>6. CASE UNCHANGED vars
  BY <1>2, <1>6 DEF vars, disk
<1> QED
  BY <1>5, <1>6

\* The state file that a step leaves is the old one with another user part,
\* an installer's, a planned one, or none.
LEMMA StateFileStep ==
  ASSUME Inv, SourcesKept, [Next]_vars
  PROVE  Kept(file'[State], preserved)
<1> USE DEF Inv, TypeInv, TypeOK
<1>1. CASE file'[State] = file[State]
  BY <1>1 DEF SourcesKept
<1>2. ASSUME NEW p \in Procs, WriteState(p)
      PROVE  Kept(file'[State], preserved)
  <2>1. file'[State] = StateOf(checkout)
    BY <1>2, TargetsDistinct DEF WriteState, Write
  <2>2. preserved[checkout] # "none"
    BY <1>2 DEF WriteState, SourceHolds, SourcesKept, Installing
  <2> QED
    BY <2>1, <2>2 DEF Kept, StateOf
<1>3. ASSUME NEW p \in Procs, NEW f \in Targets, RestoreFile(p, f)
      PROVE  Kept(file'[State], preserved)
  <2>1. file'[State] \in {file[State], plan[p][State]}
    BY <1>3, TargetsDistinct DEF RestoreFile, Write
  <2> QED
    BY <2>1 DEF SourcesKept
<1>4. ASSUME NEW f \in Targets, UserEdit(f)
      PROVE  Kept(file'[State], preserved)
  <2>1. file[State] \in Content
    BY TargetsDistinct
  <2>2. \/ file'[State] = file[State]
        \/ file'[State] = [Base(file[State]) EXCEPT !.user = edits + 1]
        \/ file'[State] = Absent
    BY <1>4, TargetsDistinct DEF UserEdit, Write
  <2>3. CASE file'[State] = [Base(file[State]) EXCEPT !.user = edits + 1]
    <3>1. Base(file[State]) \in Bytes
      BY <2>1, BytesExcept DEF Base, Content
    <3>2. file'[State].saved = Base(file[State]).saved /\ file'[State].ver = Base(file[State]).ver
      BY <2>3, <3>1 DEF Bytes
    <3>3. Base(file[State]).saved => Base(file[State]) = file[State]
      BY DEF Base, Blank
    <3>4. CASE Base(file[State]).saved
      BY <3>1, <3>2, <3>3, <3>4 DEF SourcesKept, Kept
    <3>5. CASE ~Base(file[State]).saved
      BY <3>2, <3>5 DEF Kept
    <3> QED
      BY <3>4, <3>5
  <2>4. CASE file'[State] = Absent
    BY <2>4, LifecycleConstants DEF Kept
  <2> QED
    BY <2>2, <2>3, <2>4, <1>1
<1>5. CASE Next
  <2>1. ASSUME NEW p \in Procs, Install(p), ~WriteState(p)
        PROVE  file'[State] = file[State]
    <3>1. CASE WriteHooks(p) \/ WriteBlock(p)
      BY <3>1, TargetsDistinct DEF WriteHooks, WriteBlock, Write
    <3>2. ASSUME NEW s \in Skills, SyncSkill(p, s)
          PROVE  file'[State] = file[State]
      BY <3>2, LifecycleConstants DEF SyncSkill, Write
    <3> QED
      BY <2>1, <3>1, <3>2 DEF Install, Prepare, Begin, Skip, Capture, ApplyFails, Finish,
                              FinishRefused, disk
  <2>2. ASSUME NEW p \in Procs, Restore(p), \A f \in Targets : ~RestoreFile(p, f)
        PROVE  file' = file
    BY <2>2 DEF Restore, Plan, Apply, RestoreFails, RestoreDone, disk
  <2>3. ASSUME NEW p \in Procs, GiveUp(p) \/ Crash(p)
        PROVE  file' = file
    BY <2>3 DEF GiveUp, Crash, disk
  <2>4. ASSUME Surroundings, \A f \in Targets : ~UserEdit(f)
        PROVE  file' = file
    BY <2>4 DEF Surroundings, ClearLock, Update, Damage, disk
  <2> QED
    BY <1>1, <1>2, <1>3, <1>4, <1>5, <2>1, <2>2, <2>3, <2>4 DEF Next
<1>6. CASE UNCHANGED vars
  BY <1>1, <1>6 DEF vars, disk
<1> QED
  BY <1>5, <1>6

\* The originals of the state file that rows hold: old ones, and at most the
\* state file that an installation found.
LEMMA RowsStep ==
  ASSUME Inv, SourcesKept, [Next]_vars, NEW i \in DOMAIN journal'
  PROVE  Kept(journal'[i].before[State], preserved)
<1>1. journal \in Seq(Row)
  BY DEF Inv, TypeInv, TypeOK
<1>2. CASE i \in DOMAIN journal /\ journal'[i].before = journal[i].before
  BY <1>2 DEF SourcesKept
<1>3. ASSUME NEW p \in Procs, Begin(p)
      PROVE  Kept(journal'[i].before[State], preserved)
  <2> DEFINE tracked == TargetSet(file[State], checkout)
             before == [f \in Targets |-> IF f \in tracked THEN file[f] ELSE Untracked]
             row == [status |-> "prepared", after |-> NoCells, before |-> before]
  <2>1. journal' = Append(journal, row)
    BY <1>3 DEF Begin
  <2>2. before[State] = file[State]
    BY TargetsDistinct DEF TargetSet
  <2>3. row.before = before
    OBVIOUS
  <2> HIDE DEF before, row
  <2>4. (i \in DOMAIN journal /\ journal'[i] = journal[i]) \/ journal'[i] = row
    BY <1>1, <2>1
  <2> QED
    BY <1>2, <2>2, <2>3, <2>4 DEF SourcesKept
<1>4. ASSUME NEW p \in Procs, Finish(p)
      PROVE  i \in DOMAIN journal /\ journal'[i].before = journal[i].before
  <2> DEFINE last == Len(journal)
  <2>1. last \in Nat \ {0}
    BY <1>1, <1>4 DEF Finish, Inv, OpenRow, Installing
  <2>2. PICK after :
          journal' \in {SubSeq(journal, 1, last - 1),
                       [journal EXCEPT ![last].status = pc[p], ![last].after = after]}
    BY <1>4 DEF Finish
  <2>3. CASE journal' = SubSeq(journal, 1, last - 1)
    BY <1>1, <2>1, <2>3
  <2>4. CASE journal' = [journal EXCEPT ![last].status = pc[p], ![last].after = after]
    <3>1. journal[last] \in Row
      BY <1>1, <2>1
    <3>2. journal'[last].before = journal[last].before
      BY <1>1, <2>1, <2>4, <3>1 DEF Row
    <3>3. DOMAIN journal' = DOMAIN journal /\ \A j \in DOMAIN journal : j # last => journal'[j] = journal[j]
      BY <1>1, <2>1, <2>4
    <3> QED
      BY <3>2, <3>3
  <2> QED
    BY <2>2, <2>3, <2>4
<1>5. ASSUME NEW p \in Procs, RestoreDone(p)
      PROVE  i \in DOMAIN journal /\ journal'[i].before = journal[i].before
  BY <1>5, RestoreDoneTypes DEF Inv
<1>6. CASE journal' = journal
  BY <1>2, <1>6
<1>7. CASE Next
  <2>1. ASSUME NEW p \in Procs, Install(p), ~Begin(p), ~Finish(p)
        PROVE  journal' = journal
    BY <2>1 DEF Install, Prepare, WriteHooks, Skip, Capture, WriteBlock, SyncSkill, WriteState,
                ApplyFails, FinishRefused, disk
  <2>2. ASSUME NEW p \in Procs, Restore(p), ~RestoreDone(p)
        PROVE  journal' = journal
    BY <2>2 DEF Restore, Plan, Apply, RestoreFile, RestoreFails, disk
  <2>3. ASSUME NEW p \in Procs, GiveUp(p) \/ Crash(p)
        PROVE  journal' = journal
    BY <2>3 DEF GiveUp, Crash, disk
  <2>4. ASSUME Surroundings
        PROVE  journal' = journal
    BY <2>4 DEF Surroundings, ClearLock, UserEdit, Update, Damage, disk
  <2> QED
    BY <1>2, <1>3, <1>4, <1>5, <1>6, <1>7, <2>1, <2>2, <2>3, <2>4 DEF Next
<1>8. CASE UNCHANGED vars
  BY <1>6, <1>8 DEF vars, disk
<1> QED
  BY <1>7, <1>8

\* The state file that a plan restores: an original, activated or not.
LEMMA PlanKept ==
  ASSUME Inv, SourcesKept, NEW p \in Procs, NEW k \in Kinds, Plan(p, k)
  PROVE  Kept(plan'[p][State], preserved)
<1> DEFINE S == Selection(journal, k)
           d == Desired(journal, S)
           T == Tracking(journal, S, State)
<1>1. journal \in Seq(Row) /\ S \in SUBSET DOMAIN journal /\ S # {}
  BY SelectionType DEF Plan, Inv, TypeInv, TypeOK
<1>2. T # {}
  BY <1>1 DEF Tracking, Inv, TypeInv, Tracked
<1>3. Min(T) \in T
  BY <1>1, <1>2, TrackingType, MinExists
<1>4. d[State] = journal[Min(T)].before[State]
  BY <1>2, TargetsDistinct DEF Desired
<1>5. Kept(d[State], preserved)
  BY <1>1, <1>3, <1>4 DEF Tracking, SourcesKept
<1>6. d \in Cells
  BY <1>1, DesiredType
<1>7. Kept(Activated(d)[State], preserved)
  <2>1. CASE d[State] = Absent \/ ~Base(d[State]).saved
    BY <1>5, <2>1 DEF Activated
  <2>2. CASE ~(d[State] = Absent \/ ~Base(d[State]).saved)
    <3>1. Activated(d)[State] = [d[State] EXCEPT !.exec = {d[State].ver}]
      BY <1>6, <2>2, TargetsDistinct DEF Activated, Cells
    <3>2. ASSUME Activated(d)[State] \in Bytes, Activated(d)[State].saved
          PROVE  preserved[Activated(d)[State].ver] # "none"
      <4>1. d[State] \in Bytes \/ d[State] = Untracked
        BY <1>6, <2>2, TargetsDistinct DEF Cells, Cell, Content
      <4>2. d[State] # Untracked
        BY <1>1, <1>2, DesiredType, TargetsDistinct
      <4>3. Activated(d)[State].saved = d[State].saved /\ Activated(d)[State].ver = d[State].ver
        BY <3>1, <4>1, <4>2 DEF Bytes
      <4> QED
        BY <1>5, <3>2, <4>1, <4>2, <4>3 DEF Kept
    <3> QED
      BY <3>2 DEF Kept
  <2> QED
    BY <2>1, <2>2
<1>8. plan'[p] = IF k = "rollback" THEN Activated(d) ELSE d
  BY DEF Plan, Inv, TypeInv, TypeOK
<1> QED
  BY <1>5, <1>7, <1>8

LEMMA PlansStep ==
  ASSUME Inv, SourcesKept, [Next]_vars, NEW q \in Procs
  PROVE  Kept(plan'[q][State], preserved)
<1> USE DEF Inv, TypeInv, TypeOK
<1>1. CASE plan'[q] = plan[q]
  BY <1>1 DEF SourcesKept
<1>2. ASSUME NEW p \in Procs, Exit(p)
      PROVE  Kept(plan'[q][State], preserved)
  <2>1. CASE q # p
    BY <1>1, <1>2, <2>1 DEF Exit
  <2>2. CASE q = p
    <3>1. plan'[q][State] = Untracked
      BY <1>2, <2>2, TargetsDistinct DEF Exit, NoCells
    <3> QED
      BY <3>1, LifecycleConstants DEF Kept, Content
  <2> QED
    BY <2>1, <2>2
<1>3. ASSUME NEW p \in Procs, NEW k \in Kinds, Plan(p, k)
      PROVE  Kept(plan'[q][State], preserved)
  BY <1>1, <1>3, PlanKept DEF Plan
<1>4. CASE Next
  <2>1. ASSUME NEW p \in Procs, Install(p), ~Exit(p)
        PROVE  plan' = plan
    BY <2>1 DEF Install, Prepare, Begin, WriteHooks, Skip, Capture, WriteBlock, SyncSkill,
                WriteState, ApplyFails, Finish, FinishRefused
  <2>2. ASSUME NEW p \in Procs, Restore(p), ~Exit(p), \A k \in Kinds : ~Plan(p, k)
        PROVE  plan' = plan
    BY <2>2 DEF Restore, Kinds, Apply, RestoreFile, RestoreFails, RestoreDone
  <2>3. ASSUME NEW p \in Procs, GiveUp(p) \/ Crash(p)
        PROVE  Exit(p)
    BY <2>3 DEF GiveUp, Crash
  <2>4. ASSUME Surroundings
        PROVE  plan' = plan
    BY <2>4 DEF Surroundings, ClearLock, UserEdit, Update, Damage, local
  <2> QED
    BY <1>1, <1>2, <1>3, <1>4, <2>1, <2>2, <2>3, <2>4 DEF Next
<1>5. CASE UNCHANGED vars
  BY <1>1, <1>5 DEF vars, local
<1> QED
  BY <1>4, <1>5

\* The version that an installer prepared stays its own and stays published.
LEMMA VersionsStep ==
  ASSUME Inv, SourcesKept, [Next]_vars, NEW q \in Procs,
         pc'[q] \in Installing \cup {"prepared"}
  PROVE  version'[q] \in Versions /\ preserved'[version'[q]] # "none"
<1> USE DEF Inv, TypeInv, TypeOK
<1>1. CASE version'[q] = version[q] /\ pc[q] \in Installing \cup {"prepared"}
  BY <1>1, SourcesStay DEF SourcesKept
<1>2. ASSUME NEW p \in Procs, Prepare(p)
      PROVE  version'[q] \in Versions /\ preserved'[version'[q]] # "none"
  <2>1. CASE q = p
    BY <1>2, <2>1 DEF Prepare
  <2>2. CASE q # p
    BY <1>1, <1>2, <2>2 DEF Prepare, Goto
  <2> QED
    BY <2>1, <2>2
<1>3. ASSUME NEW p \in Procs, Exit(p)
      PROVE  version'[q] = version[q] /\ pc[q] \in Installing \cup {"prepared"}
  BY <1>3 DEF Exit, Installing
<1>4. ASSUME NEW p \in Procs, Install(p), ~Prepare(p), ~Exit(p)
      PROVE  version'[q] = version[q] /\ pc[q] \in Installing \cup {"prepared"}
  <2>1. version' = version
    BY <1>4 DEF Install, Begin, WriteHooks, Skip, Capture, WriteBlock, SyncSkill, WriteState,
                ApplyFails, Finish, FinishRefused
  <2>2. pc[p] \in Installing \cup {"prepared"} /\ \A r \in Procs : r # p => pc'[r] = pc[r]
    BY <1>4 DEF Install, Begin, WriteHooks, Skip, Capture, WriteBlock, SyncSkill, WriteState,
                ApplyFails, Finish, FinishRefused, Goto, Installing
  <2> QED
    BY <2>1, <2>2
<1>5. ASSUME NEW p \in Procs, Restore(p), ~Exit(p)
      PROVE  version'[q] = version[q] /\ pc[q] \in Installing \cup {"prepared"}
  <2>1. version' = version
    BY <1>5 DEF Restore, Plan, Apply, RestoreFile, RestoreFails, RestoreDone
  <2>2. /\ pc'[p] \in {"planned", "restoring"}
        /\ \A r \in Procs : r # p => pc'[r] = pc[r]
    BY <1>5 DEF Restore, Plan, Apply, RestoreFile, RestoreFails, RestoreDone, Goto
  <2>3. q # p
    BY <2>2 DEF Installing
  <2> QED
    BY <2>1, <2>2, <2>3
<1>6. CASE Next
  <2>1. ASSUME NEW p \in Procs, GiveUp(p) \/ Crash(p)
        PROVE  Exit(p)
    BY <2>1 DEF GiveUp, Crash
  <2>2. ASSUME Surroundings
        PROVE  version' = version /\ pc' = pc
    BY <2>2 DEF Surroundings, ClearLock, UserEdit, Update, Damage, local
  <2> QED
    BY <1>1, <1>2, <1>3, <1>4, <1>5, <1>6, <2>1, <2>2 DEF Next
<1>7. CASE UNCHANGED vars
  BY <1>1, <1>7 DEF vars, local
<1> QED
  BY <1>6, <1>7

LEMMA SourcesInit == Init => SourcesKept
<1> SUFFICES ASSUME Init PROVE SourcesKept
  OBVIOUS
<1>1. ~Base(file[State]).saved
  <2>1. CASE file \in Unmanaged
    <3>1. file[State] = Absent
      BY <2>1, LifecycleConstants, TargetsDistinct DEF Unmanaged
    <3> QED
      BY <3>1 DEF Base, Blank
  <2>2. CASE file \in Predating
    <3>1. PICK v \in Versions : file[State] = [StateOf(v) EXCEPT !.saved = FALSE]
      BY <2>2, TargetsDistinct DEF Predating
    <3>2. ~file[State].saved
      BY <3>1 DEF StateOf
    <3> QED
      BY <3>2 DEF Base, Blank
  <2> QED
    BY <2>1, <2>2 DEF Init
<1>2. file[State] \in Content
  BY TypeInit, TargetsDistinct DEF TypeInv, TypeOK
<1>3. Kept(file[State], preserved)
  BY <1>1, <1>2, LifecycleConstants DEF Kept, Base, Content
<1>4. \A p \in Procs : plan[p][State] = Untracked
  BY TargetsDistinct DEF Init, NoCells
<1>5. \A p \in Procs : Kept(plan[p][State], preserved)
  BY <1>4, LifecycleConstants DEF Kept, Content
<1> QED
  BY <1>3, <1>5 DEF Init, SourcesKept, Installing

LEMMA SourcesNext == Inv /\ SourcesKept /\ [Next]_vars => SourcesKept'
<1> SUFFICES ASSUME Inv, SourcesKept, [Next]_vars PROVE SourcesKept'
  OBVIOUS
<1>1. \A c : Kept(c, preserved) => Kept(c, preserved')
  BY SourcesStay, KeptStays
<1>2. Kept(file'[State], preserved')
  BY <1>1, StateFileStep
<1>3. \A i \in DOMAIN journal' : Kept(journal'[i].before[State], preserved')
  BY <1>1, RowsStep
<1>4. \A p \in Procs : Kept(plan'[p][State], preserved')
  BY <1>1, PlansStep
<1>5. \A p \in Procs : pc'[p] \in Installing \cup {"prepared"} =>
                         version'[p] \in Versions /\ preserved'[version'[p]] # "none"
  BY VersionsStep
<1> QED
  BY <1>2, <1>3, <1>4, <1>5 DEF SourcesKept

\* The state file never names a source that was not published: a rollback that
\* returns to it is refused for damage only, never for a source nobody saved.
THEOREM StateNamesSource == Spec => []StateNamesPreserved
<1>1. Inv /\ SourcesKept => StateNamesPreserved
  <2> SUFFICES ASSUME Inv, SourcesKept, Base(file[State]).saved
               PROVE  preserved[file[State].ver] # "none"
    BY DEF StateNamesPreserved
  <2>1. Base(file[State]) = file[State] /\ file[State] \in Bytes
    BY TargetsDistinct DEF Base, Blank, Inv, TypeInv, TypeOK, Content
  <2> QED
    BY <2>1 DEF SourcesKept, Kept
<1> QED
  BY <1>1, InvAlways, SourcesInit, SourcesNext, PTL DEF Spec

-----------------------------------------------------------------------------
(* Interrupted installations are not restored *)

\* A prepared row has no recorded result, and what a restore has selected is
\* never prepared: an interrupted installation cannot be restored.
Complete ==
  /\ \A i \in DOMAIN journal :
       journal[i].status = "prepared" => journal[i].after = NoCells
  /\ \A p \in Procs : pc[p] \in {"planned", "restoring"} =>
       /\ Active(base[p]) # {}
       /\ \A i \in Selection(base[p], kind[p]) : base[p][i].status # "prepared"

\* Initially there are no rows and no plans.
LEMMA CompleteInit == Init => Complete
BY DEF Init, Complete

\* Completed rows have recorded results.
LEMMA RowsComplete ==
  ASSUME Inv, UnfinishedIsNewest, Complete, [Next]_vars,
         NEW i \in DOMAIN journal', journal'[i].status = "prepared"
  PROVE  journal'[i].after = NoCells
<1>1. journal \in Seq(Row)
  BY DEF Inv, TypeInv, TypeOK
<1>2. CASE journal' = journal
  BY <1>2 DEF Complete
<1>3. ASSUME NEW p \in Procs, Begin(p)
      PROVE  journal'[i].after = NoCells
  <2>1. PICK row : row.after = NoCells /\ journal' = Append(journal, row)
    BY <1>3 DEF Begin
  <2>2. (i \in DOMAIN journal /\ journal'[i] = journal[i]) \/ journal'[i] = row
    BY <1>1, <2>1
  <2> QED
    BY <2>1, <2>2 DEF Complete
<1>4. ASSUME NEW p \in Procs, Finish(p)
      PROVE  journal'[i].after = NoCells
  <2> DEFINE last == Len(journal)
  <2>1. last \in Nat \ {0} /\ pc[p] # "prepared"
    BY <1>1, <1>4 DEF Finish, Inv, OpenRow, Installing
  <2>2. PICK after :
          journal' \in {SubSeq(journal, 1, last - 1),
                       [journal EXCEPT ![last].status = pc[p], ![last].after = after]}
    BY <1>4 DEF Finish
  <2>3. CASE journal' = SubSeq(journal, 1, last - 1)
    BY <1>1, <2>1, <2>3 DEF Complete
  <2>4. CASE journal' = [journal EXCEPT ![last].status = pc[p], ![last].after = after]
    <3>1. journal[last] \in Row
      BY <1>1, <2>1
    <3>2. journal'[last].status = pc[p]
      BY <1>1, <2>1, <2>4, <3>1 DEF Row
    <3>3. DOMAIN journal' = DOMAIN journal /\ \A j \in DOMAIN journal : j # last => journal'[j] = journal[j]
      BY <1>1, <2>1, <2>4
    <3> QED
      BY <2>1, <3>2, <3>3 DEF Complete
  <2> QED
    BY <2>2, <2>3, <2>4
<1>5. ASSUME NEW p \in Procs, RestoreDone(p)
      PROVE  FALSE
  <2> DEFINE S == Selection(journal, kind[p])
  <2>1. i \in DOMAIN journal /\ i \notin S /\ journal[i].status = "prepared"
    BY <1>5, RestoreDoneTypes DEF Inv
  <2>2. i \in Active(journal) /\ i = Len(journal)
    BY <2>1 DEF Active, UnfinishedIsNewest, Unfinished
  <2>3. Active(journal) \in SUBSET (1 .. Len(journal)) /\ Len(journal) \in Nat
    BY <1>1 DEF Active
  <2>4. Max(Active(journal)) = i
    <3>1. /\ Max(Active(journal)) \in Active(journal)
          /\ \A j \in Active(journal) : j <= Max(Active(journal))
      BY <2>2, <2>3, MaxExists
    <3> QED
      BY <2>2, <2>3, <3>1
  <2> QED
    BY <2>1, <2>2, <2>4 DEF Selection
<1>6. CASE Next
  <2>1. ASSUME NEW p \in Procs, Install(p), ~Begin(p), ~Finish(p)
        PROVE  journal' = journal
    BY <2>1 DEF Install, Prepare, WriteHooks, Skip, Capture, WriteBlock, SyncSkill, WriteState,
                ApplyFails, FinishRefused, disk
  <2>2. ASSUME NEW p \in Procs, Restore(p), ~RestoreDone(p)
        PROVE  journal' = journal
    BY <2>2 DEF Restore, Plan, Apply, RestoreFile, RestoreFails, disk
  <2>3. ASSUME NEW p \in Procs, GiveUp(p) \/ Crash(p)
        PROVE  journal' = journal
    BY <2>3 DEF GiveUp, Crash, disk
  <2>4. ASSUME Surroundings
        PROVE  journal' = journal
    BY <2>4 DEF Surroundings, ClearLock, UserEdit, Update, Damage, disk
  <2> QED
    BY <1>2, <1>3, <1>4, <1>5, <1>6, <2>1, <2>2, <2>3, <2>4 DEF Next
<1>7. CASE UNCHANGED vars
  BY <1>2, <1>7 DEF vars, disk
<1> QED
  BY <1>6, <1>7

\* A plan selects rows with complete records, and keeps them.
LEMMA SelectedComplete ==
  ASSUME Inv, Complete, [Next]_vars, NEW q \in Procs, pc'[q] \in {"planned", "restoring"}
  PROVE  /\ Active(base'[q]) # {}
         /\ \A i \in Selection(base'[q], kind'[q]) : base'[q][i].status # "prepared"
<1> USE DEF Inv, TypeInv, TypeOK
<1>1. CASE base'[q] = base[q] /\ kind'[q] = kind[q] /\ pc[q] \in {"planned", "restoring"}
  BY <1>1 DEF Complete
<1>2. ASSUME NEW p \in Procs, NEW k \in Kinds, Plan(p, k)
      PROVE  /\ Active(base'[q]) # {}
             /\ \A i \in Selection(base'[q], kind'[q]) : base'[q][i].status # "prepared"
  <2>1. CASE q # p
    BY <1>1, <1>2, <2>1 DEF Plan, Goto
  <2>2. CASE q = p
    <3>1. base'[q] = journal /\ kind'[q] = k
      BY <1>2, <2>2 DEF Plan
    <3>2. Active(journal) # {} /\ \A i \in Selection(journal, k) : Recorded(journal[i])
      BY <1>2 DEF Plan
    <3>3. \A i \in Selection(journal, k) : i \in DOMAIN journal
      BY <3>2, SelectionType
    <3>4. \A i \in DOMAIN journal : Recorded(journal[i]) => journal[i].status # "prepared"
      <4>1. NoCells[Policy] = Untracked /\ Policy \in Targets
        BY TargetsDistinct DEF NoCells
      <4>2. \A i \in DOMAIN journal : journal[i].before[Policy] # Untracked
        BY DEF Tracked
      <4> QED
        BY <4>1, <4>2 DEF Complete, Recorded
    <3> QED
      BY <3>1, <3>2, <3>3, <3>4
  <2> QED
    BY <2>1, <2>2
<1>3. ASSUME NEW p \in Procs, Exit(p)
      PROVE  base'[q] = base[q] /\ kind'[q] = kind[q] /\ pc[q] \in {"planned", "restoring"}
  BY <1>3 DEF Exit
<1>4. ASSUME NEW p \in Procs, Install(p), ~Exit(p)
      PROVE  base'[q] = base[q] /\ kind'[q] = kind[q] /\ pc[q] \in {"planned", "restoring"}
  <2>1. kind' = kind /\ \A r \in Procs : r # p => pc'[r] = pc[r] /\ base'[r] = base[r]
    BY <1>4 DEF Install, Prepare, Begin, WriteHooks, Skip, Capture, WriteBlock, SyncSkill,
                WriteState, ApplyFails, Finish, FinishRefused, Goto
  <2>2. pc'[p] \notin {"planned", "restoring"}
    BY <1>4 DEF Install, Prepare, Begin, WriteHooks, Skip, Capture, WriteBlock, SyncSkill,
                WriteState, ApplyFails, Finish, FinishRefused, Goto
  <2> QED
    BY <2>1, <2>2
<1>5. ASSUME NEW p \in Procs, Restore(p), ~Exit(p), \A k \in Kinds : ~Plan(p, k)
      PROVE  base'[q] = base[q] /\ kind'[q] = kind[q] /\ pc[q] \in {"planned", "restoring"}
  BY <1>5 DEF Restore, Kinds, Apply, RestoreFile, RestoreFails, RestoreDone, Goto
<1>6. CASE Next
  <2>1. ASSUME NEW p \in Procs, GiveUp(p) \/ Crash(p)
        PROVE  Exit(p)
    BY <2>1 DEF GiveUp, Crash
  <2>2. ASSUME Surroundings
        PROVE  base' = base /\ kind' = kind /\ pc' = pc
    BY <2>2 DEF Surroundings, ClearLock, UserEdit, Update, Damage, local
  <2> QED
    BY <1>1, <1>2, <1>3, <1>4, <1>5, <1>6, <2>1, <2>2 DEF Next
<1>7. CASE UNCHANGED vars
  BY <1>1, <1>7 DEF vars, local
<1> QED
  BY <1>6, <1>7

\* One step of Complete.
LEMMA CompleteNext == Inv /\ UnfinishedIsNewest /\ Complete /\ [Next]_vars => Complete'
<1> SUFFICES ASSUME Inv, UnfinishedIsNewest, Complete, [Next]_vars PROVE Complete'
  OBVIOUS
<1>1. \A i \in DOMAIN journal' :
        journal'[i].status = "prepared" => journal'[i].after = NoCells
  BY RowsComplete
<1>2. \A p \in Procs : pc'[p] \in {"planned", "restoring"} =>
        /\ Active(base'[p]) # {}
        /\ \A i \in Selection(base'[p], kind'[p]) : base'[p][i].status # "prepared"
  BY SelectedComplete
<1> QED
  BY <1>1, <1>2 DEF Complete, NoCells

\* Complete holds throughout.
LEMMA CompleteAlways == Spec => [](Inv /\ UnfinishedIsNewest /\ Complete)
<1>1. Spec => [](Inv /\ UnfinishedIsNewest)
  BY InvAlways, UnfinishedNewest, PTL
<1> QED
  BY <1>1, CompleteInit, CompleteNext, PTL DEF Spec

-----------------------------------------------------------------------------
(* What a step changes *)

\* A step that leaves the targets, the journal and the history alone.
Quiet == UNCHANGED <<file, journal, blessed, baseline, edits>>

\* What a step does to the targets, the journal and the history.
LEMMA Moves ==
  ASSUME Inv, [Next]_vars
  PROVE  \/ Quiet
         \/ \E p \in Procs : \/ Begin(p) \/ Finish(p) \/ RestoreDone(p)
                             \/ \E f \in Targets : RestoreFile(p, f)
         \/ \E f \in Targets : UserEdit(f)
         \/ \E p \in Procs, f \in Targets, c \in Content :
              /\ pc[p] \in Installing
              /\ Write(f, c) /\ (Base(c).user = 0 \/ Base(c).user = Base(file[f]).user)
              /\ UNCHANGED <<journal, blessed, baseline, edits>>
<1> USE DEF Quiet
<1> DEFINE Puts(p, f, c) ==
             /\ pc[p] \in Installing
             /\ Write(f, c) /\ (Base(c).user = 0 \/ Base(c).user = Base(file[f]).user)
             /\ UNCHANGED <<journal, blessed, baseline, edits>>
<1>1. file \in [Targets -> Content] /\ checkout \in Versions
  BY DEF Inv, TypeInv, TypeOK
<1>2. \A f \in Targets : Base(file[f]) \in Bytes
  BY <1>1, BytesExcept DEF Base, Content
<1>3. ASSUME NEW p \in Procs, WriteHooks(p)
      PROVE  \E f \in Targets, c \in Content : Puts(p, f, c)
  <2> DEFINE c == MergeHooks(file[Hooks], file[State])
  <2>1. c \in Bytes /\ c \in Content
    BY <1>1, TargetsDistinct, BytesTypes DEF Content
  <2>2. Base(c) = c
    BY <2>1, LifecycleConstants DEF Base
  <2>3. c.user = Base(file[Hooks]).user
    BY <1>2, TargetsDistinct DEF MergeHooks, Bytes
  <2>4. Puts(p, Hooks, c)
    BY <1>3, <2>2, <2>3 DEF WriteHooks, Installing, bound, ghost
  <2> QED
    BY <2>1, <2>4, TargetsDistinct
<1>4. ASSUME NEW p \in Procs, WriteBlock(p)
      PROVE  \E f \in Targets, c \in Content : Puts(p, f, c)
  <2> DEFINE c == MergeBlock(file[Policy], captured[p])
  <2>0. captured[p] \in Versions
    BY <1>4 DEF WriteBlock, Inv, TypeInv, Remembered
  <2>1. c \in Bytes /\ c \in Content
    BY <1>1, <2>0, TargetsDistinct, BytesTypes DEF Content
  <2>2. Base(c) = c
    BY <2>1, LifecycleConstants DEF Base
  <2>3. c.user = Base(file[Policy]).user
    BY <1>2, TargetsDistinct DEF MergeBlock, Bytes
  <2>4. Puts(p, Policy, c)
    BY <1>4, <2>2, <2>3 DEF WriteBlock, Installing, bound, ghost
  <2> QED
    BY <2>1, <2>4, TargetsDistinct
<1>5. ASSUME NEW p \in Procs, NEW s \in Skills, SyncSkill(p, s)
      PROVE  \E f \in Targets, c \in Content : Puts(p, f, c)
  <2> DEFINE c == IF s \in Ships[captured[p]] THEN Shipped(captured[p]) ELSE Absent
  <2>0. captured[p] \in Versions
    BY <1>5 DEF SyncSkill, Inv, TypeInv, Remembered
  <2>1. Shipped(captured[p]) \in Bytes
    BY <1>1, <2>0, TargetsDistinct, BytesTypes
  <2>2. c \in Content /\ Base(c).user = 0
    BY <2>1, LifecycleConstants DEF Base, Content, Shipped, Blank
  <2>4. Puts(p, s, c)
    BY <1>5, <2>2 DEF SyncSkill, Installing, bound, ghost
  <2> QED
    BY <2>2, <2>4, TargetsDistinct
<1>6. ASSUME NEW p \in Procs, WriteState(p)
      PROVE  \E f \in Targets, c \in Content : Puts(p, f, c)
  <2> DEFINE c == StateOf(checkout)
  <2>1. c \in Bytes /\ c \in Content
    BY <1>1, TargetsDistinct, BytesTypes DEF Content
  <2>2. Base(c).user = 0
    BY <2>1, LifecycleConstants DEF Base, StateOf
  <2>4. Puts(p, State, c)
    BY <1>6, <2>2 DEF WriteState, Installing, bound, ghost
  <2> QED
    BY <2>1, <2>4, TargetsDistinct
<1>7. ASSUME NEW p \in Procs, Install(p)
      PROVE  \/ Quiet \/ Begin(p) \/ Finish(p)
             \/ \E f \in Targets, c \in Content : Puts(p, f, c)
  <2>1. Prepare(p) \/ Skip(p) \/ Capture(p) \/ ApplyFails(p) \/ FinishRefused(p) => Quiet
    BY DEF Prepare, Skip, Capture, ApplyFails, FinishRefused, disk, bound, ghost
  <2> HIDE DEF Quiet, Puts
  <2> QED
    BY <1>3, <1>4, <1>5, <1>6, <1>7, <2>1 DEF Install
<1>8. ASSUME NEW p \in Procs, Restore(p)
      PROVE  Quiet \/ RestoreDone(p) \/ \E f \in Targets : RestoreFile(p, f)
  <2>1. (\E k \in {"rollback", "uninstall"} : Plan(p, k)) \/ Apply(p) \/ RestoreFails(p) => Quiet
    BY DEF Plan, Apply, RestoreFails, disk, bound, ghost
  <2> HIDE DEF Quiet
  <2> QED
    BY <1>8, <2>1 DEF Restore
<1>9. ASSUME NEW p \in Procs, GiveUp(p) \/ Crash(p)
      PROVE  Quiet
  BY <1>9 DEF GiveUp, Crash, disk, bound, ghost
<1>10. ASSUME Surroundings
       PROVE  Quiet \/ \E f \in Targets : UserEdit(f)
  BY <1>10 DEF Surroundings, ClearLock, Update, Damage, disk, bound, ghost
<1>11. UNCHANGED vars => Quiet
  BY DEF vars, disk, bound, ghost
<1> HIDE DEF Quiet, Puts
<1>12. \/ Quiet
       \/ \E p \in Procs : \/ Begin(p) \/ Finish(p) \/ RestoreDone(p)
                           \/ \E f \in Targets : RestoreFile(p, f)
       \/ \E f \in Targets : UserEdit(f)
       \/ \E p \in Procs, f \in Targets, c \in Content : Puts(p, f, c)
  BY <1>7, <1>8, <1>9, <1>10, <1>11, Zenon DEF Next
<1> QED
  BY <1>12 DEF Puts

\* What a process remembers of its plan is new only when it plans.
LEMMA Memories ==
  ASSUME Inv, [Next]_vars, NEW q \in Procs, pc'[q] \in {"planned", "restoring"}
  PROVE  \/ \E k \in Kinds : Plan(q, k)
         \/ Apply(q)
         \/ \E f \in Targets : RestoreFile(q, f)
         \/ /\ pc'[q] = pc[q] /\ base'[q] = base[q] /\ plan'[q] = plan[q]
            /\ kind'[q] = kind[q] /\ seen'[q] = seen[q] /\ todo'[q] = todo[q]
<1> DEFINE Same(r) == /\ pc'[r] = pc[r] /\ base'[r] = base[r] /\ plan'[r] = plan[r]
                      /\ kind'[r] = kind[r] /\ seen'[r] = seen[r] /\ todo'[r] = todo[r]
           Idle(r) == pc'[r] \notin {"planned", "restoring"}
<1> USE DEF Inv, TypeInv, TypeOK
<1>1. ASSUME NEW p \in Procs, Install(p)
      PROVE  Idle(p) /\ \A r \in Procs \ {p} : Same(r)
  BY <1>1 DEF Install, Prepare, Begin, WriteHooks, Skip, Capture, WriteBlock, SyncSkill,
              WriteState, ApplyFails, Finish, FinishRefused, Goto, Exit
<1>2. ASSUME NEW p \in Procs, RestoreFails(p) \/ RestoreDone(p) \/ GiveUp(p) \/ Crash(p)
      PROVE  Idle(p) /\ \A r \in Procs \ {p} : Same(r)
  BY <1>2 DEF RestoreFails, RestoreDone, GiveUp, Crash, Exit
<1>3. ASSUME NEW p \in Procs, \/ \E k \in Kinds : Plan(p, k)
                              \/ Apply(p)
                              \/ \E f \in Targets : RestoreFile(p, f)
      PROVE  \A r \in Procs \ {p} : Same(r)
  BY <1>3 DEF Plan, Apply, RestoreFile, Goto
<1>4. ASSUME Surroundings \/ UNCHANGED vars
      PROVE  Same(q)
  BY <1>4 DEF Surroundings, ClearLock, UserEdit, Update, Damage, vars, local
<1> HIDE DEF Same, Idle
<1>5. Same(q) \/ \E p \in Procs : p = q /\ (Install(p) \/ Restore(p) \/ GiveUp(p) \/ Crash(p))
  BY <1>1, <1>2, <1>3, <1>4 DEF Next, Restore, Kinds
<1>6. CASE Same(q)
  BY <1>6 DEF Same
<1>7. CASE Install(q) \/ Restore(q) \/ GiveUp(q) \/ Crash(q)
  BY <1>1, <1>2, <1>7 DEF Restore, Kinds, Idle
<1> QED
  BY <1>5, <1>6, <1>7

-----------------------------------------------------------------------------
(* Where the plan of a restore comes from *)

\* A restore under way remembers where its plan comes from: every target it
\* writes back was, when it looked, as the newest selected row recorded it or
\* as the oldest one found it.
Planned ==
  \A p \in Procs : pc[p] \in {"planned", "restoring"} =>
    LET S == Selection(base[p], kind[p])
        d == Desired(base[p], S)
    IN  /\ plan[p] = IF kind[p] = "rollback" THEN Activated(d) ELSE d
        /\ kind[p] = "rollback" /\ Base(d[State]).saved => d[Hooks] # Absent
        /\ \A f \in Targets : d[f] # Untracked => seen[p][f] \in {Expected(base[p], S)[f], d[f]}
        /\ pc[p] = "restoring" => \A f \in todo[p] : plan[p][f] # seen[p][f]

\* Activation rewrites the commands of the state and hook files only: whoever
\* wrote the bytes, and whether there are any, stays.
LEMMA ActivatedKeeps ==
  ASSUME NEW d \in Cells, d[State] # Untracked, d[Hooks] # Untracked,
         Base(d[State]).saved => d[Hooks] # Absent
  PROVE  /\ Activated(d) = d \/ Absent \notin {d[State], d[Hooks]}
         /\ \A f \in Targets : Activated(d)[f] # d[f] =>
              f \in {State, Hooks} /\ Activated(d)[f] # Untracked
         /\ \A f \in Targets : d[f] # Untracked => Base(Activated(d)[f]).user = Base(d[f]).user
<1> DEFINE state == d[State]
           a == Activated(d)
<1>1. CASE state = Absent \/ ~Base(state).saved
  BY <1>1 DEF Activated
<1>2. CASE ~(state = Absent \/ ~Base(state).saved)
  <2>1. State \in Targets /\ Hooks \in Targets /\ State # Hooks
    BY DEF Targets, State, Hooks
  <2>2. state \in Bytes /\ Base(state) = state
    BY <1>2, <2>1 DEF Base, Cells, Cell, Content
  <2>3. d[Hooks] \in Bytes /\ d[Hooks] # Absent
    BY <1>2, <2>1, <2>2 DEF Cells, Cell, Content
  <2>4. a = [d EXCEPT ![State] = [state EXCEPT !.exec = {state.ver}],
                      ![Hooks] = [d[Hooks] EXCEPT !.exec = (@ \ state.exec) \cup {state.ver}]]
    BY <1>2, <2>1, Zenon DEF Activated
  <2>5. a[State].user = state.user /\ a[Hooks].user = d[Hooks].user
    BY <2>1, <2>2, <2>3, <2>4 DEF Cells, Bytes
  <2>6. \A f \in Targets \ {State, Hooks} : a[f] = d[f]
    BY <2>4 DEF Cells
  <2>7. {state.ver} \in SUBSET Sources /\ (d[Hooks].exec \ state.exec) \cup {state.ver} \in SUBSET Sources
    BY <1>2, <2>2, <2>3 DEF Bytes, Sources
  <2>8. a[State] \in Bytes /\ a[Hooks] \in Bytes
    BY <2>1, <2>2, <2>3, <2>4, <2>7, BytesExcept DEF Cells
  <2>9. Base(a[State]) = a[State] /\ Base(a[Hooks]) = a[Hooks] /\ Base(d[Hooks]) = d[Hooks]
    BY <2>3, <2>8, LifecycleConstants DEF Base
  <2>10. Untracked \notin Bytes
    BY LifecycleConstants DEF Content
  <2> QED
    BY <1>2, <2>2, <2>3, <2>5, <2>6, <2>8, <2>9, <2>10
<1> QED
  BY <1>1, <1>2

\* The originals of a plan, which its rows hold.
LEMMA Originals ==
  ASSUME Inv, NEW k \in Kinds, Active(journal) # {}
  PROVE  LET S == Selection(journal, k)
             d == Desired(journal, S)
         IN  /\ S \in SUBSET DOMAIN journal
             /\ d \in Cells /\ d[State] # Untracked /\ d[Hooks] # Untracked
             /\ \A f \in Targets : d[f] # Untracked =>
                  \E i \in Tracking(journal, S, f) :
                    d[f] = journal[i].before[f] /\ \A j \in Tracking(journal, S, f) : i <= j
             /\ \A f \in Targets : d[f] # Untracked =>
                  \E i \in DOMAIN journal : Expected(journal, S)[f] = journal[i].after[f]
             /\ \A f \in Targets : Tracking(journal, S, f) # {} => d[f] # Untracked
<1> DEFINE S == Selection(journal, k)
           d == Desired(journal, S)
<1>1. journal \in Seq(Row)
  BY DEF Inv, TypeInv, TypeOK
<1>2. S \in SUBSET DOMAIN journal /\ S # {}
  BY <1>1, SelectionType
<1>3. d \in Cells /\ \A f \in Targets : Tracking(journal, S, f) # {} => d[f] # Untracked
  BY <1>1, <1>2, DesiredType
<1>4. \A f \in {State, Hooks} : Tracking(journal, S, f) # {}
  BY <1>2 DEF Tracking, Inv, TypeInv, Tracked
<1>5. ASSUME NEW f \in Targets, d[f] # Untracked
      PROVE  /\ \E i \in Tracking(journal, S, f) :
                  d[f] = journal[i].before[f] /\ \A j \in Tracking(journal, S, f) : i <= j
             /\ \E i \in DOMAIN journal : Expected(journal, S)[f] = journal[i].after[f]
  <2> DEFINE T == Tracking(journal, S, f)
  <2>1. T # {}
    BY <1>5 DEF Desired
  <2>2. T \in SUBSET Nat /\ T \in SUBSET (1 .. Len(journal)) /\ Len(journal) \in Nat
    BY <1>1, <1>2, TrackingType
  <2>3. Min(T) \in T /\ \A j \in T : Min(T) <= j
    BY <2>1, <2>2, MinExists
  <2>4. Max(T) \in DOMAIN journal
    <3>1. Max(T) \in T
      BY <2>1, <2>2, MaxExists
    <3> QED
      BY <1>1, <2>2, <3>1
  <2>5. d[f] = journal[Min(T)].before[f] /\ Expected(journal, S)[f] = journal[Max(T)].after[f]
    BY <2>1 DEF Desired, Expected
  <2> QED
    BY <2>3, <2>4, <2>5
<1> QED
  BY <1>2, <1>3, <1>4, <1>5, TargetsDistinct

\* A plan is made once, and its memory kept until the process ends.
LEMMA PlannedNext ==
  ASSUME Inv, Planned, [Next]_vars
  PROVE  Planned'
<1> DEFINE Sound(r, k, t, s, todos, label) ==
      LET S == Selection(r, k)
          d == Desired(r, S)
      IN  /\ t = IF k = "rollback" THEN Activated(d) ELSE d
          /\ k = "rollback" /\ Base(d[State]).saved => d[Hooks] # Absent
          /\ \A f \in Targets : d[f] # Untracked => s[f] \in {Expected(r, S)[f], d[f]}
          /\ label = "restoring" => \A f \in todos : t[f] # s[f]
<1> USE DEF Inv, TypeInv, TypeOK
<1>1. \A q \in Procs : pc[q] \in {"planned", "restoring"} =>
        Sound(base[q], kind[q], plan[q], seen[q], todo[q], pc[q])
  BY Zenon DEF Planned
<1>2. ASSUME NEW q \in Procs, pc'[q] \in {"planned", "restoring"}
      PROVE  Sound(base'[q], kind'[q], plan'[q], seen'[q], todo'[q], pc'[q])
  <2>1. ASSUME NEW k \in Kinds, Plan(q, k)
        PROVE  Sound(base'[q], kind'[q], plan'[q], seen'[q], todo'[q], pc'[q])
    <3> DEFINE S == Selection(journal, k)
               d == Desired(journal, S)
    <3>1. d \in Cells /\ d[State] # Untracked /\ d[Hooks] # Untracked
      BY <2>1, Originals DEF Plan
    <3>2. k = "rollback" => Activatable(d)
      BY <2>1 DEF Plan
    <3>3. k = "rollback" /\ Base(d[State]).saved => d[Hooks] # Absent
      BY <3>1, <3>2, Zenon DEF Activatable, Base, Blank
    <3>4. \A f \in Targets : d[f] # Untracked => file[f] \in {Expected(journal, S)[f], d[f]}
      BY <2>1, Zenon DEF Plan, Conflicts
    <3>5. seen' = [seen EXCEPT ![q] = [f \in Targets |-> IF d[f] = Untracked THEN Untracked ELSE file[f]]]
      BY <2>1, Zenon DEF Plan
    <3>6. plan' = [plan EXCEPT ![q] = IF k = "rollback" THEN Activated(d) ELSE d]
      BY <2>1, Zenon DEF Plan
    <3>7. /\ base' = [base EXCEPT ![q] = journal] /\ kind' = [kind EXCEPT ![q] = k]
          /\ pc' = [pc EXCEPT ![q] = "planned"]
      BY <2>1, Zenon DEF Plan, Goto
    <3>8. /\ base'[q] = journal /\ kind'[q] = k /\ pc'[q] = "planned"
          /\ plan'[q] = IF k = "rollback" THEN Activated(d) ELSE d
          /\ \A f \in Targets : d[f] # Untracked => seen'[q][f] = file[f]
      BY <3>5, <3>6, <3>7
    <3> HIDE DEF d, S
    <3>9. \A f \in Targets : d[f] # Untracked => seen'[q][f] \in {Expected(journal, S)[f], d[f]}
      BY <3>4, <3>8
    <3> QED
      BY <3>3, <3>8, <3>9, Zenon DEF d, S
  <2>2. CASE Apply(q)
    <3>1. /\ base'[q] = base[q] /\ kind'[q] = kind[q] /\ plan'[q] = plan[q] /\ seen'[q] = seen[q]
          /\ pc[q] = "planned"
      BY <2>2 DEF Apply
    <3>2. \A f \in todo'[q] : plan'[q][f] # seen'[q][f]
      BY <2>2 DEF Apply
    <3>3. Sound(base[q], kind[q], plan[q], seen[q], todo[q], pc[q])
      BY <1>1, <3>1, Zenon
    <3> QED
      BY <3>1, <3>2, <3>3, Zenon
  <2>3. ASSUME NEW g \in Targets, RestoreFile(q, g)
        PROVE  Sound(base'[q], kind'[q], plan'[q], seen'[q], todo'[q], pc'[q])
    <3>1. /\ base'[q] = base[q] /\ kind'[q] = kind[q] /\ plan'[q] = plan[q] /\ seen'[q] = seen[q]
          /\ pc[q] = "restoring"
      BY <2>3 DEF RestoreFile
    <3>2. \A f \in todo'[q] : f \in todo[q]
      BY <2>3 DEF RestoreFile
    <3>3. Sound(base[q], kind[q], plan[q], seen[q], todo[q], pc[q])
      BY <1>1, <3>1, Zenon
    <3> QED
      BY <3>1, <3>2, <3>3, Zenon
  <2>4. CASE /\ pc'[q] = pc[q] /\ base'[q] = base[q] /\ plan'[q] = plan[q]
             /\ kind'[q] = kind[q] /\ seen'[q] = seen[q] /\ todo'[q] = todo[q]
    BY <1>1, <1>2, <2>4, Zenon
  <2> QED
    BY <1>2, <2>1, <2>2, <2>3, <2>4, Memories
<1> QED
  BY <1>2, Zenon DEF Planned

-----------------------------------------------------------------------------
(* Edits are told from recorded bytes *)

\* The user's edits are numbered: no bytes carry a number still to come.
UpTo(c, n) == c # Untracked => Base(c).user <= n
Numbered ==
  /\ \A f \in Targets : UpTo(file[f], edits) /\ UpTo(blessed[f], edits)
  /\ \A i \in DOMAIN journal, f \in Targets : UpTo(journal[i].before[f], edits)
  /\ \A p \in Procs, f \in Targets :
       pc[p] \in {"planned", "restoring"} => UpTo(plan[p][f], edits)

\* Unless an installation is open or was interrupted, what differs from the bytes
\* a tool left is a deletion, or an edit newer than every recorded original.
Newer(c, b) == c # Absent /\ (b # Untracked => Base(b).user < c.user)
EditsAreNew ==
  (\A i \in DOMAIN journal : journal[i].status # "prepared") =>
    \A f \in Targets : \/ file[f] \in {blessed[f], Absent}
                       \/ \A i \in DOMAIN journal : Newer(file[f], journal[i].before[f])

\* The user's part of any recorded bytes is a number.
LEMMA UserIsNumber ==
  ASSUME NEW c \in Cell, c # Untracked
  PROVE  Base(c).user \in Nat
BY BytesExcept DEF Cell, Content, Base, Bytes

\* A bound on the edits of some bytes stays one as edits are made.
LEMMA UpToLater ==
  ASSUME NEW c \in Cell, NEW n \in Nat, NEW m \in Nat, n <= m, UpTo(c, n)
  PROVE  UpTo(c, m)
BY UserIsNumber DEF UpTo

\* An edit gets the next number, a deletion none.
LEMMA EditedNumber ==
  ASSUME Inv, NEW f \in Targets, UserEdit(f)
  PROVE  /\ edits' = edits + 1 /\ file'[f] \in Content
         /\ \A g \in Targets : g # f => file'[g] = file[g]
         /\ file'[f] = Absent
              \/ (file'[f] # Absent /\ file'[f].user = edits' /\ Base(file'[f]) = file'[f])
         /\ Base(file'[f]).saved => Base(file[f]).saved
         /\ UNCHANGED <<journal, blessed, pc, base, plan, kind, seen, todo>>
<1> DEFINE c == Base(file[f])
           e == [c EXCEPT !.user = edits + 1]
<1>1. c \in Bytes /\ edits + 1 \in Nat /\ file \in [Targets -> Content]
  BY BytesExcept DEF Inv, TypeInv, TypeOK, Base, Content
<1>2. e \in Bytes /\ e.user = edits + 1 /\ e.saved = c.saved
  <2> HIDE DEF c
  <2>1. e \in Bytes
    BY <1>1, BytesExcept, Zenon
  <2> QED
    BY <1>1, <2>1 DEF Bytes
<1>3. e # Absent /\ Base(e) = e
  BY <1>2, LifecycleConstants DEF Base
<1>4. Base(Absent).saved = FALSE
  BY DEF Base, Blank
<1>5. file' = [file EXCEPT ![f] = e] \/ file' = [file EXCEPT ![f] = Absent]
  BY DEF UserEdit, Write
<1>6. edits' = edits + 1 /\ UNCHANGED <<journal, blessed, pc, base, plan, kind, seen, todo>>
  BY DEF UserEdit, local
<1> HIDE DEF e
<1>7. file'[f] \in {e, Absent} /\ \A g \in Targets : g # f => file'[g] = file[g]
  BY <1>1, <1>5
<1> QED
  BY <1>2, <1>3, <1>4, <1>6, <1>7 DEF Content, c

\* The row that an installation appends holds the targets as they are.
LEMMA BeginRow ==
  ASSUME Inv, NEW p \in Procs, Begin(p)
  PROVE  \E row \in Row :
           /\ journal' = Append(journal, row) /\ row.status = "prepared"
           /\ \A f \in Targets : row.before[f] \in {file[f], Untracked}
           /\ \A f \in {Policy, State, Hooks} : row.before[f] = file[f]
<1> DEFINE tracked == TargetSet(file[State], checkout)
           before == [f \in Targets |-> IF f \in tracked THEN file[f] ELSE Untracked]
           row == [status |-> "prepared", after |-> NoCells, before |-> before]
<1>1. before \in Cells
  BY DEF Cells, Cell, Inv, TypeInv, TypeOK
<1>2. \A f \in {Policy, State, Hooks} : before[f] = file[f]
  BY TargetsDistinct DEF TargetSet
<1>3. journal' = Append(journal, row)
  BY DEF Begin
<1>4. \A f \in Targets : before[f] \in {file[f], Untracked}
  OBVIOUS
<1> HIDE DEF before
<1>5. row \in Row
  BY <1>1, NoCellsType DEF Row, Statuses
<1> QED
  BY <1>2, <1>3, <1>4, <1>5

\* Completing an installation drops its row or records its result in it.
LEMMA FinishRows ==
  ASSUME Inv, NEW p \in Procs, Finish(p)
  PROVE  /\ Len(journal) > 0 /\ journal[Len(journal)].status = "prepared"
         /\ blessed' = file /\ UNCHANGED <<file, baseline, edits>>
         /\ \/ /\ journal' = SubSeq(journal, 1, Len(journal) - 1)
               /\ \A f \in Targets : journal[Len(journal)].before[f] # Untracked =>
                    journal[Len(journal)].before[f] = file[f]
            \/ /\ DOMAIN journal' = DOMAIN journal
               /\ \A i \in DOMAIN journal : journal'[i].before = journal[i].before
               /\ Active(journal') = Active(journal)
<1> DEFINE last == Len(journal)
           row == journal[last]
           after == [f \in Targets |-> IF row.before[f] = Untracked THEN Untracked ELSE file[f]]
           done == [journal EXCEPT ![last].status = pc[p], ![last].after = after]
<1>1. journal \in Seq(Row) /\ last \in Nat
  BY DEF Inv, TypeInv, TypeOK
<1>2. pc[p] \in {"installed", "failed"}
  BY DEF Finish
<1>3. last > 0 /\ row.status = "prepared"
  BY <1>2 DEF Inv, OpenRow, Installing
<1>4. blessed' = file /\ UNCHANGED <<file, baseline, edits>>
  BY DEF Finish, bound
<1>5. CASE after = row.before
  <2>1. \A f \in Targets : row.before[f] # Untracked => row.before[f] = file[f]
    BY <1>5
  <2>2. journal' \in {SubSeq(journal, 1, last - 1), done}
    BY DEF Finish
  <2>3. CASE journal' = SubSeq(journal, 1, last - 1)
    BY <1>3, <1>4, <2>1, <2>3
  <2>4. CASE journal' = done
    BY <1>1, <1>2, <1>3, <1>4, <2>4 DEF Row, Active
  <2> QED
    BY <2>2, <2>3, <2>4
<1>6. CASE after # row.before
  <2>1. journal' = done
    BY <1>6 DEF Finish
  <2> QED
    BY <1>1, <1>2, <1>3, <1>4, <2>1 DEF Row, Active
<1> QED
  BY <1>5, <1>6

\* Only an edit brings a new number; every other step moves bytes around.
LEMMA NumberedNext ==
  ASSUME Inv, Numbered, [Next]_vars
  PROVE  Numbered'
<1> DEFINE Counted ==
      /\ \A f \in Targets : UpTo(file'[f], edits') /\ UpTo(blessed'[f], edits')
      /\ \A i \in DOMAIN journal', f \in Targets : UpTo(journal'[i].before[f], edits')
<1>1. /\ file \in [Targets -> Content] /\ blessed \in [Targets -> Content]
      /\ journal \in Seq(Row) /\ edits \in Nat
      /\ plan \in [Procs -> Cells] /\ Content \subseteq Cell
  BY DEF Inv, TypeInv, TypeOK, Cell
<1>2. Inv'
  BY InvNext
<1>3. edits' \in Nat /\ edits <= edits'
  <2>1. edits' = edits \/ edits' = edits + 1
    BY Moves DEF Quiet, Begin, Finish, RestoreDone, RestoreFile, UserEdit, bound
  <2> QED
    BY <1>1, <2>1
<1>4. \A f \in Targets : UpTo(file[f], edits') /\ UpTo(blessed[f], edits')
  BY <1>1, <1>3, UpToLater DEF Numbered
<1>5. ASSUME NEW i \in DOMAIN journal, NEW f \in Targets
      PROVE  UpTo(journal[i].before[f], edits')
  <2>1. journal[i] \in Row
    BY <1>1
  <2>2. journal[i].before[f] \in Cell
    BY <2>1 DEF Row, Cells
  <2> QED
    BY <1>1, <1>3, <2>2, UpToLater DEF Numbered
<1>6. UpTo(Untracked, edits')
  BY DEF UpTo
<1>7. Counted
  <2>1. CASE Quiet
    BY <1>4, <1>5, <2>1 DEF Quiet
  <2>2. ASSUME NEW p \in Procs, Begin(p)
        PROVE  Counted
    <3>1. PICK row \in Row : /\ journal' = Append(journal, row)
                             /\ \A f \in Targets : row.before[f] \in {file[f], Untracked}
      BY <2>2, BeginRow
    <3>2. \A i \in DOMAIN journal' : (i \in DOMAIN journal /\ journal'[i] = journal[i]) \/ journal'[i] = row
      BY <1>1, <3>1
    <3>3. UNCHANGED <<file, blessed>>
      BY <2>2 DEF Begin
    <3> QED
      BY <1>4, <1>5, <1>6, <3>1, <3>2, <3>3
  <2>3. ASSUME NEW p \in Procs, Finish(p)
        PROVE  Counted
    <3>1. \A i \in DOMAIN journal' : i \in DOMAIN journal /\ journal'[i].before = journal[i].before
      BY <1>1, <2>3, FinishRows
    <3>2. file' = file /\ blessed' = file
      BY <2>3, FinishRows
    <3> QED
      BY <1>4, <1>5, <3>1, <3>2
  <2>4. ASSUME NEW p \in Procs, RestoreDone(p)
        PROVE  Counted
    <3>1. \A i \in DOMAIN journal' : i \in DOMAIN journal /\ journal'[i].before = journal[i].before
      BY <2>4, RestoreDoneTypes DEF Inv
    <3>2. file' = file /\ blessed' = blessed
      BY <2>4 DEF RestoreDone, ghost
    <3> QED
      BY <1>4, <1>5, <3>1, <3>2
  <2>5. ASSUME NEW p \in Procs, NEW f \in Targets, RestoreFile(p, f)
        PROVE  Counted
    <3>1. UpTo(plan[p][f], edits) /\ plan[p][f] \in Cell
      BY <1>1, <2>5 DEF Numbered, RestoreFile, Cells
    <3>2. UpTo(plan[p][f], edits')
      BY <1>1, <1>3, <3>1, UpToLater
    <3>3. \A g \in Targets : /\ file'[g] \in {file[g], plan[p][f]}
                             /\ blessed'[g] \in {blessed[g], plan[p][f]}
      BY <1>1, <2>5 DEF RestoreFile, Write
    <3>4. journal' = journal
      BY <2>5 DEF RestoreFile
    <3> QED
      BY <1>4, <1>5, <3>2, <3>3, <3>4
  <2>6. ASSUME NEW f \in Targets, UserEdit(f)
        PROVE  Counted
    <3>1. UpTo(file'[f], edits')
      BY <1>3, <2>6, EditedNumber DEF UpTo, Base, Blank
    <3> QED
      BY <1>4, <1>5, <2>6, <3>1, EditedNumber
  <2>7. ASSUME NEW p \in Procs, NEW f \in Targets, NEW c \in Content, Write(f, c),
               Base(c).user = 0 \/ Base(c).user = Base(file[f]).user,
               UNCHANGED <<journal, blessed, baseline, edits>>
        PROVE  Counted
    <3>1. UpTo(c, edits')
      <4>1. file[f] # Untracked /\ c # Untracked
        BY <1>1, LifecycleConstants
      <4>2. Base(file[f]).user <= edits'
        BY <1>4, <4>1 DEF UpTo
      <4> QED
        BY <1>3, <2>7, <4>2 DEF UpTo
    <3>2. \A g \in Targets : file'[g] \in {file[g], c}
      BY <1>1, <2>7 DEF Write
    <3> QED
      BY <1>4, <1>5, <2>7, <3>1, <3>2
  <2> QED
    BY <2>1, <2>2, <2>3, <2>4, <2>5, <2>6, <2>7, Moves
<1>8. ASSUME NEW q \in Procs, NEW f \in Targets, pc'[q] \in {"planned", "restoring"}
      PROVE  UpTo(plan'[q][f], edits')
  <2>1. ASSUME NEW k \in Kinds, Plan(q, k)
        PROVE  UpTo(plan'[q][f], edits')
    <3> DEFINE S == Selection(journal, k)
               d == Desired(journal, S)
    <3>1. /\ d \in Cells /\ d[State] # Untracked /\ d[Hooks] # Untracked
          /\ \A g \in Targets : d[g] # Untracked =>
               \E i \in DOMAIN journal : d[g] = journal[i].before[g]
      <4>1. Active(journal) # {}
        BY <2>1 DEF Plan
      <4>2. /\ S \in SUBSET DOMAIN journal
            /\ d \in Cells /\ d[State] # Untracked /\ d[Hooks] # Untracked
            /\ \A g \in Targets : d[g] # Untracked =>
                 \E i \in Tracking(journal, S, g) : d[g] = journal[i].before[g]
        BY <4>1, Originals, Zenon
      <4> HIDE DEF S, d
      <4> QED
        BY <4>2 DEF Tracking
    <3>2. /\ k = "rollback" => Activatable(d)
          /\ k = "rollback" /\ Base(d[State]).saved => d[Hooks] # Absent
      BY <2>1, Zenon DEF Plan, Activatable, Base, Blank
    <3>3. plan' = [plan EXCEPT ![q] = IF k = "rollback" THEN Activated(d) ELSE d]
      BY <2>1, Zenon DEF Plan
    <3> HIDE DEF d
    <3>4. plan'[q] = IF k = "rollback" THEN Activated(d) ELSE d
      BY <1>1, <3>3
    <3>5. CASE d[f] = Untracked
      <4>1. plan'[q][f] = Untracked
        BY <3>1, <3>2, <3>4, <3>5, ActivatedType
      <4> QED
        BY <1>6, <4>1
    <3>6. CASE d[f] # Untracked
      <4>1. UpTo(d[f], edits')
        BY <1>5, <3>1, <3>6
      <4>2. Base(plan'[q][f]).user = Base(d[f]).user
        BY <3>1, <3>2, <3>4, <3>6, ActivatedKeeps
      <4> QED
        BY <3>6, <4>1, <4>2 DEF UpTo
    <3> QED
      BY <3>5, <3>6
  <2>2. CASE pc[q] \in {"planned", "restoring"} /\ plan'[q] = plan[q]
    <3>1. plan[q][f] \in Cell /\ UpTo(plan[q][f], edits)
      BY <1>1, <2>2 DEF Cells, Numbered
    <3> QED
      BY <1>1, <1>3, <2>2, <3>1, UpToLater
  <2> QED
    BY <1>8, <2>1, <2>2, Memories DEF Apply, RestoreFile
<1> QED
  BY <1>7, <1>8 DEF Numbered

\* While a plan's journal stands no installation is open or interrupted: it
\* would be the newest row, and selected.
LEMMA NoneOpen ==
  ASSUME Inv, UnfinishedIsNewest, Complete, NEW q \in Procs,
         pc[q] \in {"planned", "restoring"}, journal = base[q]
  PROVE  \A i \in DOMAIN journal : journal[i].status # "prepared"
<1> SUFFICES ASSUME NEW i \in DOMAIN journal, journal[i].status = "prepared"
             PROVE  FALSE
  OBVIOUS
<1>1. journal \in Seq(Row) /\ Active(journal) \in SUBSET (1 .. Len(journal)) /\ Len(journal) \in Nat
  BY DEF Inv, TypeInv, TypeOK, Active
<1>2. i \in Active(journal) /\ i = Len(journal)
  BY DEF Active, UnfinishedIsNewest, Unfinished
<1>3. /\ Max(Active(journal)) \in Active(journal)
      /\ \A j \in Active(journal) : j <= Max(Active(journal))
  BY <1>1, <1>2, MaxExists
<1>4. Max(Active(journal)) = i
  BY <1>1, <1>2, <1>3
<1>5. i \in Selection(journal, kind[q])
  BY <1>2, <1>4 DEF Selection
<1> QED
  BY <1>5 DEF Complete

\* A tool's bytes are recorded when it ends, an edit is newer than all recorded.
LEMMA EditsAreNewNext ==
  ASSUME Inv, UnfinishedIsNewest, Complete, Numbered, EditsAreNew, [Next]_vars
  PROVE  EditsAreNew'
<1> SUFFICES ASSUME \A i \in DOMAIN journal' : journal'[i].status # "prepared",
                    NEW f \in Targets
             PROVE  \/ file'[f] \in {blessed'[f], Absent}
                    \/ \A i \in DOMAIN journal' : Newer(file'[f], journal'[i].before[f])
  BY DEF EditsAreNew
<1> DEFINE Told == \/ file[f] \in {blessed[f], Absent}
                   \/ \A i \in DOMAIN journal : Newer(file[f], journal[i].before[f])
           Goal == \/ file'[f] \in {blessed'[f], Absent}
                   \/ \A i \in DOMAIN journal' : Newer(file'[f], journal'[i].before[f])
<1>1. /\ file \in [Targets -> Content] /\ blessed \in [Targets -> Content]
      /\ journal \in Seq(Row) /\ edits \in Nat
  BY DEF Inv, TypeInv, TypeOK
<1>2. CASE Quiet
  BY <1>2 DEF Quiet, EditsAreNew
<1>3. ASSUME NEW p \in Procs, Begin(p)
      PROVE  Goal
  <2>1. PICK row \in Row : journal' = Append(journal, row) /\ row.status = "prepared"
    BY <1>3, BeginRow
  <2>2. Len(journal) + 1 \in DOMAIN journal' /\ journal'[Len(journal) + 1] = row
    BY <1>1, <2>1
  <2> QED
    BY <2>1, <2>2
<1>4. ASSUME NEW p \in Procs, Finish(p)
      PROVE  Goal
  BY <1>4, FinishRows
<1>5. ASSUME NEW p \in Procs, RestoreDone(p)
      PROVE  Goal
  <2>1. UNCHANGED <<file, blessed>> /\ pc[p] = "restoring" /\ journal = base[p]
    BY <1>5 DEF RestoreDone, ghost
  <2>2. Told
    BY <2>1, NoneOpen DEF EditsAreNew
  <2>3. \A i \in DOMAIN journal' : i \in DOMAIN journal /\ journal'[i].before = journal[i].before
    BY <1>5, RestoreDoneTypes DEF Inv
  <2> QED
    BY <2>1, <2>2, <2>3
<1>6. ASSUME NEW p \in Procs, NEW g \in Targets, RestoreFile(p, g)
      PROVE  Goal
  <2>1. journal' = journal
    BY <1>6 DEF RestoreFile
  <2>2. Told
    BY <2>1 DEF EditsAreNew
  <2>3. file' = [file EXCEPT ![g] = plan[p][g]] /\ blessed' = [blessed EXCEPT ![g] = plan[p][g]]
    BY <1>6 DEF RestoreFile, Write
  <2>4. CASE g = f
    BY <1>1, <2>3, <2>4
  <2>5. CASE g # f
    BY <1>1, <2>1, <2>2, <2>3, <2>5
  <2> QED
    BY <2>4, <2>5
<1>7. ASSUME NEW g \in Targets, UserEdit(g)
      PROVE  Goal
  <2>1. journal' = journal /\ blessed' = blessed
    BY <1>7, EditedNumber
  <2>2. Told
    BY <2>1 DEF EditsAreNew
  <2>3. CASE g = f
    <3>1. CASE file'[f] = Absent
      BY <3>1
    <3>2. CASE file'[f] # Absent /\ file'[f].user = edits'
      <4>1. \A i \in DOMAIN journal : UpTo(journal[i].before[f], edits)
        BY DEF Numbered
      <4>2. edits' = edits + 1
        BY <1>7, EditedNumber
      <4>3. ASSUME NEW i \in DOMAIN journal, journal[i].before[f] # Untracked
            PROVE  Base(journal[i].before[f]).user < file'[f].user
        <5>1. journal[i] \in Row
          BY <1>1
        <5>2. journal[i].before[f] \in Cell
          BY <5>1 DEF Row, Cells
        <5>3. Base(journal[i].before[f]).user \in Nat
          BY <4>3, <5>2, UserIsNumber
        <5>4. Base(journal[i].before[f]).user <= edits
          BY <4>1, <4>3 DEF UpTo
        <5> QED
          BY <1>1, <3>2, <4>2, <5>3, <5>4
      <4> QED
        BY <2>1, <3>2, <4>3 DEF Newer
    <3> QED
      BY <1>7, <2>3, <3>1, <3>2, EditedNumber
  <2>4. CASE g # f
    BY <1>7, <2>1, <2>2, <2>4, EditedNumber
  <2> QED
    BY <2>3, <2>4
<1>8. ASSUME NEW p \in Procs, pc[p] \in Installing, UNCHANGED journal
      PROVE  Goal
  <2>1. journal \in Seq(Row) /\ Len(journal) > 0 /\ journal[Len(journal)].status = "prepared"
    BY <1>1, <1>8 DEF Inv, OpenRow
  <2>2. Len(journal) \in DOMAIN journal
    BY <2>1
  <2> QED
    BY <1>8, <2>1, <2>2
<1> QED
  BY <1>2, <1>3, <1>4, <1>5, <1>6, <1>7, <1>8, Moves

\* A target that a restore finds as it was before the selected installations,
\* and that is not missing, is as a tool left it: the user's edits are newer.
LEMMA OriginalIsBlessed ==
  ASSUME Inv, UnfinishedIsNewest, Complete, EditsAreNew, NEW q \in Procs, NEW f \in Targets,
         pc[q] \in {"planned", "restoring"}, journal = base[q],
         Desired(journal, Selection(journal, kind[q]))[f] # Untracked, file[f] # Absent,
         Base(file[f]).user = Base(Desired(journal, Selection(journal, kind[q]))[f]).user
  PROVE  file[f] = blessed[f]
<1> DEFINE S == Selection(journal, kind[q])
           d == Desired(journal, S)
<1>1. Active(journal) # {} /\ kind[q] \in Kinds
  BY DEF Complete, Inv, TypeInv, TypeOK
<1>2. \E i \in DOMAIN journal : d[f] = journal[i].before[f]
  <2>1. /\ S \in SUBSET DOMAIN journal
        /\ \A g \in Targets : d[g] # Untracked =>
             \E i \in Tracking(journal, S, g) :
               d[g] = journal[i].before[g] /\ \A j \in Tracking(journal, S, g) : i <= j
    BY <1>1, Originals, Zenon
  <2>2. d[f] # Untracked
    OBVIOUS
  <2> HIDE DEF S, d
  <2> QED
    BY <2>1, <2>2 DEF Tracking
<1>3. PICK i \in DOMAIN journal : d[f] = journal[i].before[f]
  BY <1>2
<1>4. Base(file[f]) = file[f] /\ file[f] \in Cell /\ file[f] # Untracked
  BY LifecycleConstants DEF Base, Inv, TypeInv, TypeOK, Cell
<1>5. file[f].user \in Nat
  BY <1>4, UserIsNumber
<1>6. \/ file[f] \in {blessed[f], Absent}
      \/ Newer(file[f], journal[i].before[f])
  BY NoneOpen DEF EditsAreNew
<1> HIDE DEF d
<1>7. Newer(file[f], d[f]) => Base(d[f]).user < file[f].user
  BY DEF Newer, d
<1>8. Base(d[f]).user = file[f].user
  BY <1>4 DEF d
<1> QED
  BY <1>3, <1>5, <1>6, <1>7, <1>8

\* The strengthening of RestoreSparesEdits.
EditInv == Planned /\ Numbered /\ EditsAreNew

\* The bytes a restore replaces are the newest recorded, or a tool's.
LEMMA RestoreSpares ==
  ASSUME Inv, UnfinishedIsNewest, Complete, EditInv,
         NEW p \in Procs, NEW f \in Targets, RestoreFile(p, f)
  PROVE  \/ file[f] = blessed[f]
         \/ \E i \in DOMAIN journal : file[f] = journal[i].after[f]
<1> DEFINE S == Selection(journal, kind[p])
           d == Desired(journal, S)
<1>1. pc[p] = "restoring" /\ f \in todo[p] /\ file[f] = seen[p][f]
  BY DEF RestoreFile
<1>2. journal = base[p] /\ plan[p][f] # Untracked /\ kind[p] \in Kinds
  BY <1>1 DEF Inv, JournalIsOwned, Critical, Labels, TypeInv, Remembered, TypeOK
<1>3. /\ plan[p] = IF kind[p] = "rollback" THEN Activated(d) ELSE d
      /\ kind[p] = "rollback" /\ Base(d[State]).saved => d[Hooks] # Absent
      /\ d[f] # Untracked => file[f] \in {Expected(journal, S)[f], d[f]}
      /\ plan[p][f] # file[f]
  BY <1>1, <1>2, Zenon DEF EditInv, Planned
<1>4. Active(journal) # {}
  BY <1>1, <1>2 DEF Complete
<1>5. /\ d \in Cells /\ d[State] # Untracked /\ d[Hooks] # Untracked
      /\ d[f] # Untracked => \E i \in DOMAIN journal : Expected(journal, S)[f] = journal[i].after[f]
  BY <1>2, <1>4, Originals, Zenon
<1>6. kind[p] = "rollback" => /\ Activated(d) = d \/ Absent \notin {d[State], d[Hooks]}
                              /\ \A g \in Targets : Activated(d)[g] # d[g] => g \in {State, Hooks}
  <2> HIDE DEF d
  <2> QED
    BY <1>3, <1>5, ActivatedKeeps
<1>7. d[f] # Untracked
  BY <1>2, <1>3, <1>5, <1>6
<1>8. CASE file[f] = d[f]
  <2>1. Activated(d)[f] # d[f] /\ f \in {State, Hooks} /\ file[f] # Absent
    BY <1>3, <1>6, <1>8
  <2>2. d[f] # Untracked /\ Base(file[f]).user = Base(d[f]).user
    BY <1>7, <1>8
  <2> HIDE DEF d
  <2> QED
    BY <1>1, <1>2, <2>1, <2>2, OriginalIsBlessed DEF d, EditInv
<1> HIDE DEF d, S
<1> QED
  BY <1>3, <1>5, <1>7, <1>8

-----------------------------------------------------------------------------
(* The baseline comes back *)

\* The oldest active record of a target holds its baseline.
OldestIsBaseline ==
  \A f \in Targets : \A i \in Tracking(journal, Active(journal), f) :
    (\A j \in Tracking(journal, Active(journal), f) : i <= j) =>
      journal[i].before[f] = baseline[f]

\* Before the first active row no installation state names a preserved source.
UnsavedAtFirst ==
  /\ ~Base(baseline[State]).saved
  /\ Active(journal) = {} => ~Base(file[State]).saved

\* A target that a restore is done with was left as planned by a tool, or needed
\* no write and is still missing or edited since.
WrittenBack ==
  \A p \in Procs : pc[p] = "restoring" =>
    \A f \in Targets \ todo[p] : plan[p][f] # Untracked =>
      /\ \/ blessed[f] = plan[p][f]
         \/ plan[p][f] = Absent /\ (file[f] = Absent \/ file[f] # blessed[f])
      /\ f = State /\ ~Base(plan[p][f]).saved => ~Base(file[f]).saved

\* A step that only takes rows away from the newest end keeps the oldest records.
LEMMA OldestStay ==
  ASSUME OldestIsBaseline, UNCHANGED baseline, NEW f \in Targets,
         Tracking(journal, Active(journal), f) \in SUBSET Nat,
         \A i \in Tracking(journal', Active(journal'), f) :
           /\ i \in Tracking(journal, Active(journal), f)
           /\ journal'[i].before[f] = journal[i].before[f]
           /\ \A j \in Tracking(journal, Active(journal), f) :
                j < i => j \in Tracking(journal', Active(journal'), f)
  PROVE  \A i \in Tracking(journal', Active(journal'), f) :
           (\A j \in Tracking(journal', Active(journal'), f) : i <= j) =>
             journal'[i].before[f] = baseline'[f]
<1> DEFINE T == Tracking(journal, Active(journal), f)
           U == Tracking(journal', Active(journal'), f)
<1> SUFFICES ASSUME NEW i \in U, \A j \in U : i <= j
             PROVE  journal'[i].before[f] = baseline'[f]
  OBVIOUS
<1>1. i \in T /\ journal'[i].before[f] = journal[i].before[f]
  OBVIOUS
<1>2. \A j \in T : i <= j
  OBVIOUS
<1>3. journal[i].before[f] = baseline[f]
  BY <1>1, <1>2 DEF OldestIsBaseline
<1> QED
  BY <1>1, <1>3

\* The first record of a target is taken of its baseline, and removed last.
LEMMA OldestNext ==
  ASSUME Inv, OldestIsBaseline, [Next]_vars
  PROVE  OldestIsBaseline'
<1> SUFFICES ASSUME NEW f \in Targets
             PROVE  \A i \in Tracking(journal', Active(journal'), f) :
                      (\A j \in Tracking(journal', Active(journal'), f) : i <= j) =>
                        journal'[i].before[f] = baseline'[f]
  BY Zenon DEF OldestIsBaseline
<1> DEFINE T == Tracking(journal, Active(journal), f)
           U == Tracking(journal', Active(journal'), f)
           Goal == \A i \in U : (\A j \in U : i <= j) => journal'[i].before[f] = baseline'[f]
<1>1. /\ journal \in Seq(Row) /\ Active(journal) \in SUBSET (1 .. Len(journal))
      /\ Len(journal) \in Nat /\ T \in SUBSET (1 .. Len(journal)) /\ T \in SUBSET Nat
      /\ baseline \in [Targets -> Content]
  BY DEF Inv, TypeInv, TypeOK, Active, Tracking
<1>2. CASE UNCHANGED <<journal, baseline>>
  BY <1>2 DEF OldestIsBaseline
<1>3. ASSUME NEW p \in Procs, Begin(p)
      PROVE  Goal
  <2>1. PICK row \in Row : /\ journal' = Append(journal, row) /\ row.status = "prepared"
                           /\ row.before[f] \in {file[f], Untracked}
    BY <1>3, BeginRow
  <2>2. baseline'[f] = IF T = {} THEN file[f] ELSE baseline[f]
    BY <1>3 DEF Begin
  <2>3. /\ DOMAIN journal' = DOMAIN journal \cup {Len(journal) + 1}
        /\ journal'[Len(journal) + 1] = row
        /\ \A i \in DOMAIN journal : journal'[i] = journal[i]
    BY <1>1, <2>1
  <2>4. U \ {Len(journal) + 1} = T
    BY <1>1, <2>1, <2>3 DEF Tracking, Active
  <2>5. \A i \in U : journal'[i].before[f] # Untracked
    BY DEF Tracking
  <2> HIDE DEF T, U
  <2>6. CASE T = {}
    BY <2>1, <2>2, <2>3, <2>4, <2>5, <2>6
  <2>7. CASE T # {}
    <3> SUFFICES ASSUME NEW i \in U, \A j \in U : i <= j
                 PROVE  journal'[i].before[f] = baseline'[f]
      OBVIOUS
    <3>1. i \in T /\ \A j \in T : i <= j
      <4>1. \A j \in T : j \in U /\ i <= j
        BY <2>4
      <4>2. PICK j \in T : i <= j
        BY <2>7, <4>1
      <4>3. i # Len(journal) + 1
        BY <1>1, <4>2
      <4> QED
        BY <2>4, <4>1, <4>3
    <3>2. journal[i].before[f] = baseline[f]
      BY <3>1 DEF OldestIsBaseline, T
    <3>3. i \in DOMAIN journal
      BY <3>1 DEF T, Tracking, Active
    <3> QED
      BY <2>2, <2>3, <2>7, <3>2, <3>3
  <2> QED
    BY <2>6, <2>7
<1>4. ASSUME NEW p \in Procs, Finish(p)
      PROVE  Goal
  <2>1. UNCHANGED baseline
    BY <1>4, FinishRows
  <2>2. CASE journal' = SubSeq(journal, 1, Len(journal) - 1)
    <3>1. /\ DOMAIN journal' = 1 .. (Len(journal) - 1)
          /\ \A i \in DOMAIN journal' : i \in DOMAIN journal /\ journal'[i] = journal[i]
      BY <1>1, <1>4, <2>2, FinishRows
    <3>2. U = T \ {Len(journal)}
      BY <1>1, <3>1 DEF Tracking, Active
    <3>3. \A i \in U : i \in T /\ journal'[i] = journal[i]
      BY <3>1, <3>2 DEF Tracking, Active
    <3>4. \A i \in U : \A j \in T : j < i => j \in U
      BY <1>1, <3>2
    <3> QED
      BY <1>1, <2>1, <3>3, <3>4, OldestStay
  <2>3. CASE /\ DOMAIN journal' = DOMAIN journal
             /\ \A i \in DOMAIN journal : journal'[i].before = journal[i].before
             /\ Active(journal') = Active(journal)
    <3>1. U = T /\ \A i \in U : journal'[i].before = journal[i].before
      BY <2>3 DEF Tracking, Active
    <3> QED
      BY <1>1, <2>1, <3>1, OldestStay
  <2> QED
    BY <1>4, <2>2, <2>3, FinishRows
<1>5. ASSUME NEW p \in Procs, RestoreDone(p)
      PROVE  Goal
  <2> DEFINE S == Selection(journal, kind[p])
  <2>1. /\ DOMAIN journal' = DOMAIN journal
        /\ \A i \in DOMAIN journal :
             /\ journal'[i].before = journal[i].before
             /\ journal'[i].status = IF i \in S THEN "restored" ELSE journal[i].status
    BY <1>5, RestoreDoneTypes DEF Inv
  <2>2. baseline' = baseline
    BY <1>5 DEF RestoreDone, ghost
  <2> HIDE DEF S
  <2>3. U = T \ S
    BY <2>1 DEF Tracking, Active
  <2>4. \A i \in U : i \in T /\ journal'[i].before = journal[i].before
    BY <2>1, <2>3 DEF Tracking, Active
  <2>5. \A i \in U : \A j \in T : j < i => j \in U
    <3>1. T \subseteq Active(journal)
      BY DEF Tracking
    <3>2. CASE kind[p] = "uninstall"
      <4>1. U = {}
        BY <2>3, <3>1, <3>2 DEF S, Selection
      <4> QED
        BY <4>1
    <3>3. CASE kind[p] # "uninstall"
      <4>1. S = {Max(Active(journal))}
        BY <3>3 DEF S, Selection
      <4>2. \A i \in T : i <= Max(Active(journal))
        BY <1>1, <3>1, MaxExists
      <4> QED
        BY <1>1, <2>3, <4>1, <4>2
    <3> QED
      BY <3>2, <3>3
  <2> QED
    BY <1>1, <2>2, <2>4, <2>5, OldestStay
<1>6. ASSUME NEW g \in Targets, UserEdit(g)
      PROVE  Goal
  <2>1. journal' = journal
    BY <1>6, EditedNumber
  <2>2. T # {} => baseline'[f] = baseline[f]
    BY <1>1, <1>6 DEF UserEdit
  <2> QED
    BY <2>1, <2>2 DEF OldestIsBaseline
<1> QED
  BY <1>2, <1>3, <1>4, <1>5, <1>6, Moves DEF Quiet, RestoreFile


\* Where the plan writes a target, its bytes and the original that they are made
\* of have the same user.
LEMMA PlannedUser ==
  ASSUME Inv, Complete, Planned, NEW q \in Procs, pc[q] \in {"planned", "restoring"},
         journal = base[q], NEW f \in Targets, plan[q][f] # Untracked
  PROVE  LET d == Desired(journal, Selection(journal, kind[q]))
         IN  d[f] # Untracked /\ Base(plan[q][f]).user = Base(d[f]).user
<1> DEFINE S == Selection(journal, kind[q])
           d == Desired(journal, S)
<1>1. Active(journal) # {} /\ kind[q] \in Kinds
  BY DEF Complete, Inv, TypeInv, TypeOK
<1>2. d \in Cells /\ d[State] # Untracked /\ d[Hooks] # Untracked
  BY <1>1, Originals, Zenon
<1>3. /\ plan[q] = IF kind[q] = "rollback" THEN Activated(d) ELSE d
      /\ kind[q] = "rollback" /\ Base(d[State]).saved => d[Hooks] # Absent
  BY Zenon DEF Planned
<1> HIDE DEF d
<1>4. CASE kind[q] = "rollback"
  <2>1. /\ \A g \in Targets : Activated(d)[g] # d[g] => g \in {State, Hooks}
        /\ \A g \in Targets : d[g] # Untracked => Base(Activated(d)[g]).user = Base(d[g]).user
    BY <1>2, <1>3, <1>4, ActivatedKeeps
  <2>2. d[f] # Untracked
    BY <1>2, <1>3, <1>4, <2>1
  <2> QED
    BY <1>3, <1>4, <2>1, <2>2 DEF d
<1>5. CASE kind[q] # "rollback"
  BY <1>3, <1>5 DEF d
<1> QED
  BY <1>4, <1>5

\* A completed recovery that leaves no active row has planned the baseline: it
\* selected all of them, and activates no source.
LEMMA BaselinePlanned ==
  ASSUME Inv, Complete, Planned, OldestIsBaseline, UnsavedAtFirst,
         NEW p \in Procs, RestoreDone(p), Active(journal') = {},
         NEW f \in Targets, Tracking(journal, Active(journal), f) # {}
  PROVE  plan[p][f] = baseline[f]
<1> DEFINE S == Selection(journal, kind[p])
           d == Desired(journal, S)
<1>1. /\ pc[p] = "restoring" /\ journal = base[p] /\ kind[p] \in Kinds
      /\ Active(journal) # {}
  BY DEF RestoreDone, Complete, Inv, TypeInv, TypeOK
<1>2. /\ S \in SUBSET DOMAIN journal /\ d \in Cells
      /\ \A g \in Targets : d[g] # Untracked =>
           \E i \in Tracking(journal, S, g) :
             d[g] = journal[i].before[g] /\ \A j \in Tracking(journal, S, g) : i <= j
      /\ \A g \in Targets : Tracking(journal, S, g) # {} => d[g] # Untracked
  BY <1>1, Originals, Zenon
<1>3. S = Active(journal)
  <2>1. S \subseteq Active(journal)
    BY <1>1, SelectionType DEF Inv, TypeInv, TypeOK
  <2>2. \A i \in DOMAIN journal : i \in DOMAIN journal' /\
          journal'[i].status = IF i \in S THEN "restored" ELSE journal[i].status
    BY RestoreDoneTypes DEF Inv
  <2> HIDE DEF S
  <2> QED
    BY <2>1, <2>2 DEF Active
<1>4. ASSUME NEW g \in Targets, Tracking(journal, Active(journal), g) # {}
      PROVE  d[g] = baseline[g]
  <2> HIDE DEF S, d
  <2>1. PICK i \in Tracking(journal, Active(journal), g) :
          d[g] = journal[i].before[g] /\ \A j \in Tracking(journal, Active(journal), g) : i <= j
    BY <1>2, <1>3, <1>4
  <2> QED
    BY <2>1 DEF OldestIsBaseline
<1>5. Tracking(journal, Active(journal), State) # {}
  BY <1>1 DEF Tracking, Active, Inv, TypeInv, Tracked
<1>6. d[State] = baseline[State]
  BY <1>4, <1>5, TargetsDistinct
<1> HIDE DEF d
<1>7. Activated(d) = d
  BY <1>6 DEF Activated, UnsavedAtFirst
<1>8. plan[p] = d
  BY <1>1, <1>7, Zenon DEF Planned, d
<1> QED
  BY <1>4, <1>8

\* The installation before the first active row recorded no source.
LEMMA UnsavedNext ==
  ASSUME Inv, OldestIsBaseline, UnsavedAtFirst, WrittenBack, EditInv, UnfinishedIsNewest, Complete,
         [Next]_vars
  PROVE  UnsavedAtFirst'
<1> DEFINE T == Tracking(journal, Active(journal), State)
           Goal == /\ ~Base(baseline'[State]).saved
                   /\ Active(journal') = {} => ~Base(file'[State]).saved
<1>1. /\ journal \in Seq(Row) /\ Len(journal) \in Nat
      /\ T = Active(journal)
      /\ baseline \in [Targets -> Content] /\ file \in [Targets -> Content]
  BY DEF Inv, TypeInv, TypeOK, Tracked, Active, Tracking
<1>2. CASE Quiet
  BY <1>2 DEF Quiet, UnsavedAtFirst
<1>3. ASSUME NEW p \in Procs, Begin(p)
      PROVE  Goal
  <2>1. PICK row \in Row : journal' = Append(journal, row) /\ row.status = "prepared"
    BY <1>3, BeginRow
  <2>2. Len(journal) + 1 \in Active(journal')
    BY <1>1, <2>1 DEF Active
  <2>3. baseline'[State] = IF T = {} THEN file[State] ELSE baseline[State]
    BY <1>3, TargetsDistinct DEF Begin
  <2> QED
    BY <1>1, <2>2, <2>3 DEF UnsavedAtFirst
<1>4. ASSUME NEW p \in Procs, Finish(p)
      PROVE  Goal
  <2> DEFINE last == Len(journal)
  <2>1. /\ last \in Active(journal) /\ last \in DOMAIN journal
        /\ UNCHANGED <<file, baseline>>
    BY <1>1, <1>4, FinishRows DEF Active
  <2>2. CASE /\ journal' = SubSeq(journal, 1, last - 1)
             /\ \A f \in Targets : journal[last].before[f] # Untracked =>
                  journal[last].before[f] = file[f]
    <3> SUFFICES ASSUME Active(journal') = {}
                 PROVE  ~Base(file[State]).saved
      BY <2>1 DEF UnsavedAtFirst
    <3>1. journal[last].before[State] = file[State]
      BY <2>1, <2>2, TargetsDistinct DEF Inv, TypeInv, Tracked
    <3>2. Active(journal) = {last}
      <4>1. /\ DOMAIN journal' = 1 .. (last - 1)
            /\ \A i \in DOMAIN journal' : journal'[i] = journal[i]
        BY <1>1, <2>1, <2>2
      <4> QED
        BY <1>1, <2>1, <4>1 DEF Active
    <3>3. journal[last].before[State] = baseline[State]
      <4>1. last \in T /\ \A j \in T : last <= j
        BY <1>1, <3>2
      <4> QED
        BY <4>1, TargetsDistinct DEF OldestIsBaseline
    <3> QED
      BY <3>1, <3>3 DEF UnsavedAtFirst
  <2>3. CASE Active(journal') = Active(journal)
    BY <2>1, <2>3 DEF UnsavedAtFirst
  <2> QED
    BY <1>4, <2>2, <2>3, FinishRows
<1>5. ASSUME NEW p \in Procs, RestoreDone(p)
      PROVE  Goal
  <2> DEFINE S == Selection(journal, kind[p])
             d == Desired(journal, S)
  <2>1. UNCHANGED <<file, baseline>> /\ pc[p] = "restoring" /\ todo[p] = {} /\ journal = base[p]
    BY <1>5 DEF RestoreDone, ghost
  <2> SUFFICES ASSUME Active(journal') = {}
               PROVE  ~Base(file[State]).saved
    BY <2>1 DEF UnsavedAtFirst
  <2>4. Active(journal) # {}
    BY <2>1 DEF Complete
  <2>2. plan[p][State] = baseline[State]
    BY <1>1, <1>5, <2>4, BaselinePlanned, TargetsDistinct DEF EditInv
  <2>3. plan[p][State] # Untracked
    BY <1>1, <2>2, TargetsDistinct, LifecycleConstants
  <2> QED
    BY <2>1, <2>2, <2>3, TargetsDistinct DEF WrittenBack, UnsavedAtFirst
<1>6. ASSUME NEW p \in Procs, NEW f \in Targets, RestoreFile(p, f)
      PROVE  Goal
  <2>1. pc[p] = "restoring" /\ UNCHANGED <<journal, baseline>>
    BY <1>6 DEF RestoreFile
  <2>2. Active(journal) # {}
    BY <2>1 DEF Complete, Inv, JournalIsOwned, Critical, Labels
  <2> QED
    BY <2>1, <2>2 DEF UnsavedAtFirst
<1>7. ASSUME NEW f \in Targets, UserEdit(f)
      PROVE  Goal
  <2>1. /\ journal' = journal
        /\ file'[State] = file[State] \/ (Base(file'[State]).saved => Base(file[State]).saved)
    BY <1>7, EditedNumber, TargetsDistinct
  <2>2. baseline'[State] = baseline[State] \/ (T = {} /\ baseline'[State] = file'[State])
    BY <1>1, <1>7, TargetsDistinct DEF UserEdit
  <2> QED
    BY <1>1, <2>1, <2>2 DEF UnsavedAtFirst
<1>8. ASSUME NEW p \in Procs, pc[p] \in Installing, UNCHANGED <<journal, baseline>>
      PROVE  Goal
  <2>1. Len(journal) > 0 /\ journal[Len(journal)].status = "prepared"
    BY <1>8 DEF Inv, OpenRow
  <2>2. Len(journal) \in Active(journal)
    BY <1>1, <2>1 DEF Active
  <2> QED
    BY <1>8, <2>2 DEF UnsavedAtFirst
<1> QED
  BY <1>2, <1>3, <1>4, <1>5, <1>6, <1>7, <1>8, Moves, Zenon DEF UnsavedAtFirst

\* Only the restore itself and the user write targets while it holds the lock.
LEMMA WrittenBackNext ==
  ASSUME Inv, UnfinishedIsNewest, Complete, EditInv, WrittenBack, [Next]_vars
  PROVE  WrittenBack'
<1> DEFINE Back(c, w, b, f) == \* plan, file and blessed bytes of target f
             /\ b = c \/ (c = Absent /\ (w = Absent \/ w # b))
             /\ f = State /\ ~Base(c).saved => ~Base(w).saved
<1> SUFFICES ASSUME NEW q \in Procs, pc'[q] = "restoring",
                    NEW f \in Targets, f \notin todo'[q], plan'[q][f] # Untracked
             PROVE  Back(plan'[q][f], file'[f], blessed'[f], f)
  BY DEF WrittenBack
<1>1. /\ file \in [Targets -> Content] /\ blessed \in [Targets -> Content]
      /\ plan \in [Procs -> Cells] /\ todo \in [Procs -> SUBSET Targets]
      /\ seen \in [Procs -> Cells]
  BY DEF Inv, TypeInv, TypeOK
<1>2. CASE Apply(q)
  <2> DEFINE S == Selection(journal, kind[q])
             d == Desired(journal, S)
  <2>1. /\ pc[q] = "planned" /\ journal = base[q] /\ plan' = plan
        /\ UNCHANGED <<file, blessed>>
        /\ \A g \in Targets : plan[q][g] # Untracked => file[g] = seen[q][g]
        /\ plan[q][f] = seen[q][f]
    BY <1>1, <1>2 DEF Apply, ghost
  <2>2. file[f] = plan[q][f] /\ plan[q][f] # Untracked
    BY <2>1
  <2>3. CASE file[f] = Absent
    BY <2>1, <2>2, <2>3
  <2>4. CASE file[f] # Absent
    <3>4. d[f] # Untracked /\ Base(plan[q][f]).user = Base(d[f]).user
      BY <2>1, <2>2, PlannedUser, Zenon DEF EditInv
    <3> HIDE DEF d
    <3>5. file[f] = blessed[f]
      BY <2>1, <2>2, <2>4, <3>4, OriginalIsBlessed DEF d, EditInv
    <3> QED
      BY <2>1, <2>2, <3>5
  <2> QED
    BY <2>3, <2>4
<1>3. ASSUME NEW g \in Targets, RestoreFile(q, g)
      PROVE  Back(plan'[q][f], file'[f], blessed'[f], f)
  <2>1. /\ plan' = plan /\ pc[q] = "restoring"
        /\ file' = [file EXCEPT ![g] = plan[q][g]] /\ blessed' = [blessed EXCEPT ![g] = plan[q][g]]
        /\ todo'[q] = todo[q] \ {g}
    BY <1>1, <1>3 DEF RestoreFile, Write
  <2>2. CASE f = g
    BY <1>1, <2>1, <2>2
  <2>3. CASE f # g
    BY <1>1, <2>1, <2>3 DEF WrittenBack
  <2> QED
    BY <2>2, <2>3
<1>4. ASSUME pc[q] = "restoring", plan'[q] = plan[q], todo'[q] = todo[q]
      PROVE  Back(plan'[q][f], file'[f], blessed'[f], f)
  <2>1. Back(plan[q][f], file[f], blessed[f], f)
    BY <1>4 DEF WrittenBack
  <2>2. CASE UNCHANGED <<file, blessed>>
    BY <1>4, <2>1, <2>2
  <2>3. ASSUME NEW p \in Procs, pc[p] \in Installing
        PROVE  FALSE
    <3>1. pc[p] \in Critical /\ pc[q] \in Critical
      BY <1>4, <2>3 DEF Critical, Installing, Labels
    <3> QED
      BY <1>4, <2>3, <3>1 DEF Inv, JournalIsOwned, Installing
  <2>4. ASSUME NEW p \in Procs, NEW g \in Targets, RestoreFile(p, g)
        PROVE  FALSE
    <3>1. pc[p] \in Critical /\ pc[q] \in Critical
      BY <1>4, <2>4 DEF RestoreFile, Critical, Labels
    <3>2. p = q
      BY <3>1 DEF Inv, JournalIsOwned
    <3> QED
      BY <1>1, <1>4, <2>4, <3>2 DEF RestoreFile
  <2>5. ASSUME NEW g \in Targets, UserEdit(g)
        PROVE  Back(plan'[q][f], file'[f], blessed'[f], f)
    <3>1. blessed' = blessed
      BY <2>5, EditedNumber
    <3>2. CASE g # f
      <4>1. file'[f] = file[f]
        BY <2>5, <3>2, EditedNumber
      <4> QED
        BY <1>4, <2>1, <3>1, <4>1
    <3>3. CASE g = f
      <4>1. Base(file'[f]).saved => Base(file[f]).saved
        BY <2>5, <3>3, EditedNumber
      <4>2. file'[f] = Absent \/ file'[f] # blessed[f]
        <5>1. UpTo(blessed[f], edits) /\ blessed[f] \in Cell /\ blessed[f] # Untracked /\ edits \in Nat
          BY <1>1, LifecycleConstants DEF EditInv, Numbered, Cell, Inv, TypeInv, TypeOK
        <5>2. Base(blessed[f]).user <= edits /\ Base(blessed[f]).user \in Nat
          BY <5>1, UserIsNumber DEF UpTo
        <5>3. file'[f] = Absent \/ Base(file'[f]).user = edits + 1
          BY <2>5, <3>3, EditedNumber
        <5> QED
          BY <5>1, <5>2, <5>3
      <4> QED
        BY <1>4, <2>1, <3>1, <4>1, <4>2
    <3> QED
      BY <3>2, <3>3
  <2>6. ASSUME NEW p \in Procs, Begin(p) \/ RestoreDone(p)
        PROVE  UNCHANGED <<file, blessed>>
    BY <2>6 DEF Begin, RestoreDone, ghost
  <2>7. ASSUME NEW p \in Procs, Finish(p)
        PROVE  FALSE
    BY <2>3, <2>7 DEF Finish, Installing
  <2> QED
    BY <2>2, <2>3, <2>4, <2>5, <2>6, <2>7, Moves DEF Quiet
<1>5. ASSUME NEW k \in Kinds, Plan(q, k)
      PROVE  FALSE
  BY <1>5 DEF Plan, Goto, Inv, TypeInv, TypeOK
<1> HIDE DEF Back
<1>6. \/ \E k \in Kinds : Plan(q, k)
      \/ Apply(q)
      \/ \E g \in Targets : RestoreFile(q, g)
      \/ pc'[q] = pc[q] /\ plan'[q] = plan[q] /\ todo'[q] = todo[q]
  BY Memories
<1> QED
  BY <1>2, <1>3, <1>4, <1>5, <1>6


\* The strengthening of UninstallRestoresBaseline.
BaselineInv == OldestIsBaseline /\ UnsavedAtFirst /\ WrittenBack

\* What a completed restore has written, or found in place, is the baseline.
LEMMA UninstallRestores ==
  ASSUME Inv, Complete, EditInv, BaselineInv,
         NEW p \in Procs, RestoreDone(p), Active(journal') = {},
         NEW f \in Targets, Tracking(journal, Active(journal), f) # {}
  PROVE  file[f] = baseline[f] \/ file[f] # blessed[f]
<1>1. plan[p][f] = baseline[f]
  BY BaselinePlanned DEF EditInv, BaselineInv
<1>2. pc[p] = "restoring" /\ todo[p] = {}
  BY DEF RestoreDone
<1>3. plan[p][f] # Untracked
  BY <1>1, LifecycleConstants DEF Inv, TypeInv, TypeOK
<1> QED
  BY <1>1, <1>2, <1>3 DEF BaselineInv, WrittenBack

-----------------------------------------------------------------------------
(* The theorems about recovery *)

\* Initially no row is recorded, and nothing names a preserved source.
LEMMA RecoveryInit == Init => EditInv /\ BaselineInv
<1> SUFFICES ASSUME Init PROVE EditInv /\ BaselineInv
  OBVIOUS
<1>1. Planned /\ EditsAreNew /\ OldestIsBaseline /\ WrittenBack
  BY DEF Init, Planned, EditsAreNew, OldestIsBaseline, WrittenBack, Tracking, Active
<1>2. file = baseline /\ file = blessed /\ edits = 1 /\ journal = <<>>
      /\ \A p \in Procs : pc[p] = "idle"
  BY DEF Init
<1>3. UsersOwn.user = 1 /\ ~UsersOwn.saved /\ UsersOwn # Absent
  <2>1. UsersOwn \in Bytes
    BY BytesExcept DEF UsersOwn
  <2> QED
    BY <2>1, LifecycleConstants DEF UsersOwn, Blank
<1>4. ASSUME file \in Unmanaged
      PROVE  \A f \in Targets : Base(file[f]).user <= 1 /\ ~Base(file[f]).saved
  <2>1. \A f \in Targets : file[f] \in {UsersOwn, Absent}
    BY <1>4 DEF Unmanaged
  <2> QED
    BY <1>3, <2>1 DEF Base, Blank
<1>5. ASSUME file \in Predating
      PROVE  \A f \in Targets : Base(file[f]).user <= 1 /\ ~Base(file[f]).saved
  <2>1. PICK v \in Versions :
          \A f \in Targets : file[f] \in {MergeBlock(Absent, v), MergeHooks(Absent, Absent),
                                          [StateOf(v) EXCEPT !.saved = FALSE], Shipped(v), Absent}
    BY <1>5 DEF Predating
  <2>2. \A c \in {MergeBlock(Absent, v), MergeHooks(Absent, Absent),
                  [StateOf(v) EXCEPT !.saved = FALSE], Shipped(v)} : c.user = 0 /\ ~c.saved
    BY DEF MergeBlock, MergeHooks, StateOf, Shipped, Base, Blank
  <2>3. Base(Absent).user = 0 /\ ~Base(Absent).saved
    BY DEF Base, Blank
  <2>4. \A c : c # Absent => Base(c) = c
    BY DEF Base
  <2>5. \A f \in Targets : Base(file[f]).user = 0 /\ ~Base(file[f]).saved
    BY <2>1, <2>2, <2>3, <2>4, Zenon
  <2> QED
    BY <2>5
<1>6. \A f \in Targets : Base(file[f]).user <= 1 /\ ~Base(file[f]).saved
  BY <1>4, <1>5 DEF Init
<1>7. Numbered
  BY <1>2, <1>6 DEF Numbered, UpTo
<1>8. UnsavedAtFirst
  BY <1>2, <1>6, TargetsDistinct DEF UnsavedAtFirst
<1> QED
  BY <1>1, <1>7, <1>8 DEF EditInv, BaselineInv

\* One step of both strengthenings.
LEMMA RecoveryNext ==
  ASSUME Inv, UnfinishedIsNewest, Complete, EditInv, BaselineInv, [Next]_vars
  PROVE  EditInv' /\ BaselineInv'
BY PlannedNext, NumberedNext, EditsAreNewNext, OldestNext, UnsavedNext, WrittenBackNext
   DEF EditInv, BaselineInv

\* Both strengthenings hold throughout.
LEMMA RecoveryAlways ==
  Spec => [](Inv /\ UnfinishedIsNewest /\ Complete /\ EditInv /\ BaselineInv)
<1>1. Inv /\ UnfinishedIsNewest /\ Complete /\ EditInv /\ BaselineInv /\ [Next]_vars
        => EditInv' /\ BaselineInv'
  BY RecoveryNext
<1> QED
  BY <1>1, CompleteAlways, RecoveryInit, PTL DEF Spec

\* Recovery never overwrites what the user changed after the last installation
\* or restoration ended.
THEOREM EditsAreSpared == Spec => RestoreSparesEdits
<1>1. Inv /\ UnfinishedIsNewest /\ Complete /\ EditInv =>
        \A p \in Procs, f \in Targets : RestoreFile(p, f) =>
          \/ file[f] = blessed[f]
          \/ \E i \in DOMAIN journal : file[f] = journal[i].after[f]
  BY RestoreSpares
<1> QED
  BY <1>1, RecoveryAlways, PTL DEF RestoreSparesEdits

\* A completed recovery that leaves no active row has put back the baseline.
THEOREM BaselineIsRestored == Spec => UninstallRestoresBaseline
<1>1. Inv /\ Complete /\ EditInv /\ BaselineInv =>
        \A p \in Procs : RestoreDone(p) /\ Active(journal') = {} =>
          \A f \in Targets : Tracking(journal, Active(journal), f) # {} =>
            file[f] = baseline[f] \/ file[f] # blessed[f]
  BY UninstallRestores
<1> QED
  BY <1>1, RecoveryAlways, PTL DEF UninstallRestoresBaseline
=============================================================================
