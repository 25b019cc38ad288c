-------------------------- MODULE LifecycleRefines --------------------------
(***************************************************************************)
(* Lifecycle implements RecoveryLedger: every step of an installer, of the *)
(* user or of the disk is a step of the ledger, or leaves it alone.        *)
(***************************************************************************)
EXTENDS LifecycleProofs

-----------------------------------------------------------------------------
(* Every step is a step of the ledger, or none *)

LEMMA StatusType ==
  ASSUME NEW rows \in Seq(Row), NEW i \in DOMAIN rows
  PROVE  rows[i].status \in Statuses
<1>1. rows[i] \in Row
  OBVIOUS
<1> QED
  BY <1>1 DEF Row

LEMMA ProgressOf ==
  ASSUME NEW rows \in Seq(Row)
  PROVE  /\ Progress(rows) \in Seq(Statuses) /\ Len(Progress(rows)) = Len(rows)
         /\ DOMAIN Progress(rows) = DOMAIN rows
         /\ \A row \in Row : Progress(Append(rows, row)) = Append(Progress(rows), row.status)
         /\ Len(rows) > 0 =>
              Progress(SubSeq(rows, 1, Len(rows) - 1)) = SubSeq(Progress(rows), 1, Len(rows) - 1)
<1>1. \A i \in DOMAIN rows : rows[i].status \in Statuses
  BY StatusType
<1>2. Progress(rows) \in Seq(Statuses) /\ Len(Progress(rows)) = Len(rows)
      /\ DOMAIN Progress(rows) = DOMAIN rows
  BY <1>1 DEF Progress
<1>3. ASSUME NEW row \in Row
      PROVE  Progress(Append(rows, row)) = Append(Progress(rows), row.status)
  <2> DEFINE a == Progress(Append(rows, row))
             b == Append(Progress(rows), row.status)
  <2>1. DOMAIN a = 1 .. (Len(rows) + 1) /\ DOMAIN b = 1 .. (Len(rows) + 1)
    BY <1>2 DEF Progress
  <2>2. \A i \in 1 .. (Len(rows) + 1) : a[i] = b[i]
    BY <1>2 DEF Progress
  <2>3. a = [i \in DOMAIN a |-> a[i]] /\ b = [i \in DOMAIN b |-> b[i]]
    BY <1>2 DEF Progress
  <2> QED
    BY <2>1, <2>2, <2>3
<1>4. ASSUME Len(rows) > 0
      PROVE  Progress(SubSeq(rows, 1, Len(rows) - 1)) = SubSeq(Progress(rows), 1, Len(rows) - 1)
  <2> DEFINE a == Progress(SubSeq(rows, 1, Len(rows) - 1))
             b == SubSeq(Progress(rows), 1, Len(rows) - 1)
  <2>1. DOMAIN a = 1 .. (Len(rows) - 1) /\ DOMAIN b = 1 .. (Len(rows) - 1)
    BY <1>2, <1>4 DEF Progress
  <2>2. \A i \in 1 .. (Len(rows) - 1) : a[i] = b[i]
    BY <1>2, <1>4 DEF Progress
  <2>3. a = [i \in DOMAIN a |-> a[i]] /\ b = [i \in DOMAIN b |-> b[i]]
    BY <1>2 DEF Progress
  <2> QED
    BY <2>1, <2>2, <2>3
<1> QED
  BY <1>2, <1>3, <1>4

\* The steps that write the journal are the steps of the ledger.
LEMMA BeginOpens ==
  ASSUME Inv, Inv', NEW p \in Procs, Begin(p)
  PROVE  Ledger!Open(p)
<1>1. journal \in Seq(Row) /\ journal' \in Seq(Row)
  BY DEF Inv, TypeInv, TypeOK
<1>2. PICK row : row.status = "prepared" /\ journal' = Append(journal, row)
  BY DEF Begin
<1>3. row \in Row
  <2>1. row = journal'[Len(journal')] /\ Len(journal') \in DOMAIN journal'
    BY <1>1, <1>2
  <2> QED
    BY <1>1, <2>1
<1>4. Progress(journal') = Append(Progress(journal), "prepared")
  BY <1>1, <1>2, <1>3, ProgressOf
<1>5. \A i \in DOMAIN journal : journal[i].status \in {"installed", "restored"}
  <2>1. \A i \in DOMAIN journal : journal[i].status \in Statuses
    BY <1>1, StatusType
  <2>2. \A i \in DOMAIN journal : journal[i].status \notin {"prepared", "failed"}
    BY DEF Begin, NothingUnfinished, Unfinished
  <2> QED
    BY <2>1, <2>2 DEF Statuses
<1>6. Writer = Free /\ Writer' = p
  BY LifecycleConstants DEF Begin, Acquire, Writer
<1> QED
  BY <1>4, <1>5, <1>6 DEF Ledger!Open, Progress

LEMMA FinishCloses ==
  ASSUME Inv, NEW p \in Procs, Finish(p)
  PROVE  Ledger!Close(p)
<1> DEFINE last == Len(journal)
<1>1. journal \in Seq(Row) /\ last \in Nat \ {0} /\ last \in DOMAIN journal
  BY DEF Inv, TypeInv, TypeOK, Finish, OpenRow, Installing
<1>2. /\ Len(Progress(journal)) = last
      /\ Progress(journal)[last] = "prepared"
  <2>1. journal[last].status = "prepared"
    BY DEF Finish, Inv, OpenRow, Installing
  <2> QED
    BY <1>1, <2>1, ProgressOf DEF Progress
<1>3. Writer = p /\ Writer' = Free
  <2>1. lock = p /\ lock' = Free
    BY DEF Finish, Release, Inv, JournalIsOwned, Critical, Labels
  <2> QED
    BY <2>1, LifecycleConstants DEF Writer
<1>4. PICK after :
        journal' \in {SubSeq(journal, 1, last - 1),
                     [journal EXCEPT ![last].status = pc[p], ![last].after = after]}
  BY DEF Finish
<1>5. CASE journal' = SubSeq(journal, 1, last - 1)
  <2>1. Progress(journal') = SubSeq(Progress(journal), 1, last - 1)
    BY <1>1, <1>5, ProgressOf
  <2> QED
    BY <1>1, <1>2, <1>3, <2>1 DEF Ledger!Close
<1>6. CASE journal' = [journal EXCEPT ![last].status = pc[p], ![last].after = after]
  <2>1. journal[last] \in Row
    BY <1>1
  <2>2. journal'[last].status = pc[p]
    BY <1>1, <1>6, <2>1 DEF Row
  <2>3. DOMAIN journal' = DOMAIN journal /\ \A i \in DOMAIN journal : i # last => journal'[i] = journal[i]
    BY <1>1, <1>6
  <2>4. Progress(journal') = [Progress(journal) EXCEPT ![last] = pc[p]]
    BY <1>1, <2>2, <2>3 DEF Progress
  <2>5. pc[p] \in {"installed", "failed"}
    BY DEF Finish
  <2>6. \E outcome \in {"installed", "failed"} :
          Progress(journal') = [Progress(journal) EXCEPT ![Len(Progress(journal))] = outcome]
    BY <1>2, <2>4, <2>5
  <2>7. Len(Progress(journal)) > 0 /\ Progress(journal)[Len(Progress(journal))] = "prepared"
    BY <1>1, <1>2
  <2> QED
    BY <1>3, <2>6, <2>7, Zenon DEF Ledger!Close
<1> QED
  BY <1>4, <1>5, <1>6

LEMMA RestoreRetires ==
  ASSUME Inv, Complete, NEW p \in Procs, RestoreDone(p)
  PROVE  Ledger!Retire(p)
<1> DEFINE S == Selection(journal, kind[p])
<1>1. journal \in Seq(Row) /\ kind[p] \in Kinds
  BY DEF Inv, TypeInv, TypeOK
<1>2. journal = base[p]
  BY DEF RestoreDone
<1>3. Active(journal) # {} /\ \A i \in S : journal[i].status # "prepared"
  BY <1>2 DEF RestoreDone, Complete
<1>4. S \subseteq Active(journal) /\ S \in SUBSET DOMAIN journal
  BY <1>1, <1>3, SelectionType
<1>5. \A i \in S : journal[i].status \in {"installed", "failed"}
  <2>1. \A i \in S : journal[i].status \in Statuses /\ journal[i].status # "restored"
    BY <1>1, <1>4, StatusType DEF Active
  <2> QED
    BY <1>3, <2>1 DEF Statuses
<1>6. Progress(journal') =
        [i \in DOMAIN Progress(journal) |-> IF i \in S THEN "restored" ELSE Progress(journal)[i]]
  BY RestoreDoneTypes DEF Inv, Progress
<1>7. Ledger!Live = Active(journal)
  BY DEF Ledger!Live, Active, Progress
<1>8. S \in {Ledger!Live, {Ledger!Max(Ledger!Live)}}
  BY <1>7 DEF Selection, Ledger!Max, Max
<1>9. Writer = p /\ Writer' = Free
  <2>1. lock = p /\ lock' = Free
    BY DEF RestoreDone, Release, Inv, JournalIsOwned, Critical, Labels
  <2> QED
    BY <2>1, LifecycleConstants DEF Writer
<1>10. \A i \in S : Progress(journal)[i] \in {"installed", "failed"}
  BY <1>4, <1>5 DEF Progress
<1> QED
  BY <1>6, <1>8, <1>9, <1>10 DEF Ledger!Retire

LEMMA LedgerInit == Init => Ledger!Init
<1> SUFFICES ASSUME Init PROVE Ledger!Init
  OBVIOUS
<1>1. journal = <<>> /\ Writer = Free
  BY LifecycleConstants DEF Init, Writer
<1>2. <<>> \in Seq(Row) /\ Len(<<>>) = 0
  OBVIOUS
<1>3. Progress(<<>>) = <<>>
  <2>1. Progress(<<>>) \in Seq(Statuses) /\ Len(Progress(<<>>)) = 0
    BY <1>2, ProgressOf
  <2> QED
    BY <2>1
<1> QED
  BY <1>1, <1>3 DEF Ledger!Init

LEMMA LedgerNext ==
  ASSUME Inv, Inv', Complete, [Next]_vars
  PROVE  [Ledger!Next]_Ledger!vars
<1>1. CASE journal' = journal /\ lock' = lock
  BY <1>1 DEF Ledger!vars, Writer
<1>2. ASSUME NEW p \in Procs, journal' = journal, lock = p, lock' \in {Free, Stale}
      PROVE  Ledger!Leave(p)
  <2>1. Writer = p /\ Writer' = Free
    BY <1>2, LifecycleConstants DEF Writer
  <2> QED
    BY <1>2, <2>1 DEF Ledger!Leave
<1>3. ASSUME NEW p \in Procs, Install(p)
      PROVE  [Ledger!Next]_Ledger!vars
  <2>1. CASE Begin(p)
    BY <2>1, BeginOpens DEF Ledger!Next
  <2>2. CASE Finish(p)
    BY <2>2, FinishCloses DEF Ledger!Next
  <2>3. CASE FinishRefused(p)
    <3>1. journal' = journal /\ lock = p /\ lock' \in {Free, Stale}
      BY <2>3 DEF FinishRefused, Release, Inv, JournalIsOwned, Critical, Labels
    <3> QED
      BY <1>2, <3>1 DEF Ledger!Next
  <2>4. CASE ~Begin(p) /\ ~Finish(p) /\ ~FinishRefused(p)
    BY <1>1, <1>3, <2>4 DEF Install, Prepare, WriteHooks, Skip, Capture, WriteBlock, SyncSkill,
                            WriteState, ApplyFails, disk
  <2> QED
    BY <2>1, <2>2, <2>3, <2>4
<1>4. ASSUME NEW p \in Procs, Restore(p)
      PROVE  [Ledger!Next]_Ledger!vars
  <2>1. CASE Apply(p)
    <3>1. Ledger!Enter(p)
      BY <2>1, LifecycleConstants DEF Apply, Acquire, Writer, Ledger!Enter
    <3> QED
      BY <3>1 DEF Ledger!Next
  <2>2. CASE RestoreDone(p)
    BY <2>2, RestoreRetires DEF Ledger!Next
  <2>3. CASE RestoreFails(p)
    <3>1. journal' = journal /\ lock = p /\ lock' \in {Free, Stale}
      BY <2>3 DEF RestoreFails, Release, Inv, JournalIsOwned, Critical, Labels
    <3> QED
      BY <1>2, <3>1 DEF Ledger!Next
  <2>4. CASE ~Apply(p) /\ ~RestoreDone(p) /\ ~RestoreFails(p)
    BY <1>1, <1>4, <2>4 DEF Restore, Plan, RestoreFile, disk
  <2> QED
    BY <2>1, <2>2, <2>3, <2>4
<1>5. ASSUME NEW p \in Procs, Crash(p)
      PROVE  [Ledger!Next]_Ledger!vars
  <2>1. journal' = journal /\ lock = p /\ lock' \in {Free, Stale}
    BY <1>5 DEF Crash, Inv, TypeInv, TypeOK, JournalIsOwned, Critical
  <2> QED
    BY <1>2, <2>1 DEF Ledger!Next
<1>6. ASSUME NEW p \in Procs, GiveUp(p)
      PROVE  [Ledger!Next]_Ledger!vars
  BY <1>1, <1>6 DEF GiveUp, disk
<1>7. CASE Surroundings
  <2>1. CASE ClearLock
    BY <2>1, LifecycleConstants DEF ClearLock, Writer, Ledger!vars
  <2>2. CASE ~ClearLock
    BY <1>1, <1>7, <2>2 DEF Surroundings, UserEdit, Update, Damage, disk
  <2> QED
    BY <2>1, <2>2
<1>8. CASE UNCHANGED vars
  BY <1>1, <1>8 DEF vars, disk
<1> QED
  BY <1>3, <1>4, <1>5, <1>6, <1>7, <1>8 DEF Next

\* The journal and its lock implement the ledger.
THEOREM LifecycleImplementsLedger == Spec => LedgerSpec
<1>1. Inv /\ Inv' /\ Complete /\ [Next]_vars => [Ledger!Next]_Ledger!vars
  BY LedgerNext
<1>2. Spec => [](Inv /\ Complete)
  BY CompleteAlways, PTL
<1> QED
  BY <1>1, <1>2, LedgerInit, PTL DEF Spec, LedgerSpec, Ledger!Spec
=============================================================================
