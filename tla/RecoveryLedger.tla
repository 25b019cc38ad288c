--------------------------- MODULE RecoveryLedger ---------------------------
(***************************************************************************)
(* What the recovery journal promises, without files: a ledger of          *)
(* installations that one writer at a time appends to, that takes no new   *)
(* installation while one is unfinished, and that retires installations    *)
(* from the newest end, or all of them, never one without a complete       *)
(* record.  Lifecycle implements it.                                       *)
(***************************************************************************)
EXTENDS Naturals, Sequences, FiniteSetsExt

CONSTANTS
  Procs,    \* the processes that may write
  Nobody    \* the writer when there is none

VARIABLES
  rows,     \* the status of every installation, oldest first
  writer    \* the process that may write, or Nobody

vars == <<rows, writer>>

Live == {i \in DOMAIN rows : rows[i] # "restored"}

Init == rows = <<>> /\ writer = Nobody

Open(p) ==
  /\ writer = Nobody
  /\ \A i \in DOMAIN rows : rows[i] \in {"installed", "restored"}
  /\ rows' = Append(rows, "prepared")
  /\ writer' = p

\* The newest installation ends: it changed nothing, succeeded or failed.
Close(p) ==
  LET last == Len(rows) IN
  /\ writer = p
  /\ last > 0 /\ rows[last] = "prepared"
  /\ \/ rows' = SubSeq(rows, 1, last - 1)
     \/ \E outcome \in {"installed", "failed"} : rows' = [rows EXCEPT ![last] = outcome]
  /\ writer' = Nobody

Enter(p) == writer = Nobody /\ writer' = p /\ UNCHANGED rows

Retire(p) ==
  /\ writer = p
  /\ \E S \in {Live, {Max(Live)}} :
       /\ \A i \in S : rows[i] \in {"installed", "failed"}
       /\ rows' = [i \in DOMAIN rows |-> IF i \in S THEN "restored" ELSE rows[i]]
  /\ writer' = Nobody

\* The writer gives up or dies: its installation, if any, stays as it is.
Leave(p) == writer = p /\ writer' = Nobody /\ UNCHANGED rows

Next == \E p \in Procs : Open(p) \/ Close(p) \/ Enter(p) \/ Retire(p) \/ Leave(p)

Spec == Init /\ [][Next]_vars
=============================================================================
