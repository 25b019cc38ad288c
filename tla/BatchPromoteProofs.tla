-------------------------- MODULE BatchPromoteProofs --------------------------
(***************************************************************************)
(* Proofs about BatchPromote for every set of sessions and units, every    *)
(* batch and every bound: what its commands save can be loaded again, a    *)
(* unit they call landed has landed, a completion witness is written only  *)
(* over a disk that is what was approved with the batch flipped, and no    *)
(* apply that --execute comes to is refused unless somebody edits.         *)
(***************************************************************************)
EXTENDS BatchPromote, ConsolidateProofs, FiniteSetTheorems

-----------------------------------------------------------------------------
(* The batch *)

\* The specification file names units, the create first.
LEMMA TheBatch ==
  /\ Len(Order) \in Nat \ {0} /\ Rows = 1..Len(Order) /\ 1 \in Rows
  /\ Order[1] = Create /\ Create \in Batch /\ Batch \subseteq Units
  /\ \A k \in Rows : Order[k] \in Batch
  /\ \A u \in Batch : \E k \in Rows : u = Order[k]
  /\ \A k \in Rows : Order[k] = Create => k = 1
<1>1. Order \in Seq(Units) /\ Order # <<>> /\ \A k, l \in Rows : Order[k] = Order[l] => k = l
  BY BatchConstants
<1>2. Len(Order) \in Nat \ {0} /\ \A k \in 1..Len(Order) : Order[k] \in Units
  BY <1>1
<1> QED
  BY <1>1, <1>2 DEF Rows, Batch, Create

\* The ids of the first units are those of the units before and of the last of them.
LEMMA Through ==
  ASSUME NEW st, NEW k \in Rows
  PROVE  /\ st.units[Order[k]] \subseteq IdsThrough(st, k)
         /\ \A i \in IdsThrough(st, k) : i \in st.units[Order[k]] \/ i \in IdsThrough(st, k - 1)
         /\ \A l \in Rows : k <= l => IdsThrough(st, k) \subseteq IdsThrough(st, l)
<1>1. k \in Nat /\ k >= 1 /\ Len(Order) \in Nat
  BY TheBatch
<1>2. st.units[Order[k]] \subseteq IdsThrough(st, k)
  BY <1>1 DEF IdsThrough
<1>3. \A i \in IdsThrough(st, k) : i \in st.units[Order[k]] \/ i \in IdsThrough(st, k - 1)
  <2> SUFFICES ASSUME NEW l \in 1..k, NEW i \in st.units[Order[l]]
               PROVE  i \in st.units[Order[k]] \/ i \in IdsThrough(st, k - 1)
    BY DEF IdsThrough
  <2>1. l = k \/ l \in 1..k - 1
    BY <1>1
  <2> QED
    BY <2>1 DEF IdsThrough
<1>4. ASSUME NEW l \in Rows, k <= l
      PROVE  IdsThrough(st, k) \subseteq IdsThrough(st, l)
  <2>1. 1..k \subseteq 1..l
    BY <1>1, <1>4, TheBatch
  <2> QED
    BY <2>1 DEF IdsThrough
<1> QED
  BY <1>2, <1>3, <1>4

\* The first of them are those of the create.
LEMMA ThroughCreate ==
  ASSUME NEW st
  PROVE  IdsThrough(st, 1) = st.units[Create]
<1>1. 1..1 = {1}
  OBVIOUS
<1> QED
  BY <1>1, TheBatch DEF IdsThrough

-----------------------------------------------------------------------------
(* The invariant *)

\* What a command saves: the units are apart, the fragment files of --init hold deltas
\* that were to be promoted, and the expected text is that of the page to create.
StateInv(st) ==
  /\ \E sources \in SUBSET Sessions : st \in States(sources)
  /\ ValidState(st)
  /\ \A u, v \in Batch : u # v => st.units[u] \cap st.units[v] = {}
  /\ st.created.ids = st.units[Create]
  /\ st.integrity \in {None, st.created.text}
  /\ \A i \in BatchIds(st) : i[1] \in DOMAIN st.initial =>
       st.initial[i[1]].records[i[2]].status \notin {"archived", "superseded"}

\* Before --init nothing runs and nothing was promoted.
Untouched ==
  /\ job = None
  /\ \A u \in Units : pages[u] = None
  /\ \A s \in Sessions, n \in Numbers : \A r \in Somewhere(s, n) : r.status # "consolidated"
  /\ proc # None => proc.at = "transition"

\* Until the text of the page is recorded nothing but the create was promoted.
Uncarried(st) ==
  /\ \A u \in Batch \ {Create} : \A i \in st.units[u] :
       \A r \in Somewhere(i[1], i[2]) : r.status # "consolidated"
  /\ job # None => job.unit = Create
  /\ pages[Create] # None => pages[Create].ids = st.units[Create]

\* Every copy of the id reads consolidated, and there is one.
Verified(i) ==
  /\ Somewhere(i[1], i[2]) # {}
  /\ \A r \in Somewhere(i[1], i[2]) : r.status = "consolidated"

Landed(st, k) ==
  /\ drafts[Order[k]] = None
  /\ pages[Create] # None /\ IdsThrough(st, k) \subseteq pages[Create].ids
  /\ \A i \in st.units[Order[k]] : Verified(i)

\* The disk and the state file.
DiskInv(st) ==
  /\ \A u \in Batch : drafts[u] # None => drafts[u].ids = st.units[u]
  /\ \A k \in 1..st.landed : Landed(st, k)
  /\ st.integrity = None => Uncarried(st)

IsConsolidated(r) == r # None /\ r.status = "consolidated"

\* What flip_statuses read is promoted where the file is, and nowhere else: people leave
\* alone what was promoted, and take no record away.
TextReads ==
  \A n \in Numbers : /\ job.text[n] # None => live[job.file][n] # None
                     /\ IsConsolidated(job.text[n]) <=> IsConsolidated(live[job.file][n])

\* A run of apply promotes a unit of the batch, the create into a page of its own.
JobInv ==
  /\ state # None
  /\ job.unit \in Batch /\ job.draft.ids = state.units[job.unit]
  /\ job.unit = Create => /\ job.draft.mode = "create" /\ job.draft.target = Create
                          /\ job.page.ids = state.units[Create]
  /\ job.at = "page" /\ pages[job.draft.target] # None =>
       pages[job.draft.target].ids \subseteq job.page.ids
  /\ job.at = "write" => job.file \in Sessions /\ TextReads
  /\ job.at = "remove" =>
       /\ job.file \in Sessions
       /\ \A n \in Numbers : IsConsolidated(live[job.file][n]) => archive[job.file][n] # None

\* A command: --execute works with the state it saved, and a row that it reached has
\* the rows before landed.
ProcInv ==
  /\ proc = [at |-> proc.at, row |-> proc.row, mem |-> proc.mem, before |-> proc.before,
             edits |-> proc.edits]
  /\ proc.at \in Processes /\ proc.row \in 1..Len(Order) + 1
  /\ proc.at = "transition" =>
       /\ job = None /\ proc.row \in 2..Len(Order)
       /\ \A k \in 2..Len(Order) : drafts[Order[k]] # None
  /\ proc.at # "transition" =>
       /\ state # None /\ proc.mem = state /\ state.witness = None
       /\ state.landed >= proc.row - 1
       /\ proc.row > 1 => state.integrity # None
  /\ proc.at = "row" => job = None
  /\ proc.at = "apply" =>
       /\ proc.row \in Rows /\ state.landed = proc.row - 1
       /\ proc.before.snap \in Snapshots(DOMAIN state.last)

\* In a batch no fence cuts a file and no id has two records in it.
Whole == doubles = {} /\ \A s \in Sessions : liveCut[s] = 0 /\ archCut[s] = 0

CreateDraft == drafts[Create] # None => drafts[Create].mode = "create" /\ drafts[Create].target = Create

BInv ==
  /\ TypeOK /\ Whole /\ CreateDraft
  /\ state = None => Untouched
  /\ state # None => StateInv(state) /\ DiskInv(state)
  /\ job # None => JobInv
  /\ proc # None => ProcInv

\* Without second records the copies of an id are those of its two files.
LEMMA Copies ==
  /\ doubles = {} =>
       \A s, n : Somewhere(s, n) = {live[s][n], archive[s][n]} \ {None}
  /\ doubles' = {} =>
       \A s, n : Somewhere(s, n)' = {live'[s][n], archive'[s][n]} \ {None}
BY DEF Somewhere, Doubles

\* What is read of a file that no fence cuts.
LEMMA WholeReads ==
  ASSUME Whole, NEW s \in Sessions, NEW n \in Numbers
  PROVE  /\ n \in Active(s) <=> live[s][n] # None
         /\ n \in Archived(s) <=> archive[s][n] # None
BY WholeFile DEF Whole, Active, Archived

\* An id is verified when every copy of it reads consolidated.
LEMMA VerifiedIds ==
  ASSUME Whole, NEW ids \in SUBSET Ids
  PROVE  Unverified(ids) = {} <=> \A i \in ids : Verified(i)
<1>1. \A i \in ids : i[1] \in Sessions /\ i[2] \in Numbers
  BY DEF Ids
<1>2. \A i \in ids : /\ IsActive(i) <=> live[i[1]][i[2]] # None
                     /\ IsArchived(i) <=> archive[i[1]][i[2]] # None
  BY <1>1, WholeReads DEF IsActive, IsArchived
<1>3. ASSUME NEW i \in ids
      PROVE  Verified(i) <=> ~(\/ ~IsActive(i) /\ ~IsArchived(i)
                               \/ IsActive(i) /\ live[i[1]][i[2]].status # "consolidated"
                               \/ IsArchived(i) /\ archive[i[1]][i[2]].status # "consolidated")
  <2> DEFINE l == live[i[1]][i[2]]  a == archive[i[1]][i[2]]
  <2>1. (IsActive(i) <=> l # None) /\ (IsArchived(i) <=> a # None)
    BY <1>2
  <2>2. Somewhere(i[1], i[2]) = {l, a} \ {None}
    BY Copies DEF Whole
  <2> HIDE DEF l, a
  <2>3. Verified(i) <=> /\ l # None \/ a # None
                        /\ l # None => l.status = "consolidated"
                        /\ a # None => a.status = "consolidated"
    BY <2>2 DEF Verified
  <2> QED
    BY <2>1, <2>3 DEF l, a
<1> QED
  BY <1>3 DEF Unverified

-----------------------------------------------------------------------------
(* What a step does to the disk *)

\* A step of a command on the disk is one of apply, or the transition of a draft; the
\* other steps on the disk are those of people, and a kill.
LEMMA Kinds ==
  ASSUME [BatchNext]_<<vars, batchVars>>
  PROVE  \/ UNCHANGED vars
         \/ \E u \in Batch : Apply(u)
         \/ Run \/ Kill \/ TransitionRow \/ DistilCreate \/ OutOfBand
<1>1. Transition \/ InitState \/ Execute \/ VerifyLanded \/ EndApply \/ MintWitness => UNCHANGED vars
  BY DEF Transition, InitState, Execute, VerifyLanded, EndApply, MintWitness, Halt
<1>2. BeginApply => UNCHANGED vars \/ \E u \in Batch : Apply(u)
  <2> SUFFICES ASSUME BeginApply, NoDrift, TargetIsAsExpected(Row), Accepts(Row)
               PROVE  \E u \in Batch : Apply(u)
    BY DEF BeginApply, Halt
  <2>1. Apply(Row)
    BY DEF BeginApply, AtRow, Apply
  <2>2. Row \in Batch
    BY TheBatch DEF BeginApply, Row
  <2> QED
    BY <2>1, <2>2
<1>3. HandFinish => \E u \in Batch : Apply(u)
  BY DEF HandFinish
<1> QED
  BY <1>1, <1>2, <1>3 DEF BatchNext, Command, Progress, vars

\* Apply's steps and dispositions are steps of Consolidate.
LEMMA ApplySteps ==
  /\ Run => [Next]_vars
  /\ \A u \in Batch : Apply(u) => [Next]_vars
  /\ \A s \in Sessions, n \in Numbers : Shelve(s, n, "superseded") => [Next]_vars
BY TheBatch DEF Next, ByHand

\* An edit of a body changes nothing else.
LEMMA EditedFile ==
  ASSUME NEW f \in Files, NEW n \in Numbers, f[n] # None
  PROVE  /\ Edited(f, n) \in Files
         /\ \A m \in Numbers : /\ Edited(f, n)[m] # None <=> f[m] # None
                               /\ Edited(f, n)[m].status = f[m].status
<1>1. f[n] \in Records
  BY DEF Files
<1> DEFINE r == [f[n] EXCEPT !.body = "edited"]
<1>2. r \in Records /\ r.status = f[n].status /\ r # None
  BY <1>1, NoneIsNothing DEF Records, Bodies
<1>3. Edited(f, n) = [f EXCEPT ![n] = r]
  BY DEF Edited, Files
<1> HIDE DEF r
<1> QED
  BY <1>2, <1>3 DEF Files

\* What people do: a body, the page's text, the create's text, another delta, or a
\* disposition.
BodyEdited ==
  /\ UNCHANGED <<pages, drafts>>
  /\ live' \in [Sessions -> Files] /\ archive' \in [Sessions -> Files]
  /\ \A s \in Sessions, n \in Numbers :
       /\ (live'[s][n] # None <=> live[s][n] # None) /\ live'[s][n].status = live[s][n].status
       /\ (archive'[s][n] # None <=> archive[s][n] # None) /\ archive'[s][n].status = archive[s][n].status
PageEdited ==
  /\ pages[Create] # None /\ pages' = [pages EXCEPT ![Create].text = "revised"]
  /\ UNCHANGED <<live, archive, drafts>>
DraftEdited ==
  /\ drafts[Create] # None /\ drafts' = [drafts EXCEPT ![Create].text = "revised"]
  /\ UNCHANGED <<live, archive, pages>>
DeltaAdded ==
  /\ \E s \in Sessions, u \in Units :
       /\ NextNumber(s) \in Numbers
       /\ live' = [live EXCEPT ![s][NextNumber(s)] =
                     [unit |-> u, status |-> "provisional", body |-> "first"]]
  /\ UNCHANGED <<archive, pages, drafts>>

\* Every edit out of band is one of them.
LEMMA PeopleDo ==
  ASSUME TypeOK, OutOfBand
  PROVE  \/ \E s \in Sessions, n \in Numbers : Shelve(s, n, "superseded")
         \/ /\ edits' \in 0..MaxEdits /\ UNCHANGED <<doubles, liveCut, archCut, acked, job, captured, crashes>>
            /\ BodyEdited \/ PageEdited \/ DraftEdited \/ DeltaAdded
<1>1. live \in [Sessions -> Files] /\ archive \in [Sessions -> Files]
  BY DEF TypeOK
<1>2. Edit => edits' \in 0..MaxEdits
  BY ConsolidateConstants DEF Edit, TypeOK
<1>3. ASSUME NEW s \in Sessions, NEW n \in Numbers, live[s][n] # None,
             live' = [live EXCEPT ![s] = Edited(@, n)], UNCHANGED <<archive, pages, drafts>>
      PROVE  BodyEdited
  <2>1. live' = [live EXCEPT ![s] = Edited(live[s], n)]
    BY <1>3
  <2>2. Edited(live[s], n) \in Files /\ live[s] \in Files
    BY <1>1, <1>3, EditedFile
  <2>3. \A m \in Numbers : /\ Edited(live[s], n)[m] # None <=> live[s][m] # None
                           /\ Edited(live[s], n)[m].status = live[s][m].status
    BY <1>1, <1>3, EditedFile
  <2>4. live' \in [Sessions -> Files] /\ \A t \in Sessions : live'[t] = IF t = s THEN Edited(live[s], n) ELSE live[t]
    BY <1>1, <2>1, <2>2
  <2> QED
    BY <1>1, <1>3, <2>3, <2>4 DEF BodyEdited
<1>4. ASSUME NEW s \in Sessions, NEW n \in Numbers, archive[s][n] # None,
             archive' = [archive EXCEPT ![s] = Edited(@, n)], UNCHANGED <<live, pages, drafts>>
      PROVE  BodyEdited
  <2>1. archive' = [archive EXCEPT ![s] = Edited(archive[s], n)]
    BY <1>4
  <2>2. Edited(archive[s], n) \in Files /\ archive[s] \in Files
    BY <1>1, <1>4, EditedFile
  <2>3. \A m \in Numbers : /\ Edited(archive[s], n)[m] # None <=> archive[s][m] # None
                           /\ Edited(archive[s], n)[m].status = archive[s][m].status
    BY <1>1, <1>4, EditedFile
  <2>4. archive' \in [Sessions -> Files] /\ \A t \in Sessions : archive'[t] = IF t = s THEN Edited(archive[s], n) ELSE archive[t]
    BY <1>1, <2>1, <2>2
  <2> QED
    BY <1>1, <1>4, <2>3, <2>4 DEF BodyEdited
<1> QED
  BY <1>2, <1>3, <1>4, Zenon DEF OutOfBand, PageEdited, DraftEdited, DeltaAdded, files

\* The draft of a carrier that is turned keeps its ids.
LEMMA TransitionedDraft ==
  ASSUME NEW d \in Drafts
  PROVE  Transitioned(d) \in Drafts /\ Transitioned(d).ids = d.ids /\ Transitioned(d) # None
<1>1. Create \in Units
  BY TheBatch
<1>2. Transitioned(d) \in Drafts /\ Transitioned(d).ids = d.ids
  BY <1>1 DEF Transitioned, Drafts, Modes
<1> QED
  BY <1>2, NoneIsNothing

\* The row of --transition is a draft.
LEMMA TransitionRowIs ==
  ASSUME BInv, TransitionRow
  PROVE  /\ Order[proc.row] \in Batch \ {Create} /\ drafts[Order[proc.row]] \in Drafts
         /\ proc # None /\ ProcInv /\ job = None
         /\ drafts' \in {drafts, [drafts EXCEPT ![Order[proc.row]] = Transitioned(@)]}
         /\ UNCHANGED <<files, pages, job, captured, edits, crashes, state>>
<1>1. proc # None /\ proc.at = "transition" /\ ProcInv
  BY DEF BInv, TransitionRow
<1>2. proc.row \in 2..Len(Order) /\ job = None
  BY <1>1 DEF ProcInv
<1>3. proc.row \in Rows /\ proc.row # 1
  BY <1>2, TheBatch
<1>4. Order[proc.row] \in Batch \ {Create} /\ drafts[Order[proc.row]] # None
  BY <1>1, <1>2, <1>3, TheBatch DEF ProcInv
<1>5. drafts[Order[proc.row]] \in Drafts
  BY <1>4, TheBatch DEF BInv, TypeOK
<1> QED
  BY <1>1, <1>2, <1>4, <1>5 DEF TransitionRow

\* A new delta is at a free number.
LEMMA AddedIsFree ==
  ASSUME TypeOK, Whole, DeltaAdded
  PROVE  \E s \in Sessions, n \in Numbers, r \in Records :
           /\ live[s][n] = None /\ archive[s][n] = None /\ r.status = "provisional"
           /\ live' = [live EXCEPT ![s][n] = r]
<1>1. PICK s \in Sessions, u \in Units :
        /\ NextNumber(s) \in Numbers
        /\ live' = [live EXCEPT ![s][NextNumber(s)] = [unit |-> u, status |-> "provisional", body |-> "first"]]
  BY DEF DeltaAdded
<1> DEFINE r == [unit |-> u, status |-> "provisional", body |-> "first"]
<1>2. r \in Records /\ r.status = "provisional"
  BY DEF Records, Open, Bodies
<1>3. live' = [live EXCEPT ![s][NextNumber(s)] = r]
  BY <1>1
<1> HIDE DEF r
<1>4. NextNumber(s) \notin Active(s) \cup Archived(s)
  BY NextIsNew
<1>5. live[s][NextNumber(s)] = None /\ archive[s][NextNumber(s)] = None
  BY <1>1, <1>4, WholeReads
<1> QED
  BY <1>1, <1>2, <1>3, <1>5

\* Whatever people do, a record stays where it is, and is promoted if it was.
LEMMA PeopleKeep ==
  ASSUME TypeOK, Whole, OutOfBand, NEW f \in Sessions, NEW n \in Numbers
  PROVE  /\ live[f][n] # None => live'[f][n] # None
         /\ archive[f][n] # None => archive'[f][n] # None
         /\ IsConsolidated(live'[f][n]) <=> IsConsolidated(live[f][n])
         /\ IsConsolidated(archive'[f][n]) <=> IsConsolidated(archive[f][n])
<1>0. live \in [Sessions -> Files] /\ archive \in [Sessions -> Files]
  BY DEF TypeOK
<1> USE DEF IsConsolidated
<1>1. CASE UNCHANGED <<live, archive>>
  BY <1>1
<1>2. CASE BodyEdited
  BY <1>2 DEF BodyEdited
<1>3. CASE DeltaAdded
  <2>1. PICK t \in Sessions, m \in Numbers, q \in Records :
          /\ live[t][m] = None /\ q.status = "provisional"
          /\ live' = [live EXCEPT ![t][m] = q]
    BY <1>3, AddedIsFree
  <2>2. /\ archive' = archive /\ q # None
        /\ live'[f][n] = live[f][n] \/ (live[f][n] = None /\ live'[f][n] = q)
    BY <1>0, <1>3, <2>1, NoneIsNothing DEF DeltaAdded, Files
  <2> QED
    BY <2>1, <2>2
<1>4. ASSUME NEW t \in Sessions, NEW m \in Numbers, Shelve(t, m, "superseded"), live'[f][n] # live[f][n]
      PROVE  /\ live[f][n] # None /\ live'[f][n] # None
             /\ ~IsConsolidated(live'[f][n]) /\ ~IsConsolidated(live[f][n])
  <2>1. /\ live[t][m] \in Records /\ live[t][m].status \in Open
        /\ live' = [live EXCEPT ![t][m].status = "superseded"]
    BY <1>0, <1>4 DEF Shelve, Active, Parsed, Files
  <2> DEFINE q == [live[t][m] EXCEPT !.status = "superseded"]
  <2>2. live' = [live EXCEPT ![t][m] = q]
    BY <2>1
  <2>3. q \in Records /\ q.status = "superseded"
    BY <2>1 DEF Records, Disposed
  <2> HIDE DEF q
  <2>4. t = f /\ m = n /\ live'[f][n] = q
    BY <1>0, <1>4, <2>2 DEF Files
  <2> QED
    BY <2>1, <2>3, <2>4, NoneIsNothing DEF Open
<1>5. \A t \in Sessions, m \in Numbers : Shelve(t, m, "superseded") => archive' = archive
  BY DEF Shelve
<1>6. UNCHANGED <<live, archive>> \/ BodyEdited \/ DeltaAdded
        \/ \E t \in Sessions, m \in Numbers : Shelve(t, m, "superseded")
  BY PeopleDo DEF PageEdited, DraftEdited
<1> QED
  BY <1>1, <1>2, <1>3, <1>4, <1>5, <1>6

\* Every step keeps the types.
LEMMA BatchTypeStep ==
  ASSUME BInv, [BatchNext]_<<vars, batchVars>>
  PROVE  TypeOK'
<1> USE DEF files
<1>0. TypeOK /\ Whole
  BY DEF BInv
<1>1. [Next]_vars => TypeOK'
  BY <1>0, TypeStep
<1>2. CASE Kill
  BY <1>0, <1>2, ConsolidateConstants DEF Kill, TypeOK
<1>3. CASE TransitionRow
  <2>1. drafts' \in [Units -> {None} \cup Drafts]
    BY <1>0, <1>3, TransitionRowIs, TransitionedDraft DEF TypeOK
  <2> QED
    BY <1>0, <1>3, <2>1 DEF TransitionRow, TypeOK
<1>4. CASE DistilCreate
  <2>1. Create \in Units /\ drafts[Create] \in Drafts
    BY <1>0, <1>4, TheBatch DEF DistilCreate, TypeOK
  <2>2. [drafts[Create] EXCEPT !.banner = "gone"] \in Drafts
    BY <2>1 DEF Drafts
  <2>3. drafts' = [drafts EXCEPT ![Create] = [drafts[Create] EXCEPT !.banner = "gone"]]
    BY <1>0, <1>4, <2>1 DEF DistilCreate, TypeOK
  <2>4. drafts' \in [Units -> {None} \cup Drafts]
    BY <1>0, <2>2, <2>3 DEF TypeOK
  <2> QED
    BY <1>0, <1>4, <2>4 DEF DistilCreate, TypeOK
<1>5. CASE OutOfBand
  <2>1. CASE BodyEdited /\ edits' \in 0..MaxEdits /\ UNCHANGED <<doubles, liveCut, archCut, acked, job, captured, crashes>>
    BY <1>0, <2>1 DEF BodyEdited, TypeOK
  <2>2. CASE PageEdited /\ edits' \in 0..MaxEdits /\ UNCHANGED <<doubles, liveCut, archCut, acked, job, captured, crashes>>
    <3>1. pages[Create] \in Pages
      BY <1>0, <2>2, TheBatch DEF PageEdited, TypeOK
    <3>2. [pages[Create] EXCEPT !.text = "revised"] \in Pages
      BY <3>1 DEF Pages, Texts
    <3>3. pages' = [pages EXCEPT ![Create] = [pages[Create] EXCEPT !.text = "revised"]]
      BY <1>0, <2>2 DEF PageEdited, TypeOK
    <3>4. pages' \in [Units -> {None} \cup Pages]
      BY <1>0, <3>2, <3>3 DEF TypeOK
    <3> QED
      BY <1>0, <2>2, <3>4 DEF PageEdited, TypeOK
  <2>3. CASE DraftEdited /\ edits' \in 0..MaxEdits /\ UNCHANGED <<doubles, liveCut, archCut, acked, job, captured, crashes>>
    <3>1. drafts[Create] \in Drafts
      BY <1>0, <2>3, TheBatch DEF DraftEdited, TypeOK
    <3>2. [drafts[Create] EXCEPT !.text = "revised"] \in Drafts
      BY <3>1 DEF Drafts, Texts
    <3>3. drafts' = [drafts EXCEPT ![Create] = [drafts[Create] EXCEPT !.text = "revised"]]
      BY <1>0, <2>3 DEF DraftEdited, TypeOK
    <3>4. drafts' \in [Units -> {None} \cup Drafts]
      BY <1>0, <3>2, <3>3 DEF TypeOK
    <3> QED
      BY <1>0, <2>3, <3>4 DEF DraftEdited, TypeOK
  <2>4. CASE DeltaAdded /\ edits' \in 0..MaxEdits /\ UNCHANGED <<doubles, liveCut, archCut, acked, job, captured, crashes>>
    <3>1. live' \in [Sessions -> Files]
      <4>1. PICK s \in Sessions, n \in Numbers, r \in Records : live' = [live EXCEPT ![s][n] = r]
        BY <1>0, <2>4, AddedIsFree
      <4> QED
        BY <1>0, <4>1 DEF TypeOK, Files
    <3> QED
      BY <1>0, <2>4, <3>1 DEF DeltaAdded, TypeOK
  <2> QED
    BY <1>0, <1>1, <1>5, <2>1, <2>2, <2>3, <2>4, PeopleDo, ApplySteps
<1> QED
  BY <1>1, <1>2, <1>3, <1>4, <1>5, Kinds, ApplySteps

\* No file is cut, and no id is given again.
LEMMA WholeStep ==
  ASSUME BInv, [BatchNext]_<<vars, batchVars>>
  PROVE  Whole' /\ doubles' = {} /\ UNCHANGED <<doubles, liveCut, archCut>>
<1> USE DEF files
<1>1. Run => UNCHANGED <<doubles, liveCut, archCut>>
  BY DEF Run, WritePage, FlipsDone, Remove, ArchiveDone, Finish, FlipReads, FlipWrites, Archive
<1>2. OutOfBand => UNCHANGED <<doubles, liveCut, archCut>>
  BY PeopleDo DEF BInv, Shelve
<1>3. UNCHANGED <<doubles, liveCut, archCut>>
  BY <1>1, <1>2, Kinds DEF Apply, Kill, TransitionRow, DistilCreate, vars
<1> QED
  BY <1>3 DEF BInv, Whole

\* No draft comes back, and none loses its ids, nor that of the create what it is.
LEMMA DraftsStep ==
  ASSUME BInv, [BatchNext]_<<vars, batchVars>>
  PROVE  /\ \A u \in Units : drafts'[u] # None => drafts[u] # None /\ drafts'[u].ids = drafts[u].ids
         /\ CreateDraft'
<1> USE DEF files
<1>0. drafts \in [Units -> {None} \cup Drafts] /\ CreateDraft /\ Create \in Units
  BY TheBatch DEF BInv, TypeOK
<1> DEFINE Fine == /\ \A u \in Units : drafts'[u] # None => drafts[u] # None /\ drafts'[u].ids = drafts[u].ids
                   /\ CreateDraft'
<1>1. drafts' = drafts => Fine
  BY <1>0 DEF CreateDraft
<1>2. ASSUME NEW u \in Units, drafts' = [drafts EXCEPT ![u] = None]
      PROVE  Fine
  BY <1>0, <1>2 DEF CreateDraft
<1>3. CASE Run
  <2>1. CASE Finish
    <3>1. job.unit \in Units
      BY <2>1, JobType DEF BInv, Finish, Jobs
    <3>2. drafts' = drafts \/ drafts' = [drafts EXCEPT ![job.unit] = None]
      BY <2>1 DEF Finish
    <3> QED
      BY <1>1, <1>2, <3>1, <3>2
  <2>2. ~Finish => drafts' = drafts
    BY <1>3 DEF Run, WritePage, FlipsDone, Remove, ArchiveDone, FlipReads, FlipWrites, Archive
  <2> QED
    BY <1>1, <2>1, <2>2
<1>4. CASE TransitionRow
  <2> DEFINE u == Order[proc.row]
  <2>1. u \in Units /\ u # Create /\ drafts[u] \in Drafts
        /\ (drafts' = drafts \/ drafts' = [drafts EXCEPT ![u] = Transitioned(drafts[u])])
    BY <1>4, TransitionRowIs, TheBatch
  <2>2. Transitioned(drafts[u]).ids = drafts[u].ids /\ drafts[u] # None
    BY <2>1, TransitionedDraft, NoneIsNothing
  <2> HIDE DEF u
  <2> QED
    BY <1>0, <1>1, <2>1, <2>2 DEF CreateDraft
<1>5. ASSUME NEW d \in Drafts, drafts[Create] \in Drafts, drafts' = [drafts EXCEPT ![Create] = d],
             d.ids = drafts[Create].ids, d.mode = drafts[Create].mode, d.target = drafts[Create].target
      PROVE  Fine
  <2>1. drafts[Create] # None
    BY <1>5, NoneIsNothing
  <2> QED
    BY <1>0, <1>5, <2>1 DEF CreateDraft
<1>6. CASE DistilCreate
  <2> DEFINE d == [drafts[Create] EXCEPT !.banner = "gone"]
  <2>1. drafts[Create] \in Drafts /\ drafts' = [drafts EXCEPT ![Create] = d]
    BY <1>0, <1>6 DEF DistilCreate
  <2>2. d \in Drafts /\ d.ids = drafts[Create].ids /\ d.mode = drafts[Create].mode /\ d.target = drafts[Create].target
    BY <2>1 DEF Drafts
  <2> HIDE DEF d
  <2> QED
    BY <1>5, <2>1, <2>2
<1>7. CASE DraftEdited
  <2> DEFINE d == [drafts[Create] EXCEPT !.text = "revised"]
  <2>1. drafts[Create] \in Drafts /\ drafts' = [drafts EXCEPT ![Create] = d]
    BY <1>0, <1>7 DEF DraftEdited
  <2>2. d \in Drafts /\ d.ids = drafts[Create].ids /\ d.mode = drafts[Create].mode /\ d.target = drafts[Create].target
    BY <2>1 DEF Drafts, Texts
  <2> HIDE DEF d
  <2> QED
    BY <1>5, <2>1, <2>2
<1>8. OutOfBand => drafts' = drafts \/ DraftEdited
  BY PeopleDo DEF BInv, Shelve, BodyEdited, PageEdited, DeltaAdded
<1>9. \A u \in Batch : Apply(u) => drafts' = drafts
  BY DEF Apply
<1>10. Kill \/ UNCHANGED vars => drafts' = drafts
  BY DEF Kill, vars
<1>11. Fine
  <2>1. \/ UNCHANGED vars \/ (\E u \in Batch : Apply(u))
        \/ Run \/ Kill \/ TransitionRow \/ DistilCreate \/ OutOfBand
    BY Kinds
  <2>2. CASE (\E u \in Batch : Apply(u)) \/ UNCHANGED vars \/ Kill
    BY <1>1, <1>9, <1>10, <2>2
  <2>3. CASE OutOfBand
    BY <1>1, <1>7, <1>8, <2>3
  <2> QED
    BY <1>3, <1>4, <1>6, <2>1, <2>2, <2>3
<1> QED
  BY <1>11 DEF Fine

\* A page is only added to, and by the run that planned it.
LEMMA PagesStep ==
  ASSUME BInv, [BatchNext]_<<vars, batchVars>>, NEW u \in Units
  PROVE  /\ pages[u] # None => pages'[u] # None /\ pages[u].ids \subseteq pages'[u].ids
         /\ pages'[u] # None =>
              \/ pages[u] # None /\ pages'[u].ids = pages[u].ids
              \/ /\ job # None /\ job.at = "page" /\ job.draft.target = u
                 /\ pages'[u].ids = job.page.ids
<1> USE DEF files
<1>0. pages \in [Units -> {None} \cup Pages] /\ TypeOK
  BY DEF BInv, TypeOK
<1>1. CASE pages' = pages
  BY <1>1
<1>2. CASE WritePage
  <2>1. pages' = [pages EXCEPT ![job.draft.target] = job.page] /\ job # None /\ job.at = "page"
    BY <1>2 DEF WritePage
  <2>2. job.page # None /\ job.draft.target \in Units
    BY <1>0, <2>1, JobType, NoneIsNothing DEF Jobs, Drafts
  <2>3. pages[job.draft.target] # None => pages[job.draft.target].ids \subseteq job.page.ids
    BY <2>1 DEF BInv, JobInv
  <2> QED
    BY <1>0, <2>1, <2>2, <2>3
<1>3. CASE PageEdited
  <2>1. pages[Create] \in Pages /\ pages' = [pages EXCEPT ![Create] = [pages[Create] EXCEPT !.text = "revised"]]
    BY <1>0, <1>3, TheBatch DEF PageEdited
  <2>2. [pages[Create] EXCEPT !.text = "revised"] \in Pages
        /\ [pages[Create] EXCEPT !.text = "revised"].ids = pages[Create].ids
    BY <2>1 DEF Pages, Texts
  <2> QED
    BY <1>0, <2>1, <2>2, NoneIsNothing
<1>4. Run => pages' = pages \/ WritePage
  BY DEF Run, FlipsDone, Remove, ArchiveDone, Finish, FlipReads, FlipWrites, Archive
<1>5. OutOfBand => pages' = pages \/ PageEdited
  BY <1>0, PeopleDo DEF Shelve, BodyEdited, DraftEdited, DeltaAdded
<1>6. Kill \/ TransitionRow \/ DistilCreate \/ UNCHANGED vars => pages' = pages
  BY DEF Kill, TransitionRow, DistilCreate, vars
<1>7. (\E v \in Batch : Apply(v)) => pages' = pages
  BY DEF Apply
<1>8. pages' = pages \/ WritePage \/ PageEdited
  BY <1>4, <1>5, <1>6, <1>7, Kinds
<1> QED
  BY <1>1, <1>2, <1>3, <1>8

\* What a flip replaces keeps what is promoted, takes no record back into the file, and
\* promotes what the draft names.
LEMMA FlipKeeps ==
  ASSUME BInv, FlipWrites, NEW s \in Sessions, NEW n \in Numbers
  PROVE  /\ archive' = archive
         /\ live[s][n] = None => live'[s][n] = None
         /\ IsConsolidated(live[s][n]) => IsConsolidated(live'[s][n])
         /\ IsConsolidated(live'[s][n]) =>
              IsConsolidated(live[s][n]) \/ <<s, n>> \in job.draft.ids
<1> DEFINE f == job.file  x == job.text[n]
<1>1. /\ job # None /\ job.at = "write" /\ job \in Jobs /\ archive' = archive
      /\ live \in [Sessions -> Files]
  BY JobType DEF BInv, TypeOK, FlipWrites
<1>2. f \in Sessions /\ TextReads /\ job.text \in Files
  BY <1>1 DEF BInv, JobInv, Jobs
<1>3. live' = live \/ live' = [live EXCEPT ![f] = Flipped(job.text, f, job.draft.ids)]
  BY DEF FlipWrites
<1>4. CASE live'[s][n] = live[s][n]
  BY <1>1, <1>4
<1>5. CASE live'[s][n] # live[s][n]
  <2>1. s = f /\ live'[s][n] = Flipped(job.text, f, job.draft.ids)[n]
    BY <1>1, <1>2, <1>3, <1>5
  <2>2. live'[s][n] = IF x # None /\ <<s, n>> \in job.draft.ids /\ x.status \in Open
                      THEN [x EXCEPT !.status = "consolidated"] ELSE x
    BY <2>1 DEF Flipped
  <2>3. /\ x # None => live[s][n] # None
        /\ IsConsolidated(x) <=> IsConsolidated(live[s][n])
    BY <1>2, <2>1 DEF TextReads
  <2>4. x = None \/ x \in Records
    BY <1>2 DEF Files
  <2> HIDE DEF f, x
  <2> QED
    BY <1>1, <2>2, <2>3, <2>4 DEF IsConsolidated, Open
<1> QED
  BY <1>4, <1>5

\* An id that is verified stays verified.
LEMMA VerifiedStep ==
  ASSUME BInv, [BatchNext]_<<vars, batchVars>>, NEW i \in Ids, Verified(i)
  PROVE  Verified(i)'
<1> USE DEF files
<1> DEFINE s == i[1]  n == i[2]
<1>0. /\ s \in Sessions /\ n \in Numbers /\ TypeOK /\ Whole
      /\ live \in [Sessions -> Files] /\ archive \in [Sessions -> Files]
      /\ doubles = {} /\ doubles' = {}
  BY WholeStep DEF Ids, BInv, TypeOK, Whole
<1>1. /\ live[s][n] # None => live[s][n].status = "consolidated"
      /\ archive[s][n] # None => archive[s][n].status = "consolidated"
      /\ live[s][n] # None \/ archive[s][n] # None
  BY <1>0, Copies DEF Verified
<1>2. Verified(i)' <=> /\ live'[s][n] # None => live'[s][n].status = "consolidated"
                       /\ archive'[s][n] # None => archive'[s][n].status = "consolidated"
                       /\ live'[s][n] # None \/ archive'[s][n] # None
  <2>1. Somewhere(s, n)' = {live'[s][n], archive'[s][n]} \ {None}
    BY <1>0, Copies
  <2>2. Verified(i)' <=> /\ Somewhere(s, n)' # {}
                         /\ \A r \in Somewhere(s, n)' : r.status = "consolidated"
    BY DEF Verified
  <2> HIDE DEF s, n
  <2> QED
    BY <2>1, <2>2
<1> HIDE DEF s, n
<1>3. CASE UNCHANGED <<live, archive>>
  BY <1>1, <1>2, <1>3
<1>4. CASE FlipWrites
  BY <1>0, <1>1, <1>2, <1>4, FlipKeeps DEF IsConsolidated
<1>5. ASSUME NEW t \in Sessions, Archive(t)
      PROVE  Verified(i)'
  <2>1. liveCut[t] = 0
    BY <1>0 DEF Whole
  <2>2. CASE s # t
    BY <1>0, <1>1, <1>2, <1>5, <2>1, <2>2, ArchiveMoves
  <2>3. CASE s = t
    BY <1>0, <1>1, <1>2, <1>5, <2>1, <2>3, ArchiveMoves
  <2> QED
    BY <2>2, <2>3
<1>6. CASE Remove
  <2>1. live' = [live EXCEPT ![job.file] = Empty] /\ archive' = archive /\ job # None /\ job.at = "remove"
    BY <1>6 DEF Remove
  <2>2. s = job.file /\ live[s][n] # None => archive[s][n] # None
    BY <1>0, <1>1, <2>1 DEF BInv, JobInv, IsConsolidated
  <2>3. live'[s][n] = (IF s = job.file THEN None ELSE live[s][n])
    BY <1>0, <2>1 DEF Empty
  <2> QED
    BY <1>1, <1>2, <2>1, <2>2, <2>3
<1>7. ASSUME NEW t \in Sessions, NEW m \in Numbers, Shelve(t, m, "superseded")
      PROVE  Verified(i)'
  <2>1. archive' = archive /\ live[t][m].status \in Open /\ live[t][m] # None
        /\ live' = [live EXCEPT ![t][m].status = "superseded"]
    BY <1>7 DEF Shelve, Active, Parsed
  <2>2. ~(s = t /\ n = m)
    BY <1>1, <2>1 DEF Open
  <2>3. live'[s][n] = live[s][n]
    BY <1>0, <2>1, <2>2 DEF Files
  <2> QED
    BY <1>1, <1>2, <2>1, <2>3
<1>8. CASE BodyEdited
  BY <1>0, <1>1, <1>2, <1>8 DEF BodyEdited
<1>9. CASE DeltaAdded
  <2>1. PICK t \in Sessions, m \in Numbers, r \in Records :
          live[t][m] = None /\ archive[t][m] = None /\ live' = [live EXCEPT ![t][m] = r]
    BY <1>0, <1>9, AddedIsFree
  <2>2. ~(s = t /\ n = m)
    BY <1>1, <2>1
  <2>3. live'[s][n] = live[s][n] /\ archive' = archive
    BY <1>0, <1>9, <2>1, <2>2 DEF Files, DeltaAdded
  <2> QED
    BY <1>1, <1>2, <2>3
<1>10. CASE Run
  <2>1. UNCHANGED <<live, archive>> \/ Remove \/ FlipWrites \/ \E t \in Sessions : Archive(t)
    BY <1>10 DEF Run, WritePage, FlipsDone, ArchiveDone, Finish, FlipReads
  <2> QED
    BY <1>3, <1>4, <1>5, <1>6, <2>1
<1>11. CASE OutOfBand
  <2>1. UNCHANGED <<live, archive>> \/ BodyEdited \/ DeltaAdded
          \/ \E t \in Sessions, m \in Numbers : Shelve(t, m, "superseded")
    BY <1>0, <1>11, PeopleDo DEF PageEdited, DraftEdited
  <2> QED
    BY <1>3, <1>7, <1>8, <1>9, <2>1
<1>12. Kill \/ TransitionRow \/ DistilCreate \/ UNCHANGED vars \/ (\E v \in Batch : Apply(v))
         => UNCHANGED <<live, archive>>
  BY DEF Kill, TransitionRow, DistilCreate, vars, Apply
<1> QED
  BY <1>3, <1>10, <1>11, <1>12, Kinds

\* A delta comes to read consolidated only by the flip of a run whose draft names it.
LEMMA ConsolidatedStep ==
  ASSUME BInv, [BatchNext]_<<vars, batchVars>>, NEW s \in Sessions, NEW n \in Numbers,
         NEW r \in Somewhere(s, n)', r.status = "consolidated"
  PROVE  \/ \E q \in Somewhere(s, n) : q.status = "consolidated"
         \/ job # None /\ <<s, n>> \in job.draft.ids
<1> USE DEF files
<1>0. /\ TypeOK /\ Whole /\ doubles = {} /\ doubles' = {}
      /\ live \in [Sessions -> Files] /\ archive \in [Sessions -> Files]
  BY WholeStep DEF BInv, TypeOK, Whole
<1> DEFINE Old == IsConsolidated(live[s][n]) \/ IsConsolidated(archive[s][n])
           New == IsConsolidated(live'[s][n]) \/ IsConsolidated(archive'[s][n])
           Goal == Old \/ (job # None /\ <<s, n>> \in job.draft.ids)
<1> SUFFICES Goal
  <2>1. Old => \E q \in Somewhere(s, n) : q.status = "consolidated"
    BY <1>0, Copies DEF IsConsolidated
  <2> QED
    BY <2>1
<1>1. New
  <2>1. r \in {live'[s][n], archive'[s][n]} /\ r # None
    BY <1>0, Copies
  <2> QED
    BY <2>1 DEF IsConsolidated
<1>2. CASE UNCHANGED <<live, archive>>
  BY <1>1, <1>2
<1>3. CASE OutOfBand
  BY <1>0, <1>1, <1>3, PeopleKeep
<1>4. CASE FlipWrites
  <2>1. job # None
    BY <1>4 DEF FlipWrites
  <2> QED
    BY <1>1, <1>4, <2>1, FlipKeeps
<1>5. ASSUME NEW t \in Sessions, Archive(t)
      PROVE  Old
  <2>1. liveCut[t] = 0
    BY <1>0 DEF Whole
  <2>2. CASE s # t
    <3>1. live'[s] = live[s] /\ archive'[s] = archive[s]
      BY <1>0, <1>5, <2>1, <2>2, ArchiveMoves
    <3> QED
      BY <1>1, <3>1
  <2>3. CASE s = t
    <3>1. archive'[s][n] \in {archive[s][n], live[s][n]} /\ live'[s][n] \in {live[s][n], None}
      BY <1>0, <1>5, <2>1, <2>3, ArchiveMoves
    <3> QED
      BY <1>1, <3>1 DEF IsConsolidated
  <2> QED
    BY <2>2, <2>3
<1>6. CASE Remove
  <2>1. archive' = archive /\ live' = [live EXCEPT ![job.file] = Empty]
    BY <1>6 DEF Remove
  <2>2. live'[s][n] \in {live[s][n], None}
    BY <1>0, <2>1 DEF Empty
  <2> QED
    BY <1>1, <2>1, <2>2 DEF IsConsolidated
<1>7. CASE Run
  <2>1. UNCHANGED <<live, archive>> \/ Remove \/ FlipWrites \/ \E t \in Sessions : Archive(t)
    BY <1>7 DEF Run, WritePage, FlipsDone, ArchiveDone, Finish, FlipReads
  <2> QED
    BY <1>2, <1>4, <1>5, <1>6, <2>1
<1>8. Kill \/ TransitionRow \/ DistilCreate \/ UNCHANGED vars \/ (\E v \in Batch : Apply(v))
         => UNCHANGED <<live, archive>>
  BY DEF Kill, TransitionRow, DistilCreate, vars, Apply
<1> QED
  BY <1>2, <1>3, <1>7, <1>8, Kinds

\* What a run of apply begins with.
LEMMA BeginIs ==
  ASSUME BInv, NEW u \in Batch, Apply(u), state # None
  PROVE  /\ job' = Begin(u) /\ job'.unit = u /\ job'.at = "page" /\ job'.draft = drafts[u]
         /\ drafts[u] \in Drafts /\ drafts[u].ids = state.units[u]
         /\ u = Create => /\ drafts[u].mode = "create" /\ drafts[u].target = Create
                          /\ job'.page.ids = state.units[u]
         /\ pages[drafts[u].target] # None => pages[drafts[u].target].ids \subseteq job'.page.ids
<1> DEFINE d == drafts[u]
<1>1. job' = Begin(u) /\ Accepts(u) /\ u \in Units /\ TypeOK
  BY TheBatch DEF Apply, BInv
<1>2. d \in Drafts /\ d # None
  BY <1>1, BeginType DEF Accepts
<1>3. job'.unit = u /\ job'.at = "page" /\ job'.draft = d /\ job'.page = Promoted(d, pages[d.target])
  BY <1>1 DEF Begin
<1>4. d.ids = state.units[u]
  BY <1>2 DEF BInv, DiskInv
<1>5. u = Create => d.mode = "create" /\ d.target = Create
  BY <1>2 DEF BInv, CreateDraft
<1>6. u = Create => job'.page.ids = state.units[u]
  BY <1>3, <1>4, <1>5 DEF Promoted
<1>7. pages[d.target] # None => pages[d.target].ids \subseteq job'.page.ids
  BY <1>1, <1>3, PlannedPage
<1> HIDE DEF d
<1> QED
  BY <1>1, <1>2, <1>3, <1>4, <1>5, <1>6, <1>7 DEF d

\* A run goes on with the unit, the draft and the page that it began with.
LEMMA RunGoesOn ==
  ASSUME TypeOK, Whole, Run, job' # None
  PROVE  /\ job # None /\ job'.unit = job.unit /\ job'.draft = job.draft /\ job'.page = job.page
         /\ job'.at # "page"
         /\ job'.at = "write" => /\ job'.file \in Sessions /\ live' = live
                                /\ job'.text = live[job'.file]
         /\ job'.at = "remove" =>
              /\ job'.file \in Sessions
              /\ \A n \in Numbers : live'[job'.file][n] # None => archive'[job'.file][n] = live'[job'.file][n]
<1> USE DEF files
<1>1. ~Finish
  BY DEF Finish
<1>2. CASE WritePage
  <2>1. job \in Jobs /\ job # None
    BY <1>2, JobType DEF WritePage
  <2> QED
    BY <1>2, <2>1 DEF WritePage, Jobs
<1>3. CASE FlipWrites
  <2>1. job \in Jobs /\ job # None
    BY <1>3, JobType DEF FlipWrites
  <2> QED
    BY <1>3, <2>1 DEF FlipWrites, Jobs
<1>7. ASSUME NEW s \in Sessions, FlipReads(s)
      PROVE  /\ job # None /\ job'.unit = job.unit /\ job'.draft = job.draft /\ job'.page = job.page
             /\ job'.at = "write" /\ job'.file = s /\ live' = live /\ job'.text = live[s]
  <2>1. job \in Jobs /\ job # None
    BY <1>7, JobType DEF FlipReads
  <2> QED
    BY <1>7, <2>1 DEF FlipReads, Jobs
<1>4. CASE FlipsDone \/ ArchiveDone
  <2>1. job \in Jobs /\ job # None
    BY <1>4, JobType DEF FlipsDone, ArchiveDone
  <2>2. job' = [job EXCEPT !.at = "archive"] \/ job' = [job EXCEPT !.at = "verify"]
    BY <1>4 DEF FlipsDone, ArchiveDone
  <2> QED
    BY <2>1, <2>2 DEF Jobs
<1>5. ASSUME NEW s \in Sessions, Archive(s)
      PROVE  /\ job # None /\ job'.unit = job.unit /\ job'.draft = job.draft /\ job'.page = job.page
             /\ job'.at \in {"archive", "remove"}
             /\ job'.at = "remove" =>
                  /\ job'.file = s
                  /\ \A n \in Numbers : live'[s][n] # None => archive'[s][n] = live'[s][n]
  <2>1. job \in Jobs /\ job # None /\ job.at = "archive" /\ liveCut[s] = 0
    BY <1>5, JobType DEF Archive, Whole
  <2>2. /\ job'.unit = job.unit /\ job'.draft = job.draft /\ job'.page = job.page
        /\ job'.at \in {"archive", "remove"}
        /\ job'.at = "remove" => job'.file = s
    BY <1>5, <2>1 DEF Archive, Jobs
  <2> QED
    BY <1>5, <2>1, <2>2, ArchiveMoves
<1>6. CASE Remove
  <2>1. job \in Jobs /\ job # None
    BY <1>6, JobType DEF Remove
  <2> QED
    BY <1>6, <2>1 DEF Remove, Jobs
<1> QED
  BY <1>1, <1>2, <1>3, <1>4, <1>5, <1>6, <1>7 DEF Run

\* A step keeps what is known of a run, if it keeps the units of the state file.
LEMMA JobStep ==
  ASSUME BInv, [BatchNext]_<<vars, batchVars>>, job' # None,
         state # None => state' # None /\ state'.units = state.units
  PROVE  JobInv'
<1> USE DEF files
<1>0. TypeOK /\ Whole /\ (job # None => JobInv /\ state # None) /\ Create \in Batch
  BY TheBatch DEF BInv, JobInv
<1>1. ASSUME NEW u \in Batch, Apply(u)
      PROVE  JobInv'
  <2>1. state # None
    <3>1. ~(UNCHANGED vars)
      BY <1>1 DEF vars, Apply
    <3>2. HandFinish \/ BeginApply \/ Run \/ Kill \/ TransitionRow \/ DistilCreate \/ OutOfBand
      BY <3>1 DEF BatchNext, Command, Progress, Transition, InitState, Execute, VerifyLanded,
                  EndApply, MintWitness, Halt, vars
    <3>3. job = None /\ job' # None
      BY <1>1 DEF Apply
    <3>4. ~Run /\ ~Kill /\ ~TransitionRow /\ ~DistilCreate /\ ~OutOfBand
      BY <1>0, <3>3, RunGoesOn, PeopleDo DEF Kill, TransitionRow, DistilCreate, Shelve
    <3>5. BeginApply => state # None
      BY DEF BeginApply, AtRow, BInv, ProcInv
    <3> QED
      BY <3>2, <3>4, <3>5 DEF HandFinish
  <2>2. pages' = pages
    BY <1>1 DEF Apply
  <2>3. state' # None /\ state'.units = state.units
    BY <2>1
  <2>4. job'.draft.target = drafts[u].target
    BY <1>1, <2>1, BeginIs
  <2> QED
    BY <1>1, <2>1, <2>2, <2>3, <2>4, BeginIs DEF JobInv
<1>2. CASE Run
  <2>1. JobInv /\ state' # None /\ state'.units = state.units
    BY <1>0, <1>2, RunGoesOn
  <2>2. /\ job'.unit = job.unit /\ job'.draft = job.draft /\ job'.page = job.page
        /\ job'.at # "page"
        /\ job'.at = "write" => /\ job'.file \in Sessions /\ live' = live
                               /\ job'.text = live[job'.file]
        /\ job'.at = "remove" =>
             /\ job'.file \in Sessions
             /\ \A n \in Numbers : live'[job'.file][n] # None => archive'[job'.file][n] = live'[job'.file][n]
    BY <1>0, <1>2, RunGoesOn
  <2>3. job'.at = "remove" =>
          \A n \in Numbers : IsConsolidated(live'[job'.file][n]) => archive'[job'.file][n] # None
    BY <2>2 DEF IsConsolidated
  <2>4. job'.at = "write" => job'.file \in Sessions /\ TextReads'
    BY <2>2 DEF TextReads
  <2>5. (\A n \in Numbers : IsConsolidated(live[job.file][n]) => archive[job.file][n] # None)'
          <=> \A n \in Numbers : IsConsolidated(live'[job'.file][n]) => archive'[job'.file][n] # None
    BY DEF IsConsolidated
  <2> QED
    BY <2>1, <2>2, <2>3, <2>4, <2>5 DEF JobInv
<1>3. CASE job' = job /\ (UNCHANGED <<live, archive>> \/ OutOfBand)
  <2>1. JobInv /\ state' # None /\ state'.units = state.units /\ job # None
    BY <1>0, <1>3
  <2>2. job.draft.target \in Units
    BY <1>0, <2>1, JobType DEF Jobs, Drafts
  <2>3. job.at = "page" /\ pages'[job.draft.target] # None =>
          pages'[job.draft.target].ids \subseteq job.page.ids
    BY <2>1, <2>2, PagesStep DEF JobInv
  <2>4. job.at = "remove" =>
          \A n \in Numbers : IsConsolidated(live'[job.file][n]) => archive'[job.file][n] # None
    BY <1>0, <1>3, <2>1, PeopleKeep DEF JobInv
  <2>5. job.at = "write" =>
          \A n \in Numbers : /\ job.text[n] # None => live'[job.file][n] # None
                             /\ IsConsolidated(job.text[n]) <=> IsConsolidated(live'[job.file][n])
    BY <1>0, <1>3, <2>1, PeopleKeep DEF JobInv, TextReads
  <2> QED
    BY <1>3, <2>1, <2>3, <2>4, <2>5 DEF JobInv, TextReads, IsConsolidated
<1>4. TransitionRow \/ DistilCreate \/ UNCHANGED vars => job' = job /\ UNCHANGED <<live, archive>>
  BY DEF TransitionRow, DistilCreate, vars
<1>5. OutOfBand => job' = job
  BY <1>0, PeopleDo DEF Shelve
<1>6. ~Kill
  BY DEF Kill
<1> QED
  BY <1>1, <1>2, <1>3, <1>4, <1>5, <1>6, Kinds

-----------------------------------------------------------------------------
(* What the commands read *)

\* A snapshot holds what the files hold, and where nothing is twice it is all of it.
LEMMA SnapshotIs ==
  ASSUME TypeOK, Whole, NEW sources \in SUBSET Sessions
  PROVE  /\ Snapshot(sources) \in Snapshots(sources) /\ DOMAIN Snapshot(sources) = sources
         /\ \A s \in sources : live[s] # Empty => Snapshot(sources)[s].records = live[s]
         /\ CanSnapshot(sources) => \A s \in sources :
              /\ {live[s], archive[s]} \ {Empty} = {Snapshot(sources)[s].records}
              /\ \A n \in Numbers : Somewhere(s, n) = {Snapshot(sources)[s].records[n]} \ {None}
<1>0. live \in [Sessions -> Files] /\ archive \in [Sessions -> Files]
  BY DEF TypeOK
<1>4. \A s, n : Somewhere(s, n) = {live[s][n], archive[s][n]} \ {None}
  BY Copies DEF Whole
<1>1. \A s \in sources : /\ Snapshot(sources)[s].records = IF live[s] # Empty THEN live[s] ELSE archive[s]
                         /\ Snapshot(sources)[s] \in [where : {"live", "_archive"}, records : Files]
  BY <1>0 DEF Snapshot
<1>2. Snapshot(sources) \in Snapshots(sources) /\ DOMAIN Snapshot(sources) = sources
  BY <1>1 DEF Snapshot, Snapshots
<1>3. ASSUME CanSnapshot(sources), NEW s \in sources
      PROVE  /\ {live[s], archive[s]} \ {Empty} = {Snapshot(sources)[s].records}
             /\ \A n \in Numbers : Somewhere(s, n) = {Snapshot(sources)[s].records[n]} \ {None}
  <2>1. (live[s] = Empty) # (archive[s] = Empty)
    BY <1>3 DEF CanSnapshot, Resolves
  <2>2. \A n \in Numbers : Empty[n] = None
    BY DEF Empty
  <2> HIDE DEF Empty
  <2>3. CASE live[s] # Empty
    <3>1. archive[s] = Empty /\ Snapshot(sources)[s].records = live[s]
      BY <1>1, <2>1, <2>3
    <3> QED
      BY <1>4, <2>2, <2>3, <3>1
  <2>4. CASE live[s] = Empty
    <3>1. archive[s] # Empty /\ Snapshot(sources)[s].records = archive[s]
      BY <1>1, <2>1, <2>4
    <3> QED
      BY <1>4, <2>2, <2>4, <3>1
  <2> QED
    BY <2>3, <2>4
<1> QED
  BY <1>1, <1>2, <1>3

\* A unit that has no problem before --init is a draft of deltas to promote.
LEMMA UnitIs ==
  ASSUME TypeOK, Whole, NEW u \in Batch, drafts[u] # None, UnitHasNoProblem(u, None)
  PROVE  /\ drafts[u] \in Drafts /\ drafts[u].ids # {}
         /\ \A i \in drafts[u].ids :
              /\ i[1] \in Sessions /\ i[2] \in Numbers /\ IsActive(i)
              /\ live[i[1]] # Empty /\ live[i[1]][i[2]] # None /\ live[i[1]][i[2]].unit = u
              /\ live[i[1]][i[2]].status \notin {"archived", "superseded"}
<1>1. drafts[u] \in Drafts
  BY TheBatch DEF TypeOK
<1>2. Cardinality(drafts[u].ids) = Manifest[u]
  BY DEF UnitHasNoProblem, StateOf
<1>3. drafts[u].ids # {}
  BY <1>2, BatchConstants, FS_EmptySet
<1>4. ManifestOf(u, None) = drafts[u].ids
  BY DEF ManifestOf
<1>5. ASSUME NEW i \in drafts[u].ids
      PROVE  /\ i[1] \in Sessions /\ i[2] \in Numbers /\ IsActive(i)
             /\ live[i[1]] # Empty /\ live[i[1]][i[2]] # None /\ live[i[1]][i[2]].unit = u
             /\ live[i[1]][i[2]].status \notin {"archived", "superseded"}
  <2>1. i[1] \in Sessions /\ i[2] \in Numbers
    BY <1>1, <1>5 DEF Drafts, Ids
  <2>2. /\ IsActive(i) /\ live[i[1]][i[2]].unit = u
        /\ live[i[1]][i[2]].status \notin {"archived", "superseded"}
    BY <1>4, <1>5 DEF UnitHasNoProblem
  <2>3. live[i[1]][i[2]] # None
    BY <2>1, <2>2, WholeReads DEF IsActive
  <2> QED
    BY <2>1, <2>2, <2>3 DEF Empty
<1> QED
  BY <1>1, <1>3, <1>5

\* What --init saves.
LEMMA InitSaves ==
  ASSUME BInv, InitState
  PROVE  StateInv(state)' /\ DiskInv(state)' /\ state' # None
<1>0. /\ TypeOK /\ Whole /\ CreateDraft /\ Untouched /\ UNCHANGED <<vars, proc>>
      /\ state' = InitialState
      /\ \A u \in Batch : drafts[u] # None /\ UnitHasNoProblem(u, None)
      /\ ManifestsAreDisjoint(None)
  BY DEF BInv, InitState, NoProblem
<1>1. \A u \in Batch : /\ drafts[u] \in Drafts /\ drafts[u].ids # {}
                       /\ \A i \in drafts[u].ids :
                            /\ i[1] \in Sessions /\ i[2] \in Numbers /\ IsActive(i)
                            /\ live[i[1]] # Empty
                            /\ live[i[1]][i[2]].status \notin {"archived", "superseded"}
  BY <1>0, UnitIs
<1> DEFINE ids == UNION {drafts[u].ids : u \in Batch}
           sources == Sources(ids)
           snap == Snapshot(sources)
           units == [u \in Batch |-> drafts[u].ids]
           final == [s \in sources |-> Projected(snap[s].records, s, ids)]
           created == Promoted(drafts[Create], None)
           st == InitialState
<1>2. /\ sources \in SUBSET Sessions /\ \A i \in ids : i[1] \in sources
      /\ \A i \in ids : snap[i[1]].records[i[2]].status \notin {"archived", "superseded"}
  <2>1. \A i \in ids : /\ i[1] \in Sessions /\ IsActive(i) /\ live[i[1]] # Empty
                       /\ live[i[1]][i[2]].status \notin {"archived", "superseded"}
    BY <1>1
  <2> HIDE DEF ids
  <2>2. sources \in SUBSET Sessions /\ \A i \in ids : i[1] \in sources
    BY <2>1 DEF Sources
  <2>3. \A s \in sources : live[s] # Empty => snap[s].records = live[s]
    BY <1>0, <2>2, SnapshotIs
  <2> QED
    BY <2>1, <2>2, <2>3
<1>3. units \in [Batch -> SUBSET Ids]
  BY <1>1 DEF Drafts
<1>4. snap \in Snapshots(sources) /\ DOMAIN snap = sources
  BY <1>0, <1>2, SnapshotIs
<1>5. final \in [sources -> Files] /\ DOMAIN final = sources
  <2> HIDE DEF ids
  <2>1. \A s \in sources : snap[s].records \in Files
    <3> HIDE DEF snap, sources
    <3> QED
      BY <1>4 DEF Snapshots
  <2> HIDE DEF snap, sources
  <2>2. \A s \in sources : Projected(snap[s].records, s, ids) \in Files
    BY <2>1, FlippedType DEF Projected
  <2> QED
    BY <2>2
<1>6. created \in Pages /\ created.ids = drafts[Create].ids
  <2>1. drafts[Create] \in Drafts /\ drafts[Create].mode = "create"
    BY <1>0, <1>1, TheBatch DEF CreateDraft
  <2> QED
    BY <2>1 DEF Promoted, Pages, Drafts
<1>7. st = [units |-> units, initial |-> snap, last |-> snap, final |-> final, created |-> created,
            integrity |-> None, landed |-> 0, witness |-> None]
  BY DEF InitialState
<1>8. BatchIds(st) = ids
  BY <1>7 DEF BatchIds
<1>9. \A u, v \in Batch : u # v => units[u] \cap units[v] = {}
  BY <1>0 DEF ManifestsAreDisjoint, ManifestOf
<1>10. units[Create] = drafts[Create].ids /\ \A u \in Batch : units[u] = drafts[u].ids /\ units[u] # {}
  BY <1>1, TheBatch
<1> HIDE DEF ids, sources, snap, units, final, created, st
<1>11. st \in States(sources)
  BY <1>3, <1>4, <1>5, <1>6, <1>7 DEF States
<1>12. st # None
  BY <1>2, <1>11, NoneIsNoState
<1>13. ValidState(st)
  BY <1>3, <1>4, <1>5, <1>7, <1>10, TheBatch DEF ValidState
<1>14. StateInv(st)
  <2>1. st.created.ids = st.units[Create] /\ st.integrity \in {None, st.created.text}
    BY <1>6, <1>7, <1>10
  <2>2. \A i \in BatchIds(st) : st.initial[i[1]].records[i[2]].status \notin {"archived", "superseded"}
    BY <1>2, <1>7, <1>8
  <2>3. \A u, v \in Batch : u # v => st.units[u] \cap st.units[v] = {}
    BY <1>7, <1>9
  <2> QED
    BY <1>2, <1>11, <1>13, <2>1, <2>2, <2>3 DEF StateInv
<1>15. state' = st /\ UNCHANGED <<live, doubles, archive, pages, drafts, job>>
  BY <1>0 DEF st, vars
<1>16. DiskInv(state)'
  <2>1. \A u \in Batch : drafts'[u] # None => drafts'[u].ids = state'.units[u]
    BY <1>7, <1>10, <1>15
  <2>2. state'.landed = 0 /\ 1..0 = {}
    BY <1>7, <1>15
  <2>3. Uncarried(state)'
    <3>1. job' = None /\ pages'[Create] = None
      BY <1>0, <1>15, TheBatch DEF Untouched
    <3>2. ASSUME NEW u \in Batch, NEW i \in state'.units[u], NEW r \in Somewhere(i[1], i[2])'
          PROVE  r.status # "consolidated"
      <4>1. i[1] \in Sessions /\ i[2] \in Numbers /\ r \in Somewhere(i[1], i[2])
        BY <1>1, <1>7, <1>10, <1>15, <3>2 DEF Somewhere, Doubles
      <4> QED
        BY <1>0, <4>1 DEF Untouched
    <3> QED
      BY <3>1, <3>2 DEF Uncarried
  <2> QED
    BY <2>1, <2>2, <2>3 DEF DiskInv
<1> QED
  BY <1>12, <1>14, <1>15, <1>16 DEF StateInv, ValidState, BatchIds

-----------------------------------------------------------------------------
(* What a step leaves of what the state file says *)

\* The fields of a state file.
LEMMA StateIs ==
  ASSUME NEW st, StateInv(st)
  PROVE  /\ DOMAIN st.last \in SUBSET Sessions /\ st \in States(DOMAIN st.last) /\ st # None
         /\ st.units \in [Batch -> SUBSET Ids] /\ BatchIds(st) \in SUBSET Ids
         /\ st.last \in Snapshots(DOMAIN st.last) /\ st.initial \in Snapshots(DOMAIN st.last)
         /\ st.created \in Pages /\ st.landed \in 0..Len(Order)
<1>1. PICK sources \in SUBSET Sessions : st \in States(sources)
  BY DEF StateInv
<1>2. /\ st.units \in [Batch -> SUBSET Ids]
      /\ st.last \in Snapshots(sources) /\ st.initial \in Snapshots(sources)
      /\ st.created \in Pages
  BY <1>1 DEF States
<1>3. DOMAIN st.last = sources
  BY <1>2 DEF Snapshots
<1>4. BatchIds(st) \in SUBSET Ids
  BY <1>2 DEF BatchIds
<1> QED
  BY <1>1, <1>2, <1>3, <1>4, NoneIsNoState DEF StateInv, ValidState

\* A unit that landed stays landed.
LEMMA LandedStep ==
  ASSUME BInv, [BatchNext]_<<vars, batchVars>>, state # None, state'.units = state.units,
         NEW k \in Rows, Landed(state, k)
  PROVE  Landed(state, k)'
<1>1. Order[k] \in Batch /\ Order[k] \in Units /\ Create \in Units
  BY TheBatch
<1>2. drafts'[Order[k]] = None
  BY <1>1, DraftsStep DEF Landed
<1>3. pages'[Create] # None /\ pages[Create].ids \subseteq pages'[Create].ids
  BY <1>1, PagesStep DEF Landed
<1>4. IdsThrough(state, k)' = IdsThrough(state, k)
  BY DEF IdsThrough
<1>5. \A i \in state.units[Order[k]] : Verified(i)'
  <2>1. state.units[Order[k]] \subseteq Ids
    BY <1>1, StateIs DEF BInv
  <2> QED
    BY <2>1, VerifiedStep DEF Landed
<1> QED
  BY <1>2, <1>3, <1>4, <1>5 DEF Landed

\* A run is begun by a row of --execute, or by hand.
LEMMA WhoBegins ==
  ASSUME BInv, [BatchNext]_<<vars, batchVars>>, job' # None
  PROVE  \/ job # None /\ job'.unit = job.unit
         \/ BeginApply \/ HandFinish
<1> USE DEF files
<1>1. TypeOK /\ Whole
  BY DEF BInv
<1>2. Run => job # None /\ job'.unit = job.unit
  BY <1>1, RunGoesOn
<1>3. OutOfBand => job' = job
  BY <1>1, PeopleDo DEF Shelve
<1>4. TransitionRow \/ DistilCreate \/ Transition \/ InitState \/ Execute \/ VerifyLanded \/ EndApply
        \/ MintWitness \/ UNCHANGED <<vars, batchVars>> => job' = job
  BY DEF TransitionRow, DistilCreate, Transition, InitState, Execute, VerifyLanded, EndApply, MintWitness,
         Halt, vars
<1>5. ~Kill
  BY DEF Kill
<1> QED
  BY <1>2, <1>3, <1>4, <1>5 DEF BatchNext, Command, Progress

\* Until the text of the page is recorded only the create is promoted: a carrier needs
\* the recorded text, and by hand a unit whose deltas were promoted.
LEMMA UncarriedStep ==
  ASSUME BInv, [BatchNext]_<<vars, batchVars>>, state # None, state'.units = state.units,
         state.integrity = None
  PROVE  Uncarried(state)'
<1> USE DEF files
<1>0. /\ TypeOK /\ Whole /\ StateInv(state) /\ DiskInv(state) /\ Uncarried(state)
      /\ Create \in Batch /\ Create \in Units /\ Batch \subseteq Units
      /\ (job # None => JobInv) /\ (proc # None => ProcInv)
  BY TheBatch DEF BInv, DiskInv
<1>1. job # None => job.unit = Create /\ job.draft.ids = state.units[Create]
  BY <1>0 DEF Uncarried, JobInv
<1>2. ASSUME NEW u \in Batch \ {Create}, NEW i \in state.units[u], NEW r \in Somewhere(i[1], i[2])'
      PROVE  r.status # "consolidated"
  <2> SUFFICES ASSUME r.status = "consolidated" PROVE FALSE
    OBVIOUS
  <2>1. i \in Ids
    BY <1>0, StateIs
  <2>2. i[1] \in Sessions /\ i[2] \in Numbers /\ i = <<i[1], i[2]>>
    BY <2>1 DEF Ids
  <2>3. \/ \E q \in Somewhere(i[1], i[2]) : q.status = "consolidated"
        \/ job # None /\ i \in job.draft.ids
    BY <2>2, ConsolidatedStep
  <2>4. \A q \in Somewhere(i[1], i[2]) : q.status # "consolidated"
    BY <1>0 DEF Uncarried
  <2>5. i \notin state.units[Create]
    BY <1>0 DEF StateInv
  <2> QED
    BY <1>1, <2>3, <2>4, <2>5
<1>3. pages'[Create] # None => pages'[Create].ids = state.units[Create]
  <2>1. pages'[Create] # None =>
          \/ pages[Create] # None /\ pages'[Create].ids = pages[Create].ids
          \/ job # None /\ pages'[Create].ids = job.page.ids
    BY <1>0, PagesStep
  <2> QED
    BY <1>0, <1>1, <2>1 DEF Uncarried, JobInv
<1>4. BeginApply /\ job' # None => job'.unit = Create
  <2> SUFFICES ASSUME BeginApply, job' # None, Row # Create PROVE FALSE
    BY DEF BeginApply, Halt, AtRow, vars, Begin
  <2>1. TargetIsAsExpected(Row) /\ proc.mem = state
    BY <1>0 DEF BeginApply, Halt, AtRow, vars, ProcInv
  <2>2. pages[Create] \in Pages /\ pages[Create].text = None
    BY <1>0, <2>1 DEF TargetIsAsExpected, TypeOK
  <2> QED
    BY <2>2, NoneIsNothing DEF Pages
<1>5. HandFinish => job'.unit = Create
  <2> SUFFICES ASSUME NEW u \in Batch, u # Create, Apply(u), drafts[u] # None,
                      NEW i \in drafts[u].ids, ~IsActive(i)
               PROVE  FALSE
    BY DEF HandFinish, Apply, Begin
  <2>1. drafts[u].ids = state.units[u] /\ ManifestIsFound(drafts[u].ids)
    BY <1>0 DEF DiskInv, Apply, Accepts, WouldAccept, ManifestIsPromotable
  <2>2. IsArchived(i) /\ archive[i[1]][i[2]].status = "consolidated"
    BY <2>1 DEF ManifestIsFound
  <2>3. i[1] \in Sessions /\ i[2] \in Numbers
    BY <1>0, <2>1, StateIs DEF Ids
  <2>4. archive[i[1]][i[2]] \in Somewhere(i[1], i[2])
    BY <1>0, <2>2, <2>3, WholeReads, Copies DEF IsArchived, Whole
  <2> QED
    BY <1>0, <2>1, <2>2, <2>4 DEF Uncarried
<1>6. job' # None => job'.unit = Create
  BY <1>1, <1>4, <1>5, WhoBegins
<1> QED
  BY <1>2, <1>3, <1>6 DEF Uncarried
-----------------------------------------------------------------------------
(* What the commands save *)

\* An id that was to be flipped, and is flipped in the snapshot, is verified.
LEMMA FlippedReads ==
  ASSUME TypeOK, Whole, NEW sources \in SUBSET Sessions, CanSnapshot(sources),
         NEW before \in Snapshots(sources), NEW expected \in SUBSET Ids, NEW partial,
         Agree(before, Snapshot(sources), expected, partial),
         NEW i \in expected,
         \/ ~partial
         \/ Snapshot(sources)[i[1]].records[i[2]].status = "consolidated"
  PROVE  Verified(i)
<1> DEFINE s == i[1]  n == i[2]
           b == before[s].records
           a == Snapshot(sources)[s].records
<1>1. s \in Sessions /\ n \in Numbers /\ i = <<s, n>>
  BY DEF Ids
<1>2. DOMAIN before = sources
  BY DEF Snapshots
<1>3. s \in sources /\ b[n] # None
  BY <1>2 DEF Agree
<1>4. b \in Files
  BY <1>3 DEF Snapshots
<1>5. b[n] \in Records
  BY <1>1, <1>3, <1>4 DEF Files
<1>6. \/ a[n] = b[n] /\ partial
      \/ a[n] = [b[n] EXCEPT !.status = "consolidated"]
  BY <1>1, <1>2, <1>3 DEF Agree
<1>7. Somewhere(s, n) = {a[n]} \ {None}
  BY <1>1, <1>3, SnapshotIs
<1> HIDE DEF b
<1>8. a[n] \in Records /\ a[n].status = "consolidated"
  <2>1. [b[n] EXCEPT !.status = "consolidated"] \in Records
        /\ [b[n] EXCEPT !.status = "consolidated"].status = "consolidated"
    BY <1>5 DEF Records, Disposed
  <2> QED
    BY <1>5, <1>6, <2>1
<1> HIDE DEF a, s, n
<1>9. Somewhere(s, n) = {a[n]}
  BY <1>7, <1>8, NoneIsNothing
<1> QED
  BY <1>8, <1>9 DEF Verified, s, n

\* What a command that goes on writes into the state file.
Saved(st, text, landed, snap) == [st EXCEPT !.integrity = text, !.landed = landed, !.last = snap]

\* It is a state file, with nothing else changed.
LEMMA SavedState ==
  ASSUME NEW sources, NEW st \in States(sources), NEW snap \in Snapshots(sources),
         NEW landed \in Nat, NEW text \in Texts
  PROVE  LET new == Saved(st, text, landed, snap) IN
         /\ new \in States(sources)
         /\ new.units = st.units /\ new.initial = st.initial /\ new.final = st.final
         /\ new.created = st.created /\ new.witness = st.witness
         /\ new.integrity = text /\ new.landed = landed /\ new.last = snap
BY DEF States, Saved

\* A command that goes on saves what it verified of one more row.
LEMMA SaveStep ==
  ASSUME BInv, [BatchNext]_<<vars, batchVars>>, UNCHANGED vars, state # None,
         NEW row \in Rows, state.landed >= row - 1, state.witness = None,
         row > 1 => state.integrity # None,
         Landed(state, row),
         NEW text, text = state.created.text, text \in Texts,
         NEW landed, landed = (IF state.landed < row THEN row ELSE state.landed),
         state' = Saved(state, text, landed, Snapshot(DOMAIN state.last))
  PROVE  /\ StateInv(state)' /\ DiskInv(state)' /\ state' # None
         /\ state'.units = state.units /\ state'.landed >= row /\ state'.witness = None
         /\ state'.integrity # None
<1> DEFINE sources == DOMAIN state.last
           snap == Snapshot(sources)
<1>0. /\ TypeOK /\ Whole /\ StateInv(state) /\ DiskInv(state)
      /\ sources \in SUBSET Sessions /\ state \in States(sources)
      /\ state.landed \in 0..Len(Order) /\ row \in 1..Len(Order) /\ Len(Order) \in Nat
  BY StateIs, TheBatch DEF BInv
<1>1. snap \in Snapshots(sources)
  BY <1>0, SnapshotIs
<1>2. landed \in 0..Len(Order) /\ landed >= row /\ \A k \in 1..landed : k \in Rows /\ Landed(state, k)
  <2>1. \A k \in 1..state.landed : Landed(state, k)
    BY <1>0 DEF DiskInv
  <2>2. landed \in 0..Len(Order) /\ landed >= row
    BY <1>0
  <2>3. \A k \in 1..landed : k \in Rows /\ (k \in 1..state.landed \/ k = row)
    BY <1>0 DEF Rows
  <2> QED
    BY <2>1, <2>2, <2>3
<1> HIDE DEF snap
<1>3. landed \in Nat
  BY <1>0, <1>2
<1>4. /\ state' \in States(sources)
      /\ state'.units = state.units /\ state'.initial = state.initial /\ state'.final = state.final
      /\ state'.created = state.created /\ state'.witness = state.witness
      /\ state'.integrity = text /\ state'.landed = landed /\ state'.last = snap
  <2>1. state' = Saved(state, text, landed, snap)
    BY DEF snap
  <2> HIDE DEF sources
  <2> QED
    BY <1>0, <1>1, <1>3, <2>1, SavedState
<1>5. state' # None
  BY <1>0, <1>4, NoneIsNoState
<1>6. DOMAIN state'.last = sources /\ DOMAIN state.initial = sources /\ DOMAIN state.final = sources
  <2>1. DOMAIN state.initial = sources /\ DOMAIN state.final = sources
    BY <1>0 DEF StateInv, ValidState
  <2> HIDE DEF sources
  <2>2. DOMAIN snap = sources
    BY <1>1 DEF Snapshots
  <2> QED
    BY <1>4, <2>1, <2>2
<1>7. StateInv(state)'
  <2>1. ValidState(state)'
    BY <1>0, <1>2, <1>4, <1>6 DEF StateInv, ValidState
  <2>2. \A i \in BatchIds(state)' : i[1] \in DOMAIN state'.initial =>
          state'.initial[i[1]].records[i[2]].status \notin {"archived", "superseded"}
    BY <1>0, <1>4 DEF StateInv, BatchIds
  <2> QED
    BY <1>0, <1>4, <2>1, <2>2 DEF StateInv
<1>8. DiskInv(state)'
  <2>1. \A u \in Batch : drafts'[u] # None => drafts'[u].ids = state'.units[u]
    BY <1>0, <1>4 DEF DiskInv, vars
  <2>2. \A k \in 1..landed : Landed(state, k)'
    BY <1>2, <1>4, LandedStep
  <2>3. state'.integrity # None /\ state'.landed = landed
    BY <1>4, NoneIsNothing
  <2> QED
    BY <2>1, <2>2, <2>3 DEF DiskInv
<1> QED
  BY <1>2, <1>4, <1>5, <1>7, <1>8, NoneIsNothing
\* What is saved when a unit without a draft is found landed.
LEMMA VerifyLandedSaves ==
  ASSUME BInv, [BatchNext]_<<vars, batchVars>>, VerifyLanded, NoDrift, LandedOk(Row, proc.row)
  PROVE  /\ StateInv(state)' /\ DiskInv(state)' /\ state # None /\ state' # None
         /\ state'.units = state.units /\ state'.landed >= proc.row /\ state'.witness = None
         /\ state'.integrity # None
         /\ proc' = [proc EXCEPT !.mem = state', !.row = @ + 1]
<1> DEFINE row == proc.row
           sources == DOMAIN state.last
           snap == Snapshot(sources)
           text == IF state.integrity = None THEN pages[Create].text ELSE state.integrity
           landed == IF state.landed < row THEN row ELSE state.landed
<1>0. /\ TypeOK /\ Whole /\ StateInv(state) /\ DiskInv(state) /\ ProcInv /\ UNCHANGED vars
      /\ row \in Rows /\ Order[row] \in Batch /\ drafts[Order[row]] = None
      /\ proc.mem = state /\ state # None /\ state.witness = None /\ state.landed >= row - 1
      /\ row > 1 => state.integrity # None
  BY TheBatch DEF BInv, VerifyLanded, AtRow, ProcInv, Row
<1>1. /\ sources \in SUBSET Sessions /\ state \in States(sources)
      /\ state.units \in [Batch -> SUBSET Ids] /\ BatchIds(state) \in SUBSET Ids
      /\ state.last \in Snapshots(sources) /\ state.created \in Pages
  BY <1>0, StateIs
<1>2. /\ CanSnapshot(sources) /\ Agree(state.last, snap, BatchIds(state), TRUE)
      /\ pages[Create] \in Pages /\ pages[Create] # None /\ IdsThrough(state, row) \subseteq pages[Create].ids
      /\ \A i \in state.units[Order[row]] : snap[i[1]].records[i[2]].status = "consolidated"
      /\ state.integrity = None => /\ Order[row] = Create
                                   /\ pages[Create].ids = IdsThrough(state, row) => pages[Create] = state.created
  BY <1>0, TheBatch DEF NoDrift, LandedOk, Row, TypeOK
<1>3. \A i \in state.units[Order[row]] : Verified(i)
  <2> SUFFICES ASSUME NEW i \in state.units[Order[row]] PROVE Verified(i)
    OBVIOUS
  <2>1. i \in BatchIds(state)
    BY <1>0 DEF BatchIds
  <2> HIDE DEF snap
  <2>2. snap[i[1]].records[i[2]].status = "consolidated"
    BY <1>2
  <2> QED
    BY <1>0, <1>1, <1>2, <2>1, <2>2, FlippedReads DEF snap
<1>4. Landed(state, row)
  BY <1>0, <1>2, <1>3 DEF Landed
<1>5. text = state.created.text /\ text \in Texts
  <2>1. CASE state.integrity = None
    <3>1. Uncarried(state) /\ row = 1
      BY <1>0, <1>2, <2>1, TheBatch DEF DiskInv
    <3>2. pages[Create].ids = IdsThrough(state, row)
      BY <1>2, <3>1, ThroughCreate DEF Uncarried
    <3> QED
      BY <1>1, <1>2, <2>1, <3>2 DEF Pages
  <2>2. CASE state.integrity # None
    <3>1. state.integrity = state.created.text
      BY <1>0, <2>2 DEF StateInv
    <3> QED
      BY <1>1, <2>2, <3>1 DEF Pages
  <2> QED
    BY <2>1, <2>2
<1>6. /\ state' = [state EXCEPT !.integrity = IF @ = None THEN pages[Create].text ELSE @,
                     !.landed = IF @ < row THEN row ELSE @, !.last = snap]
      /\ proc' = [proc EXCEPT !.mem = state', !.row = @ + 1]
  BY <1>0 DEF VerifyLanded, Save
<1>7. state' = Saved(state, text, landed, snap)
  BY <1>1, <1>6 DEF Saved, States
<1> HIDE DEF text, landed
<1>8. landed = IF state.landed < row THEN row ELSE state.landed
  BY DEF landed
<1> QED
  BY <1>0, <1>4, <1>5, <1>6, <1>7, <1>8, SaveStep
\* What an apply that went as planned saves.
LEMMA EndApplySaves ==
  ASSUME BInv, [BatchNext]_<<vars, batchVars>>, EndApply, AppliedAsPlanned(Row)
  PROVE  /\ StateInv(state)' /\ DiskInv(state)' /\ state # None /\ state' # None
         /\ state'.units = state.units /\ state'.landed >= proc.row /\ state'.witness = None
         /\ state'.integrity # None
         /\ proc' = [proc EXCEPT !.mem = state', !.row = @ + 1, !.at = "row", !.before = None]
         /\ UNCHANGED vars /\ proc # None /\ proc.row \in Rows
<1> DEFINE row == proc.row
           sources == DOMAIN state.last
           snap == Snapshot(sources)
           u == Order[row]
           text == IF u = Create THEN pages[Create].text ELSE state.integrity
           landed == IF state.landed < row THEN row ELSE state.landed
<1>0. /\ TypeOK /\ Whole /\ StateInv(state) /\ DiskInv(state) /\ ProcInv /\ UNCHANGED vars
      /\ proc # None /\ row \in Rows /\ u \in Batch /\ Row = u
      /\ proc.mem = state /\ state # None /\ state.witness = None /\ state.landed = row - 1
      /\ row > 1 => state.integrity # None
      /\ proc.before.snap \in Snapshots(sources)
      /\ u = Create => row = 1
  BY TheBatch DEF BInv, EndApply, ProcInv, Row, Save
<1>1. /\ sources \in SUBSET Sessions /\ state \in States(sources)
      /\ state.units \in [Batch -> SUBSET Ids]
      /\ state.created \in Pages /\ state.created.ids = state.units[Create]
      /\ row \in Nat /\ row >= 1 /\ state.landed \in Nat
  BY <1>0, StateIs, TheBatch DEF StateInv
<1>2. /\ drafts[u] = None /\ CanSnapshot(sources)
      /\ Agree(proc.before.snap, snap, state.units[u], FALSE)
      /\ PageGrewBy(u)
  BY <1>0 DEF AppliedAsPlanned
<1>3. \A i \in state.units[u] : Verified(i)
  <2>1. state.units[u] \in SUBSET Ids
    BY <1>0, <1>1
  <2> QED
    BY <1>0, <1>1, <1>2, <2>1, FlippedReads
<1>4. pages[Create] # None /\ IdsThrough(state, row) \subseteq pages[Create].ids
      /\ text = state.created.text
  <2>1. CASE u = Create
    <3>1. pages[Create] = state.created /\ pages[Create] # None
      BY <1>0, <1>2, <2>1 DEF PageGrewBy
    <3> QED
      BY <1>0, <1>1, <2>1, <3>1, ThroughCreate
  <2>2. CASE u # Create
    <3>1. /\ pages[Create] # None
          /\ pages[Create].ids = proc.before.page.ids \cup state.units[u]
      BY <1>0, <1>2, <2>2 DEF PageGrewBy
    <3>2. row > 1
      BY <1>0, <1>1, <2>2, TheBatch
    <3>3. IdsThrough(state, row - 1) \subseteq pages[Create].ids
      <4>1. row - 1 \in 1..state.landed
        BY <1>0, <1>1, <3>2
      <4> QED
        BY <1>0, <4>1 DEF DiskInv, Landed
    <3>4. IdsThrough(state, row) \subseteq pages[Create].ids
      BY <1>0, <3>1, <3>3, Through
    <3>5. state.integrity = state.created.text
      BY <1>0, <3>2 DEF StateInv
    <3> QED
      BY <2>2, <3>1, <3>4, <3>5
  <2> QED
    BY <2>1, <2>2
<1>5. Landed(state, row)
  BY <1>2, <1>3, <1>4 DEF Landed
<1>6. /\ state' = [state EXCEPT !.last = snap, !.landed = @ + 1,
                     !.integrity = IF u = Create THEN pages[Create].text ELSE @]
      /\ proc' = [proc EXCEPT !.mem = state', !.row = @ + 1, !.at = "row", !.before = None]
  BY <1>0 DEF EndApply, Save
<1>7. landed = state.landed + 1
  BY <1>0, <1>1
<1>8. text \in Texts
  BY <1>1, <1>4 DEF Pages
<1>9. state' = Saved(state, text, landed, snap)
  BY <1>1, <1>6, <1>7 DEF Saved, States
<1> HIDE DEF text, landed
<1>10. landed = IF state.landed < row THEN row ELSE state.landed
  BY DEF landed
<1> QED
  BY <1>0, <1>1, <1>4, <1>5, <1>6, <1>8, <1>9, <1>10, SaveStep

\* The witness is recorded over a batch that landed as a whole.
LEMMA MintWitnessSaves ==
  ASSUME BInv, [BatchNext]_<<vars, batchVars>>, MintWitness, FinallyVerified(state), proc.mem = state
  PROVE  /\ StateInv(state)' /\ DiskInv(state)' /\ state # None /\ state' # None
         /\ state'.units = state.units
<1> DEFINE sources == DOMAIN state.last
           snap == Snapshot(sources)
           witness == [page |-> pages[Create], sources |-> snap]
<1>0. /\ TypeOK /\ Whole /\ StateInv(state) /\ DiskInv(state) /\ ProcInv /\ UNCHANGED vars
      /\ proc.row \notin Rows /\ state # None /\ state.landed >= proc.row - 1
      /\ proc.row > 1 => state.integrity # None
      /\ state' = [state EXCEPT !.witness = witness]
  BY DEF BInv, MintWitness, AtRow, ProcInv, Save
<1>1. /\ sources \in SUBSET Sessions /\ state \in States(sources)
      /\ state.landed \in 0..Len(Order) /\ Len(Order) \in Nat /\ Len(Order) >= 1
  BY <1>0, StateIs, TheBatch
<1>2. state.landed = Len(Order) /\ state.integrity # None
  <2>1. proc.row = Len(Order) + 1
    BY <1>0, TheBatch DEF ProcInv
  <2> QED
    BY <1>0, <1>1, <2>1
<1>3. snap \in Snapshots(sources) /\ DOMAIN snap = sources
  BY <1>0, <1>1, SnapshotIs
<1>4. /\ pages[Create] \in Pages /\ pages[Create].ids = BatchIds(state)
      /\ pages[Create].text = state.integrity
  BY <1>0, TheBatch DEF FinallyVerified, TypeOK
<1> HIDE DEF snap
<1>5. /\ witness \in [page : Pages, sources : Snapshots(sources)]
      /\ witness.page = pages[Create] /\ witness.sources = snap
  BY <1>3, <1>4
<1> HIDE DEF witness
<1>6. /\ state' \in States(sources)
      /\ state'.units = state.units /\ state'.initial = state.initial /\ state'.final = state.final
      /\ state'.created = state.created /\ state'.witness = witness /\ state'.last = state.last
      /\ state'.integrity = state.integrity /\ state'.landed = state.landed
  <2> HIDE DEF sources
  <2> QED
    BY <1>0, <1>1, <1>5 DEF States
<1>7. state' # None
  BY <1>1, <1>6, NoneIsNoState
<1>8. BatchIds(state)' = BatchIds(state)
  BY <1>6 DEF BatchIds
<1>9. ValidState(state)'
  <2>1. /\ DOMAIN state.units = Batch /\ \A u \in Batch : state.units[u] # {}
        /\ DOMAIN state.initial = DOMAIN state.last /\ DOMAIN state.final = DOMAIN state.last
    BY <1>0 DEF StateInv, ValidState
  <2> QED
    BY <1>1, <1>2, <1>3, <1>4, <1>5, <1>6, <1>8, <2>1 DEF ValidState
<1>10. StateInv(state)'
  BY <1>0, <1>1, <1>6, <1>8, <1>9 DEF StateInv
<1>11. DiskInv(state)'
  <2>1. \A u \in Batch : drafts'[u] # None => drafts'[u].ids = state'.units[u]
    BY <1>0, <1>6 DEF DiskInv, vars
  <2>2. \A k \in 1..state.landed : Landed(state, k)'
    BY <1>0, <1>1, <1>6, LandedStep DEF DiskInv, Rows
  <2> QED
    BY <1>2, <1>6, <2>1, <2>2 DEF DiskInv
<1> QED
  BY <1>0, <1>6, <1>7, <1>10, <1>11
-----------------------------------------------------------------------------
(* The invariant is inductive *)

\* The steps that change the state file save what the invariant says.
LEMMA StateStep ==
  ASSUME BInv, [BatchNext]_<<vars, batchVars>>
  PROVE  \/ UNCHANGED state
         \/ StateInv(state)' /\ DiskInv(state)' /\ state = None /\ state' # None
         \/ /\ StateInv(state)' /\ DiskInv(state)' /\ state # None /\ state' # None
            /\ state'.units = state.units
<1> USE DEF files
<1>1. InitState => StateInv(state)' /\ DiskInv(state)' /\ state = None /\ state' # None
  BY InitSaves DEF InitState
<1>2. VerifyLanded => \/ UNCHANGED state
                      \/ StateInv(state)' /\ DiskInv(state)' /\ state # None /\ state' # None
                           /\ state'.units = state.units
  BY VerifyLandedSaves DEF VerifyLanded, Halt
<1>3. EndApply => \/ UNCHANGED state
                  \/ StateInv(state)' /\ DiskInv(state)' /\ state # None /\ state' # None
                       /\ state'.units = state.units
  BY EndApplySaves DEF EndApply, Halt
<1>4. MintWitness => \/ UNCHANGED state
                     \/ StateInv(state)' /\ DiskInv(state)' /\ state # None /\ state' # None
                          /\ state'.units = state.units
  <2> SUFFICES ASSUME MintWitness, FinallyVerified(proc.mem)
               PROVE  StateInv(state)' /\ DiskInv(state)' /\ state # None /\ state' # None
                        /\ state'.units = state.units
    BY DEF MintWitness, Halt
  <2>1. proc.mem = state
    BY DEF BInv, ProcInv, MintWitness, AtRow
  <2> QED
    BY <2>1, MintWitnessSaves
<1>5. Transition \/ Execute \/ HandFinish \/ DistilCreate \/ TransitionRow \/ BeginApply
        \/ (Run /\ UNCHANGED batchVars) \/ Kill \/ OutOfBand \/ UNCHANGED <<vars, batchVars>>
      => UNCHANGED state
  BY DEF Transition, Execute, HandFinish, DistilCreate, TransitionRow, BeginApply, Halt, Kill, OutOfBand,
         batchVars
<1> QED
  BY <1>1, <1>2, <1>3, <1>4, <1>5 DEF BatchNext, Command, Progress

\* The disk stays what the state file says of it.
LEMMA DiskStep ==
  ASSUME BInv, [BatchNext]_<<vars, batchVars>>, state' # None
  PROVE  StateInv(state)' /\ DiskInv(state)'
<1>1. CASE UNCHANGED state
  <2>0. StateInv(state) /\ DiskInv(state) /\ state.units = state'.units
    BY <1>1 DEF BInv
  <2>1. StateInv(state)'
    BY <1>1, <2>0 DEF StateInv, ValidState, BatchIds
  <2>2. \A u \in Batch : drafts'[u] # None => drafts'[u].ids = state.units[u]
    BY <2>0, DraftsStep, TheBatch DEF DiskInv
  <2>3. \A k \in 1..state.landed : Landed(state, k)'
    <3>1. \A k \in 1..state.landed : k \in Rows
      BY <2>0, StateIs, TheBatch
    <3> QED
      BY <1>1, <2>0, <3>1, LandedStep DEF DiskInv
  <2>4. state.integrity = None => Uncarried(state)'
    BY <1>1, <2>0, UncarriedStep
  <2> QED
    BY <1>1, <2>1, <2>2, <2>3, <2>4 DEF DiskInv
<1> QED
  BY <1>1, StateStep
\* --transition begins over the drafts of all carriers, one at least.
LEMMA TransitionBegins ==
  ASSUME BInv, Transition
  PROVE  /\ Len(Order) >= 2
         /\ \A k \in 2..Len(Order) : drafts[Order[k]] # None
<1>1. PICK u \in Batch : StateOf(u, state) = "fresh"
  BY DEF Transition, NoneIs
<1>2. u # Create
  BY <1>1 DEF StateOf
<1>3. Len(Order) >= 2
  <2>1. PICK k \in Rows : u = Order[k]
    BY TheBatch
  <2>2. k # 1
    BY <1>2, <2>1, TheBatch
  <2> QED
    BY <2>1, <2>2, TheBatch
<1>4. ASSUME NEW k \in 2..Len(Order)
      PROVE  drafts[Order[k]] # None
  <2>1. k \in Rows /\ k # 1
    BY TheBatch
  <2>2. Order[k] \in Batch \ {Create}
    BY <2>1, TheBatch
  <2>3. StateOf(Order[k], state) \in {"fresh", "transitioned"}
    BY <2>2 DEF Transition
  <2> QED
    BY <2>3 DEF StateOf
<1> QED
  BY <1>3, <1>4

\* The carriers' drafts stay, unless a run finishes.
LEMMA CarriersStay ==
  ASSUME BInv, TransitionRow \/ DistilCreate \/ OutOfBand, NEW u \in Units, drafts[u] # None
  PROVE  drafts'[u] # None
<1>0. drafts \in [Units -> {None} \cup Drafts] /\ Create \in Units /\ TypeOK
  BY TheBatch DEF BInv, TypeOK
<1>1. CASE drafts' = drafts
  BY <1>1
<1>2. ASSUME NEW v \in Units, NEW d \in Drafts, drafts' = [drafts EXCEPT ![v] = d]
      PROVE  drafts'[u] # None
  BY <1>0, <1>2, NoneIsNothing
<1>3. CASE TransitionRow
  <2> DEFINE v == Order[proc.row]
  <2>1. /\ v \in Units /\ drafts[v] \in Drafts
        /\ drafts' = drafts \/ drafts' = [drafts EXCEPT ![v] = Transitioned(drafts[v])]
    BY <1>3, TransitionRowIs, TheBatch
  <2>2. Transitioned(drafts[v]) \in Drafts
    BY <2>1, TransitionedDraft
  <2> HIDE DEF v
  <2> QED
    BY <1>1, <1>2, <2>1, <2>2
<1>4. CASE DistilCreate
  <2>1. drafts[Create] \in Drafts /\ drafts' = [drafts EXCEPT ![Create] = [drafts[Create] EXCEPT !.banner = "gone"]]
    BY <1>0, <1>4 DEF DistilCreate
  <2>2. [drafts[Create] EXCEPT !.banner = "gone"] \in Drafts
    BY <2>1 DEF Drafts
  <2> QED
    BY <1>0, <1>2, <2>1, <2>2
<1>5. CASE DraftEdited
  <2>1. drafts[Create] \in Drafts /\ drafts' = [drafts EXCEPT ![Create] = [drafts[Create] EXCEPT !.text = "revised"]]
    BY <1>0, <1>5 DEF DraftEdited
  <2>2. [drafts[Create] EXCEPT !.text = "revised"] \in Drafts
    BY <2>1 DEF Drafts, Texts
  <2> QED
    BY <1>0, <1>2, <2>1, <2>2
<1>6. OutOfBand => drafts' = drafts \/ DraftEdited
  BY <1>0, PeopleDo DEF Shelve, BodyEdited, PageEdited, DeltaAdded
<1> QED
  BY <1>1, <1>3, <1>4, <1>5, <1>6

\* Every step keeps what is known of a command.
LEMMA ProcStep ==
  ASSUME BInv, [BatchNext]_<<vars, batchVars>>, proc' # None
  PROVE  ProcInv'
<1> USE DEF files
<1>0. /\ TypeOK /\ Whole /\ (proc # None => ProcInv)
      /\ (state # None => StateInv(state) /\ DiskInv(state))
      /\ Len(Order) \in Nat /\ Len(Order) >= 1
  BY TheBatch DEF BInv
<1>1. CASE Transition
  <2>1. proc' = [at |-> "transition", row |-> 2, mem |-> None, before |-> None, edits |-> edits]
        /\ job' = None /\ drafts' = drafts
    BY <1>1 DEF Transition, vars
  <2>2. Len(Order) >= 2 /\ \A k \in 2..Len(Order) : drafts[Order[k]] # None
    BY <1>1, TransitionBegins
  <2> QED
    BY <1>0, <2>1, <2>2 DEF ProcInv, Processes
<1>2. CASE TransitionRow
  <2>1. proc # None /\ ProcInv /\ job' = None /\ proc.at = "transition" /\ proc.row \in 2..Len(Order)
    BY <1>2, TransitionRowIs DEF TransitionRow, ProcInv
  <2>2. proc' = [proc EXCEPT !.row = @ + 1] /\ proc.row # Len(Order)
    BY <1>2 DEF TransitionRow
  <2>3. proc' = [at |-> "transition", row |-> proc.row + 1, mem |-> proc.mem, before |-> proc.before,
                 edits |-> proc.edits]
    BY <2>1, <2>2 DEF ProcInv
  <2>4. \A k \in 2..Len(Order) : drafts'[Order[k]] # None
    <3>1. \A k \in 2..Len(Order) : k \in Rows
      BY <1>0, TheBatch
    <3> QED
      BY <1>2, <2>1, <3>1, CarriersStay, TheBatch DEF ProcInv
  <2> QED
    BY <1>0, <2>1, <2>2, <2>3, <2>4 DEF ProcInv, Processes
<1>3. CASE Execute
  <2>1. /\ proc' = [at |-> "row", row |-> 1, mem |-> state, before |-> None, edits |-> edits]
        /\ job' = None /\ state' = state /\ state # None /\ state.witness = None
    BY <1>3 DEF Execute, vars
  <2>2. state.landed >= 1 - 1
    BY <1>0, <2>1, StateIs
  <2> QED
    BY <1>0, <2>1, <2>2 DEF ProcInv, Processes
<1>4. CASE VerifyLanded
  <2>1. /\ NoDrift /\ LandedOk(Row, proc.row) /\ proc # None /\ proc.at = "row"
        /\ proc.row \in Rows /\ job' = None
    BY <1>4 DEF VerifyLanded, Halt, AtRow, vars
  <2>2. /\ state' # None /\ state'.landed >= proc.row /\ state'.witness = None /\ state'.integrity # None
        /\ proc' = [proc EXCEPT !.mem = state', !.row = @ + 1]
    BY <1>4, <2>1, VerifyLandedSaves
  <2>3. proc' = [at |-> "row", row |-> proc.row + 1, mem |-> state', before |-> proc.before,
                 edits |-> proc.edits]
    BY <1>0, <2>1, <2>2 DEF ProcInv
  <2>4. proc.row \in Nat /\ proc.row + 1 \in 1..Len(Order) + 1
    BY <1>0, <2>1, TheBatch
  <2>5. proc'.at = "row" /\ proc'.row = proc.row + 1 /\ proc'.mem = state'
    BY <2>3
  <2>7. proc' = [at |-> proc'.at, row |-> proc'.row, mem |-> proc'.mem, before |-> proc'.before,
                 edits |-> proc'.edits]
    BY <2>3
  <2>6. state'.landed >= proc'.row - 1
    <3>1. proc'.row - 1 = proc.row
      BY <2>4, <2>5
    <3>2. state'.landed >= proc.row
      BY <2>2
    <3> QED
      BY <3>1, <3>2
  <2> QED
    BY <2>1, <2>2, <2>4, <2>5, <2>6, <2>7 DEF ProcInv, Processes
<1>5. CASE BeginApply
  <2>1. /\ proc # None /\ ProcInv /\ proc.at = "row" /\ proc.row \in Rows /\ drafts[Order[proc.row]] # None
        /\ proc' = [proc EXCEPT !.at = "apply",
                      !.before = [snap |-> Snapshot(DOMAIN proc.mem.last), page |-> pages[Create]]]
        /\ state' = state
    BY <1>0, <1>5 DEF BeginApply, Halt, AtRow, Row
  <2>2. state # None /\ proc.mem = state /\ StateInv(state) /\ DiskInv(state)
    BY <1>0, <2>1 DEF ProcInv
  <2>3. Snapshot(DOMAIN state.last) \in Snapshots(DOMAIN state.last)
    BY <1>0, <2>2, StateIs, SnapshotIs
  <2>4. state.landed = proc.row - 1
    <3>1. proc.row \in Nat /\ proc.row >= 1 /\ state.landed \in Nat /\ state.landed >= proc.row - 1
      BY <1>0, <2>1, <2>2, StateIs, TheBatch DEF ProcInv
    <3>2. ~(proc.row \in 1..state.landed)
      BY <2>1, <2>2 DEF DiskInv, Landed
    <3> QED
      BY <3>1, <3>2
  <2> DEFINE before == [snap |-> Snapshot(DOMAIN state.last), page |-> pages[Create]]
  <2>5. before.snap \in Snapshots(DOMAIN state.last)
    BY <2>3
  <2>6. proc' = [proc EXCEPT !.at = "apply", !.before = before]
    BY <2>1, <2>2
  <2> HIDE DEF before
  <2>7. proc' = [at |-> "apply", row |-> proc.row, mem |-> state, before |-> before, edits |-> proc.edits]
    BY <2>1, <2>2, <2>6 DEF ProcInv
  <2>8. proc'.at = "apply" /\ proc'.row = proc.row /\ proc'.mem = state /\ proc'.before = before
    BY <2>7
  <2>10. proc' = [at |-> proc'.at, row |-> proc'.row, mem |-> proc'.mem, before |-> proc'.before,
                  edits |-> proc'.edits]
    BY <2>7
  <2>9. /\ proc'.row \in 1..Len(Order) + 1 /\ proc'.row \in Rows
        /\ state' # None /\ state'.witness = None /\ state'.landed = proc'.row - 1
        /\ state'.landed >= proc'.row - 1 /\ (proc'.row > 1 => state'.integrity # None)
    BY <2>1, <2>2, <2>4, <2>8 DEF ProcInv
  <2> QED
    BY <2>1, <2>5, <2>8, <2>9, <2>10 DEF ProcInv, Processes
<1>6. CASE EndApply
  <2>1. AppliedAsPlanned(Row) /\ job' = None
    BY <1>6 DEF EndApply, Halt, vars
  <2>2. /\ state' # None /\ state'.landed >= proc.row /\ state'.witness = None /\ state'.integrity # None
        /\ proc' = [proc EXCEPT !.mem = state', !.row = @ + 1, !.at = "row", !.before = None]
        /\ proc # None /\ proc.row \in Rows
    BY <1>6, <2>1, EndApplySaves
  <2>3. proc' = [at |-> "row", row |-> proc.row + 1, mem |-> state', before |-> None, edits |-> proc.edits]
    BY <1>0, <2>2 DEF ProcInv
  <2>4. proc.row \in Nat /\ proc.row + 1 \in 1..Len(Order) + 1
    BY <1>0, <2>2, TheBatch
  <2>5. proc'.at = "row" /\ proc'.row = proc.row + 1 /\ proc'.mem = state'
    BY <2>3
  <2>7. proc' = [at |-> proc'.at, row |-> proc'.row, mem |-> proc'.mem, before |-> proc'.before,
                 edits |-> proc'.edits]
    BY <2>3
  <2>6. state'.landed >= proc'.row - 1
    <3>1. proc'.row - 1 = proc.row
      BY <2>4, <2>5
    <3>2. state'.landed >= proc.row
      BY <2>2
    <3> QED
      BY <3>1, <3>2
  <2> QED
    BY <2>1, <2>2, <2>4, <2>5, <2>6, <2>7 DEF ProcInv, Processes
<1>7. CASE proc' = proc /\ state' = state /\ job' = job
             /\ \A k \in 2..Len(Order) : drafts[Order[k]] # None => drafts'[Order[k]] # None
  BY <1>0, <1>7 DEF ProcInv
<1>8. CASE Run /\ UNCHANGED batchVars
  <2>1. job # None /\ proc' = proc /\ state' = state
    BY <1>8 DEF Run, WritePage, FlipsDone, Remove, ArchiveDone, Finish, FlipReads, FlipWrites, Archive, batchVars
  <2>2. proc.at = "apply"
    BY <1>0, <2>1 DEF ProcInv, Processes
  <2> QED
    BY <1>0, <2>1, <2>2 DEF ProcInv
<1>9. DistilCreate \/ OutOfBand \/ UNCHANGED <<vars, batchVars>> =>
        /\ proc' = proc /\ state' = state /\ job' = job
        /\ \A k \in 2..Len(Order) : drafts[Order[k]] # None => drafts'[Order[k]] # None
  <2>1. \A k \in 2..Len(Order) : Order[k] \in Units
    <3>1. \A k \in 2..Len(Order) : k \in Rows
      BY <1>0, TheBatch
    <3> QED
      BY <3>1, TheBatch
  <2>2. OutOfBand => job' = job
    BY <1>0, PeopleDo DEF Shelve
  <2>3. OutOfBand => proc' = proc /\ state' = state
    BY DEF OutOfBand, batchVars
  <2>4. DistilCreate \/ UNCHANGED <<vars, batchVars>> => proc' = proc /\ state' = state /\ job' = job
    BY DEF DistilCreate, vars, batchVars
  <2>5. UNCHANGED <<vars, batchVars>> => drafts' = drafts
    BY DEF vars
  <2> QED
    BY <2>1, <2>2, <2>3, <2>4, <2>5, CarriersStay
<1>10. InitState \/ HandFinish \/ MintWitness \/ Kill => proc' = None
  BY DEF InitState, HandFinish, MintWitness, Halt, Kill, batchVars
<1> QED
  BY <1>1, <1>2, <1>3, <1>4, <1>5, <1>6, <1>7, <1>8, <1>9, <1>10 DEF BatchNext, Command, Progress
\* The batch begins with drafts that nobody distilled and nothing promoted.
LEMMA BatchInitInv == BatchInit => BInv
<1> SUFFICES ASSUME BatchInit PROVE BInv
  OBVIOUS
<1>1. /\ live \in [Sessions -> Files]
      /\ \A s \in Sessions, n \in Numbers : live[s][n] # None => live[s][n].status \in Open
  BY StartIsOpen DEF BatchInit
<1>2. drafts \in [Units -> {None} \cup Drafts]
  <2>1. \A u \in Units : [ids |-> Outstanding(u), banner |-> "kept", mode |-> "create",
                          target |-> u, text |-> "distilled"] \in Drafts
    BY DEF Drafts, Outstanding, Modes, Texts
  <2> QED
    BY <2>1 DEF BatchInit
<1>3. TypeOK
  <2>1. archive \in [Sessions -> Files]
    BY EmptyType DEF BatchInit
  <2>2. /\ liveCut \in [Sessions -> 0..MaxDelta + 1] /\ archCut \in [Sessions -> 0..MaxDelta + 1]
        /\ acked \subseteq Places \X Sessions /\ doubles = {} /\ pages \in [Units -> {None} \cup Pages]
        /\ edits \in 0..MaxEdits /\ crashes \in 0..MaxCrashes
    BY ConsolidateConstants DEF BatchInit
  <2> QED
    BY <1>1, <1>2, <2>1, <2>2 DEF BatchInit, TypeOK
<1>4. CreateDraft
  <2>1. drafts[Create] = [ids |-> Outstanding(Create), banner |-> "kept", mode |-> "create",
                          target |-> Create, text |-> "distilled"]
    BY TheBatch DEF BatchInit
  <2> QED
    BY <2>1 DEF CreateDraft
<1>5. \A s \in Sessions, n \in Numbers : \A r \in Somewhere(s, n) : r.status # "consolidated"
  BY <1>1, Copies DEF BatchInit, Empty, Open
<1> QED
  BY <1>3, <1>4, <1>5 DEF BatchInit, BInv, Whole, Untouched

\* Every step keeps the invariant.
LEMMA BatchStep ==
  ASSUME BInv, [BatchNext]_<<vars, batchVars>>
  PROVE  BInv'
<1>1. TypeOK' /\ Whole' /\ CreateDraft'
  BY BatchTypeStep, WholeStep, DraftsStep
<1>2. state # None => state' # None /\ state'.units = state.units
  BY StateStep
<1>3. job' # None => JobInv'
  BY <1>2, JobStep
<1>4. proc' # None => ProcInv'
  BY ProcStep
<1>5. state' # None => StateInv(state)' /\ DiskInv(state)'
  BY DiskStep
<1>6. ASSUME state' = None
      PROVE  Untouched'
  <2>1. TypeOK /\ Untouched /\ state = None
    BY <1>2, <1>6 DEF BInv
  <2>2. job' = None
    BY <1>3, <1>6 DEF JobInv
  <2>3. \A u \in Units : pages'[u] = None
    BY <2>1, PagesStep DEF Untouched
  <2>4. \A s \in Sessions, n \in Numbers : \A r \in Somewhere(s, n)' : r.status # "consolidated"
    BY <2>1, ConsolidatedStep DEF Untouched
  <2>5. proc' # None => proc'.at = "transition"
    BY <1>4, <1>6 DEF ProcInv
  <2> QED
    BY <2>2, <2>3, <2>4, <2>5 DEF Untouched
<1> QED
  BY <1>1, <1>3, <1>4, <1>5, <1>6 DEF BInv

\* The invariant holds of every behaviour.
LEMMA BatchInvariance == BatchSpec => []BInv
<1>1. BInv /\ [BatchNext]_<<vars, batchVars>> => BInv'
  BY BatchStep
<1> QED
  BY <1>1, BatchInitInv, PTL DEF BatchSpec

-----------------------------------------------------------------------------
(* The theorems *)

\* The files, the state file and the command under way hold what their types say:
\* whatever was verified before a save, what is saved is a state file.
THEOREM BatchTypesHold == BatchSpec => []BatchTypeOK
<1>1. BInv => BatchTypeOK
  BY DEF BInv, BatchTypeOK, StateInv, ProcInv
<1> QED
  BY <1>1, BatchInvariance, PTL

\* Whatever a killed command left, the next command loads the state file it saved.
THEOREM StateLoads == BatchSpec => []SavedStateLoads
<1>1. BInv => SavedStateLoads
  BY DEF BInv, SavedStateLoads, StateInv
<1> QED
  BY <1>1, BatchInvariance, PTL

\* A unit that the state file calls landed has landed, and stays so.
THEOREM LandedStays == BatchSpec => []LandedIsTrue
<1>1. BInv => LandedIsTrue
  <2> SUFFICES ASSUME BInv, state # None, NEW k \in 1..state.landed
               PROVE  /\ drafts[Order[k]] = None
                      /\ pages[Create] # None /\ IdsThrough(state, k) \subseteq pages[Create].ids
                      /\ Unverified(state.units[Order[k]]) = {}
    BY DEF LandedIsTrue
  <2>1. StateInv(state) /\ Whole /\ Landed(state, k)
    BY DEF BInv, DiskInv
  <2>2. Order[k] \in Batch
    BY <2>1, StateIs, TheBatch
  <2>3. state.units[Order[k]] \in SUBSET Ids
    BY <2>1, <2>2, StateIs
  <2> QED
    BY <2>1, <2>3, VerifiedIds DEF Landed
<1> QED
  BY <1>1, BatchInvariance, PTL

\* A file whose deltas to promote were open or promoted is, when it agrees as a whole with
\* what --init recorded, that file with the batch flipped.
LEMMA WholeFlip ==
  ASSUME NEW D, NEW before \in Snapshots(D), NEW after \in Snapshots(D),
         NEW ids, NEW partial, ~partial, Agree(before, after, ids, partial), NEW s \in D,
         \A n \in Numbers : <<s, n>> \in ids =>
           before[s].records[n].status \notin {"archived", "superseded"}
  PROVE  after[s].records = Flipped(before[s].records, s, ids)
<1> DEFINE b == before[s].records
           a == after[s].records
<1>1. b \in Files /\ a \in Files /\ DOMAIN before = D
  BY DEF Snapshots
<1>2. ASSUME NEW n \in Numbers
      PROVE  a[n] = Flipped(b, s, ids)[n]
  <2>1. \/ a[n] = b[n] /\ <<s, n>> \notin ids
        \/ <<s, n>> \in ids /\ a[n] = [b[n] EXCEPT !.status = "consolidated"]
    BY <1>1 DEF Agree
  <2>2. CASE <<s, n>> \notin ids
    BY <2>1, <2>2 DEF Flipped
  <2>3. CASE <<s, n>> \in ids
    <3>1. b[n] # None /\ b[n].status \notin {"archived", "superseded"}
      BY <1>1, <2>3 DEF Agree
    <3>2. b[n] \in Records
      BY <1>1, <3>1 DEF Files
    <3>3. b[n].status \in Open \/ b[n] = [b[n] EXCEPT !.status = "consolidated"]
      BY <3>1, <3>2 DEF Records, Disposed
    <3> HIDE DEF a, b
    <3> QED
      BY <2>1, <2>3, <3>1, <3>3 DEF Flipped
  <2> QED
    BY <2>2, <2>3
<1> HIDE DEF a, b
<1>3. a = [n \in Numbers |-> a[n]] /\ Flipped(b, s, ids) = [n \in Numbers |-> Flipped(b, s, ids)[n]]
  BY <1>1 DEF Files, Flipped
<1> QED
  BY <1>2, <1>3 DEF a, b

\* A completion witness is written only over a disk that is what --init approved with the
\* batch flipped, whatever was run, killed, finished by hand or edited in between.
THEOREM WitnessStands == BatchSpec => WitnessIsEarned
<1> DEFINE A == state # None /\ state.witness = None /\ state'.witness # None =>
                  /\ pages[Create] = [ids |-> BatchIds(state), text |-> state.created.text]
                  /\ \A s \in DOMAIN state.initial :
                       {live[s], archive[s]} \ {Empty} =
                         {Flipped(state.initial[s].records, s, BatchIds(state))}
                  /\ \A u \in Batch : drafts[u] = None
<1>1. BInv /\ [BatchNext]_<<vars, batchVars>> => A
  <2> SUFFICES ASSUME BInv, [BatchNext]_<<vars, batchVars>>,
                      state # None, state.witness = None, state'.witness # None
               PROVE  /\ pages[Create] = [ids |-> BatchIds(state), text |-> state.created.text]
                      /\ \A s \in DOMAIN state.initial :
                           {live[s], archive[s]} \ {Empty} =
                             {Flipped(state.initial[s].records, s, BatchIds(state))}
                      /\ \A u \in Batch : drafts[u] = None
    OBVIOUS
  <2>1. MintWitness /\ FinallyVerified(proc.mem)
    <3>1. state' # state
      OBVIOUS
    <3>2. ~VerifyLanded
      BY <3>1, VerifyLandedSaves DEF VerifyLanded, Halt
    <3>3. ~EndApply
      BY <3>1, EndApplySaves DEF EndApply, Halt
    <3>4. ~(Transition \/ Execute \/ InitState \/ HandFinish \/ DistilCreate \/ TransitionRow \/ BeginApply
             \/ (Run /\ UNCHANGED batchVars) \/ Kill \/ OutOfBand \/ UNCHANGED <<vars, batchVars>>)
      BY <3>1 DEF Transition, Execute, InitState, HandFinish, DistilCreate, TransitionRow, BeginApply, Halt,
                  Kill, OutOfBand, batchVars
    <3>5. MintWitness
      BY <3>2, <3>3, <3>4 DEF BatchNext, Command, Progress
    <3> QED
      BY <3>1, <3>5 DEF MintWitness, Halt
  <2>2. /\ TypeOK /\ Whole /\ StateInv(state) /\ ProcInv /\ proc # None /\ proc.mem = state /\ proc.row \notin Rows
        /\ FinallyVerified(state)
    BY <2>1 DEF BInv, MintWitness, AtRow, ProcInv
  <2>3. state.integrity = state.created.text
    <3>1. proc.row = Len(Order) + 1 /\ Len(Order) \in Nat /\ Len(Order) >= 1
      BY <2>2, TheBatch DEF ProcInv
    <3>2. state.integrity # None
      BY <2>1, <2>2, <3>1 DEF ProcInv, MintWitness, AtRow
    <3> QED
      BY <2>2, <3>2 DEF StateInv
  <2>4. pages[Create] = [ids |-> BatchIds(state), text |-> state.created.text]
    <3>1. pages[Create] \in Pages
      BY <2>2, TheBatch DEF FinallyVerified, TypeOK
    <3>2. pages[Create].ids = BatchIds(state) /\ pages[Create].text = state.created.text
      BY <2>2, <2>3 DEF FinallyVerified
    <3> QED
      BY <3>1, <3>2 DEF Pages
  <2>5. ASSUME NEW s \in DOMAIN state.initial
        PROVE  {live[s], archive[s]} \ {Empty} = {Flipped(state.initial[s].records, s, BatchIds(state))}
    <3> DEFINE sources == DOMAIN state.last
               snap == Snapshot(sources)
    <3>1. /\ sources \in SUBSET Sessions /\ s \in sources /\ state.initial \in Snapshots(sources)
          /\ DOMAIN state.initial = sources
      <4>1. DOMAIN state.initial = DOMAIN state.last
        BY <2>2 DEF StateInv, ValidState
      <4> QED
        BY <2>2, <2>5, <4>1, StateIs
    <3>2. CanSnapshot(sources) /\ Agree(state.initial, snap, BatchIds(state), FALSE)
      BY <2>2 DEF FinallyVerified
    <3>3. snap \in Snapshots(sources) /\ {live[s], archive[s]} \ {Empty} = {snap[s].records}
      BY <2>2, <3>1, <3>2, SnapshotIs
    <3>4. \A i \in BatchIds(state) : i[1] \in sources =>
            state.initial[i[1]].records[i[2]].status \notin {"archived", "superseded"}
      BY <2>2, <3>1 DEF StateInv
    <3> DEFINE before == state.initial  ids == BatchIds(state)
    <3> HIDE DEF snap, sources
    <3>5. /\ before \in Snapshots(sources) /\ snap \in Snapshots(sources) /\ s \in sources
          /\ Agree(before, snap, ids, FALSE)
          /\ \A n \in Numbers : <<s, n>> \in ids =>
               before[s].records[n].status \notin {"archived", "superseded"}
      BY <3>1, <3>2, <3>3, <3>4
    <3> HIDE DEF before, ids
    <3>6. PICK partial : ~partial /\ Agree(before, snap, ids, partial)
      BY <3>5
    <3>7. snap[s].records = Flipped(before[s].records, s, ids)
      BY <3>5, <3>6, WholeFlip
    <3>8. snap[s].records = Flipped(state.initial[s].records, s, BatchIds(state))
      BY <3>7 DEF before, ids
    <3> QED
      BY <3>3, <3>8
  <2> QED
    BY <2>2, <2>4, <2>5 DEF FinallyVerified
<1>2. BInv /\ [BatchNext]_<<vars, batchVars>> => [A]_<<vars, batchVars>>
  BY <1>1
<1> QED
  BY <1>2, BatchInvariance, PTL DEF BatchSpec, WitnessIsEarned

-----------------------------------------------------------------------------
(* The verdict of the assessment *)

\* What --init saw of the deltas, and what it expects of the files in the end.
PlanInv(st) ==
  /\ \A u \in Batch : \A i \in st.units[u] :
       LET r == st.initial[i[1]].records[i[2]] IN
       /\ i[1] \in DOMAIN st.initial
       /\ r # None /\ r.unit = u /\ r.status \notin {"archived", "superseded"}
  /\ \A s \in DOMAIN st.initial :
       st.final[s] = Projected(st.initial[s].records, s, BatchIds(st))

ArchivedIsDisposed ==
  \A s \in Sessions, n \in Numbers : archive[s][n] # None => archive[s][n].status \in Disposed

\* What --execute found of the drafts that are left still holds of them.
ReadyInv ==
  proc # None /\ proc.at # "transition" =>
    /\ proc.edits \in Nat /\ edits >= proc.edits
    /\ \A u \in Batch : drafts[u] # None =>
         /\ drafts[u].banner = "gone" /\ drafts[u].target = Create
         /\ u # Create => drafts[u].mode # "create"
    /\ proc.at = "row" /\ drafts[Create] # None /\ edits = proc.edits =>
         pages[Create] \in {None, Promoted(drafts[Create], None)}

VerdictInv == (state # None => PlanInv(state)) /\ ArchivedIsDisposed /\ ReadyInv

\* A file that is expected to end as another one has its deltas, to promote or promoted.
LEMMA ProjectionTells ==
  ASSUME NEW a \in Files, NEW b \in Files, NEW s \in Sessions, NEW n \in Numbers, NEW ids,
         <<s, n>> \in ids, Projected(a, s, ids) = Projected(b, s, ids),
         b[n] # None, b[n].status \notin {"archived", "superseded"}
  PROVE  a[n] # None /\ a[n].unit = b[n].unit /\ a[n].status \notin {"archived", "superseded"}
<1> DEFINE mine == {i \in ids : i[1] = s}
<1>1. <<s, n>> \in mine
  OBVIOUS
<1>2. Flipped(a, s, mine)[n] = Flipped(b, s, mine)[n]
  BY DEF Projected
<1> HIDE DEF mine
<1>3. b[n] \in Records
  BY DEF Files
<1>4. a[n] = None \/ a[n] \in Records
  BY DEF Files
<1>5. Flipped(b, s, mine)[n] = IF b[n].status \in Open THEN [b[n] EXCEPT !.status = "consolidated"] ELSE b[n]
  BY <1>1 DEF Flipped
<1>6. Flipped(a, s, mine)[n] =
        IF a[n] # None /\ a[n].status \in Open THEN [a[n] EXCEPT !.status = "consolidated"] ELSE a[n]
  BY <1>1 DEF Flipped
<1> DEFINE e == Flipped(b, s, mine)[n]
<1>7. e \in Records /\ e.unit = b[n].unit /\ e.status = "consolidated"
  BY <1>3, <1>5 DEF Records, Open, Disposed
<1> HIDE DEF e
<1>8. e # None
  BY <1>7, NoneIsNothing
<1>9. e = IF a[n] # None /\ a[n].status \in Open THEN [a[n] EXCEPT !.status = "consolidated"] ELSE a[n]
  BY <1>2, <1>6 DEF e
<1>10. CASE a[n] # None /\ a[n].status \in Open
  <2>1. a[n] \in Records /\ e = [a[n] EXCEPT !.status = "consolidated"]
    BY <1>4, <1>9, <1>10
  <2>2. e.unit = a[n].unit
    BY <2>1 DEF Records
  <2> QED
    BY <1>7, <1>10, <2>2 DEF Open
<1>11. CASE ~(a[n] # None /\ a[n].status \in Open)
  <2>1. e = a[n]
    BY <1>9, <1>11
  <2> QED
    BY <1>7, <1>8, <2>1
<1> QED
  BY <1>10, <1>11

\* A row whose files are as the state file says is accepted: what assess asked of its draft,
\* of the page and of the files is still so.
LEMMA RowIsAccepted ==
  ASSUME BInv, VerdictInv, AtRow, proc.row \in Rows, drafts[Row] # None,
         NoDrift, TargetIsAsExpected(Row), edits = proc.edits
  PROVE  Accepts(Row)
<1> DEFINE u == Row
           d == drafts[u]
           ids == d.ids
           sources == DOMAIN state.last
           snap == Snapshot(sources)
<1>1. /\ TypeOK /\ Whole /\ CreateDraft /\ ProcInv /\ ReadyInv /\ ArchivedIsDisposed
      /\ proc # None /\ proc.at = "row" /\ state # None /\ proc.mem = state
      /\ StateInv(state) /\ DiskInv(state) /\ PlanInv(state)
  BY DEF BInv, VerdictInv, AtRow, ProcInv
<1>2. u \in Batch /\ u \in Units
  BY TheBatch DEF Row
<1>3. d \in Drafts /\ ids \in SUBSET Ids /\ ids = state.units[u] /\ ids # {}
  <2>1. d \in Drafts
    BY <1>1, <1>2 DEF TypeOK
  <2>2. ids = state.units[u] /\ ids # {}
    BY <1>1, <1>2 DEF DiskInv, StateInv, ValidState
  <2> QED
    BY <2>1, <2>2 DEF Drafts
<1>4. d.banner = "gone" /\ d.target = Create /\ (u # Create => d.mode # "create")
  BY <1>1, <1>2 DEF ReadyInv
<1>5. DraftIsDistilled(d)
  BY <1>3, <1>4 DEF DraftIsDistilled
<1>6. TargetFits(d, pages[d.target])
  <2>1. CASE u = Create
    BY <1>1, <1>4, <2>1 DEF CreateDraft, ReadyInv, TargetFits, Promoted
  <2>2. CASE u # Create
    BY <1>4, <2>2 DEF TargetIsAsExpected, TargetFits
  <2> QED
    BY <2>1, <2>2
<1>7. DamageGate
  BY <1>1 DEF Whole, DamageGate, ArchiveIsTrusted
<1>8. /\ sources \in SUBSET Sessions /\ DOMAIN state.initial = sources
      /\ state.initial \in Snapshots(sources)
  <2>1. StateInv(state)
    BY <1>1
  <2>2. DOMAIN state.initial = DOMAIN state.last
    BY <2>1 DEF StateInv, ValidState
  <2> QED
    BY <2>1, <2>2, StateIs
<1>9. CanSnapshot(sources) /\ ProjectsTo(state, snap)
  BY <1>1 DEF NoDrift
<1>10. /\ snap \in Snapshots(sources) /\ DOMAIN snap = sources
       /\ \A s \in sources, n \in Numbers : Somewhere(s, n) = {snap[s].records[n]} \ {None}
  BY <1>1, <1>8, <1>9, SnapshotIs
<1>11. \A s \in sources : (live[s] = Empty) # (archive[s] = Empty)
  BY <1>9 DEF CanSnapshot, Resolves
<1> HIDE DEF u, d, sources, snap
<1>12. ASSUME NEW i \in ids
       PROVE  /\ i[1] \in sources /\ i[1] \in Sessions /\ i[2] \in Numbers
              /\ LET a == snap[i[1]].records[i[2]] IN
                 /\ a # None /\ a.unit = u /\ a.status \notin {"archived", "superseded"}
  <2> DEFINE s == i[1]  n == i[2]
             b == state.initial[s].records  a == snap[s].records
  <2>1. s \in Sessions /\ n \in Numbers /\ i = <<s, n>>
    BY <1>3 DEF Ids
  <2>2. s \in sources /\ b[n] # None /\ b[n].unit = u /\ b[n].status \notin {"archived", "superseded"}
    BY <1>1, <1>2, <1>3, <1>8 DEF PlanInv
  <2>3. a \in Files /\ b \in Files
    BY <1>8, <1>10, <2>2 DEF Snapshots
  <2>4. <<s, n>> \in BatchIds(state)
    BY <1>2, <1>3, <2>1 DEF BatchIds
  <2>5. Projected(a, s, BatchIds(state)) = Projected(b, s, BatchIds(state))
    BY <1>1, <1>8, <1>9, <1>10, <2>2 DEF ProjectsTo, PlanInv
  <2> HIDE DEF a, b, s, n
  <2>6. a[n] # None /\ a[n].unit = u /\ a[n].status \notin {"archived", "superseded"}
    BY <2>1, <2>2, <2>3, <2>4, <2>5, ProjectionTells
  <2> QED
    BY <2>1, <2>2, <2>6 DEF a, s, n
<1>13. ASSUME NEW i \in ids
       PROVE  /\ IsActive(i) <=> live[i[1]][i[2]] # None
              /\ IsArchived(i) <=> archive[i[1]][i[2]] # None
              /\ ~(IsActive(i) /\ IsArchived(i))
              /\ RecordOf(i) = snap[i[1]].records[i[2]]
              /\ IsActive(i) \/ IsArchived(i)
  <2>1. i[1] \in sources /\ i[1] \in Sessions /\ i[2] \in Numbers /\ snap[i[1]].records[i[2]] # None
    BY <1>12
  <2>2. /\ IsActive(i) <=> live[i[1]][i[2]] # None
        /\ IsArchived(i) <=> archive[i[1]][i[2]] # None
    BY <1>1, <2>1, WholeReads DEF IsActive, IsArchived
  <2>3. live[i[1]][i[2]] = None \/ archive[i[1]][i[2]] = None
    BY <1>11, <2>1 DEF Empty
  <2>4. {live[i[1]][i[2]], archive[i[1]][i[2]]} \ {None} = {snap[i[1]].records[i[2]]}
    <3>1. Somewhere(i[1], i[2]) = {live[i[1]][i[2]], archive[i[1]][i[2]]} \ {None}
      BY <1>1, Copies DEF Whole
    <3>2. Somewhere(i[1], i[2]) = {snap[i[1]].records[i[2]]} \ {None}
      BY <1>10, <2>1
    <3> QED
      BY <2>1, <3>1, <3>2
  <2> QED
    BY <2>2, <2>3, <2>4 DEF RecordOf
<1>14. ManifestIsPromotable(u, ids)
  <2> SUFFICES ASSUME NEW i \in ids
               PROVE  /\ IsActive(i) \/ (IsArchived(i) /\ archive[i[1]][i[2]].status = "consolidated")
                      /\ ~(IsActive(i) /\ IsArchived(i))
                      /\ RecordOf(i).unit = u /\ RecordOf(i).status \notin {"archived", "superseded"}
    BY <1>1 DEF ManifestIsPromotable, ManifestIsFound, NotCrossed, Whole, IsDouble
  <2>1. RecordOf(i).unit = u /\ RecordOf(i).status \notin {"archived", "superseded"}
    BY <1>12, <1>13
  <2>2. ASSUME ~IsActive(i)
        PROVE  IsArchived(i) /\ archive[i[1]][i[2]].status = "consolidated"
    <3>1. IsArchived(i) /\ RecordOf(i) = archive[i[1]][i[2]] /\ archive[i[1]][i[2]] # None
      BY <1>13, <2>2 DEF RecordOf
    <3>2. archive[i[1]][i[2]].status \in Disposed
      BY <1>1, <1>12, <3>1 DEF ArchivedIsDisposed
    <3> QED
      BY <2>1, <3>1, <3>2 DEF Disposed
  <2> QED
    BY <1>13, <2>1, <2>2
<1>15. NoCollision(ids)
  <2> SUFFICES ASSUME NEW s \in ToArchive(ids)
               PROVE  archive[s] = Empty
    BY DEF NoCollision
  <2>1. PICK i \in ids : i[1] = s /\ IsActive(i)
    BY DEF ToArchive, ToFlip, Pending
  <2>2. s \in sources /\ i[2] \in Numbers /\ live[s][i[2]] # None
    BY <1>12, <1>13, <2>1
  <2>3. live[s] # Empty
    BY <2>2 DEF Empty
  <2> QED
    BY <1>11, <2>2, <2>3
<1>16. d # None
  BY DEF d, u
<1> QED
  BY <1>5, <1>6, <1>7, <1>14, <1>15, <1>16 DEF Accepts, WouldAccept, d, u

\* What --init saves is what it saw, and what it expects.
LEMMA InitPlans ==
  ASSUME BInv, InitState
  PROVE  PlanInv(state)'
<1>0. /\ TypeOK /\ Whole /\ state' = InitialState
      /\ \A u \in Batch : drafts[u] # None /\ UnitHasNoProblem(u, None)
  BY DEF BInv, InitState, NoProblem
<1>1. \A u \in Batch : \A i \in drafts[u].ids :
        /\ i[1] \in Sessions /\ i[2] \in Numbers /\ IsActive(i)
        /\ live[i[1]] # Empty /\ live[i[1]][i[2]] # None /\ live[i[1]][i[2]].unit = u
        /\ live[i[1]][i[2]].status \notin {"archived", "superseded"}
  BY <1>0, UnitIs
<1> DEFINE ids == UNION {drafts[u].ids : u \in Batch}
           sources == Sources(ids)
           snap == Snapshot(sources)
           units == [u \in Batch |-> drafts[u].ids]
           final == [s \in sources |-> Projected(snap[s].records, s, ids)]
<1>2. /\ state'.units = units /\ state'.initial = snap /\ state'.final = final
  BY <1>0 DEF InitialState
<1>3. BatchIds(state)' = ids
  BY <1>2 DEF BatchIds
<1>4. \A u \in Batch : \A i \in drafts[u].ids : i \in ids
  OBVIOUS
<1>5. \A i \in ids : i[1] \in Sessions /\ IsActive(i)
  BY <1>1
<1> HIDE DEF ids
<1>6. sources \in SUBSET Sessions /\ \A i \in ids : i[1] \in sources
  BY <1>5 DEF Sources
<1>7. DOMAIN snap = sources /\ \A s \in sources : live[s] # Empty => snap[s].records = live[s]
  BY <1>0, <1>6, SnapshotIs
<1> HIDE DEF sources, snap
<1>8. \A s \in DOMAIN state'.initial :
        state'.final[s] = Projected(state'.initial[s].records, s, BatchIds(state)')
  BY <1>2, <1>3, <1>7
<1>9. ASSUME NEW u \in Batch, NEW i \in state'.units[u]
      PROVE  LET r == state'.initial[i[1]].records[i[2]] IN
             /\ i[1] \in DOMAIN state'.initial
             /\ r # None /\ r.unit = u /\ r.status \notin {"archived", "superseded"}
  <2>1. i \in drafts[u].ids
    BY <1>2, <1>9
  <2>2. i[1] \in sources /\ snap[i[1]].records = live[i[1]]
    BY <1>1, <1>4, <1>6, <1>7, <2>1
  <2> QED
    BY <1>1, <1>2, <1>7, <2>1, <2>2
<1>10. \A s, f, i : Projected(f, s, i)' = Projected(f, s, i)
  BY DEF Projected, Flipped
<1> QED
  BY <1>8, <1>9, <1>10 DEF PlanInv, BatchIds, Projected, Flipped

\* No command changes it afterwards.
LEMMA PlanStays ==
  ASSUME BInv, [BatchNext]_<<vars, batchVars>>, state # None
  PROVE  UNCHANGED <<state.units, state.initial, state.final>>
<1>0. \E sources \in SUBSET Sessions : state \in States(sources)
  BY DEF BInv, StateInv
<1>1. ASSUME NEW integrity, NEW landed, NEW last,
             state' = [state EXCEPT !.integrity = integrity, !.landed = landed, !.last = last]
      PROVE  UNCHANGED <<state.units, state.initial, state.final>>
  BY <1>0, <1>1 DEF States
<1>2. ASSUME NEW witness, state' = [state EXCEPT !.witness = witness]
      PROVE  UNCHANGED <<state.units, state.initial, state.final>>
  BY <1>0, <1>2 DEF States
<1>3. AtRow \/ (proc # None /\ proc.at = "apply") => proc.mem = state
  BY DEF BInv, ProcInv, AtRow
<1>4. CASE VerifyLanded
  <2>1. CASE UNCHANGED state
    BY <2>1
  <2>2. CASE state' = [state EXCEPT !.integrity = IF @ = None THEN pages[Create].text ELSE @,
                         !.landed = IF @ < proc.row THEN proc.row ELSE @,
                         !.last = Snapshot(DOMAIN state.last)]
    BY <1>1, <2>2
  <2> QED
    BY <1>3, <1>4, <2>1, <2>2 DEF VerifyLanded, Halt, Save
<1>5. CASE EndApply
  <2>1. CASE UNCHANGED state
    BY <2>1
  <2>2. CASE state' = [state EXCEPT !.last = Snapshot(DOMAIN @), !.landed = @ + 1,
                         !.integrity = IF Row = Create THEN pages[Create].text ELSE @]
    BY <1>0, <2>2 DEF States
  <2> QED
    BY <1>3, <1>5, <2>1, <2>2 DEF EndApply, Halt, Save
<1>6. CASE MintWitness
  <2>1. CASE UNCHANGED state
    BY <2>1
  <2>2. CASE state' = [state EXCEPT !.witness =
                         [page |-> pages[Create], sources |-> Snapshot(DOMAIN state.last)]]
    BY <1>2, <2>2
  <2> QED
    BY <1>3, <1>6, <2>1, <2>2 DEF MintWitness, Halt, Save
<1>7. ~InitState
  BY DEF InitState
<1>8. Transition \/ Execute \/ HandFinish \/ DistilCreate \/ TransitionRow \/ BeginApply
        \/ (Run /\ UNCHANGED batchVars) \/ Kill \/ OutOfBand \/ UNCHANGED <<vars, batchVars>>
      => UNCHANGED state
  BY DEF Transition, Execute, HandFinish, DistilCreate, TransitionRow, BeginApply, Halt, Kill, OutOfBand,
         batchVars
<1> QED
  BY <1>4, <1>5, <1>6, <1>7, <1>8 DEF BatchNext, Command, Progress

\* The plan of the state file stands in every step.
LEMMA PlanStep ==
  ASSUME BInv, state # None => PlanInv(state), [BatchNext]_<<vars, batchVars>>, state' # None
  PROVE  PlanInv(state)'
<1>1. CASE state # None
  <2>1. UNCHANGED <<state.units, state.initial, state.final>>
    BY <1>1, PlanStays
  <2>2. BatchIds(state)' = BatchIds(state)
    BY <2>1 DEF BatchIds
  <2> QED
    BY <1>1, <2>1, <2>2 DEF PlanInv, Projected, Flipped
<1>2. CASE state = None
  <2>1. InitState
    <3>1. proc # None => proc.at = "transition"
      BY <1>2 DEF BInv, Untouched
    <3>2. ~(VerifyLanded \/ EndApply \/ MintWitness)
      BY <3>1 DEF VerifyLanded, EndApply, MintWitness, AtRow
    <3>3. Transition \/ Execute \/ HandFinish \/ DistilCreate \/ TransitionRow \/ BeginApply
            \/ (Run /\ UNCHANGED batchVars) \/ Kill \/ OutOfBand \/ UNCHANGED <<vars, batchVars>>
          => UNCHANGED state
      BY DEF Transition, Execute, HandFinish, DistilCreate, TransitionRow, BeginApply, Halt, Kill, OutOfBand,
             batchVars
    <3> QED
      BY <1>2, <3>2, <3>3 DEF BatchNext, Command, Progress
  <2> QED
    BY <2>1, InitPlans
<1> QED
  BY <1>1, <1>2

\* What reaches the archive is disposed of, and stays so there.
LEMMA ArchivedStep ==
  ASSUME BInv, ArchivedIsDisposed, [BatchNext]_<<vars, batchVars>>
  PROVE  ArchivedIsDisposed'
<1> USE DEF files
<1>0. TypeOK /\ Whole
  BY DEF BInv
<1>1. CASE UNCHANGED archive
  BY <1>1 DEF ArchivedIsDisposed
<1>2. CASE BodyEdited
  BY <1>2 DEF BodyEdited, ArchivedIsDisposed
<1>3. ASSUME NEW s \in Sessions, Archive(s)
      PROVE  ArchivedIsDisposed'
  <2>1. CASE UNCHANGED archive
    BY <1>1, <2>1
  <2>2. CASE AllDisposed(s, {})
    <3> SUFFICES ASSUME NEW t \in Sessions, NEW n \in Numbers, archive'[t][n] # None
                 PROVE  archive'[t][n].status \in Disposed
      BY DEF ArchivedIsDisposed
    <3>1. CASE t # s
      BY <1>0, <1>3, <3>1, ArchiveMoves DEF ArchivedIsDisposed, Whole
    <3>2. CASE t = s
      <4>1. archive'[s][n] \in {archive[s][n], live[s][n]}
        BY <1>0, <1>3, ArchiveMoves DEF Whole
      <4>2. live[s][n] # None => live[s][n].status \in Disposed
        BY <1>0, <2>2, WholeReads DEF AllDisposed
      <4> QED
        BY <3>2, <4>1, <4>2 DEF ArchivedIsDisposed
    <3> QED
      BY <3>1, <3>2
  <2> QED
    BY <1>3, <2>1, <2>2 DEF Archive
<1>4. Run => UNCHANGED archive \/ \E s \in Sessions : Archive(s)
  BY DEF Run, WritePage, FlipsDone, Remove, ArchiveDone, Finish, FlipReads, FlipWrites
<1>5. OutOfBand => UNCHANGED archive \/ BodyEdited
  BY <1>0, PeopleDo DEF Shelve, PageEdited, DraftEdited, DeltaAdded
<1>6. Kill \/ TransitionRow \/ DistilCreate \/ UNCHANGED vars => UNCHANGED archive
  BY DEF Kill, TransitionRow, DistilCreate, vars
<1>7. (\E v \in Batch : Apply(v)) => UNCHANGED archive
  BY DEF Apply
<1> QED
  BY <1>1, <1>2, <1>3, <1>4, <1>5, <1>6, <1>7, Kinds

\* The drafts that --execute goes on with are ready, and a page of the create is its own.
LEMMA ExecuteFinds ==
  ASSUME BInv, Execute
  PROVE  ReadyInv'
<1>0. /\ TypeOK /\ CreateDraft /\ NoProblem(state) /\ NoneIs("fresh", state) /\ UNCHANGED vars
      /\ proc' = [at |-> "row", row |-> 1, mem |-> state, before |-> None, edits |-> edits]
      /\ Create \in Batch
  BY TheBatch DEF BInv, Execute
<1>1. ASSUME NEW u \in Batch, drafts[u] # None
      PROVE  /\ drafts[u].banner = "gone" /\ drafts[u].target = Create
             /\ u # Create => drafts[u].mode # "create"
  <2>1. StateOf(u, state) \notin {"inconsistent", "undistilled"} /\ StateOf(u, state) # "fresh"
    BY <1>0 DEF NoProblem, UnitHasNoProblem, NoneIs
  <2>2. drafts[u] \in Drafts
    BY <1>0, <1>1, TheBatch DEF TypeOK
  <2>3. drafts[u].banner \in {"kept", "gone"}
    BY <2>2 DEF Drafts
  <2>4. CASE u = Create
    BY <1>1, <2>1, <2>3, <2>4 DEF StateOf
  <2>5. CASE u # Create
    <3>1. drafts[u].banner = "gone" /\ drafts[u] = Transitioned(drafts[u])
      BY <1>1, <2>1, <2>3, <2>5 DEF StateOf
    <3>2. Transitioned(drafts[u]).mode = "update-existing" /\ Transitioned(drafts[u]).target = Create
      BY <2>2 DEF Transitioned, Drafts
    <3> QED
      BY <2>5, <3>1, <3>2
  <2> QED
    BY <2>4, <2>5
<1>2. ASSUME drafts[Create] # None
      PROVE  pages[Create] \in {None, Promoted(drafts[Create], None)}
  <2>1. Accepts(Create)
    BY <1>0, <1>2 DEF NoProblem, PreflightsPass
  <2>2. drafts[Create].mode = "create" /\ drafts[Create].target = Create
    BY <1>0, <1>2 DEF CreateDraft
  <2> QED
    BY <2>1, <2>2 DEF Accepts, WouldAccept, TargetFits, Promoted
<1>3. edits \in Nat
  BY <1>0, ConsolidateConstants DEF TypeOK
<1>4. /\ proc'.at = "row" /\ proc'.edits = edits /\ edits' = edits
      /\ drafts' = drafts /\ pages' = pages
  BY <1>0 DEF vars
<1>5. Promoted(drafts[Create], None)' = Promoted(drafts[Create], None)
  BY <1>4 DEF Promoted
<1> QED
  BY <1>1, <1>2, <1>3, <1>4, <1>5 DEF ReadyInv

\* Whoever edits is counted, and of a draft changes no more than the create's text.
LEMMA EditsCount ==
  ASSUME BInv, OutOfBand
  PROVE  /\ edits' = edits + 1 /\ proc' = proc
         /\ \A u \in Units : drafts[u] # None =>
              /\ drafts'[u].banner = drafts[u].banner
              /\ drafts'[u].target = drafts[u].target /\ drafts'[u].mode = drafts[u].mode
<1>1. edits' = edits + 1 /\ proc' = proc
  BY DEF OutOfBand, Edit, Shelve, batchVars
<1>2. TypeOK
  BY DEF BInv
<1>3. drafts' = drafts \/ DraftEdited
  BY <1>2, PeopleDo DEF Shelve, BodyEdited, PageEdited, DeltaAdded
<1>4. CASE DraftEdited
  <2>1. /\ drafts' = [drafts EXCEPT ![Create].text = "revised"] /\ drafts[Create] # None
        /\ drafts \in [Units -> {None} \cup Drafts] /\ Create \in Units
    BY <1>2, <1>4, TheBatch DEF DraftEdited, TypeOK
  <2>2. drafts[Create] \in Drafts
    BY <2>1
  <2>3. drafts' = [drafts EXCEPT ![Create] = [drafts[Create] EXCEPT !.text = "revised"]]
    BY <2>1
  <2>4. /\ [drafts[Create] EXCEPT !.text = "revised"].banner = drafts[Create].banner
        /\ [drafts[Create] EXCEPT !.text = "revised"].target = drafts[Create].target
        /\ [drafts[Create] EXCEPT !.text = "revised"].mode = drafts[Create].mode
    BY <2>2 DEF Drafts
  <2> QED
    BY <1>1, <2>1, <2>3, <2>4
<1> QED
  BY <1>1, <1>3, <1>4

\* Every step keeps what --execute found, or is an edit that is counted.
LEMMA ReadyStep ==
  ASSUME BInv, ReadyInv, [BatchNext]_<<vars, batchVars>>
  PROVE  ReadyInv'
<1> USE DEF files
<1>0. /\ TypeOK /\ (proc # None => ProcInv) /\ (state # None => DiskInv(state) /\ StateInv(state))
      /\ edits \in Nat /\ Create \in Batch /\ Create \in Units /\ Batch \subseteq Units
  BY TheBatch, ConsolidateConstants DEF BInv, TypeOK
<1>1. CASE Execute
  BY <1>1, ExecuteFinds
<1>2. CASE proc' = None \/ proc'.at = "transition"
  BY <1>2 DEF ReadyInv
<1>3. \A u \in Units : drafts'[u] # None => drafts[u] # None
  BY DraftsStep
<1>4. CASE UNCHANGED <<proc, edits, drafts, pages>>
  <2>1. Promoted(drafts[Create], None)' = Promoted(drafts[Create], None)
    BY <1>4 DEF Promoted
  <2> QED
    BY <1>4, <2>1 DEF ReadyInv
<1>5. CASE VerifyLanded /\ proc' # None
  <2>1. /\ proc # None /\ proc.at = "row" /\ ProcInv /\ UNCHANGED <<drafts, pages, edits>>
        /\ NoDrift /\ LandedOk(Row, proc.row)
    BY <1>0, <1>5 DEF VerifyLanded, AtRow, Halt, vars
  <2>2. proc' = [proc EXCEPT !.mem = state', !.row = @ + 1]
    BY <1>5, <2>1, VerifyLandedSaves
  <2>3. proc'.at = "row" /\ proc'.edits = proc.edits
    BY <2>1, <2>2 DEF ProcInv
  <2>4. Promoted(drafts[Create], None)' = Promoted(drafts[Create], None)
    BY <2>1 DEF Promoted
  <2> QED
    BY <2>1, <2>3, <2>4 DEF ReadyInv
<1>6. CASE BeginApply /\ proc' # None
  <2>1. /\ proc # None /\ proc.at = "row" /\ ProcInv /\ UNCHANGED <<drafts, edits>>
        /\ proc' = [proc EXCEPT !.at = "apply",
                      !.before = [snap |-> Snapshot(DOMAIN proc.mem.last), page |-> pages[Create]]]
    BY <1>0, <1>6 DEF BeginApply, AtRow, Halt
  <2> DEFINE before == [snap |-> Snapshot(DOMAIN proc.mem.last), page |-> pages[Create]]
  <2>2. proc' = [proc EXCEPT !.at = "apply", !.before = before]
    BY <2>1
  <2> HIDE DEF before
  <2>3. proc'.at = "apply" /\ proc'.edits = proc.edits
    BY <2>1, <2>2 DEF ProcInv
  <2> QED
    BY <2>1, <2>3 DEF ReadyInv
<1>7. CASE EndApply /\ proc' # None
  <2>1. AppliedAsPlanned(Row) /\ proc # None /\ proc.at = "apply" /\ ProcInv
    BY <1>0, <1>7 DEF EndApply, Halt
  <2>2. /\ proc' = [proc EXCEPT !.mem = state', !.row = @ + 1, !.at = "row", !.before = None]
        /\ UNCHANGED vars /\ proc.row \in Rows
    BY <1>7, <2>1, EndApplySaves
  <2>3. proc'.at = "row" /\ proc'.edits = proc.edits
    BY <2>1, <2>2 DEF ProcInv
  <2>4. drafts[Create] = None
    <3>1. CASE proc.row = 1
      BY <2>1, <3>1, TheBatch DEF AppliedAsPlanned, Row
    <3>2. CASE proc.row # 1
      <4>1. state # None /\ state.landed = proc.row - 1 /\ proc.row \in Nat /\ proc.row > 1
        BY <2>1, <2>2, <3>2, TheBatch DEF ProcInv
      <4>2. 1 \in 1..state.landed
        BY <4>1
      <4> QED
        BY <1>0, <4>1, <4>2, TheBatch DEF DiskInv, Landed
    <3> QED
      BY <3>1, <3>2
  <2>5. UNCHANGED <<drafts, edits>>
    BY <2>2 DEF vars
  <2> QED
    BY <2>1, <2>3, <2>4, <2>5 DEF ReadyInv
<1>8. CASE Run /\ UNCHANGED batchVars
  <2>1. job # None /\ proc' = proc /\ edits' = edits
    BY <1>8 DEF Run, WritePage, FlipsDone, Remove, ArchiveDone, Finish, FlipReads, FlipWrites, Archive, batchVars
  <2>2. proc # None => proc.at = "apply"
    BY <1>0, <2>1 DEF ProcInv, Processes
  <2>3. \A u \in Units : drafts'[u] # None => drafts'[u] = drafts[u]
    <3>1. Finish => \E u \in Units : drafts' = drafts \/ drafts' = [drafts EXCEPT ![u] = None]
      BY <1>0, JobType DEF Finish, Jobs
    <3>2. ~Finish => drafts' = drafts
      BY <1>8 DEF Run, WritePage, FlipsDone, Remove, ArchiveDone, FlipReads, FlipWrites, Archive
    <3> QED
      BY <1>0, <3>1, <3>2 DEF TypeOK
  <2> QED
    BY <1>0, <2>1, <2>2, <2>3 DEF ReadyInv
<1>9. CASE OutOfBand
  <2>1. /\ edits' = edits + 1 /\ proc' = proc
        /\ \A u \in Units : drafts[u] # None =>
             /\ drafts'[u].banner = drafts[u].banner
             /\ drafts'[u].target = drafts[u].target /\ drafts'[u].mode = drafts[u].mode
    BY <1>9, EditsCount
  <2> QED
    BY <1>0, <1>3, <2>1 DEF ReadyInv
<1>10. CASE DistilCreate
  <2>1. drafts[Create] # None /\ drafts[Create].banner = "kept" /\ proc' = proc
    BY <1>10 DEF DistilCreate
  <2>2. proc # None => proc.at = "transition"
    BY <1>0, <2>1 DEF ReadyInv
  <2> QED
    BY <1>2, <2>1, <2>2
<1>11. Transition \/ TransitionRow => proc' = None \/ proc'.at = "transition"
  <2>1. Transition => proc'.at = "transition"
    BY DEF Transition
  <2>2. ASSUME TransitionRow
        PROVE  proc' = None \/ proc'.at = "transition"
    <3>1. ProcInv /\ proc.at = "transition"
      BY <2>2, TransitionRowIs DEF TransitionRow
    <3>2. proc' = None \/ proc' = [proc EXCEPT !.row = @ + 1]
      BY <2>2 DEF TransitionRow
    <3> QED
      BY <3>1, <3>2 DEF ProcInv
  <2> QED
    BY <2>1, <2>2
<1>12. InitState \/ HandFinish \/ MintWitness \/ Kill => proc' = None
  BY DEF InitState, HandFinish, MintWitness, Halt, Kill, batchVars
<1>13. UNCHANGED <<vars, batchVars>> => UNCHANGED <<proc, edits, drafts, pages>>
  BY DEF vars, batchVars
<1> QED
  BY <1>1, <1>2, <1>4, <1>5, <1>6, <1>7, <1>8, <1>9, <1>10, <1>11, <1>12, <1>13
  DEF BatchNext, Command, Progress

\* Once --execute has begun no apply of the batch is refused, unless somebody edits: the
\* assessment looked at all that the applies ask for, and none of them changes that.
THEOREM VerdictStands == BatchSpec => VerdictHolds
<1> DEFINE A == AtRow /\ proc.row \in Rows /\ drafts[Row] # None /\ NoDrift
                  /\ TargetIsAsExpected(Row) /\ ~Accepts(Row) => edits > proc.edits
<1>1. BatchInit => VerdictInv
  <2>1. BatchInit => state = None /\ proc = None /\ \A s \in Sessions : archive[s] = Empty
    BY DEF BatchInit
  <2> QED
    BY <2>1 DEF VerdictInv, ArchivedIsDisposed, ReadyInv, Empty
<1>2. BInv /\ VerdictInv /\ [BatchNext]_<<vars, batchVars>> => VerdictInv'
  BY PlanStep, ArchivedStep, ReadyStep DEF VerdictInv
<1>3. BatchSpec => []VerdictInv
  BY <1>1, <1>2, BatchInvariance, PTL DEF BatchSpec
<1>4. BInv /\ VerdictInv => A
  <2> SUFFICES ASSUME BInv, VerdictInv, AtRow, proc.row \in Rows, drafts[Row] # None, NoDrift,
                      TargetIsAsExpected(Row), ~Accepts(Row)
               PROVE  edits > proc.edits
    OBVIOUS
  <2>1. edits # proc.edits
    BY RowIsAccepted
  <2>2. proc.edits \in Nat /\ edits \in Nat /\ edits >= proc.edits
    BY ConsolidateConstants DEF VerdictInv, ReadyInv, AtRow, BInv, TypeOK
  <2> QED
    BY <2>1, <2>2
<1>5. BInv /\ VerdictInv => [A]_<<vars, batchVars>>
  BY <1>4
<1> QED
  BY <1>3, <1>5, BatchInvariance, PTL DEF VerdictHolds
=============================================================================
