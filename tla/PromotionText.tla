---------------------------- MODULE PromotionText ----------------------------
(***************************************************************************)
(* The texts that promotion reads and rewrites, line by line: the reader   *)
(* parse_fragment of deltas-for.py, the scans of consolidate.py that find  *)
(* the same records to rewrite a status, to move a fragment into the       *)
(* archive or to merge ids into the manifest of a page, and the witnesses  *)
(* of batch-promote.py.  Each has a grammar of its own for one format;     *)
(* the properties say that they agree on texts that edits by hand reach.   *)
(*                                                                         *)
(* A line is what the grammars distinguish of it.  Blank lines, line       *)
(* terminators and trailing comments of a status are left out.             *)
(***************************************************************************)
EXTENDS Naturals, Sequences, FiniteSets

CONSTANTS
  Starts,    \* the texts at the beginning: [live, twin, page]
  Lines,     \* the lines an edit may write: [fragment, page]
  Ids,       \* delta ids
  MaxEdits   \* bound on edits by hand

\* What the grammars distinguish of a line: what it is, and of which id or value.
LineType == [is : STRING, of : STRING]

\* Ids are names, and texts are lines.
ASSUME TextConstants ==
  /\ MaxEdits \in Nat /\ Ids \subseteq STRING
  /\ Starts \subseteq [live : Seq(LineType), twin : Seq(LineType), page : Seq(LineType)]
  /\ Lines \in [fragment : SUBSET LineType, page : SUBSET LineType]

VARIABLES
  live,   \* the fragment file of a session, <<>> when there is none
  twin,   \* the archive file of the same session
  page,   \* a curated page
  issue,  \* the read-back found an id that a flip reported and did not flip
  edits   \* bound: edits so far

vars == <<live, twin, page, issue, edits>>

-----------------------------------------------------------------------------
(* Lines.                                                                  *)

Line(is, of) == [is |-> is, of |-> of]
Rule == Line("rule", "")           \* ---
Fence == Line("fence", "")         \* ``` at the start of a line
Indented == Line("indented", "")   \* ``` after spaces
Header(i) == Line("header", i)     \* ## delta: i
Status(v) == Line("status", v)     \* status: v
DeltaId(i) == Line("delta_id", i)  \* delta_id: i
Key == Line("consolidates", "")    \* consolidates:
Item(i) == Line("item", i)         \*   - i
Wide(i) == Line("wide", i)         \*     - i
Noted(i) == Line("noted", i)       \*   - i # and a comment
Session == Line("session", "s")    \* session_id: s
Other == Line("other", "x")        \* another key
Dashed == Line("dashed", "x")      \* another-key: x, no \w+: to the readers
Prose == Line("prose", "")

Keys == {"status", "delta_id", "consolidates", "session", "other"}
Items == {"item", "wide", "noted"}
Disposed == {"consolidated", "archived", "superseded"}

\* The last value of f[1..n], f[n] made from f[n - 1] and the line t[n].
Through(t, first, Step(_, _, _)) ==
  LET f[n \in 0..Len(t)] == IF n = 0 THEN first ELSE Step(f[n - 1], t[n], n)
  IN f[Len(t)]

-----------------------------------------------------------------------------
(* parse_meta: the last of several lines of a key counts.                  *)

Absent == [is |-> "absent", of |-> "", items |-> <<>>]
NoMeta == [key |-> "", of |-> [k \in Keys |-> Absent]]

MetaStep(m, l) ==
  IF l.is \in Items THEN
    IF m.key # "" /\ m.of[m.key].is = "list"
    THEN [m EXCEPT !.of[m.key].items = Append(@, l.of)] ELSE m
  ELSE IF l.is \in Keys THEN
    [key |-> l.is,
     of |-> [m.of EXCEPT ![l.is] =
               [is |-> IF l.of = "" THEN "list" ELSE "scalar", of |-> l.of, items |-> <<>>]]]
  ELSE m

-----------------------------------------------------------------------------
(* parse_fragment, and the same split as flip_statuses restates it.        *)

NewRecord(i) == [header |-> i, meta |-> NoMeta, line |-> 0, body |-> <<>>]

Opened(s, l) == [at |-> "await", records |-> Append(s.records, NewRecord(l.of))]
Told(s, l, at) == [at |-> at, records |-> [s.records EXCEPT ![Len(s.records)].body = Append(@, l)]]

FenceLike == {"fence", "indented"}

\* Mutant of StatusLine: the first line of the key.
FirstStatusLine(line, l, n) == IF l.is = "status" /\ l.of # "" /\ line = 0 THEN n ELSE line

\* The line that a flip rewrites: the last one of the key with a value.
StatusLine(line, l, n) == IF l.is = "status" /\ l.of # "" THEN n ELSE line

\* A line of the metadata.
Learned(r, l, n) == [r EXCEPT !.meta = MetaStep(@, l), !.line = StatusLine(@, l, n)]

\* Only the first fence after a header is metadata, indented or not; a body's
\* fences count when they start the line.
ScanStep(s, l, n) ==
  CASE s.at = "seek" -> IF l.is = "header" THEN Opened(s, l) ELSE s
    [] s.at = "await" -> IF l.is = "header" THEN Opened(s, l)
                         ELSE IF l.is \in FenceLike THEN [s EXCEPT !.at = "meta"] ELSE Told(s, l, "body")
    [] s.at = "meta" ->
         IF l.is \in FenceLike THEN [s EXCEPT !.at = "body"]
         ELSE [s EXCEPT !.records[Len(s.records)] = Learned(@, l, n)]
    [] s.at = "body" -> IF l.is = "header" THEN Opened(s, l)
                        ELSE Told(s, l, IF l.is = "fence" THEN "code" ELSE "body")
    [] s.at = "code" -> Told(s, l, IF l.is = "fence" THEN "body" ELSE "code")

\* The scan of the lines after the first k.
Scan(t, k) ==
  Through(t, [at |-> "seek", records |-> <<>>], LAMBDA s, l, n : IF n <= k THEN s ELSE ScanStep(s, l, n))

Rules(t) == {n \in 2..Len(t) : t[n].is = "rule"}
HasEnvelope(t) == t # <<>> /\ t[1].is = "rule"
FirstOf(S) == CHOOSE n \in S : \A k \in S : n <= k

\* The line that closes the envelope; an envelope without one is no envelope.
EnvelopeEnd(t) == IF HasEnvelope(t) /\ Rules(t) # {} THEN FirstOf(Rules(t)) ELSE 0

SessionOf(t) == \E n \in 1..EnvelopeEnd(t) : t[n].is = "session"

\* delta_id or header.
Claims(r) == r.meta.of["delta_id"].is # "absent"
IdOf(r) == IF r.meta.of["delta_id"].is = "scalar" THEN r.meta.of["delta_id"].of ELSE r.header

StatusOf(r) == IF r.meta.of["status"].is = "scalar" THEN r.meta.of["status"].of ELSE ""

\* A delta as its reader sees it; where it stands in the file is not part of it.
Delta(r) == [id |-> IdOf(r), header |-> r.header, meta |-> r.meta.of, status |-> StatusOf(r), body |-> r.body]

Deltas(t) == LET rs == Scan(t, EnvelopeEnd(t)).records IN [k \in DOMAIN rs |-> Delta(rs[k])]
DeltaSet(t) == {Deltas(t)[k] : k \in DOMAIN Deltas(t)}
IdsOf(t) == {d.id : d \in DeltaSet(t)}

\* Mutant of Damaged: only bodies are looked at.
DamagedBody(t) ==
  \/ HasEnvelope(t) /\ Rules(t) = {}
  \/ Scan(t, EnvelopeEnd(t)).at = "code"

\* fragment_damage: the scan ran to the end of the file inside a fence, or the
\* envelope did.
Damaged(t) ==
  \/ HasEnvelope(t) /\ Rules(t) = {}
  \/ Scan(t, EnvelopeEnd(t)).at \in {"meta", "code"}

AllDisposed(t) == Deltas(t) # <<>> /\ \A d \in DeltaSet(t) : d.status \in Disposed

\* The deltas that the debt report counts; it leaves the archive's files out.
Debt(t) == {k \in DOMAIN Deltas(t) : Deltas(t)[k].status \notin Disposed}

-----------------------------------------------------------------------------
(* flip_statuses and what checks it.                                       *)

Coherent(r) == ~Claims(r) \/ (r.meta.of["delta_id"].is = "scalar" /\ IdOf(r) = r.header)

Flippable(r, ids) ==
  /\ IdOf(r) \in ids /\ Coherent(r)
  /\ r.line # 0 /\ StatusOf(r) \notin Disposed \cup {""}

Flipping(t, ids) == {r \in {Scan(t, 0).records[k] : k \in DOMAIN Scan(t, 0).records} : Flippable(r, ids)}

\* The ids that flip_statuses reports, and the text it writes.
FlipReport(t, ids) == {IdOf(r) : r \in Flipping(t, ids)}
FlipStatuses(t, ids) ==
  LET at == {r.line : r \in Flipping(t, ids)}
  IN [n \in DOMAIN t |-> IF n \in at THEN Status("consolidated") ELSE t[n]]

\* not_consolidated: of two records of an id the later one counts.
NotConsolidated(t, ids) ==
  {i \in ids : ~\E k \in DOMAIN Deltas(t) :
     /\ Deltas(t)[k].id = i /\ Deltas(t)[k].status = "consolidated"
     /\ \A j \in k + 1..Len(Deltas(t)) : Deltas(t)[j].id # i}

\* The checks of apply_preflight on one file: every id of the manifest is open,
\* in one record, and the flip will reach it.
Promotable(t, ids) ==
  /\ ~Damaged(t)
  /\ \A i \in ids :
       Cardinality({k \in DOMAIN Deltas(t) : Deltas(t)[k].id = i /\ Deltas(t)[k].status \notin Disposed}) = 1
       /\ Cardinality({k \in DOMAIN Deltas(t) : Deltas(t)[k].id = i}) = 1
  /\ ids \subseteq FlipReport(t, ids)

\* lines_changed_ok.
LinesChangedOk(pre, post, allowed) ==
  LET changed == {n \in DOMAIN pre : post[n] # pre[n]} IN
  /\ Len(pre) = Len(post)
  /\ \A n \in changed : pre[n].is = "status" /\ pre[n].of # "" /\ post[n] = Status("consolidated")
  /\ Cardinality(changed) <= allowed

\* projected_sha: the text with the ids that do not read consolidated flipped.
Projected(t, ids) ==
  FlipStatuses(t, ids \cap {d.id : d \in {e \in DeltaSet(t) : e.status # "consolidated"}})

-----------------------------------------------------------------------------
(* The archive file of a session that continued.                           *)

\* delta_section counts fences from the first line of the file.
SectionStart(t) ==
  LET Depth(d, l, n) ==
        IF d.start # 0 THEN d
        ELSE IF l.is = "fence" THEN [d EXCEPT !.depth = 1 - @]
        ELSE IF l.is = "header" /\ d.depth = 0 THEN [d EXCEPT !.start = n] ELSE d
  IN Through(t, [depth |-> 0, start |-> 0], Depth).start

\* Mutant of AlreadyAppended: the ids are enough.
AlreadyAppendedIds(dest, src) ==
  /\ ~Damaged(dest)
  /\ SessionOf(src) /\ SessionOf(dest) /\ AllDisposed(src)
  /\ IdsOf(src) \subseteq IdsOf(dest)

\* fragment_already_appended: every record of src, whole, is one of dest.
AlreadyAppended(dest, src) ==
  /\ ~Damaged(dest)
  /\ SessionOf(src) /\ SessionOf(dest) /\ AllDisposed(src)
  /\ \A d \in DeltaSet(src) : \E k \in DOMAIN Deltas(dest) :
       Deltas(dest)[k] = d /\ \A j \in k + 1..Len(Deltas(dest)) : Deltas(dest)[j].id # d.id

\* same_session_disjoint.
SameSessionDisjoint(dest, src) ==
  /\ Deltas(dest) # <<>> /\ SessionOf(src) /\ SessionOf(dest)
  /\ IdsOf(src) \cap IdsOf(dest) = {}

\* append_archive, without the removal of src.
Appended(dest, src) == dest \o SubSeq(src, SectionStart(src), Len(src))

-----------------------------------------------------------------------------
(* The manifest in a page's frontmatter.                                   *)

\* Mutant of KeyLines: a second key is not looked for.
FirstKeyLine(t) ==
  LET keys == {n \in 2..EnvelopeEnd(t) : t[n].is = "consolidates"}
  IN IF keys = {} THEN {} ELSE {FirstOf(keys)}

KeyLines(t) == {n \in 2..EnvelopeEnd(t) : t[n].is = "consolidates"}

\* The items that follow line k without a gap, as long as they have one of the shapes.
ItemsAfter(t, k, shapes) ==
  {n \in k + 1..EnvelopeEnd(t) : \A m \in k + 1..n : t[m].is \in shapes}

\* Neither scan accepts an item that its own loop did not take and that the
\* consumer would: no list line up to the next key.
ResumesAfter(t, k, shapes) ==
  \E n \in k + 1..EnvelopeEnd(t) :
    /\ t[n].is \in Items /\ n \notin ItemsAfter(t, k, shapes)
    /\ \A m \in k + 1..n : t[m].is \notin Keys

\* One key in block style and the items of a shape after it.
CarriesManifest(t, shapes) ==
  /\ EnvelopeEnd(t) # 0 /\ Cardinality(KeyLines(t)) <= 1
  /\ \A k \in KeyLines(t) : t[k].of = "" /\ ~ResumesAfter(t, k, shapes)

\* The items a scan finds, in order.
Listed(t, shapes) ==
  LET after == UNION {ItemsAfter(t, k, shapes) : k \in KeyLines(t)}
  IN [n \in 1..Cardinality(after) |-> t[FirstOf(KeyLines(t)) + n].of]

\* The ids that are not among these, in order.
Missing(ids, listed) ==
  Through(ids, <<>>, LAMBDA s, i, n : IF \E m \in DOMAIN listed : listed[m] = i THEN s ELSE Append(s, i))

\* merge_consolidates: the ids that are missing go after the last item.
MergedShapes == {"item", "wide"}
Merges(t) == CarriesManifest(t, MergedShapes)
Merged(t, ids) ==
  LET listed == Listed(t, MergedShapes)
      add == Missing(ids, listed)
      new == [n \in DOMAIN add |-> Item(add[n])]
      at == IF KeyLines(t) = {} THEN EnvelopeEnd(t) - 1 ELSE FirstOf(KeyLines(t)) + Len(listed)
  IN IF add = <<>> THEN t
     ELSE SubSeq(t, 1, at) \o (IF KeyLines(t) = {} THEN <<Key>> ELSE <<>>) \o new \o SubSeq(t, at + 1, Len(t))

\* consolidates_span, target_manifest and integrity_digest: items of two spaces.
WitnessReads(t) == CarriesManifest(t, {"item"})
TargetManifest(t) == Listed(t, {"item"})
Integrity(t) ==
  LET span == KeyLines(t) \cup UNION {ItemsAfter(t, k, {"item"}) : k \in KeyLines(t)}
      kept == {n \in DOMAIN t : n \notin span}
  IN [n \in 1..Cardinality(kept) |->
        t[CHOOSE m \in kept : Cardinality({j \in kept : j <= m}) = n]]

\* What the readers of a page take for its manifest.
ConsumerReads(t) ==
  Through(SubSeq(t, 2, EnvelopeEnd(t) - 1), NoMeta, LAMBDA m, l, n : MetaStep(m, l)).of["consolidates"]

-----------------------------------------------------------------------------

Init ==
  /\ \E s \in Starts : live = s.live /\ twin = s.twin /\ page = s.page
  /\ issue = "no"
  /\ edits = 0

\* A person inserts, removes or changes a line.
EditsOf(t, lines) ==
  {SubSeq(t, 1, n) \o <<l>> \o SubSeq(t, n + 1, Len(t)) : n \in 0..Len(t), l \in lines}
    \cup {SubSeq(t, 1, n - 1) \o SubSeq(t, n + 1, Len(t)) : n \in DOMAIN t}
    \cup {[t EXCEPT ![n] = l] : n \in DOMAIN t, l \in lines}

Edit ==
  /\ edits < MaxEdits /\ edits' = edits + 1
  /\ \/ live # <<>> /\ live' \in EditsOf(live, Lines.fragment) /\ UNCHANGED <<twin, page>>
     \/ twin # <<>> /\ twin' \in EditsOf(twin, Lines.fragment) /\ UNCHANGED <<live, page>>
     \/ page # <<>> /\ page' \in EditsOf(page, Lines.page) /\ UNCHANGED <<live, twin>>
  /\ UNCHANGED issue

\* apply, step 2: the statuses of the manifest's ids, and the read-back.
Flip(ids) ==
  /\ ids # {} /\ Promotable(live, ids)
  /\ live' = FlipStatuses(live, ids)
  /\ issue' = IF NotConsolidated(live', ids) = {} THEN issue ELSE "yes"
  /\ UNCHANGED <<twin, page, edits>>

\* apply, step 3, when the archive has the file of the session.
Archive ==
  /\ twin # <<>> /\ ~Damaged(live) /\ ~Damaged(twin) /\ AllDisposed(live)
  /\ \/ AlreadyAppended(twin, live) /\ UNCHANGED twin
     \/ /\ ~AlreadyAppended(twin, live) /\ SameSessionDisjoint(twin, live)
        /\ SectionStart(live) # 0
        /\ twin' = Appended(twin, live)
  /\ live' = <<>>
  /\ UNCHANGED <<page, issue, edits>>

\* apply, step 1, into a page that exists.
Merge(ids) ==
  /\ Merges(page)
  /\ page' = Merged(page, ids)
  /\ UNCHANGED <<live, twin, issue, edits>>

Orders == {<<i>> : i \in Ids} \cup {<<i, j>> : i, j \in Ids}

Next ==
  \/ Edit \/ Archive
  \/ \E ids \in SUBSET Ids : Flip(ids)
  \/ \E ids \in {o \in Orders : Len(o) = 1 \/ o[1] # o[2]} : Merge(ids)

Spec == Init /\ [][Next]_vars

-----------------------------------------------------------------------------

Edited == edits' # edits

\* The positions of the deltas whose text a flip changed.
Flipped == {k \in DOMAIN Deltas(live) : Deltas(live')[k] # Deltas(live)[k]}

\* No header stands in the envelope, where flip_statuses looks for one and its reader
\* does not.
PlainEnvelope(t) == \A n \in 1..EnvelopeEnd(t) : t[n].is # "header"

\* What the preflight promised happens, and nothing else: an id that flip_statuses
\* reported in its dry run reads consolidated afterwards by the reader's grammar,
\* only the status of records that were open has changed, the line witness of a
\* batch accepts the flip, and it wrote the bytes that the batch projects.
FlipsLand ==
  [][~Edited /\ PlainEnvelope(live) =>
     /\ issue' = issue
     /\ live' # live /\ live' # <<>> =>
       /\ DOMAIN Deltas(live') = DOMAIN Deltas(live)
       /\ \A k \in Flipped :
            LET d == Deltas(live)[k] IN
            /\ d.status \notin Disposed
            /\ Deltas(live')[k] = [d EXCEPT !.status = "consolidated", !.meta["status"].of = "consolidated"]
       /\ LinesChangedOk(live, live', Cardinality(Flipped))
       /\ Projected(live, {Deltas(live)[k].id : k \in Flipped}) = live']_vars

\* No fence and no header stands where the reader does not look for one.
PlainPreamble(t) ==
  /\ PlainEnvelope(t)
  /\ \A n \in DOMAIN t : t[n].is \in FenceLike => \E k \in EnvelopeEnd(t) + 1..n - 1 : t[k].is = "header"

\* A fragment is removed only when the archive file holds each of its deltas whole,
\* readable, beside all that it held before, and when no debt leaves the report with it.
ArchiveKeepsDeltas ==
  [][~Edited /\ live' # live /\ live' = <<>> /\ PlainPreamble(live) =>
       /\ ~Damaged(twin') /\ Debt(live) = {}
       /\ DeltaSet(live) \cup DeltaSet(twin) \subseteq DeltaSet(twin')]_vars

HeadersRead(t) == {d.header : d \in DeltaSet(t)}

\* Where a header stands below the envelope.
HeaderLines(t, i) == {n \in EnvelopeEnd(t) + 1..Len(t) : t[n] = Header(i)}

\* Fences start their line, headers are distinct.
Plain(t) ==
  /\ PlainPreamble(t)
  /\ \A n \in DOMAIN t : t[n].is # "indented"
  /\ \A n, m \in DOMAIN t : t[n].is = "header" /\ t[m] = t[n] => m = n

\* One fault does not hide a delta below the envelope: after any edit of a plain file
\* that is not damaged, a delta whose header still stands there is read, or the file is
\* reported as damaged.  An edit that moves the end of the envelope past a header does
\* hide its delta without a report.
SingleFaultIsSeen ==
  [][Edited /\ ~Damaged(live) /\ Plain(live) =>
       \/ Damaged(live')
       \/ \A i \in HeadersRead(live) : HeaderLines(live', i) # {} => i \in HeadersRead(live')]_vars

\* A merge adds its ids to the manifest as the readers of the page take it, in
\* order, and where the batch's witness reads the page it sees the same ids and
\* the same page around them.
MergeIsSeen ==
  [][~Edited /\ page' # page =>
       /\ LET before == ConsumerReads(page).items
              after == ConsumerReads(page').items
          IN /\ Len(after) > Len(before) /\ SubSeq(after, 1, Len(before)) = before
             /\ \A n \in DOMAIN after : \A m \in DOMAIN after : n # m /\ n > Len(before) => after[n] # after[m]
       /\ WitnessReads(page) =>
            /\ WitnessReads(page') /\ TargetManifest(page') = ConsumerReads(page').items
            /\ Integrity(page') = Integrity(page)]_vars
=============================================================================
