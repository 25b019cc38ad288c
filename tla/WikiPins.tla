------------------------------- MODULE WikiPins -------------------------------
(***************************************************************************)
(* The pins of a curated page and the lint that follows them through the   *)
(* history of the pinned file: stale layer 1 of                            *)
(* skills/codebase-wiki/scripts/wiki-lint.py and --update-pins.            *)
(*                                                                         *)
(* A page pins one source file three ways: the file, the body of a symbol, *)
(* and a range of lines, each as of a commit.  The file is a sequence of   *)
(* lines; people edit it, move it and commit it, and lint reads the commit *)
(* of a pin, the commit HEAD and the working tree.                         *)
(***************************************************************************)
EXTENDS Naturals, Sequences, FiniteSets, FiniteSetsExt

CONSTANTS
  Origins,     \* the histories of the source file that a page may be written in
  SourceLines, \* the lines an edit may write
  MaxLength,   \* bound on the length of the source file
  MaxChanges   \* bound on changes of the working tree

ASSUME PinConstants == MaxLength \in Nat /\ MaxChanges \in Nat

VARIABLES
  commits,  \* the history: [path, lines, from], from the path Git says it was renamed from
  tree,     \* the working tree: [path, lines]
  pins,     \* the pins of the page by kind: [path, first, last, sha]
  report,   \* the last lint, if nothing changed since: what it said, of which pins
  changes   \* bound: changes of the working tree so far

pinVars == <<commits, tree, pins, report, changes>>

Paths == {"p", "q", "r"}
Kinds == {"file", "symbol", "range"}
HEAD == Len(commits)

\* Lines are texts, and a page is written in a project that has a commit.
ASSUME OriginsAreHistories ==
  /\ SourceLines \subseteq STRING
  /\ \A h \in Origins : h # <<>> /\ h \in Seq([path : Paths, lines : Seq(STRING), from : Paths \cup {""}])

\* Lines: the declaration of the symbol, beside it at the left margin lines that begin
\* with two dashes or two pluses and another, and lines of a body, the text of one
\* within another's.
TopLines == {"def", "--", "++", "top"}
Within(x, y) == x = y \/ (x = "one" /\ y = "one more")

-----------------------------------------------------------------------------
(* What lint asks Git.                                                     *)

\* get_file_at_sha.
FileAt(sha, path) == IF commits[sha].path = path THEN commits[sha].lines ELSE <<>>

\* count_commits_since: the commits that touched a path.
CommitsSince(sha, path) ==
  {n \in sha + 1..HEAD : FileAt(n, path) # FileAt(n - 1, path) \/
                         (commits[n].path = path) # (commits[n - 1].path = path)}

\* find_rename_target: the renames that Git recorded, chained forward; "" if the
\* chain does not end at a file that is there.
Walked(pin) ==
  LET at[n \in pin.sha..HEAD] ==
        IF n = pin.sha THEN pin.path
        ELSE IF commits[n].from = at[n - 1] THEN commits[n].path ELSE at[n - 1]
  IN at[HEAD]

RenameTarget(pin) ==
  IF commits[pin.sha].path = pin.path /\ Walked(pin) # pin.path /\ Walked(pin) = tree.path
  THEN tree.path ELSE ""

\* A diff keeps a longest common part; the lines it keeps, old and new.
Kept(t, S) ==
  LET f[n \in 0..Len(t)] ==
        IF n = 0 THEN <<>> ELSE IF n \in S THEN Append(f[n - 1], t[n]) ELSE f[n - 1]
  IN f[Len(t)]
Parts(t) == {<<S, Kept(t, S)>> : S \in SUBSET DOMAIN t}
Diffs(o, t) ==
  LET common == {k \in Parts(o) \X Parts(t) : k[1][2] = k[2][2]}
      most == Max({Len(k[1][2]) : k \in common})
  IN {<<k[1][1], k[2][1]>> : k \in {l \in common : Len(l[1][2]) = most}}

\* get_diff between the commit of a pin and HEAD; a move may pass for a deletion
\* and a new file.
DiffsOf(pin, path) ==
  Diffs(FileAt(pin.sha, pin.path), FileAt(HEAD, path))
    \cup (IF path = pin.path THEN {} ELSE {<<{}, {}>>})

\* Git answers the same question the same way.
SameFile(a, b) == a.sha = b.sha /\ a.path = b.path

-----------------------------------------------------------------------------
(* Where a pin is now.                                                     *)

\* A line added or removed that begins with two pluses or two dashes reads as a header
\* of the diff: parse_diff_hunks drops it, and the counter does not pass it.
Dropped(t, kept, sign) == {n \in DOMAIN t \ kept : t[n] = sign}
Counted(t, out, uncounted) == {n - Cardinality({m \in uncounted : m < n}) : n \in DOMAIN t \ out}

\* Mutant of Added: a context line does not advance the new counter.
AddedUncounted(t, k) ==
  LET out == k[2] \cup Dropped(t, k[2], "++") IN Counted(t, out, out)

\* hunk_changed_lines: the new positions of the lines added, the old ones of those removed.
Added(t, k) ==
  LET dropped == Dropped(t, k[2], "++") IN Counted(t, k[2] \cup dropped, dropped)
Removed(o, k) ==
  LET dropped == Dropped(o, k[1], "--") IN Counted(o, k[1] \cup dropped, dropped)

\* find_symbol_decl_line, estimate_symbol_body_end by indentation.
Declares(t) == {n \in DOMAIN t : t[n] = "def"}
SymbolSpan(t) ==
  LET d == Min(Declares(t))
  IN <<d, Max({n \in d..Len(t) : \A m \in d + 1..n : t[m] \notin TopLines})>>

\* relocate_range: the first place where the text of the pinned lines occurs.
PinnedLines(pin) == SubSeq(FileAt(pin.sha, pin.path), pin.first, pin.last)
Occurs(block, t) ==
  {n \in 1..Len(t) : /\ n + Len(block) - 1 <= Len(t)
                     /\ \A m \in 1..Len(block) :
                          IF m = Len(block) THEN Within(block[m], t[n + m - 1])
                          ELSE block[m] = t[n + m - 1]}
Locatable(pin) ==
  /\ pin.first <= pin.last /\ pin.last <= Len(FileAt(pin.sha, pin.path))
  /\ Occurs(PinnedLines(pin), tree.lines) # {}
RangeSpan(pin) ==
  LET n == Min(Occurs(PinnedLines(pin), tree.lines)) IN <<n, n + pin.last - pin.first>>

Located(k, pin) ==
  CASE k = "file" -> TRUE
    [] k = "symbol" -> Declares(tree.lines) # {}
    [] k = "range" -> Locatable(pin)

SpanNow(k, pin) == IF k = "symbol" THEN SymbolSpan(tree.lines) ELSE RangeSpan(pin)
SpanThen(k, pin) ==
  IF k = "range" THEN <<pin.first, pin.last>>
  ELSE IF Declares(FileAt(pin.sha, pin.path)) = {} THEN SpanNow(k, pin)
  ELSE SymbolSpan(FileAt(pin.sha, pin.path))

Between(n, span) == span[1] <= n /\ n <= span[2]

\* _check_range_touched.
Touched(k, pin, path, diff) ==
  \/ \E n \in Added(FileAt(HEAD, path), diff) : Between(n, SpanNow(k, pin))
  \/ \E n \in Removed(FileAt(pin.sha, pin.path), diff) : Between(n, SpanThen(k, pin))

Shifted(k, pin) == k = "range" /\ SpanNow(k, pin) # <<pin.first, pin.last>>

-----------------------------------------------------------------------------
(* _check_pin_layer1 and apply_pin_updates.                                *)

PathNow(pin) == IF tree.path = pin.path THEN pin.path ELSE RenameTarget(pin)

Said(k, pin, diff) ==
  LET path == PathNow(pin) IN
  IF path = "" THEN {"file-missing"}
  ELSE IF ~Located(k, pin) THEN {"missing"}
  ELSE (IF path # pin.path THEN {"rename"}
        ELSE IF Shifted(k, pin) THEN {"shift"}
        ELSE IF k = "file" /\ CommitsSince(pin.sha, pin.path) # {} THEN {"commits"} ELSE {})
       \cup (IF k # "file" /\ Touched(k, pin, path, diff) THEN {"touched"} ELSE {})

\* A pin that follows its text: the place in the working tree, the commit HEAD.
NewPin(k, pin) ==
  [path |-> PathNow(pin), sha |-> HEAD,
   first |-> IF k = "range" THEN SpanNow(k, pin)[1] ELSE 0,
   last |-> IF k = "range" THEN SpanNow(k, pin)[2] ELSE 0]

Lint(update) ==
  /\ \E diff \in DiffsOf(pins["symbol"], PathNow(pins["symbol"])) :
     \E other \in (IF SameFile(pins["symbol"], pins["range"]) THEN {diff}
                  ELSE DiffsOf(pins["range"], PathNow(pins["range"]))) :
       LET said == [k \in Kinds |-> Said(k, pins[k], IF k = "symbol" THEN diff ELSE other)]
       IN /\ report' = {[said |-> said, of |-> pins]}
          /\ pins' = [k \in Kinds |->
               IF update /\ said[k] \cap {"rename", "shift"} # {} THEN NewPin(k, pins[k]) ELSE pins[k]]
  /\ UNCHANGED <<commits, tree, changes>>

-----------------------------------------------------------------------------
(* The people and the repository.                                          *)

Changes == changes < MaxChanges /\ changes' = changes + 1 /\ report' = {}

\* A line is inserted, removed or replaced.
EditSource ==
  /\ Changes
  /\ \E n \in 1..Len(tree.lines) + 1, l \in SourceLines :
       LET before == SubSeq(tree.lines, 1, n - 1) IN
       \/ /\ Len(tree.lines) < MaxLength
          /\ tree' = [tree EXCEPT !.lines = before \o <<l>> \o SubSeq(@, n, Len(@))]
       \/ /\ n \in DOMAIN tree.lines
          /\ tree' \in {[tree EXCEPT !.lines = before \o SubSeq(@, n + 1, Len(@))],
                        [tree EXCEPT !.lines[n] = l]}
  /\ UNCHANGED <<commits, pins>>

MoveSource ==
  /\ Changes
  /\ tree' \in {[tree EXCEPT !.path = p] : p \in Paths \ {tree.path}}
  /\ UNCHANGED <<commits, pins>>

\* Git takes a move for a rename, or for a deletion and a new file.
CommitSource ==
  /\ tree # [path |-> commits[HEAD].path, lines |-> commits[HEAD].lines]
  /\ \E from \in (IF tree.path = commits[HEAD].path THEN {""} ELSE {"", commits[HEAD].path}) :
       commits' = Append(commits, [path |-> tree.path, lines |-> tree.lines, from |-> from])
  /\ report' = {}
  /\ UNCHANGED <<tree, pins, changes>>

\* The refresh of a page: a person reads the source at HEAD and pins it anew.
PinsOn(n) ==
  {[k \in Kinds |-> [path |-> commits[n].path, sha |-> n,
                     first |-> IF k = "range" THEN span[1] ELSE 0,
                     last |-> IF k = "range" THEN span[2] ELSE 0]] :
     span \in {s \in (1..Len(commits[n].lines)) \X (1..Len(commits[n].lines)) : s[1] <= s[2]}}

Refresh ==
  /\ pins' \in PinsOn(HEAD) /\ pins' # pins
  /\ report' = {}
  /\ UNCHANGED <<commits, tree, changes>>

PinInit ==
  /\ commits \in Origins
  /\ tree = [path |-> commits[HEAD].path, lines |-> commits[HEAD].lines]
  /\ pins \in PinsOn(1)
  /\ report = {}
  /\ changes = 0

PinNext == EditSource \/ MoveSource \/ CommitSource \/ Refresh \/ \E update \in BOOLEAN : Lint(update)

-----------------------------------------------------------------------------

Clean == tree = [path |-> commits[HEAD].path, lines |-> commits[HEAD].lines]
BodyAt(n, path) == LET s == SymbolSpan(FileAt(n, path)) IN SubSeq(FileAt(n, path), s[1], s[2])
Unsigned == \A n \in DOMAIN commits : \A m \in DOMAIN commits[n].lines :
              commits[n].lines[m] \notin {"--", "++"}
Continues(x, y) == Len(x) <= Len(y) /\ SubSeq(y, 1, Len(x)) = x

\* What lint says of a committed file can be relied on: a range pin that it moved
\* pins the text it pinned before, a file pin it is silent about has the file of
\* its commit, and a symbol pin it does not call touched has the lines of its
\* commit as far as both bodies go, if no line of the history looks like a header of a
\* diff.
LintIsHonest ==
  \A r \in {q \in report : Clean} :
    LET said == r.said  was == r.of IN
    /\ pins["range"] # was["range"] => Occurs(PinnedLines(was["range"]), PinnedLines(pins["range"])) # {}
    /\ said["file"] = {} => FileAt(HEAD, was["file"].path) = FileAt(was["file"].sha, was["file"].path)
    /\ said["symbol"] \in {{}, {"rename"}} /\ Unsigned
         /\ Declares(FileAt(was["symbol"].sha, was["symbol"].path)) # {} =>
         LET old == BodyAt(was["symbol"].sha, was["symbol"].path)
             new == BodyAt(HEAD, tree.path)
         IN Continues(old, new) \/ Continues(new, old)
=============================================================================
