-------------------------- MODULE CuratedPagesProofs --------------------------
(***************************************************************************)
(* Proofs about CuratedPages: that what wiki-lint says of the pins of a    *)
(* page, and what --update-pins makes of them, is so in a clean tree, for  *)
(* any history of the source file, any edits, moves and commits, and any   *)
(* diff that keeps a common part of the two texts; and that a flip does    *)
(* what its preflight promised, a removed fragment lives on in the archive *)
(* file, one fault hides no delta and a merge adds what is missing, for    *)
(* any texts and any edits.                                                *)
(*                                                                         *)
(* A recursion over the lines of a text is a function from the number of   *)
(* lines read; a lemma names its value once (ScanBy, SectionBy), and the   *)
(* lemmas after it follow two such functions line by line.                 *)
(***************************************************************************)
EXTENDS CuratedPages, FiniteSetTheorems, SequenceTheorems, WellFoundedInduction, TLAPS

-----------------------------------------------------------------------------
(* Numbers                                                                 *)

\* A non-empty set of numbers has a least element.
LEMMA LeastOf ==
  ASSUME NEW T \in SUBSET Nat, T # {}
  PROVE  \E x \in T : \A y \in T : x <= y
<1> DEFINE R == OpToRel(<, Nat)
<1>1. \A x, y \in Nat : x < y => <<x, y>> \in R
  BY Zenon DEF OpToRel
<1>2. IsWellFoundedOn(R, Nat)
  BY NatLessThanWellFounded, Zenon
<1> HIDE DEF R
<1>3. PICK x \in T : \A y \in T : ~(<<y, x>> \in R)
  BY <1>2, WFMin, Zenon
<1>4. \A y \in T : ~(y < x)
  BY <1>1, <1>3, Zenon
<1> QED
  BY <1>4

\* It is the minimum.
LEMMA MinIs ==
  ASSUME NEW T \in SUBSET Nat, T # {}
  PROVE  Min(T) \in T /\ \A y \in T : Min(T) <= y
BY LeastOf DEF Min

\* A bounded set of numbers that is not empty has a maximum.
LEMMA MaxIs ==
  ASSUME NEW T \in SUBSET Nat, T # {}, NEW n \in Nat, \A y \in T : y <= n
  PROVE  Max(T) \in T /\ \A y \in T : y <= Max(T)
<1> DEFINE D == {n - y : y \in T}
<1>1. D \in SUBSET Nat /\ D # {}
  OBVIOUS
<1>2. PICK d \in D : \A e \in D : d <= e
  BY <1>1, LeastOf
<1>3. PICK x \in T : d = n - x
  OBVIOUS
<1>4. \A y \in T : y <= x
  <2> SUFFICES ASSUME NEW y \in T PROVE y <= x
    OBVIOUS
  <2>1. n - y \in D
    OBVIOUS
  <2>2. d <= n - y
    BY <1>2, <2>1
  <2>3. y \in Nat /\ x \in Nat
    OBVIOUS
  <2> HIDE DEF D
  <2> QED
    BY <1>3, <2>2, <2>3
<1>5. \E z \in T : \A y \in T : z >= y
  <2>1. \A y \in T : x >= y
    BY <1>4
  <2> QED
    BY <2>1
<1> DEFINE m == CHOOSE z \in T : \A y \in T : z >= y
<1>6. m \in T /\ \A y \in T : m >= y
  BY <1>5
<1>7. Max(T) = m
  BY DEF Max
<1> HIDE DEF m
<1>8. \A y \in T : m \in Nat /\ y \in Nat /\ m >= y
  BY <1>6
<1> QED
  BY <1>6, <1>7, <1>8

-----------------------------------------------------------------------------
(* The lines that a diff keeps                                             *)

\* How many of the lines up to the m-th a diff keeps.
Rank(S, m) == Cardinality(S \cap 1..m)

\* One more when the line is kept.
LEMMA RankIs ==
  ASSUME NEW S \in SUBSET Nat
  PROVE  /\ \A m \in Nat : Rank(S, m) \in Nat
         /\ Rank(S, 0) = 0
         /\ \A m \in Nat \ {0} : Rank(S, m) = Rank(S, m - 1) + (IF m \in S THEN 1 ELSE 0)
         /\ \A m, n \in Nat : m <= n => Rank(S, m) <= Rank(S, n)
<1>1. ASSUME NEW m \in Nat
      PROVE  IsFiniteSet(S \cap 1..m) /\ Rank(S, m) \in Nat
  <2>1. IsFiniteSet(1..m)
    BY FS_Interval
  <2>2. IsFiniteSet(S \cap 1..m)
    BY <2>1, FS_Intersection
  <2> QED
    BY <2>2, FS_CardinalityType DEF Rank
<1>2. Rank(S, 0) = 0
  <2>1. S \cap 1..0 = {}
    OBVIOUS
  <2> QED
    BY <2>1, FS_EmptySet DEF Rank
<1>3. ASSUME NEW m \in Nat \ {0}
      PROVE  Rank(S, m) = Rank(S, m - 1) + (IF m \in S THEN 1 ELSE 0)
  <2> DEFINE A == S \cap 1..m - 1
  <2>1. m - 1 \in Nat /\ m \notin A
    OBVIOUS
  <2>2. S \cap 1..m = IF m \in S THEN A \cup {m} ELSE A
    OBVIOUS
  <2>3. IsFiniteSet(A) /\ Cardinality(A) \in Nat
    BY <1>1, <2>1, FS_CardinalityType
  <2>4. Rank(S, m - 1) = Cardinality(A)
    BY DEF Rank
  <2> HIDE DEF A
  <2>5. Cardinality(A \cup {m}) = Cardinality(A) + 1
    BY <2>1, <2>3, FS_AddElement
  <2>6. CASE m \in S
    BY <2>2, <2>4, <2>5, <2>6 DEF Rank
  <2>7. CASE m \notin S
    <3>1. Rank(S, m) = Cardinality(A)
      BY <2>2, <2>7 DEF Rank
    <3> QED
      BY <2>3, <2>4, <2>7, <3>1
  <2> QED
    BY <2>6, <2>7
<1>4. ASSUME NEW m \in Nat, NEW n \in Nat, m <= n
      PROVE  Rank(S, m) <= Rank(S, n)
  <2>1. \A k \in 1..m : k \in 1..n
    BY <1>4
  <2>2. S \cap 1..m \in SUBSET (S \cap 1..n)
    BY <2>1
  <2> QED
    BY <1>1, <2>2, FS_Subset DEF Rank
<1> QED
  BY <1>1, <1>2, <1>3, <1>4

\* Lines that are kept in a row have ranks in a row.
LEMMA RankRuns ==
  ASSUME NEW S \in SUBSET Nat, NEW d \in Nat, NEW e \in Nat, d..e \subseteq S
  PROVE  \A m \in d..e : Rank(S, m) = Rank(S, d) + (m - d)
<1> DEFINE Bad == {m \in d..e : Rank(S, m) # Rank(S, d) + (m - d)}
<1> SUFFICES ASSUME Bad # {} PROVE FALSE
  OBVIOUS
<1>1. Bad \in SUBSET Nat
  OBVIOUS
<1> HIDE DEF Bad
<1>2. PICK m \in Bad : \A k \in Bad : m <= k
  BY <1>1, LeastOf
<1> USE DEF Bad
<1>3. m \in Nat /\ Rank(S, d) \in Nat /\ m \in S
  BY RankIs
<1>4. m # d
  BY <1>3
<1>5. m - 1 \in d..e /\ m - 1 \notin Bad /\ m \in Nat \ {0}
  BY <1>2, <1>4
<1>6. Rank(S, m - 1) = Rank(S, d) + (m - 1 - d)
  BY <1>5
<1>7. Rank(S, m) = Rank(S, m - 1) + 1
  BY <1>3, <1>5, RankIs
<1> QED
  BY <1>3, <1>6, <1>7

\* The recursion of Kept has a value.
LEMMA KeptBy ==
  ASSUME NEW t, NEW S, Len(t) \in Nat
  PROVE  \E f : /\ Kept(t, S) = f[Len(t)] /\ f[0] = <<>>
                /\ \A n \in 1..Len(t) : f[n] = IF n \in S THEN Append(f[n - 1], t[n]) ELSE f[n - 1]
<1> DEFINE Of(f, n) == IF n = 0 THEN <<>> ELSE IF n \in S THEN Append(f[n - 1], t[n]) ELSE f[n - 1]
           Is(m, f) == f = [n \in 0..m |-> Of(f, n)]
           Bad == {m \in Nat : \A f : ~Is(m, f)}
<1>1. Bad = {}
  <2> SUFFICES ASSUME Bad # {} PROVE FALSE
    OBVIOUS
  <2>1. PICK m \in Bad : \A k \in Bad : m <= k
    BY LeastOf
  <2>2. m # 0
    <3>1. Is(0, [n \in 0..0 |-> <<>>])
      OBVIOUS
    <3> QED
      BY <2>1, <3>1
  <2>3. m - 1 \in Nat /\ m - 1 \notin Bad
    <3>1. m \in Nat
      BY <2>1
    <3> HIDE DEF Bad
    <3> QED
      BY <2>1, <2>2, <3>1
  <2>4. PICK f : Is(m - 1, f)
    BY <2>3
  <2> DEFINE g == [n \in 0..m |-> IF n = m THEN Of(f, m) ELSE f[n]]
  <2>5. \A n \in 0..m : Of(g, n) = Of(f, n)
    <3> SUFFICES ASSUME NEW n \in 0..m, n # 0 PROVE g[n - 1] = f[n - 1]
      BY DEF Of
    <3>1. n - 1 \in 0..m /\ n - 1 # m
      BY <2>1
    <3> HIDE DEF Of
    <3> QED
      BY <3>1
  <2>6. Is(m, g)
    <3> HIDE DEF Of
    <3>1. \A n \in 0..m - 1 : f[n] = Of(f, n)
      BY <2>4
    <3>2. \A n \in 0..m : g[n] = Of(f, n)
      BY <2>1, <3>1
    <3>3. g = [n \in 0..m |-> g[n]]
      OBVIOUS
    <3> HIDE DEF g
    <3> QED
      BY <2>5, <3>2, <3>3
  <2> QED
    BY <2>1, <2>6
<1>2. \E f : Is(Len(t), f)
  BY <1>1
<1> DEFINE f == CHOOSE f : Is(Len(t), f)
<1>3. Kept(t, S) = f[Len(t)]
  BY Zenon DEF Kept
<1>4. Is(Len(t), f)
  BY <1>2, Zenon
<1> HIDE DEF f
<1>5. f[0] = <<>> /\ \A n \in 1..Len(t) : f[n] = IF n \in S THEN Append(f[n - 1], t[n]) ELSE f[n - 1]
  <2>1. \A n \in 0..Len(t) : f[n] = Of(f, n)
    <3> HIDE DEF Of
    <3> QED
      BY <1>4
  <2>2. 0 \in 0..Len(t) /\ \A n \in 1..Len(t) : n \in 0..Len(t) /\ n # 0
    OBVIOUS
  <2> QED
    BY <2>1, <2>2
<1> QED
  BY <1>3, <1>5

\* What is kept of the first n lines: each in the place of its rank, and no other.
KeptWell(t, S, n, k) ==
  /\ k \in Seq(STRING) /\ Len(k) = Rank(S, n)
  /\ \A m \in S : m <= n => Rank(S, m) \in 1..Len(k) /\ k[Rank(S, m)] = t[m]
  /\ \A i \in 1..Len(k) : \E m \in S : m <= n /\ Rank(S, m) = i

\* A line more.
LEMMA KeepsMore ==
  ASSUME NEW t \in Seq(STRING), NEW S \in SUBSET DOMAIN t, NEW n \in 1..Len(t), NEW k, KeptWell(t, S, n - 1, k)
  PROVE  KeptWell(t, S, n, IF n \in S THEN Append(k, t[n]) ELSE k)
<1>1. Len(t) \in Nat /\ DOMAIN t = 1..Len(t) /\ S \in SUBSET Nat /\ n \in Nat \ {0} /\ t[n] \in STRING
  OBVIOUS
<1>2. /\ k \in Seq(STRING) /\ Len(k) = Rank(S, n - 1) /\ Len(k) \in Nat
      /\ \A m \in S : m <= n - 1 => Rank(S, m) \in 1..Len(k) /\ k[Rank(S, m)] = t[m]
      /\ \A i \in 1..Len(k) : \E m \in S : m <= n - 1 /\ Rank(S, m) = i
  BY DEF KeptWell
<1>3. CASE n \notin S
  <2>1. Rank(S, n) = Rank(S, n - 1)
    <3>1. Rank(S, n) = Rank(S, n - 1) + (IF n \in S THEN 1 ELSE 0)
      BY <1>1, RankIs
    <3> QED
      BY <1>2, <1>3, <3>1
  <2>2. \A m \in S : m <= n <=> m <= n - 1
    BY <1>1, <1>3
  <2> QED
    BY <1>2, <1>3, <2>1, <2>2 DEF KeptWell
<1>4. CASE n \in S
  <2> DEFINE a == Append(k, t[n])
  <2>1. /\ a \in Seq(STRING) /\ Len(a) = Len(k) + 1 /\ a[Len(k) + 1] = t[n]
        /\ \A i \in 1..Len(k) : a[i] = k[i]
    BY <1>1, <1>2
  <2>2. Rank(S, n) = Len(k) + 1
    <3>1. Rank(S, n) = Rank(S, n - 1) + (IF n \in S THEN 1 ELSE 0)
      BY <1>1, RankIs
    <3> QED
      BY <1>2, <1>4, <3>1
  <2>3. \A m \in S : m <= n => m <= n - 1 \/ m = n
    BY <1>1
  <2> HIDE DEF a
  <2>4. ASSUME NEW m \in S, m <= n
        PROVE  Rank(S, m) \in 1..Len(a) /\ a[Rank(S, m)] = t[m]
    <3>1. CASE m = n
      BY <1>2, <2>1, <2>2, <3>1
    <3>2. CASE m <= n - 1
      <4>1. Rank(S, m) \in 1..Len(k) /\ k[Rank(S, m)] = t[m]
        BY <1>2, <3>2
      <4> QED
        BY <1>2, <2>1, <4>1
    <3> QED
      BY <2>3, <2>4, <3>1, <3>2
  <2>5. ASSUME NEW i \in 1..Len(a)
        PROVE  \E m \in S : m <= n /\ Rank(S, m) = i
    <3>1. CASE i = Len(k) + 1
      <4>1. n <= n
        BY <1>1
      <4> QED
        BY <1>4, <2>2, <3>1, <4>1
    <3>2. CASE i # Len(k) + 1
      <4>1. i \in 1..Len(k)
        BY <1>2, <2>1, <3>2
      <4>2. PICK m \in S : m <= n - 1 /\ Rank(S, m) = i
        BY <1>2, <4>1
      <4>3. m <= n
        BY <1>1, <4>2
      <4> QED
        BY <4>2, <4>3
    <3> QED
      BY <3>1, <3>2
  <2>6. KeptWell(t, S, n, a)
    BY <2>1, <2>2, <2>4, <2>5 DEF KeptWell
  <2> QED
    BY <1>4, <2>6 DEF a
<1> QED
  BY <1>3, <1>4

\* What a diff keeps of a text.
LEMMA KeptIs ==
  ASSUME NEW t \in Seq(STRING), NEW S \in SUBSET DOMAIN t
  PROVE  KeptWell(t, S, Len(t), Kept(t, S))
<1>1. Len(t) \in Nat /\ DOMAIN t = 1..Len(t) /\ S \in SUBSET Nat /\ \A m \in S : m >= 1
  OBVIOUS
<1>2. PICK f : /\ Kept(t, S) = f[Len(t)] /\ f[0] = <<>>
               /\ \A n \in 1..Len(t) : f[n] = IF n \in S THEN Append(f[n - 1], t[n]) ELSE f[n - 1]
  BY <1>1, KeptBy
<1> DEFINE Bad == {n \in 0..Len(t) : ~KeptWell(t, S, n, f[n])}
<1>3. KeptWell(t, S, 0, f[0])
  <2>1. <<>> \in Seq(STRING) /\ Len(<<>>) = 0 /\ Rank(S, 0) = 0
    BY <1>1, RankIs
  <2>2. \A m \in S : ~(m <= 0)
    BY <1>1
  <2> QED
    BY <1>2, <2>1, <2>2 DEF KeptWell
<1>4. Bad = {}
  <2> SUFFICES ASSUME Bad # {} PROVE FALSE
    OBVIOUS
  <2>1. Bad \in SUBSET Nat
    BY <1>1
  <2> HIDE DEF Bad
  <2>2. PICK n \in Bad : \A k \in Bad : n <= k
    BY <2>1, LeastOf
  <2> USE DEF Bad
  <2>3. n \in 1..Len(t) /\ n - 1 \in 0..Len(t)
    BY <1>1, <1>3, <2>2
  <2>4. KeptWell(t, S, n - 1, f[n - 1])
    BY <2>2, <2>3
  <2>5. KeptWell(t, S, n, f[n])
    BY <1>2, <2>3, <2>4, KeepsMore
  <2> QED
    BY <2>5
<1> QED
  BY <1>1, <1>2, <1>4

-----------------------------------------------------------------------------
(* The symbol pin                                                          *)

\* The lines of a symbol: from its first declaration to a line of the file.
LEMMA SpanIs ==
  ASSUME NEW t \in Seq(STRING), Declares(t) # {}
  PROVE  /\ Declares(t) \subseteq 1..Len(t) /\ Len(t) \in Nat /\ DOMAIN t = 1..Len(t)
         /\ SymbolSpan(t)[1] \in Declares(t) /\ \A n \in Declares(t) : SymbolSpan(t)[1] <= n
         /\ SymbolSpan(t)[2] \in SymbolSpan(t)[1]..Len(t)
<1> DEFINE d == Min(Declares(t))
           E == {n \in d..Len(t) : \A m \in d + 1..n : t[m] \notin TopLines}
<1>1. Declares(t) \subseteq 1..Len(t) /\ Len(t) \in Nat /\ DOMAIN t = 1..Len(t)
  BY DEF Declares
<1>2. d \in Declares(t) /\ \A n \in Declares(t) : d <= n
  <2>1. Declares(t) \in SUBSET Nat
    BY <1>1
  <2> QED
    BY <2>1, MinIs
<1>3. SymbolSpan(t) = <<d, Max(E)>>
  BY DEF SymbolSpan
<1> HIDE DEF d
<1>4. d \in Nat /\ d <= Len(t)
  BY <1>1, <1>2
<1>5. d \in E
  <2>1. d \in d..Len(t) /\ d + 1..d = {}
    BY <1>1, <1>4
  <2> QED
    BY <2>1
<1>6. E \in SUBSET Nat /\ \A y \in E : y <= Len(t)
  BY <1>1, <1>4
<1>7. E \subseteq d..Len(t)
  OBVIOUS
<1> HIDE DEF E
<1>8. Max(E) \in d..Len(t)
  BY <1>1, <1>5, <1>6, <1>7, MaxIs
<1>9. SymbolSpan(t)[1] = d /\ SymbolSpan(t)[2] = Max(E)
  BY <1>3
<1> QED
  BY <1>1, <1>2, <1>8, <1>9

\* Of two texts of which a diff keeps the same lines, and keeps the first declaration
\* of each: no declaration is kept before it in the other.
LEMMA DeclaredFirst ==
  ASSUME NEW o \in Seq(STRING), NEW t \in Seq(STRING), NEW S \in SUBSET DOMAIN o, NEW T \in SUBSET DOMAIN t,
         Kept(o, S) = Kept(t, T), Declares(o) # {}, Declares(t) # {}, SymbolSpan(o)[1] \in S
  PROVE  Rank(T, SymbolSpan(t)[1]) <= Rank(S, SymbolSpan(o)[1])
<1> DEFINE c == SymbolSpan(o)[1]  d == SymbolSpan(t)[1]  k == Kept(o, S)
<1>1. /\ Declares(o) \subseteq 1..Len(o) /\ Len(o) \in Nat /\ c \in Declares(o)
      /\ Declares(t) \subseteq 1..Len(t) /\ Len(t) \in Nat /\ d \in Declares(t)
      /\ \A n \in Declares(t) : d <= n
  BY SpanIs
<1>2. KeptWell(o, S, Len(o), k) /\ KeptWell(t, T, Len(t), k)
  BY KeptIs
<1> HIDE DEF c, d, k
<1>3. c \in S /\ c <= Len(o)
  BY <1>1 DEF c
<1>4. Rank(S, c) \in 1..Len(k) /\ k[Rank(S, c)] = o[c]
  BY <1>2, <1>3 DEF KeptWell
<1>5. PICK m \in T : m <= Len(t) /\ Rank(T, m) = Rank(S, c)
  BY <1>2, <1>4 DEF KeptWell
<1>6. t[m] = o[c]
  BY <1>2, <1>4, <1>5 DEF KeptWell
<1>7. m \in Declares(t)
  BY <1>1, <1>5, <1>6 DEF Declares
<1>8. d <= m /\ d \in Nat /\ m \in Nat /\ T \in SUBSET Nat
  BY <1>1, <1>7
<1>9. Rank(T, d) <= Rank(T, m)
  BY <1>8, RankIs
<1> QED
  BY <1>5, <1>9 DEF c, d

\* The place of a line of a body among what the diff keeps.
LEMMA BodyRank ==
  ASSUME NEW t \in Seq(STRING), NEW S \in SUBSET DOMAIN t, Declares(t) # {},
         SymbolSpan(t)[1]..SymbolSpan(t)[2] \subseteq S, NEW i \in Nat,
         SymbolSpan(t)[1] + i <= SymbolSpan(t)[2]
  PROVE  /\ Rank(S, SymbolSpan(t)[1]) \in Nat
         /\ Kept(t, S)[Rank(S, SymbolSpan(t)[1]) + i] = t[SymbolSpan(t)[1] + i]
<1> DEFINE d == SymbolSpan(t)[1]  e == SymbolSpan(t)[2]
<1>1. d \in Nat /\ e \in d..Len(t) /\ Len(t) \in Nat /\ S \in SUBSET Nat
  <2>1. Declares(t) \subseteq 1..Len(t) /\ Len(t) \in Nat /\ d \in Declares(t) /\ e \in d..Len(t)
    BY SpanIs
  <2> HIDE DEF d, e
  <2> QED
    BY <2>1
<1>2. KeptWell(t, S, Len(t), Kept(t, S))
  BY KeptIs
<1> HIDE DEF d, e
<1>3. d + i \in d..e /\ d + i <= Len(t) /\ e \in Nat /\ d..e \subseteq S
  BY <1>1 DEF d, e
<1>4. Rank(S, d + i) = Rank(S, d) + (d + i - d) /\ Rank(S, d) \in Nat
  <2>1. \A m \in d..e : Rank(S, m) = Rank(S, d) + (m - d)
    BY <1>1, <1>3, RankRuns
  <2>2. Rank(S, d) \in Nat
    BY <1>1, RankIs
  <2> QED
    BY <1>1, <1>3, <2>1, <2>2
<1>5. Kept(t, S)[Rank(S, d + i)] = t[d + i]
  BY <1>2, <1>3 DEF KeptWell
<1>6. d + i - d = i
  BY <1>1
<1> QED
  BY <1>4, <1>5, <1>6 DEF d

\* A text that has as many lines or fewer than another, and the same where it has any.
LEMMA Continuing ==
  ASSUME NEW x, NEW y, NEW n \in Nat, NEW m \in Nat, x = [i \in 1..n |-> x[i]], y = [i \in 1..m |-> y[i]],
         Len(x) = n, Len(y) = m, n <= m, \A i \in 1..n : x[i] = y[i]
  PROVE  Continues(x, y)
<1>1. SubSeq(y, 1, n) = [i \in 1..n |-> y[i]]
  <2>1. SubSeq(y, 1, n) = [i \in 1..n - 1 + 1 |-> y[i + 1 - 1]]
    BY DEF SubSeq
  <2>2. n - 1 + 1 = n /\ \A i \in 1..n : i + 1 - 1 = i
    OBVIOUS
  <2> QED
    BY <2>1, <2>2
<1> QED
  BY <1>1 DEF Continues

\* Two bodies of which a diff keeps every line are the same as far as both go.
LEMMA BodiesContinue ==
  ASSUME NEW o \in Seq(STRING), NEW t \in Seq(STRING), NEW S \in SUBSET DOMAIN o, NEW T \in SUBSET DOMAIN t,
         Kept(o, S) = Kept(t, T), Declares(o) # {}, Declares(t) # {},
         SymbolSpan(o)[1]..SymbolSpan(o)[2] \subseteq S, SymbolSpan(t)[1]..SymbolSpan(t)[2] \subseteq T
  PROVE  LET x == SubSeq(o, SymbolSpan(o)[1], SymbolSpan(o)[2])
             y == SubSeq(t, SymbolSpan(t)[1], SymbolSpan(t)[2])
         IN Continues(x, y) \/ Continues(y, x)
<1> DEFINE c == SymbolSpan(o)[1]  b == SymbolSpan(o)[2]  d == SymbolSpan(t)[1]  e == SymbolSpan(t)[2]
           x == SubSeq(o, c, b)  y == SubSeq(t, d, e)  n == b - c + 1  m == e - d + 1
<1>1. c \in Nat \ {0} /\ b \in c..Len(o) /\ Len(o) \in Nat /\ d \in Nat \ {0} /\ e \in d..Len(t) /\ Len(t) \in Nat
  <2>1. /\ Declares(o) \subseteq 1..Len(o) /\ Len(o) \in Nat /\ c \in Declares(o) /\ b \in c..Len(o)
        /\ Declares(t) \subseteq 1..Len(t) /\ Len(t) \in Nat /\ d \in Declares(t) /\ e \in d..Len(t)
    BY SpanIs
  <2> HIDE DEF c, b, d, e
  <2> QED
    BY <2>1
<1>2. Rank(S, c) = Rank(T, d)
  <2>1. c \in c..b /\ d \in d..e
    BY <1>1
  <2>2. c \in S /\ d \in T
    BY <2>1
  <2>3. Rank(T, d) <= Rank(S, c) /\ Rank(S, c) <= Rank(T, d)
    BY <2>2, DeclaredFirst
  <2>4. Rank(S, c) \in Nat /\ Rank(T, d) \in Nat
    <3>1. S \in SUBSET Nat /\ T \in SUBSET Nat
      OBVIOUS
    <3> HIDE DEF c, d
    <3> QED
      BY <1>1, <3>1, RankIs
  <2> HIDE DEF c, d
  <2> QED
    BY <2>3, <2>4
<1>3. ASSUME NEW i \in Nat, c + i <= b, d + i <= e
      PROVE  o[c + i] = t[d + i]
  <2>1. Kept(o, S)[Rank(S, c) + i] = o[c + i]
    BY <1>3, BodyRank
  <2>2. Kept(t, T)[Rank(T, d) + i] = t[d + i]
    BY <1>3, BodyRank
  <2> QED
    BY <1>2, <2>1, <2>2
<1> HIDE DEF c, b, d, e
<1>4. /\ x = [i \in 1..n |-> o[i + c - 1]] /\ y = [i \in 1..m |-> t[i + d - 1]]
      /\ n \in Nat /\ m \in Nat
  BY <1>1 DEF SubSeq
<1>5. Len(x) = n /\ Len(y) = m /\ x = [i \in 1..n |-> x[i]] /\ y = [i \in 1..m |-> y[i]]
  BY <1>4
<1>6. ASSUME NEW i \in 1..n, i \in 1..m
      PROVE  x[i] = y[i]
  <2>1. i - 1 \in Nat /\ c + (i - 1) <= b /\ d + (i - 1) <= e /\ c + (i - 1) = i + c - 1 /\ d + (i - 1) = i + d - 1
    BY <1>1, <1>4, <1>6
  <2>2. x[i] = o[i + c - 1] /\ y[i] = t[i + d - 1]
    <3> HIDE DEF x, y, n, m
    <3> QED
      BY <1>4, <1>6
  <2> QED
    BY <1>3, <2>1, <2>2
<1> HIDE DEF x, y, n, m
<1>9. n \in Nat /\ m \in Nat
  BY <1>4
<1>7. CASE n <= m
  <2>1. \A i \in 1..n : i \in 1..m
    BY <1>9, <1>7
  <2>2. \A i \in 1..n : x[i] = y[i]
    BY <1>6, <2>1
  <2>3. Continues(x, y)
    BY <1>5, <1>7, <1>9, <2>2, Continuing
  <2> QED
    BY <2>3, Zenon DEF x, y, c, b, d, e
<1>8. CASE m <= n
  <2>1. \A i \in 1..m : i \in 1..n
    BY <1>8, <1>9
  <2>2. \A i \in 1..m : y[i] = x[i]
    BY <1>6, <2>1
  <2>3. Continues(y, x)
    BY <1>5, <1>8, <1>9, <2>2, Continuing
  <2> QED
    BY <2>3, Zenon DEF x, y, c, b, d, e
<1> QED
  BY <1>7, <1>8, <1>9


-----------------------------------------------------------------------------
(* What a lint says                                                        *)

Commits == [path : Paths, lines : Seq(STRING), from : Paths \cup {""}]
PinShapes == [path : Paths, sha : Nat, first : Nat, last : Nat]

\* The pins of a page that was written in this history.
PinsType(ps) ==
  /\ ps \in [Kinds -> PinShapes]
  /\ \A k \in Kinds : ps[k].sha \in 1..HEAD
  /\ ps["range"].first # 0

SourceType ==
  /\ commits \in Seq(Commits) /\ commits # <<>>
  /\ tree \in [path : Paths, lines : Seq(STRING)]
  /\ PinsType(pins)

\* The history has a commit, and a commit has a text for a path.
LEMMA TextsAre ==
  ASSUME SourceType
  PROVE  /\ HEAD \in Nat \ {0} /\ DOMAIN commits = 1..HEAD
         /\ \A n \in 1..HEAD : commits[n] \in Commits
         /\ \A p : \A n \in 1..HEAD : FileAt(n, p) \in Seq(STRING)
<1>1. commits \in Seq(Commits) /\ commits # <<>>
  BY DEF SourceType
<1>2. HEAD \in Nat \ {0} /\ DOMAIN commits = 1..HEAD /\ \A n \in 1..HEAD : commits[n] \in Commits
  BY <1>1 DEF HEAD
<1>3. \A p : \A n \in 1..HEAD : FileAt(n, p) \in Seq(STRING)
  <2> SUFFICES ASSUME NEW n \in 1..HEAD, NEW p PROVE FileAt(n, p) \in Seq(STRING)
    OBVIOUS
  <2>1. commits[n].lines \in Seq(STRING)
    BY <1>2 DEF Commits
  <2>2. <<>> \in Seq(STRING)
    OBVIOUS
  <2>3. FileAt(n, p) = commits[n].lines \/ FileAt(n, p) = <<>>
    BY Zenon DEF FileAt
  <2> QED
    BY <2>1, <2>2, <2>3
<1> QED
  BY <1>2, <1>3

\* In a clean tree the file is that of HEAD.
LEMMA CleanIs ==
  ASSUME Clean
  PROVE  FileAt(HEAD, tree.path) = tree.lines
<1>1. commits[HEAD].path = tree.path /\ commits[HEAD].lines = tree.lines
  BY DEF Clean
<1> QED
  BY <1>1 DEF FileAt

\* A pin that is not missing is looked for in the file of the working tree.
LEMMA PathIs ==
  ASSUME NEW pin, PathNow(pin) # ""
  PROVE  PathNow(pin) = tree.path
BY DEF PathNow, RenameTarget

\* A pin that lint calls moved was found.
LEMMA SaidMoved ==
  ASSUME NEW k, NEW pin, NEW diff, Said(k, pin, diff) \cap {"rename", "shift"} # {}
  PROVE  PathNow(pin) = tree.path /\ Located(k, pin)
<1>1. PathNow(pin) # ""
  <2> SUFFICES ASSUME PathNow(pin) = "" PROVE FALSE
    OBVIOUS
  <2>1. Said(k, pin, diff) = {"file-missing"}
    BY DEF Said
  <2> QED
    BY <2>1
<1>2. Located(k, pin)
  <2> SUFFICES ASSUME ~Located(k, pin) PROVE FALSE
    OBVIOUS
  <2>1. Said(k, pin, diff) = {"missing"}
    BY <1>1 DEF Said
  <2> QED
    BY <2>1
<1> QED
  BY <1>1, <1>2, PathIs

\* A symbol that lint finds untouched was found, and no line of it was touched.
LEMMA SaidUntouched ==
  ASSUME NEW pin, NEW diff, Said("symbol", pin, diff) \in {{}, {"rename"}}
  PROVE  PathNow(pin) = tree.path /\ Located("symbol", pin) /\ ~Touched("symbol", pin, tree.path, diff)
<1>1. PathNow(pin) # ""
  <2> SUFFICES ASSUME PathNow(pin) = "" PROVE FALSE
    OBVIOUS
  <2>1. "file-missing" \in Said("symbol", pin, diff)
    BY DEF Said
  <2> QED
    BY <2>1
<1>2. Located("symbol", pin)
  <2> SUFFICES ASSUME ~Located("symbol", pin) PROVE FALSE
    OBVIOUS
  <2>1. "missing" \in Said("symbol", pin, diff)
    BY <1>1 DEF Said
  <2> QED
    BY <2>1
<1>3. ~Touched("symbol", pin, PathNow(pin), diff)
  <2> SUFFICES ASSUME Touched("symbol", pin, PathNow(pin), diff) PROVE FALSE
    OBVIOUS
  <2>1. "touched" \in Said("symbol", pin, diff)
    BY <1>1, <1>2 DEF Said
  <2> QED
    BY <2>1
<1> QED
  BY <1>1, <1>2, <1>3, PathIs

\* A file that lint is silent about is where it was, and no commit touched it.
LEMMA SaidNothing ==
  ASSUME NEW pin, NEW diff, Said("file", pin, diff) = {}
  PROVE  CommitsSince(pin.sha, pin.path) = {}
<1>1. PathNow(pin) # ""
  <2> SUFFICES ASSUME PathNow(pin) = "" PROVE FALSE
    OBVIOUS
  <2>1. "file-missing" \in Said("file", pin, diff)
    BY DEF Said
  <2> QED
    BY <2>1
<1>2. Located("file", pin) /\ ~Shifted("file", pin)
  BY DEF Located, Shifted
<1>3. PathNow(pin) = pin.path
  <2> SUFFICES ASSUME PathNow(pin) # pin.path PROVE FALSE
    OBVIOUS
  <2>1. "rename" \in Said("file", pin, diff)
    BY <1>1, <1>2 DEF Said
  <2> QED
    BY <2>1
<1> SUFFICES ASSUME CommitsSince(pin.sha, pin.path) # {} PROVE FALSE
  OBVIOUS
<1>4. "commits" \in Said("file", pin, diff)
  BY <1>1, <1>2, <1>3 DEF Said
<1> QED
  BY <1>4

\* A file that no commit touched since is the file of that commit.
LEMMA UntouchedFile ==
  ASSUME SourceType, NEW sha \in 1..HEAD, NEW path, CommitsSince(sha, path) = {}
  PROVE  FileAt(HEAD, path) = FileAt(sha, path)
<1> DEFINE Bad == {n \in sha..HEAD : FileAt(n, path) # FileAt(sha, path)}
<1>1. HEAD \in Nat \ {0}
  BY TextsAre
<1>2. Bad = {}
  <2> SUFFICES ASSUME Bad # {} PROVE FALSE
    OBVIOUS
  <2>1. Bad \in SUBSET Nat
    BY <1>1
  <2> HIDE DEF Bad
  <2>2. PICK n \in Bad : \A k \in Bad : n <= k
    BY <2>1, LeastOf
  <2> USE DEF Bad
  <2>3. n \in sha + 1..HEAD /\ n - 1 \in sha..HEAD /\ n \in Nat
    BY <1>1, <2>2
  <2>4. n - 1 \notin Bad
    BY <2>2, <2>3
  <2>5. FileAt(n, path) # FileAt(n - 1, path)
    BY <2>2, <2>3, <2>4
  <2> QED
    BY <2>3, <2>5 DEF CommitsSince
<1>3. HEAD \in sha..HEAD
  BY <1>1
<1> QED
  BY <1>2, <1>3

\* A block that occurs somewhere occurs in the lines that it takes there.
LEMMA BlockOccurs ==
  ASSUME NEW block \in Seq(STRING), NEW t \in Seq(STRING), NEW n \in Occurs(block, t)
  PROVE  Occurs(block, SubSeq(t, n, n + Len(block) - 1)) # {} \/ block = <<>>
<1> DEFINE L == Len(block)  s == SubSeq(t, n, n + L - 1)
<1> SUFFICES ASSUME block # <<>> PROVE 1 \in Occurs(block, s)
  OBVIOUS
<1>1. L \in Nat \ {0}
  OBVIOUS
<1>2. /\ n \in 1..Len(t) /\ Len(t) \in Nat /\ n + L - 1 <= Len(t)
      /\ \A m \in 1..L : IF m = L THEN Within(block[m], t[n + m - 1]) ELSE block[m] = t[n + m - 1]
  BY DEF Occurs
<1>3. s = [i \in 1..L |-> t[n + i - 1]] /\ Len(s) = L
  <2>1. s = [i \in 1..(n + L - 1) - n + 1 |-> t[i + n - 1]]
    BY <1>1, <1>2 DEF SubSeq
  <2>2. (n + L - 1) - n + 1 = L /\ \A i \in 1..L : i + n - 1 = n + i - 1
    BY <1>1, <1>2
  <2>3. s = [i \in 1..L |-> t[n + i - 1]]
    BY <2>1, <2>2
  <2> HIDE DEF s
  <2> QED
    BY <1>1, <2>3
<1> HIDE DEF L, s
<1>4. 1 \in 1..Len(s) /\ 1 + L - 1 <= Len(s)
  BY <1>1, <1>3
<1>5. \A m \in 1..L : s[1 + m - 1] = t[n + m - 1]
  <2> SUFFICES ASSUME NEW m \in 1..L PROVE s[1 + m - 1] = t[n + m - 1]
    OBVIOUS
  <2>1. 1 + m - 1 = m
    BY <1>1
  <2> QED
    BY <1>3, <2>1
<1>6. \A m \in 1..L : IF m = L THEN Within(block[m], s[1 + m - 1]) ELSE block[m] = s[1 + m - 1]
  BY <1>2, <1>5
<1> QED
  BY <1>4, <1>6 DEF Occurs, L

\* Where the pin of a range is found: the block, as long as it was.
LEMMA RangeIs ==
  ASSUME SourceType, NEW pin \in PinShapes, pin.sha \in 1..HEAD, pin.first # 0, Locatable(pin)
  PROVE  LET block == PinnedLines(pin)  n == SpanNow("range", pin)[1]  m == SpanNow("range", pin)[2] IN
         /\ block \in Seq(STRING) /\ Len(block) = pin.last - pin.first + 1 /\ Len(block) \in Nat \ {0}
         /\ n \in Occurs(block, tree.lines) /\ n \in Nat \ {0}
         /\ m = n + Len(block) - 1 /\ m \in Nat
<1> DEFINE o == FileAt(pin.sha, pin.path)  block == PinnedLines(pin)  S == Occurs(block, tree.lines)
<1>1. /\ o \in Seq(STRING) /\ pin.first \in Nat \ {0} /\ pin.last \in Nat /\ pin.first <= pin.last
      /\ pin.last <= Len(o) /\ S # {} /\ Len(o) \in Nat /\ tree.lines \in Seq(STRING)
  <2>1. o \in Seq(STRING)
    BY TextsAre
  <2> QED
    BY <2>1 DEF Locatable, PinShapes, SourceType
<1>2. block = SubSeq(o, pin.first, pin.last)
  BY DEF PinnedLines
<1> HIDE DEF o, block
<1>3. block \in Seq(STRING) /\ Len(block) = pin.last - pin.first + 1 /\ Len(block) \in Nat \ {0}
  <2> DEFINE a == pin.first  b == pin.last
  <2>1. a \in Nat \ {0} /\ b \in Nat /\ a <= b /\ b <= Len(o) /\ Len(o) \in Nat /\ block = SubSeq(o, a, b)
    BY <1>1, <1>2
  <2> HIDE DEF a, b
  <2>2. \A i \in 1..b - a + 1 : i + a - 1 \in 1..Len(o)
    BY <2>1
  <2>3. block = [i \in 1..b - a + 1 |-> o[i + a - 1]] /\ b - a + 1 \in Nat \ {0}
    BY <2>1 DEF SubSeq
  <2>4. \A i \in 1..b - a + 1 : o[i + a - 1] \in STRING
    BY <1>1, <2>2
  <2>5. block \in Seq(STRING) /\ Len(block) = b - a + 1
    BY <2>3, <2>4
  <2> QED
    BY <2>3, <2>5 DEF a, b
<1>4. S \in SUBSET Nat
  BY DEF Occurs
<1>5. SpanNow("range", pin) = <<Min(S), Min(S) + pin.last - pin.first>>
  BY DEF SpanNow, RangeSpan, block
<1>6. Min(S) \in S /\ S \subseteq 1..Len(tree.lines)
  <2>1. S \subseteq 1..Len(tree.lines)
    BY DEF Occurs
  <2> HIDE DEF S
  <2> QED
    BY <1>1, <1>4, <2>1, MinIs
<1> HIDE DEF S
<1>7. Min(S) \in Nat \ {0}
  <2>1. Min(S) \in 1..Len(tree.lines)
    BY <1>6
  <2> QED
    BY <2>1
<1>8. Min(S) + pin.last - pin.first = Min(S) + Len(block) - 1 /\ Min(S) + Len(block) - 1 \in Nat
  BY <1>1, <1>3, <1>7
<1> QED
  BY <1>3, <1>5, <1>6, <1>7, <1>8 DEF S, block


\* A range pin that follows its text pins lines in which the text of the old one occurs.
LEMMA RangeFollows ==
  ASSUME SourceType, Clean, NEW pin \in PinShapes, pin.sha \in 1..HEAD, pin.first # 0,
         PathNow(pin) = tree.path, Located("range", pin)
  PROVE  Occurs(PinnedLines(pin), PinnedLines(NewPin("range", pin))) # {}
<1> DEFINE block == PinnedLines(pin)  n == SpanNow("range", pin)[1]  m == SpanNow("range", pin)[2]
           new == NewPin("range", pin)
<1>1. /\ block \in Seq(STRING) /\ Len(block) \in Nat \ {0}
      /\ n \in Occurs(block, tree.lines) /\ m = n + Len(block) - 1
  BY RangeIs DEF Located
<1>2. new.path = tree.path /\ new.sha = HEAD /\ new.first = n /\ new.last = m
  BY DEF NewPin
<1>3. PinnedLines(new) = SubSeq(tree.lines, n, m)
  BY <1>2, CleanIs, Zenon DEF PinnedLines
<1>4. tree.lines \in Seq(STRING)
  BY DEF SourceType
<1> HIDE DEF block, n, m, new
<1>5. block # <<>>
  BY <1>1
<1> QED
  BY <1>1, <1>3, <1>4, <1>5, BlockOccurs DEF block, new

\* Where no line looks like a header of the diff, every changed line has its own position.
LEMMA EachCounted ==
  ASSUME NEW t \in Seq(STRING), NEW kept, NEW sign, \A m \in DOMAIN t : t[m] # sign
  PROVE  \A n \in DOMAIN t \ kept :
           n \in Counted(t, kept \cup Dropped(t, kept, sign), Dropped(t, kept, sign))
<1> DEFINE d == Dropped(t, kept, sign)
<1>1. d = {}
  BY DEF Dropped
<1>2. \A n \in DOMAIN t : n \in Nat /\ n - Cardinality({m \in {} : m < n}) = n
  <2>1. \A n : {m \in {} : m < n} = {}
    OBVIOUS
  <2> QED
    BY <2>1, FS_EmptySet
<1> HIDE DEF d
<1>3. Counted(t, kept \cup d, d) = {n - Cardinality({m \in {} : m < n}) : n \in DOMAIN t \ kept}
  BY <1>1 DEF Counted
<1>4. \A n \in DOMAIN t \ kept : n \in Counted(t, kept \cup d, d)
  <2> SUFFICES ASSUME NEW n \in DOMAIN t \ kept PROVE n \in Counted(t, kept \cup d, d)
    OBVIOUS
  <2>1. n - Cardinality({m \in {} : m < n}) \in Counted(t, kept \cup d, d)
    BY <1>3
  <2> QED
    BY <1>2, <2>1
<1> QED
  BY <1>4 DEF d

\* A symbol that a diff leaves untouched has the lines of its commit.
LEMMA SymbolStands ==
  ASSUME SourceType, Clean, Unsigned, NEW pin \in PinShapes, pin.sha \in 1..HEAD,
         NEW diff \in DiffsOf(pin, tree.path), Declares(tree.lines) # {},
         Declares(FileAt(pin.sha, pin.path)) # {}, ~Touched("symbol", pin, tree.path, diff)
  PROVE  LET old == BodyAt(pin.sha, pin.path)
             new == BodyAt(HEAD, tree.path)
         IN Continues(old, new) \/ Continues(new, old)
<1> DEFINE o == FileAt(pin.sha, pin.path)  t == tree.lines
<1>1. o \in Seq(STRING) /\ t \in Seq(STRING) /\ t = FileAt(HEAD, tree.path)
  <2>1. o \in Seq(STRING) /\ FileAt(HEAD, tree.path) \in Seq(STRING)
    BY TextsAre
  <2> QED
    BY <2>1, CleanIs
<1>2. /\ \A n \in Added(t, diff) : ~Between(n, SymbolSpan(t))
      /\ \A n \in Removed(o, diff) : ~Between(n, SymbolSpan(o))
  BY <1>1 DEF Touched, SpanNow, SpanThen
<1>3. /\ SymbolSpan(t)[1]..SymbolSpan(t)[2] \subseteq DOMAIN t
      /\ SymbolSpan(o)[1]..SymbolSpan(o)[2] \subseteq DOMAIN o
      /\ SymbolSpan(t)[1] \in SymbolSpan(t)[1]..SymbolSpan(t)[2]
  <2>1. /\ SymbolSpan(t)[1] \in 1..Len(t) /\ SymbolSpan(t)[2] \in SymbolSpan(t)[1]..Len(t) /\ Len(t) \in Nat
        /\ SymbolSpan(o)[1] \in 1..Len(o) /\ SymbolSpan(o)[2] \in SymbolSpan(o)[1]..Len(o) /\ Len(o) \in Nat
        /\ DOMAIN t = 1..Len(t) /\ DOMAIN o = 1..Len(o)
    BY <1>1, SpanIs
  <2> HIDE DEF o, t
  <2> QED
    BY <2>1
<1>4. BodyAt(pin.sha, pin.path) = SubSeq(o, SymbolSpan(o)[1], SymbolSpan(o)[2])
      /\ BodyAt(HEAD, tree.path) = SubSeq(t, SymbolSpan(t)[1], SymbolSpan(t)[2])
  BY <1>1 DEF BodyAt
<1>5. Declares(o) # {} /\ Declares(t) # {}
  OBVIOUS
<1>6. diff \in Diffs(o, t) \/ diff = <<{}, {}>>
  <2>1. diff \in Diffs(o, FileAt(HEAD, tree.path)) \cup (IF tree.path = pin.path THEN {} ELSE {<<{}, {}>>})
    BY DEF DiffsOf
  <2> QED
    BY <1>1, <2>1
<1>7. \A m \in DOMAIN o : o[m] # "--"
  <2>0. \A n \in DOMAIN commits : \A m \in DOMAIN commits[n].lines : commits[n].lines[m] # "--"
    BY DEF Unsigned
  <2>1. CASE commits[pin.sha].path = pin.path
    <3>1. o = commits[pin.sha].lines
      BY <2>1 DEF FileAt
    <3>2. pin.sha \in DOMAIN commits
      BY TextsAre
    <3> HIDE DEF o
    <3> QED
      BY <2>0, <3>1, <3>2
  <2>2. CASE commits[pin.sha].path # pin.path
    <3>1. o = <<>>
      BY <2>2 DEF FileAt
    <3> QED
      BY <3>1
  <2> QED
    BY <2>1, <2>2
<1>7a. \A m \in DOMAIN t : t[m] # "++"
  <2>0. \A n \in DOMAIN commits : \A m \in DOMAIN commits[n].lines : commits[n].lines[m] # "++"
    BY DEF Unsigned
  <2>1. HEAD \in DOMAIN commits
    BY TextsAre
  <2>2. t = commits[HEAD].lines
    BY DEF Clean
  <2> HIDE DEF t
  <2> QED
    BY <2>0, <2>1, <2>2
<1> HIDE DEF o, t
<1>8. diff # <<{}, {}>>
  <2> SUFFICES ASSUME diff = <<{}, {}>> PROVE FALSE
    OBVIOUS
  <2>1. \A n \in DOMAIN t \ {} : n \in Counted(t, {} \cup Dropped(t, {}, "++"), Dropped(t, {}, "++"))
    BY <1>1, <1>7a, EachCounted, Zenon
  <2>2. \A n \in DOMAIN t : n \in Added(t, diff)
    BY <2>1 DEF Added
  <2>3. Between(SymbolSpan(t)[1], SymbolSpan(t))
    BY <1>3 DEF Between
  <2> QED
    BY <1>2, <1>3, <2>2, <2>3
<1>9. PICK S \in SUBSET DOMAIN o, T \in SUBSET DOMAIN t : diff = <<S, T>> /\ Kept(o, S) = Kept(t, T)
  <2> DEFINE common == {k \in Parts(o) \X Parts(t) : k[1][2] = k[2][2]}
  <2>1. PICK l \in common : diff = <<l[1][1], l[2][1]>>
    BY <1>6, <1>8 DEF Diffs
  <2>2. PICK S \in SUBSET DOMAIN o : l[1] = <<S, Kept(o, S)>>
    BY DEF Parts
  <2>3. PICK T \in SUBSET DOMAIN t : l[2] = <<T, Kept(t, T)>>
    BY DEF Parts
  <2>4. l[1][2] = l[2][2]
    BY <2>1
  <2> QED
    BY <2>1, <2>2, <2>3, <2>4
<1>10. SymbolSpan(t)[1]..SymbolSpan(t)[2] \subseteq T
  <2>1. \A n \in DOMAIN t \ T : n \in Counted(t, T \cup Dropped(t, T, "++"), Dropped(t, T, "++"))
    BY <1>1, <1>7, <1>7a, EachCounted, Zenon
  <2>2. \A n \in DOMAIN t \ T : n \in Added(t, diff)
    BY <1>9, <2>1 DEF Added
  <2>3. \A n \in SymbolSpan(t)[1]..SymbolSpan(t)[2] : Between(n, SymbolSpan(t))
    BY DEF Between
  <2> QED
    BY <1>2, <1>3, <2>2, <2>3
<1>11. SymbolSpan(o)[1]..SymbolSpan(o)[2] \subseteq S
  <2>1. \A n \in DOMAIN o \ S : n \in Counted(o, S \cup Dropped(o, S, "--"), Dropped(o, S, "--"))
    BY <1>1, <1>7, <1>7a, EachCounted, Zenon
  <2>2. \A n \in DOMAIN o \ S : n \in Removed(o, diff)
    BY <1>9, <2>1 DEF Removed
  <2>3. \A n \in SymbolSpan(o)[1]..SymbolSpan(o)[2] : Between(n, SymbolSpan(o))
    BY DEF Between
  <2> QED
    BY <1>2, <1>3, <2>2, <2>3
<1> QED
  BY <1>1, <1>4, <1>5, <1>9, <1>10, <1>11, BodiesContinue, Zenon

\* What the last lint said is what lint says of those pins in this history and this
\* tree, and the range pin is what it was or follows its text.
Holds(r) ==
  /\ PinsType(r.of)
  /\ \E diff \in DiffsOf(r.of["symbol"], PathNow(r.of["symbol"])) :
       r.said["symbol"] = Said("symbol", r.of["symbol"], diff)
  /\ \E diff : r.said["file"] = Said("file", r.of["file"], diff)
  /\ pins["range"] # r.of["range"] =>
       /\ \E diff : Said("range", r.of["range"], diff) \cap {"rename", "shift"} # {}
       /\ pins["range"] = NewPin("range", r.of["range"])

PinInv ==
  /\ commits # <<>> => SourceType
  /\ report # {} => commits # <<>>
  /\ \A r \in report : Holds(r)

\* It is what the property asks for.
LEMMA InvIsHonest ==
  ASSUME PinInv
  PROVE  LintIsHonest
<1> SUFFICES ASSUME NEW r \in report, Clean
             PROVE
    LET said == r.said  was == r.of IN
    /\ pins["range"] # was["range"] => Occurs(PinnedLines(was["range"]), PinnedLines(pins["range"])) # {}
    /\ said["file"] = {} => FileAt(HEAD, was["file"].path) = FileAt(was["file"].sha, was["file"].path)
    /\ said["symbol"] \in {{}, {"rename"}} /\ Unsigned
         /\ Declares(FileAt(was["symbol"].sha, was["symbol"].path)) # {} =>
         LET old == BodyAt(was["symbol"].sha, was["symbol"].path)
             new == BodyAt(HEAD, tree.path)
         IN Continues(old, new) \/ Continues(new, old)
  BY DEF LintIsHonest
<1> DEFINE was == r.of
<1>1. SourceType /\ Holds(r)
  BY DEF PinInv
<1>2. /\ was["range"] \in PinShapes /\ was["range"].sha \in 1..HEAD /\ was["range"].first # 0
      /\ was["file"] \in PinShapes /\ was["file"].sha \in 1..HEAD
      /\ was["symbol"] \in PinShapes /\ was["symbol"].sha \in 1..HEAD
  BY <1>1 DEF Holds, PinsType, Kinds
<1> HIDE DEF was
<1>3. ASSUME pins["range"] # was["range"]
      PROVE  Occurs(PinnedLines(was["range"]), PinnedLines(pins["range"])) # {}
  <2>1. PICK diff : Said("range", was["range"], diff) \cap {"rename", "shift"} # {}
    BY <1>1, <1>3 DEF Holds, was
  <2>2. pins["range"] = NewPin("range", was["range"])
    BY <1>1, <1>3 DEF Holds, was
  <2>3. PathNow(was["range"]) = tree.path /\ Located("range", was["range"])
    BY <2>1, SaidMoved
  <2> QED
    BY <1>1, <1>2, <2>2, <2>3, RangeFollows
<1>4. ASSUME r.said["file"] = {}
      PROVE  FileAt(HEAD, was["file"].path) = FileAt(was["file"].sha, was["file"].path)
  <2>1. PICK diff : Said("file", was["file"], diff) = {}
    BY <1>1, <1>4 DEF Holds, was
  <2>2. CommitsSince(was["file"].sha, was["file"].path) = {}
    BY <2>1, SaidNothing
  <2> QED
    BY <1>1, <1>2, <2>2, UntouchedFile
<1>5. ASSUME r.said["symbol"] \in {{}, {"rename"}}, Unsigned,
             Declares(FileAt(was["symbol"].sha, was["symbol"].path)) # {}
      PROVE  LET old == BodyAt(was["symbol"].sha, was["symbol"].path)
                 new == BodyAt(HEAD, tree.path)
             IN Continues(old, new) \/ Continues(new, old)
  <2>1. PICK diff \in DiffsOf(was["symbol"], PathNow(was["symbol"])) :
          r.said["symbol"] = Said("symbol", was["symbol"], diff)
    BY <1>1 DEF Holds, was
  <2>2. /\ PathNow(was["symbol"]) = tree.path /\ Located("symbol", was["symbol"])
        /\ ~Touched("symbol", was["symbol"], tree.path, diff)
    BY <1>5, <2>1, SaidUntouched
  <2>3. diff \in DiffsOf(was["symbol"], tree.path) /\ Declares(tree.lines) # {}
    BY <2>1, <2>2 DEF Located
  <2> QED
    BY <1>1, <1>2, <1>5, <2>2, <2>3, SymbolStands, Zenon
<1> QED
  BY <1>3, <1>4, <1>5, Zenon DEF was


-----------------------------------------------------------------------------
(* Every step                                                              *)

\* Lint answers the same while neither the history nor the working tree changes.
LEMMA SameAnswers ==
  ASSUME UNCHANGED <<commits, tree>>
  PROVE  /\ HEAD' = HEAD
         /\ \A pin : DiffsOf(pin, PathNow(pin))' = DiffsOf(pin, PathNow(pin))
         /\ \A k, pin, diff : Said(k, pin, diff)' = Said(k, pin, diff)
         /\ \A k, pin : NewPin(k, pin)' = NewPin(k, pin)
<1>0. HEAD' = HEAD
  BY DEF HEAD
<1>1. \A n, p : FileAt(n, p)' = FileAt(n, p)
  BY DEF FileAt
<1>2. \A n, p : CommitsSince(n, p)' = CommitsSince(n, p)
  BY <1>0, <1>1 DEF CommitsSince
<1>3. \A pin : RenameTarget(pin)' = RenameTarget(pin)
  <2>1. \A pin : Walked(pin)' = Walked(pin)
    BY <1>0, Zenon DEF Walked
  <2> QED
    BY <2>1 DEF RenameTarget
<1>4. \A pin : PathNow(pin)' = PathNow(pin)
  BY <1>3 DEF PathNow
<1>5. \A pin, p : DiffsOf(pin, p)' = DiffsOf(pin, p)
  BY <1>0, <1>1 DEF DiffsOf
<1>6. \A pin : PinnedLines(pin)' = PinnedLines(pin)
  BY <1>1 DEF PinnedLines
<1>7. \A pin : (Locatable(pin)' <=> Locatable(pin)) /\ RangeSpan(pin)' = RangeSpan(pin)
  BY <1>1, <1>6 DEF Locatable, RangeSpan
<1>8. \A k, pin : Located(k, pin)' <=> Located(k, pin)
  BY <1>7, Zenon DEF Located
<1>9. \A k, pin : SpanNow(k, pin)' = SpanNow(k, pin)
  BY <1>7 DEF SpanNow
<1>10. \A k, pin : SpanThen(k, pin)' = SpanThen(k, pin) /\ (Shifted(k, pin)' <=> Shifted(k, pin))
  BY <1>1, <1>9 DEF SpanThen, Shifted
<1>11. \A k, pin, p, diff : Touched(k, pin, p, diff)' <=> Touched(k, pin, p, diff)
  BY <1>0, <1>1, <1>9, <1>10 DEF Touched
<1>12. \A k, pin, diff : Said(k, pin, diff)' = Said(k, pin, diff)
  <2> SUFFICES ASSUME NEW k, NEW pin, NEW diff PROVE Said(k, pin, diff)' = Said(k, pin, diff)
    OBVIOUS
  <2>1. PathNow(pin)' = PathNow(pin)
    BY <1>4
  <2>2. (Located(k, pin)' <=> Located(k, pin)) /\ (Shifted(k, pin)' <=> Shifted(k, pin))
    BY <1>8, <1>10
  <2>3. CommitsSince(pin.sha, pin.path)' = CommitsSince(pin.sha, pin.path)
    BY <1>2
  <2>4. Touched(k, pin, PathNow(pin), diff)' <=> Touched(k, pin, PathNow(pin), diff)
    BY <1>0, <1>1, <1>9, <1>10, <2>1 DEF Touched
  <2> QED
    BY <2>1, <2>2, <2>3, <2>4 DEF Said
<1>13. \A k, pin : NewPin(k, pin)' = NewPin(k, pin)
  BY <1>0, <1>4, <1>9 DEF NewPin
<1>14. \A pin : DiffsOf(pin, PathNow(pin))' = DiffsOf(pin, PathNow(pin))
  <2> SUFFICES ASSUME NEW pin PROVE DiffsOf(pin, PathNow(pin))' = DiffsOf(pin, PathNow(pin))
    OBVIOUS
  <2>1. PathNow(pin)' = PathNow(pin)
    BY <1>4
  <2>2. \A p : DiffsOf(pin, p)' = DiffsOf(pin, p)
    BY <1>5
  <2> QED
    BY <1>0, <1>1, <2>1 DEF DiffsOf
<1> QED
  BY <1>0, <1>12, <1>13, <1>14

\* The refresh of a page, and its first writing.
LEMMA PinsOnType ==
  ASSUME commits \in Seq(Commits), commits # <<>>, NEW n \in 1..HEAD, NEW ps \in PinsOn(n)
  PROVE  PinsType(ps)
<1>1. n \in Nat /\ commits[n] \in Commits
  BY DEF HEAD
<1> DEFINE L == Len(commits[n].lines)
<1>2. L \in Nat /\ commits[n].path \in Paths
  <2>1. commits[n].lines \in Seq(STRING) /\ commits[n].path \in Paths
    BY <1>1 DEF Commits
  <2> QED
    BY <2>1
<1>3. PICK span \in (1..L) \X (1..L) :
        ps = [k \in Kinds |-> [path |-> commits[n].path, sha |-> n,
                               first |-> IF k = "range" THEN span[1] ELSE 0,
                               last |-> IF k = "range" THEN span[2] ELSE 0]]
  BY DEF PinsOn
<1>4. span[1] \in Nat \ {0} /\ span[2] \in Nat
  BY <1>2
<1> QED
  BY <1>1, <1>2, <1>3, <1>4 DEF PinsType, PinShapes, Kinds

\* A pin that moves to where it was found.
LEMMA NewPinType ==
  ASSUME SourceType, NEW k \in Kinds, NEW pin \in PinShapes, pin.sha \in 1..HEAD, k = "range" => pin.first # 0,
         PathNow(pin) = tree.path, Located(k, pin)
  PROVE  /\ NewPin(k, pin) \in PinShapes /\ NewPin(k, pin).sha \in 1..HEAD
         /\ k = "range" => NewPin(k, pin).first # 0
<1> DEFINE f == IF k = "range" THEN SpanNow(k, pin)[1] ELSE 0  l == IF k = "range" THEN SpanNow(k, pin)[2] ELSE 0
<1>1. f \in Nat /\ l \in Nat /\ (k = "range" => f # 0)
  <2>1. CASE k = "range"
    <3>1. Locatable(pin)
      BY <2>1 DEF Located
    <3>2. SpanNow("range", pin)[1] \in Nat \ {0} /\ SpanNow("range", pin)[2] \in Nat
      BY <2>1, <3>1, RangeIs
    <3> QED
      BY <2>1, <3>2
  <2>2. CASE k # "range"
    BY <2>2
  <2> QED
    BY <2>1, <2>2
<1>2. NewPin(k, pin) = [path |-> tree.path, sha |-> HEAD, first |-> f, last |-> l]
  BY DEF NewPin
<1>3. HEAD \in Nat \ {0} /\ tree.path \in Paths
  BY TextsAre DEF SourceType
<1> HIDE DEF f, l
<1> QED
  BY <1>1, <1>2, <1>3 DEF PinShapes

\* A lint, with --update-pins or without.
LEMMA LintNext ==
  ASSUME SourceType, NEW update \in BOOLEAN, Lint(update)
  PROVE  SourceType' /\ (\A r \in report' : Holds(r)')
<1>0. PICK diff \in DiffsOf(pins["symbol"], PathNow(pins["symbol"])) :
        \E other :
          LET said == [k \in Kinds |-> Said(k, pins[k], IF k = "symbol" THEN diff ELSE other)]
          IN /\ report' = {[said |-> said, of |-> pins]}
             /\ pins' = [k \in Kinds |->
                  IF update /\ said[k] \cap {"rename", "shift"} # {} THEN NewPin(k, pins[k]) ELSE pins[k]]
  BY Zenon DEF Lint
<1>1. PICK other :
         LET said == [k \in Kinds |-> Said(k, pins[k], IF k = "symbol" THEN diff ELSE other)]
         IN /\ report' = {[said |-> said, of |-> pins]}
            /\ pins' = [k \in Kinds |->
                 IF update /\ said[k] \cap {"rename", "shift"} # {} THEN NewPin(k, pins[k]) ELSE pins[k]]
  BY <1>0
<1> DEFINE said == [k \in Kinds |-> Said(k, pins[k], IF k = "symbol" THEN diff ELSE other)]
<1>2. UNCHANGED <<commits, tree>>
  BY Zenon DEF Lint
<1>3. /\ report' = {[said |-> said, of |-> pins]}
      /\ pins' = [k \in Kinds |->
           IF update /\ said[k] \cap {"rename", "shift"} # {} THEN NewPin(k, pins[k]) ELSE pins[k]]
  BY <1>1
<1>4. \A k \in Kinds : said[k] = Said(k, pins[k], IF k = "symbol" THEN diff ELSE other)
  OBVIOUS
<1> HIDE DEF said
<1>5. \A k \in Kinds : pins[k] \in PinShapes /\ pins[k].sha \in 1..HEAD /\ (k = "range" => pins[k].first # 0)
  BY DEF SourceType, PinsType
<1>6. \A k \in Kinds : \/ pins'[k] = pins[k]
                       \/ pins'[k] = NewPin(k, pins[k]) /\ said[k] \cap {"rename", "shift"} # {}
  BY <1>3
<1>7. \A k \in Kinds : pins'[k] \in PinShapes /\ pins'[k].sha \in 1..HEAD /\ (k = "range" => pins'[k].first # 0)
  <2> SUFFICES ASSUME NEW k \in Kinds, pins'[k] = NewPin(k, pins[k]), said[k] \cap {"rename", "shift"} # {}
               PROVE  pins'[k] \in PinShapes /\ pins'[k].sha \in 1..HEAD /\ (k = "range" => pins'[k].first # 0)
    BY <1>5, <1>6
  <2> DEFINE d == IF k = "symbol" THEN diff ELSE other
  <2>1. Said(k, pins[k], d) \cap {"rename", "shift"} # {}
    BY <1>4
  <2> HIDE DEF d
  <2>2. PathNow(pins[k]) = tree.path /\ Located(k, pins[k])
    BY <2>1, SaidMoved
  <2> QED
    BY <1>5, <2>2, NewPinType
<1>8. SourceType'
  <2>1. HEAD' = HEAD
    BY <1>2 DEF HEAD
  <2>2. pins' \in [Kinds -> PinShapes] /\ "range" \in Kinds
    <3>1. pins' = [k \in Kinds |-> pins'[k]]
      BY <1>3
    <3> QED
      BY <1>7, <3>1 DEF Kinds
  <2>3. PinsType(pins)'
    BY <1>7, <2>1, <2>2 DEF PinsType
  <2> QED
    BY <1>2, <2>3 DEF SourceType
<1>9. ASSUME NEW r \in report'
      PROVE  Holds(r)'
  <2>1. r = [said |-> said, of |-> pins]
    BY <1>3
  <2>2. r.said = said /\ r.of = pins
    BY <2>1
  <2>3. "symbol" \in Kinds /\ "file" \in Kinds /\ "range" \in Kinds
    BY DEF Kinds
  <2>4. /\ said["symbol"] = Said("symbol", pins["symbol"], diff)
        /\ said["file"] = Said("file", pins["file"], other)
        /\ said["range"] = Said("range", pins["range"], other)
    BY <1>4, <2>3
  <2>5. HEAD' = HEAD /\ PinsType(pins)
    BY <1>2 DEF HEAD, SourceType
  <2>6. /\ DiffsOf(pins["symbol"], PathNow(pins["symbol"])) = DiffsOf(r.of["symbol"], PathNow(r.of["symbol"]))'
        /\ \A k, d : Said(k, r.of[k], d)' = Said(k, pins[k], d)
        /\ NewPin("range", r.of["range"])' = NewPin("range", pins["range"])
    BY <1>2, <2>2, SameAnswers
  <2>7. pins'["range"] # pins["range"] =>
          /\ Said("range", pins["range"], other) \cap {"rename", "shift"} # {}
          /\ pins'["range"] = NewPin("range", pins["range"])
    BY <1>6, <2>3, <2>4
  <2> HIDE DEF said
  <2>8. PinsType(r.of)'
    BY <2>2, <2>5 DEF PinsType
  <2>9. /\ \E d \in DiffsOf(r.of["symbol"], PathNow(r.of["symbol"]))' :
             r.said["symbol"] = Said("symbol", r.of["symbol"], d)'
        /\ \E d : r.said["file"] = Said("file", r.of["file"], d)'
    BY <1>0, <2>2, <2>4, <2>6
  <2>10. pins'["range"] # r.of["range"] =>
           /\ \E d : Said("range", r.of["range"], d)' \cap {"rename", "shift"} # {}
           /\ pins'["range"] = NewPin("range", r.of["range"])'
    BY <2>2, <2>6, <2>7
  <2> QED
    BY <2>8, <2>9, <2>10 DEF Holds
<1> QED
  BY <1>8, <1>9


\* What an edit and a commit put together.
LEMMA PutTogether ==
  ASSUME NEW T, NEW s \in Seq(T), NEW x \in T
  PROVE  /\ <<x>> \in Seq(T)
         /\ \A n \in DOMAIN s : [s EXCEPT ![n] = x] \in Seq(T)
         /\ Append(s, x) \in Seq(T) /\ Append(s, x) # <<>> /\ Len(Append(s, x)) = Len(s) + 1
<1>1. <<x>> \in Seq(T)
  OBVIOUS
<1>2. \A n \in DOMAIN s : [s EXCEPT ![n] = x] \in Seq(T)
  OBVIOUS
<1>3. Append(s, x) \in Seq(T) /\ Len(Append(s, x)) = Len(s) + 1
  OBVIOUS
<1>4. Append(s, x) # <<>>
  <2>1. Len(s) \in Nat
    OBVIOUS
  <2>2. Len(Append(s, x)) # 0
    BY <1>3, <2>1
  <2>3. Len(<<>>) = 0
    OBVIOUS
  <2> QED
    BY <2>2, <2>3, Zenon
<1> QED
  BY <1>1, <1>2, <1>3, <1>4

\* The part of a text between two places is a text.
LEMMA PartIs ==
  ASSUME NEW t \in Seq(STRING), NEW a \in Nat \ {0}, NEW b \in Nat, b <= Len(t)
  PROVE  SubSeq(t, a, b) \in Seq(STRING)
<1>1. SubSeq(t, a, b) = [i \in 1..b - a + 1 |-> t[i + a - 1]]
  BY DEF SubSeq
<1>2. CASE a <= b
  <2>1. \A i \in 1..b - a + 1 : i + a - 1 \in 1..Len(t)
    BY <1>2
  <2>2. \A i \in 1..b - a + 1 : t[i + a - 1] \in STRING
    BY <2>1
  <2>3. b - a + 1 \in Nat
    BY <1>2
  <2> QED
    BY <1>1, <2>2, <2>3
<1>3. CASE ~(a <= b)
  <2>1. 1..b - a + 1 = 1..0
    BY <1>3
  <2>2. SubSeq(t, a, b) = [i \in 1..0 |-> t[i + a - 1]]
    BY <1>1, <2>1
  <2> QED
    BY <2>2
<1> QED
  BY <1>2, <1>3

\* A step that keeps the history and the pins, and leaves a file in the tree.
LEMMA TreeChanges ==
  ASSUME SourceType, UNCHANGED <<commits, pins>>, tree' \in [path : Paths, lines : Seq(STRING)]
  PROVE  SourceType'
<1>1. HEAD' = HEAD
  BY DEF HEAD
<1>2. PinsType(pins)'
  BY <1>1 DEF PinsType, SourceType
<1> QED
  BY <1>2 DEF SourceType

\* An edit of the source file.
LEMMA EditNext ==
  ASSUME SourceType, EditSource
  PROVE  SourceType' /\ report' = {}
<1> DEFINE t == tree.lines
<1>1. t \in Seq(STRING) /\ tree \in [path : Paths, lines : Seq(STRING)] /\ Len(t) \in Nat
  BY DEF SourceType
<1>2. PICK n \in 1..Len(t) + 1, l \in SourceLines :
        \/ tree' = [tree EXCEPT !.lines = SubSeq(t, 1, n - 1) \o <<l>> \o SubSeq(t, n, Len(t))]
        \/ tree' = [tree EXCEPT !.lines = SubSeq(t, 1, n - 1) \o SubSeq(t, n + 1, Len(t))]
        \/ n \in DOMAIN t /\ tree' = [tree EXCEPT !.lines[n] = l]
  BY DEF EditSource
<1>3. n \in Nat \ {0} /\ n - 1 \in Nat /\ n - 1 <= Len(t) /\ n + 1 \in Nat \ {0} /\ l \in STRING
  <2>1. SourceLines \subseteq STRING
    BY OriginsAreHistories
  <2> HIDE DEF t
  <2> QED
    BY <1>1, <2>1
<1>4. /\ SubSeq(t, 1, n - 1) \in Seq(STRING) /\ SubSeq(t, n, Len(t)) \in Seq(STRING)
      /\ SubSeq(t, n + 1, Len(t)) \in Seq(STRING) /\ <<l>> \in Seq(STRING)
  <2> HIDE DEF t
  <2>1. /\ SubSeq(t, 1, n - 1) \in Seq(STRING) /\ SubSeq(t, n, Len(t)) \in Seq(STRING)
        /\ SubSeq(t, n + 1, Len(t)) \in Seq(STRING)
    BY <1>1, <1>3, PartIs
  <2>2. <<l>> \in Seq(STRING)
    BY <1>1, <1>3, PutTogether, Zenon
  <2> QED
    BY <2>1, <2>2
<1>5. tree' \in [path : Paths, lines : Seq(STRING)]
  <2>1. CASE tree' = [tree EXCEPT !.lines = SubSeq(t, 1, n - 1) \o <<l>> \o SubSeq(t, n, Len(t))]
    <3>1. SubSeq(t, 1, n - 1) \o <<l>> \o SubSeq(t, n, Len(t)) \in Seq(STRING)
      BY <1>4
    <3> QED
      BY <1>1, <2>1, <3>1
  <2>2. CASE tree' = [tree EXCEPT !.lines = SubSeq(t, 1, n - 1) \o SubSeq(t, n + 1, Len(t))]
    <3>1. SubSeq(t, 1, n - 1) \o SubSeq(t, n + 1, Len(t)) \in Seq(STRING)
      BY <1>4
    <3> QED
      BY <1>1, <2>2, <3>1
  <2>3. CASE n \in DOMAIN t /\ tree' = [tree EXCEPT !.lines[n] = l]
    <3>1. [t EXCEPT ![n] = l] \in Seq(STRING)
      BY <1>1, <1>3, <2>3, PutTogether, Zenon
    <3>2. tree' = [tree EXCEPT !.lines = [t EXCEPT ![n] = l]]
      BY <2>3
    <3> QED
      BY <1>1, <3>1, <3>2
  <2> QED
    BY <1>2, <2>1, <2>2, <2>3
<1> QED
  BY <1>5, TreeChanges DEF EditSource, Changes

\* A move of the source file.
LEMMA MoveNext ==
  ASSUME SourceType, MoveSource
  PROVE  SourceType' /\ report' = {}
<1>1. PICK p \in Paths : tree' = [tree EXCEPT !.path = p]
  BY DEF MoveSource
<1>2. tree' \in [path : Paths, lines : Seq(STRING)]
  BY <1>1 DEF SourceType
<1> QED
  BY <1>2, TreeChanges DEF MoveSource, Changes

\* A commit.
LEMMA CommitNext ==
  ASSUME SourceType, CommitSource
  PROVE  SourceType' /\ report' = {}
<1>1. HEAD \in Nat \ {0} /\ commits[HEAD] \in Commits
  BY TextsAre
<1>2. PICK c \in Commits : commits' = Append(commits, c)
  <2>1. PICK from \in Paths \cup {""} :
          commits' = Append(commits, [path |-> tree.path, lines |-> tree.lines, from |-> from])
    BY <1>1 DEF CommitSource, Commits
  <2>2. [path |-> tree.path, lines |-> tree.lines, from |-> from] \in Commits
    BY DEF SourceType, Commits
  <2> QED
    BY <2>1, <2>2
<1>4. commits' \in Seq(Commits) /\ commits' # <<>> /\ Len(commits') = Len(commits) + 1
  <2>1. commits \in Seq(Commits)
    BY DEF SourceType
  <2> QED
    BY <1>2, <2>1, PutTogether, Zenon
<1>5. HEAD' = HEAD + 1
  BY <1>4 DEF HEAD
<1>6. UNCHANGED <<tree, pins>> /\ report' = {}
  BY DEF CommitSource
<1>7. PinsType(pins)'
  <2>1. PinsType(pins) /\ 1..HEAD \subseteq 1..HEAD'
    <3>1. \A h \in Nat : 1..h \subseteq 1..h + 1
      OBVIOUS
    <3> QED
      BY <1>1, <1>5, <3>1 DEF SourceType
  <2>2. \A k \in Kinds : pins[k].sha \in 1..HEAD'
    BY <2>1 DEF PinsType
  <2> QED
    BY <1>6, <2>1, <2>2 DEF PinsType
<1> QED
  BY <1>4, <1>6, <1>7 DEF SourceType

\* The refresh of a page.
LEMMA RefreshNext ==
  ASSUME SourceType, Refresh
  PROVE  SourceType' /\ report' = {}
<1>1. UNCHANGED <<commits, tree>> /\ report' = {} /\ pins' \in PinsOn(HEAD)
  BY DEF Refresh
<1>2. HEAD \in 1..HEAD
  BY TextsAre
<1>3. PinsType(pins')
  BY <1>1, <1>2, PinsOnType DEF SourceType
<1>4. HEAD' = HEAD
  BY <1>1 DEF HEAD
<1>5. PinsType(pins)'
  BY <1>3, <1>4 DEF PinsType
<1> QED
  BY <1>1, <1>5 DEF SourceType

\* A project begins with texts to promote, or with a page that pins a file at its first commit.
LEMMA PinsBegin ==
  ASSUME (Init /\ NoPins) \/ (PinInit /\ NoTexts)
  PROVE  PinInv
<1>1. CASE NoPins
  BY <1>1 DEF NoPins, PinInv
<1>2. CASE PinInit
  <2>1. commits \in Seq(Commits) /\ commits # <<>>
    BY <1>2, OriginsAreHistories DEF PinInit, Commits
  <2>2. HEAD \in Nat \ {0} /\ commits[HEAD] \in Commits /\ 1 \in 1..HEAD
    BY <2>1 DEF HEAD
  <2>3. tree \in [path : Paths, lines : Seq(STRING)]
    BY <1>2, <2>2 DEF PinInit, Commits
  <2>4. PinsType(pins)
    BY <1>2, <2>1, <2>2, PinsOnType DEF PinInit
  <2> QED
    BY <1>2, <2>1, <2>3, <2>4 DEF PinInv, SourceType, PinInit
<1> QED
  BY <1>1, <1>2

\* A step that leaves the pins, their history and the report alone.
LEMMA PinsStay ==
  ASSUME PinInv, UNCHANGED pinVars
  PROVE  PinInv'
<1>1. UNCHANGED <<commits, tree>> /\ pins' = pins /\ report' = report
  BY DEF pinVars
<1>2. SourceType => SourceType'
  BY <1>1, TreeChanges DEF SourceType
<1>3. ASSUME NEW r \in report
      PROVE  Holds(r)'
  <2>1. /\ HEAD' = HEAD
        /\ DiffsOf(r.of["symbol"], PathNow(r.of["symbol"]))' = DiffsOf(r.of["symbol"], PathNow(r.of["symbol"]))
        /\ \A k, d : Said(k, r.of[k], d)' = Said(k, r.of[k], d)
        /\ NewPin("range", r.of["range"])' = NewPin("range", r.of["range"])
    BY <1>1, SameAnswers
  <2>2. Holds(r)
    BY DEF PinInv
  <2>3. PinsType(r.of)'
    BY <2>1, <2>2 DEF Holds, PinsType
  <2> QED
    BY <1>1, <2>1, <2>2, <2>3 DEF Holds
<1> QED
  BY <1>1, <1>2, <1>3 DEF PinInv

\* Every step of the pages.
LEMMA PinsNext ==
  ASSUME PinInv, [Promotes \/ Lints]_<<vars, pinVars>>
  PROVE  PinInv'
<1>1. CASE UNCHANGED pinVars
  BY <1>1, PinsStay
<1>2. CASE Lints
  <2>1. SourceType /\ PinNext
    BY <1>2 DEF Lints, PinInv
  <2>2. SourceType' /\ \A r \in report' : Holds(r)'
    <3>1. CASE EditSource \/ MoveSource \/ CommitSource \/ Refresh
      <4>1. SourceType' /\ report' = {}
        BY <2>1, <3>1, EditNext, MoveNext, CommitNext, RefreshNext
      <4> QED
        BY <4>1
    <3>2. CASE \E update \in BOOLEAN : Lint(update)
      BY <2>1, <3>2, LintNext
    <3> QED
      BY <2>1, <3>1, <3>2 DEF PinNext
  <2>3. commits' # <<>>
    BY <2>2 DEF SourceType
  <2> QED
    BY <2>2, <2>3 DEF PinInv
<1> QED
  BY <1>1, <1>2 DEF Promotes

\* What lint says of a committed file can be relied on, in whatever order people
\* edit, move and commit the file, refresh the page and run lint with --update-pins
\* or without, and whichever of its longest diffs Git shows.
THEOREM LintStands == PagesSpec => []LintIsHonest
<1>1. PagesSpec => []PinInv
  <2>1. (Init /\ NoPins) \/ (PinInit /\ NoTexts) => PinInv
    BY PinsBegin
  <2>2. PinInv /\ [Promotes \/ Lints]_<<vars, pinVars>> => PinInv'
    BY PinsNext
  <2> QED
    BY <2>1, <2>2, PTL DEF PagesSpec
<1>2. PinInv => LintIsHonest
  BY InvIsHonest
<1> QED
  BY <1>1, <1>2, PTL

-----------------------------------------------------------------------------
(* The scan of a fragment                                                  *)

\* The scan before the first line.
ScanFrom == [at |-> "seek", records |-> <<>>]

\* The states of a scan after each line: the lines up to the k-th are passed over.
Scans(t, k, f) ==
  /\ f[0] = ScanFrom
  /\ \A n \in 1..Len(t) : f[n] = IF n <= k THEN f[n - 1] ELSE ScanStep(f[n - 1], t[n], n)

\* The recursion of Scan has a value.
LEMMA ScanBy ==
  ASSUME NEW t, NEW k, Len(t) \in Nat
  PROVE  \E f : Scans(t, k, f) /\ Scan(t, k) = f[Len(t)]
<1> DEFINE Of(f, n) == IF n = 0 THEN ScanFrom ELSE IF n <= k THEN f[n - 1] ELSE ScanStep(f[n - 1], t[n], n)
           Is(m, f) == f = [n \in 0..m |-> Of(f, n)]
           Bad == {m \in Nat : \A f : ~Is(m, f)}
<1>1. Bad = {}
  <2> SUFFICES ASSUME Bad # {} PROVE FALSE
    OBVIOUS
  <2>1. PICK m \in Bad : \A j \in Bad : m <= j
    BY LeastOf
  <2>2. m # 0
    <3>1. Is(0, [n \in 0..0 |-> ScanFrom])
      OBVIOUS
    <3> QED
      BY <2>1, <3>1
  <2>3. m - 1 \in Nat /\ m - 1 \notin Bad
    <3>1. m \in Nat
      BY <2>1
    <3> HIDE DEF Bad
    <3> QED
      BY <2>1, <2>2, <3>1
  <2>4. PICK f : Is(m - 1, f)
    BY <2>3
  <2> DEFINE g == [n \in 0..m |-> IF n = m THEN Of(f, m) ELSE f[n]]
  <2>5. \A n \in 0..m : Of(g, n) = Of(f, n)
    <3> SUFFICES ASSUME NEW n \in 0..m, n # 0 PROVE g[n - 1] = f[n - 1]
      BY DEF Of
    <3>1. n - 1 \in 0..m /\ n - 1 # m
      BY <2>1
    <3> HIDE DEF Of
    <3> QED
      BY <3>1
  <2>6. Is(m, g)
    <3> HIDE DEF Of
    <3>1. \A n \in 0..m - 1 : f[n] = Of(f, n)
      BY <2>4
    <3>2. \A n \in 0..m : g[n] = Of(f, n)
      BY <2>1, <3>1
    <3>3. g = [n \in 0..m |-> g[n]]
      OBVIOUS
    <3> HIDE DEF g
    <3> QED
      BY <2>5, <3>2, <3>3
  <2> QED
    BY <2>1, <2>6
<1>2. \E f : Is(Len(t), f)
  BY <1>1
<1> DEFINE f == CHOOSE f : Is(Len(t), f)
<1>3. Scan(t, k) = f[Len(t)]
  BY Zenon DEF Scan, Through, ScanFrom
<1>4. Is(Len(t), f)
  BY <1>2, Zenon
<1> HIDE DEF f
<1>5. Scans(t, k, f)
  <2>1. \A n \in 0..Len(t) : f[n] = Of(f, n)
    <3> HIDE DEF Of
    <3> QED
      BY <1>4
  <2>2. 0 \in 0..Len(t) /\ \A n \in 1..Len(t) : n \in 0..Len(t) /\ n # 0
    OBVIOUS
  <2> QED
    BY <2>1, <2>2 DEF Scans
<1> QED
  BY <1>3, <1>5

\* Nothing is written there.
Nil == ""
Blank(v) == v = Nil

\* Strings; no prover knows of a literal that it is one.
Names == STRING \cup {Nil, "consolidated"}
TextLines == [is : STRING \cup {"status", "item", "consolidates"}, of : Names]

ScanStates == {"seek", "await", "meta", "body", "code"}
Values == [is : {"absent", "list", "scalar"}, of : Names, items : Seq(Names)]
KeyNames == Keys \cup {Nil}
Metas == [key : KeyNames, of : [Keys -> Values]]
Records == [header : Names, meta : Metas, line : Nat, body : Seq(TextLines)]

ScanShape(s) ==
  /\ s \in [at : ScanStates, records : Seq(Records)]
  /\ s.at = "seek" <=> s.records = <<>>

\* What a line does to a scan: it opens a record, or it is read into the metadata of
\* the last one, or told in its body.
Opens(s, l) == s.at \in {"seek", "await", "body"} /\ l.is = "header"
Reads(s, l) == s.at = "meta" /\ l.is \notin FenceLike
Tells(s, l) ==
  \/ s.at = "await" /\ l.is # "header" /\ l.is \notin FenceLike
  \/ s.at = "body" /\ l.is # "header"
  \/ s.at = "code"

NextAt(s, l) ==
  CASE s.at = "seek" -> IF l.is = "header" THEN "await" ELSE "seek"
    [] s.at = "await" -> IF l.is = "header" THEN "await" ELSE IF l.is \in FenceLike THEN "meta" ELSE "body"
    [] s.at = "meta" -> IF l.is \in FenceLike THEN "body" ELSE "meta"
    [] s.at = "body" -> IF l.is = "header" THEN "await" ELSE IF l.is = "fence" THEN "code" ELSE "body"
    [] s.at = "code" -> IF l.is = "fence" THEN "body" ELSE "code"

\* The last record after a line that opens none.
LastRecord(s, l, n, r) ==
  IF Reads(s, l) THEN Learned(r, l, n)
  ELSE IF Tells(s, l) THEN [r EXCEPT !.body = Append(@, l)] ELSE r

\* A step, by what the line does.
LEMMA StepIs ==
  ASSUME NEW s, ScanShape(s), NEW l, NEW n
  PROVE  ScanStep(s, l, n) =
           [at |-> NextAt(s, l),
            records |-> IF Opens(s, l) THEN Append(s.records, NewRecord(l.of))
                        ELSE IF Reads(s, l) \/ Tells(s, l)
                             THEN [s.records EXCEPT ![Len(s.records)] = LastRecord(s, l, n, @)]
                             ELSE s.records]
<1>1. s = [at |-> s.at, records |-> s.records] /\ s.at \in ScanStates
  BY DEF ScanShape
<1>2. CASE s.at = "seek"
  BY <1>1, <1>2 DEF ScanStep, NextAt, Opens, Reads, Tells, Opened
<1>3. CASE s.at = "await"
  BY <1>1, <1>3 DEF ScanStep, NextAt, Opens, Reads, Tells, Opened, Told, LastRecord, FenceLike
<1>4. CASE s.at = "meta"
  BY <1>1, <1>4 DEF ScanStep, NextAt, Opens, Reads, Tells, Opened, Told, LastRecord, FenceLike
<1>5. CASE s.at = "body"
  BY <1>1, <1>5 DEF ScanStep, NextAt, Opens, Reads, Tells, Opened, Told, LastRecord, FenceLike
<1>6. CASE s.at = "code"
  BY <1>1, <1>6 DEF ScanStep, NextAt, Opens, Reads, Tells, Opened, Told, LastRecord, FenceLike
<1> QED
  BY <1>1, <1>2, <1>3, <1>4, <1>5, <1>6 DEF ScanStates

\* What a line of metadata does to it.
LEMMA MetaStepIs ==
  ASSUME NEW m \in Metas, NEW l \in TextLines
  PROVE  /\ MetaStep(m, l) \in Metas
         /\ MetaStep(m, l).key = IF l.is \in Keys THEN l.is ELSE m.key
         /\ \A j \in Keys : MetaStep(m, l).of[j] =
              IF l.is = j
              THEN [is |-> IF Blank(l.of) THEN "list" ELSE "scalar", of |-> l.of, items |-> <<>>]
              ELSE IF l.is \in Items /\ m.key = j /\ m.of[j].is = "list"
              THEN [m.of[j] EXCEPT !.items = Append(@, l.of)] ELSE m.of[j]
<1>1. MetaStep(m, l) =
        IF l.is \in Items
        THEN IF ~Blank(m.key) /\ m.of[m.key].is = "list"
             THEN [m EXCEPT !.of[m.key].items = Append(@, l.of)] ELSE m
        ELSE IF l.is \in Keys
        THEN [key |-> l.is,
              of |-> [m.of EXCEPT ![l.is] =
                        [is |-> IF Blank(l.of) THEN "list" ELSE "scalar", of |-> l.of, items |-> <<>>]]]
        ELSE m
  BY Zenon DEF MetaStep, Blank, Nil
<1>2. /\ l.of \in Names /\ m.of \in [Keys -> Values]
      /\ (m.key \in Keys \/ Blank(m.key)) /\ m = [key |-> m.key, of |-> m.of]
  BY DEF TextLines, Metas, KeyNames, Blank
<1>3. \A k \in Items : k \notin Keys
  BY DEF Keys, Items
<1>4. \A k \in Keys : ~Blank(k)
  <2>1. ~Blank("status") /\ ~Blank("delta_id") /\ ~Blank("consolidates") /\ ~Blank("session") /\ ~Blank("other")
    BY Zenon DEF Blank, Nil
  <2> QED
    BY <2>1 DEF Keys
<1>5. CASE l.is \in Items /\ ~Blank(m.key) /\ m.of[m.key].is = "list"
  <2> DEFINE v == [m.of[m.key] EXCEPT !.items = Append(@, l.of)]
  <2>1. MetaStep(m, l) = [m EXCEPT !.of = [@ EXCEPT ![m.key] = v]]
    BY <1>1, <1>5
  <2>2. m.key \in Keys /\ m.of[m.key] \in Values
    BY <1>2, <1>5
  <2>3. v \in Values
    <3> DEFINE w == m.of[m.key]
    <3>1. /\ w = [is |-> w.is, of |-> w.of, items |-> w.items]
          /\ w.is \in {"absent", "list", "scalar"} /\ w.of \in Names /\ w.items \in Seq(Names)
      BY <2>2 DEF Values
    <3>2. Append(w.items, l.of) \in Seq(Names)
      BY <1>2, <3>1
    <3>3. v = [is |-> w.is, of |-> w.of, items |-> Append(w.items, l.of)]
      <4>1. v = [w EXCEPT !.items = Append(w.items, l.of)]
        BY Zenon
      <4> HIDE DEF v, w
      <4> QED
        BY <3>1, <4>1
    <3> HIDE DEF v, w
    <3> QED
      BY <3>1, <3>2, <3>3 DEF Values
  <2> HIDE DEF v
  <2>4. MetaStep(m, l) = [key |-> m.key, of |-> [m.of EXCEPT ![m.key] = v]]
    BY <1>2, <2>1
  <2>5. m.key \in KeyNames
    BY DEF Metas
  <2>6. [m.of EXCEPT ![m.key] = v] \in [Keys -> Values]
    BY <1>2, <2>3
  <2>7. \A j \in Keys : [m.of EXCEPT ![m.key] = v][j] = IF m.key = j THEN v ELSE m.of[j]
    BY <1>2
  <2>8. MetaStep(m, l) \in Metas
    BY <2>4, <2>5, <2>6 DEF Metas
  <2>9. MetaStep(m, l).key = m.key /\ \A j \in Keys : MetaStep(m, l).of[j] = IF m.key = j THEN v ELSE m.of[j]
    BY <2>4, <2>7
  <2>10. l.is \notin Keys
    BY <1>3, <1>5
  <2> QED
    BY <1>5, <2>8, <2>9, <2>10 DEF v
<1>6. CASE l.is \in Items /\ ~(~Blank(m.key) /\ m.of[m.key].is = "list")
  <2>1. MetaStep(m, l) = m
    BY <1>1, <1>6
  <2>2. l.is \notin Keys /\ \A j \in Keys : ~(m.key = j /\ m.of[j].is = "list")
    BY <1>3, <1>4, <1>6
  <2> QED
    BY <2>1, <2>2
<1>7. CASE l.is \in Keys
  <2> DEFINE v == [is |-> IF Blank(l.of) THEN "list" ELSE "scalar", of |-> l.of, items |-> <<>>]
  <2>1. MetaStep(m, l) = [key |-> l.is, of |-> [m.of EXCEPT ![l.is] = v]]
    BY <1>1, <1>3, <1>7
  <2>2. v \in Values
    <3> DEFINE x == IF Blank(l.of) THEN "list" ELSE "scalar"
    <3>1. <<>> \in Seq(Names)
      OBVIOUS
    <3>2. x \in {"absent", "list", "scalar"}
      OBVIOUS
    <3> HIDE DEF x
    <3>3. [is |-> x, of |-> l.of, items |-> <<>>] \in Values
      BY <1>2, <3>1, <3>2 DEF Values
    <3> QED
      BY <3>3 DEF x
  <2> HIDE DEF v
  <2>3. [m.of EXCEPT ![l.is] = v] \in [Keys -> Values] /\ l.is \in KeyNames
    BY <1>2, <1>7, <2>2 DEF KeyNames
  <2>4. \A j \in Keys : [m.of EXCEPT ![l.is] = v][j] = IF l.is = j THEN v ELSE m.of[j]
    BY <1>2
  <2>5. MetaStep(m, l) \in Metas
    BY <2>1, <2>3 DEF Metas
  <2>6. MetaStep(m, l).key = l.is /\ \A j \in Keys : MetaStep(m, l).of[j] = IF l.is = j THEN v ELSE m.of[j]
    BY <2>1, <2>4
  <2>7. l.is \notin Items
    BY <1>3, <1>7
  <2> QED
    BY <1>7, <2>5, <2>6, <2>7 DEF v
<1>8. CASE l.is \notin Items /\ l.is \notin Keys
  <2>1. MetaStep(m, l) = m
    BY <1>1, <1>8
  <2> QED
    BY <1>8, <2>1
<1> QED
  BY <1>5, <1>6, <1>7, <1>8

\* A line has a value of the status.
IsStatus(l) == l.is = "status" /\ ~Blank(l.of)

\* Such a line becomes the one that a flip rewrites.
LEMMA StatusLineIs ==
  ASSUME NEW line, NEW l, NEW n
  PROVE  StatusLine(line, l, n) = IF IsStatus(l) THEN n ELSE line
BY Zenon DEF StatusLine, IsStatus, Blank, Nil

\* A record that is opened is one, without a status.
LEMMA NewRecordIs ==
  ASSUME NEW i \in Names
  PROVE  /\ NewRecord(i) \in Records /\ NewRecord(i).line = 0
         /\ NewRecord(i).header = i /\ NewRecord(i).body = <<>>
         /\ NewRecord(i).meta.of["status"].is = "absent"
<1>1. NewRecord(i) = [header |-> i, line |-> 0, body |-> <<>>,
        meta |-> [key |-> Nil, of |-> [k \in Keys |-> [is |-> "absent", of |-> Nil, items |-> <<>>]]]]
  BY Zenon DEF Nil, NewRecord, NoMeta, Absent
<1>2. Nil \in KeyNames /\ <<>> \in Seq(Names) /\ <<>> \in Seq(TextLines) /\ "status" \in Keys
  BY DEF KeyNames, Keys
<1>3. NewRecord(i) \in Records
  BY <1>1, <1>2 DEF Records, Metas, Values, Names
<1> QED
  BY <1>1, <1>2, <1>3

\* The last record stays one.
LEMMA LastRecordIs ==
  ASSUME NEW s, NEW l \in TextLines, NEW n \in Nat, NEW r \in Records
  PROVE  /\ LastRecord(s, l, n, r) \in Records
         /\ LastRecord(s, l, n, r) =
              [header |-> r.header,
               meta |-> IF Reads(s, l) THEN MetaStep(r.meta, l) ELSE r.meta,
               line |-> IF Reads(s, l) /\ IsStatus(l) THEN n ELSE r.line,
               body |-> IF ~Reads(s, l) /\ Tells(s, l) THEN Append(r.body, l) ELSE r.body]
<1>1. r = [header |-> r.header, meta |-> r.meta, line |-> r.line, body |-> r.body]
  BY DEF Records
<1>2. MetaStep(r.meta, l) \in Metas
  BY MetaStepIs DEF Records
<1>3. Append(r.body, l) \in Seq(TextLines)
  BY DEF Records
<1>4. LastRecord(s, l, n, r) =
        [header |-> r.header,
         meta |-> IF Reads(s, l) THEN MetaStep(r.meta, l) ELSE r.meta,
         line |-> IF Reads(s, l) /\ IsStatus(l) THEN n ELSE r.line,
         body |-> IF ~Reads(s, l) /\ Tells(s, l) THEN Append(r.body, l) ELSE r.body]
  BY <1>1, StatusLineIs DEF LastRecord, Learned
<1> QED
  BY <1>2, <1>3, <1>4 DEF Records

\* A step, record by record.
LEMMA StepShape ==
  ASSUME NEW s, ScanShape(s), NEW l \in TextLines, NEW n \in Nat
  PROVE  LET z == ScanStep(s, l, n)  c == Len(s.records) IN
         /\ ScanShape(z) /\ z.at = NextAt(s, l) /\ c \in Nat
         /\ Len(z.records) = IF Opens(s, l) THEN c + 1 ELSE c
         /\ \A k \in 1..c :
              z.records[k] = IF k = c /\ ~Opens(s, l) THEN LastRecord(s, l, n, s.records[c]) ELSE s.records[k]
         /\ Opens(s, l) => z.records[c + 1] = NewRecord(l.of)
<1> DEFINE z == ScanStep(s, l, n)  c == Len(s.records)  rs == s.records
<1>1. rs \in Seq(Records) /\ s.at \in ScanStates /\ c \in Nat /\ c = Len(rs) /\ (s.at = "seek" <=> rs = <<>>)
  BY DEF ScanShape
<1>2. z = [at |-> NextAt(s, l),
           records |-> IF Opens(s, l) THEN Append(rs, NewRecord(l.of))
                       ELSE IF Reads(s, l) \/ Tells(s, l)
                            THEN [rs EXCEPT ![c] = LastRecord(s, l, n, @)]
                            ELSE rs]
  BY StepIs
<1>3. NewRecord(l.of) \in Records
  BY NewRecordIs DEF TextLines
<1>4. NextAt(s, l) \in ScanStates
  BY <1>1 DEF NextAt, ScanStates
<1> HIDE DEF z, c, rs
<1>5. CASE Opens(s, l)
  <2>1. z.at = NextAt(s, l) /\ z.records = Append(rs, NewRecord(l.of))
    BY <1>2, <1>5
  <2>2. z \in [at : ScanStates, records : Seq(Records)]
    BY <1>1, <1>2, <1>3, <1>4, <1>5
  <2>3. /\ Len(z.records) = c + 1 /\ z.records[c + 1] = NewRecord(l.of)
        /\ \A k \in 1..c : z.records[k] = rs[k]
    BY <1>1, <1>3, <2>1
  <2>4. z.at # "seek" /\ z.records # <<>>
    BY <1>1, <1>3, <1>5, <2>1, <2>3 DEF Opens, NextAt
  <2> QED
    BY <1>1, <1>5, <2>1, <2>2, <2>3, <2>4 DEF ScanShape, z, c, rs
<1>6. CASE ~Opens(s, l) /\ (Reads(s, l) \/ Tells(s, l))
  <2> DEFINE r == LastRecord(s, l, n, rs[c])
  <2>1. z.at = NextAt(s, l) /\ z.records = [rs EXCEPT ![c] = r]
    BY <1>2, <1>6
  <2>2. c # 0
    <3>1. rs # <<>>
      BY <1>1, <1>6 DEF Reads, Tells
    <3> QED
      BY <1>1, <3>1
  <2>3. rs[c] \in Records
    BY <1>1, <2>2
  <2>4. r \in Records
    BY <2>3, LastRecordIs
  <2> HIDE DEF r
  <2>5. z.records \in Seq(Records) /\ Len(z.records) = c
    BY <1>1, <2>1, <2>2, <2>4
  <2>6. \A k \in 1..c : z.records[k] = IF k = c THEN r ELSE rs[k]
    BY <1>1, <2>1
  <2>7. z \in [at : ScanStates, records : Seq(Records)]
    BY <1>2, <1>4, <1>6, <2>1, <2>5
  <2>8. z.at # "seek" /\ z.records # <<>>
    BY <1>1, <1>6, <2>1, <2>2, <2>5 DEF Opens, Reads, Tells, NextAt, ScanStates
  <2> QED
    BY <1>1, <1>6, <2>1, <2>5, <2>6, <2>7, <2>8 DEF ScanShape, z, c, rs, r
<1>7. CASE ~Opens(s, l) /\ ~Reads(s, l) /\ ~Tells(s, l)
  <2>1. z = [at |-> NextAt(s, l), records |-> rs]
    BY <1>2, <1>7
  <2>2. \A r : LastRecord(s, l, n, r) = r
    BY <1>7 DEF LastRecord
  <2>3. NextAt(s, l) = "seek" <=> s.at = "seek"
    BY <1>1, <1>7 DEF Opens, Reads, Tells, NextAt, ScanStates, FenceLike
  <2>4. z \in [at : ScanStates, records : Seq(Records)]
    BY <1>1, <1>4, <2>1
  <2>5. (z.at = "seek" <=> z.records = <<>>) /\ Len(z.records) = c
    BY <1>1, <2>1, <2>3
  <2>6. \A k \in 1..c : z.records[k] = IF k = c THEN LastRecord(s, l, n, rs[c]) ELSE rs[k]
    BY <2>1, <2>2
  <2> QED
    BY <1>1, <1>7, <2>1, <2>4, <2>5, <2>6 DEF ScanShape, z, c, rs
<1> QED
  BY <1>5, <1>6, <1>7 DEF z, c, rs

\* Every state of a scan has this shape.
LEMMA ScanShapes ==
  ASSUME NEW t \in Seq(TextLines), NEW k, NEW f, Scans(t, k, f)
  PROVE  \A n \in 0..Len(t) : ScanShape(f[n])
<1> DEFINE Bad == {n \in 0..Len(t) : ~ScanShape(f[n])}
<1>1. Len(t) \in Nat /\ \A n \in 1..Len(t) : t[n] \in TextLines
  OBVIOUS
<1>2. ScanShape(f[0])
  <2>1. ScanFrom.at = "seek" /\ ScanFrom.records = <<>> /\ ScanFrom \in [at : ScanStates, records : Seq(Records)]
    BY DEF ScanFrom, ScanStates
  <2> QED
    BY <2>1 DEF Scans, ScanShape
<1> SUFFICES ASSUME Bad # {} PROVE FALSE
  OBVIOUS
<1>3. Bad \in SUBSET Nat
  BY <1>1
<1> HIDE DEF Bad
<1>4. PICK n \in Bad : \A m \in Bad : n <= m
  BY <1>3, LeastOf
<1> USE DEF Bad
<1>5. n \in 1..Len(t) /\ n - 1 \in 0..Len(t) /\ n \in Nat
  BY <1>1, <1>2, <1>4
<1>6. ScanShape(f[n - 1])
  BY <1>4, <1>5
<1>7. f[n] = f[n - 1] \/ f[n] = ScanStep(f[n - 1], t[n], n)
  BY <1>5 DEF Scans
<1>8. ScanShape(ScanStep(f[n - 1], t[n], n))
  BY <1>1, <1>5, <1>6, StepShape
<1> QED
  BY <1>4, <1>6, <1>7, <1>8

\* Where the status of a record comes from: the line that a flip would rewrite was read
\* into its metadata, and holds the status that its reader takes.
StatusKnown(t, k, f, n, i, r) ==
  /\ r.line # 0 =>
       /\ r.line \in 1..n /\ ~(r.line <= k) /\ IsStatus(t[r.line])
       /\ f[r.line - 1].at = "meta" /\ Len(f[r.line - 1].records) = i
  /\ r.meta.of["status"].is = "scalar" =>
       r.line # 0 /\ r.meta.of["status"] = [is |-> "scalar", of |-> t[r.line].of, items |-> <<>>]

\* A line of metadata keeps this.
LEMMA StatusLearned ==
  ASSUME NEW t \in Seq(TextLines), NEW k, NEW f, NEW n \in 1..Len(t), ~(n <= k), NEW i, NEW r \in Records,
         ScanShape(f[n - 1]), Len(f[n - 1].records) = i, StatusKnown(t, k, f, n - 1, i, r)
  PROVE  StatusKnown(t, k, f, n, i, LastRecord(f[n - 1], t[n], n, r))
<1> DEFINE s == f[n - 1]  l == t[n]  z == LastRecord(s, l, n, r)
<1>1. n \in Nat \ {0} /\ l \in TextLines /\ Len(t) \in Nat
  OBVIOUS
<1>2. /\ z.meta = IF Reads(s, l) THEN MetaStep(r.meta, l) ELSE r.meta
      /\ z.line = IF Reads(s, l) /\ IsStatus(l) THEN n ELSE r.line
  BY <1>1, LastRecordIs
<1>3. r.meta \in Metas /\ "status" \in Keys /\ r.meta.of["status"] \in Values /\ r.line \in Nat
  BY DEF Records, Metas, Keys
<1>4. r.line # 0 => r.line \in 1..n
  BY <1>1, <1>3 DEF StatusKnown
<1> DEFINE v == MetaStep(r.meta, l).of["status"]
<1>5. v = IF l.is = "status"
          THEN [is |-> IF Blank(l.of) THEN "list" ELSE "scalar", of |-> l.of, items |-> <<>>]
          ELSE IF l.is \in Items /\ r.meta.key = "status" /\ r.meta.of["status"].is = "list"
          THEN [r.meta.of["status"] EXCEPT !.items = Append(@, l.of)] ELSE r.meta.of["status"]
  BY <1>1, <1>3, MetaStepIs
<1> HIDE DEF s, l, z, v
<1>6. CASE Reads(s, l) /\ IsStatus(l)
  <2>1. z.line = n /\ z.meta.of["status"] = [is |-> "scalar", of |-> l.of, items |-> <<>>]
    BY <1>2, <1>5, <1>6 DEF IsStatus, v
  <2>2. s.at = "meta"
    BY <1>6 DEF Reads
  <2> QED
    BY <1>1, <1>6, <2>1, <2>2 DEF StatusKnown, s, l, z
<1>7. CASE Reads(s, l) /\ ~IsStatus(l)
  <2>1. z.line = r.line /\ z.meta.of["status"] = v
    BY <1>2, <1>7 DEF v
  <2>2. v.is = "scalar" => v = r.meta.of["status"]
    <3>1. CASE l.is = "status"
      BY <1>5, <1>7, <3>1 DEF IsStatus
    <3>2. CASE l.is # "status" /\ r.meta.of["status"].is # "list"
      BY <1>5, <3>2
    <3>3. CASE l.is # "status" /\ r.meta.of["status"].is = "list"
      <4> DEFINE w == r.meta.of["status"]
      <4>1. v.is = w.is
        BY <1>3, <1>5, <3>3 DEF Values
      <4> QED
        BY <3>3, <4>1
    <3> QED
      BY <3>1, <3>2, <3>3
  <2> QED
    BY <1>4, <2>1, <2>2 DEF StatusKnown, z, s, l
<1>8. CASE ~Reads(s, l)
  <2>1. z.line = r.line /\ z.meta = r.meta
    BY <1>2, <1>8
  <2> QED
    BY <1>4, <2>1 DEF StatusKnown, z, s, l
<1> QED
  BY <1>6, <1>7, <1>8

\* So it is of every record of a scan.
LEMMA StatusesKnown ==
  ASSUME NEW t \in Seq(TextLines), NEW k, NEW f, Scans(t, k, f)
  PROVE  \A n \in 0..Len(t) : \A i \in 1..Len(f[n].records) : StatusKnown(t, k, f, n, i, f[n].records[i])
<1> DEFINE Good(n) == \A i \in 1..Len(f[n].records) : StatusKnown(t, k, f, n, i, f[n].records[i])
           Bad == {n \in 0..Len(t) : ~Good(n)}
<1>1. Len(t) \in Nat /\ \A n \in 1..Len(t) : t[n] \in TextLines
  OBVIOUS
<1>2. Good(0)
  <2>1. f[0].records = <<>>
    BY DEF Scans, ScanFrom
  <2> QED
    BY <2>1
<1> SUFFICES ASSUME Bad # {} PROVE FALSE
  OBVIOUS
<1>3. Bad \in SUBSET Nat
  BY <1>1
<1> HIDE DEF Bad
<1>4. PICK n \in Bad : \A m \in Bad : n <= m
  BY <1>3, LeastOf
<1> USE DEF Bad
<1>5. n \in 1..Len(t) /\ n - 1 \in 0..Len(t) /\ n \in Nat /\ n \in 0..Len(t)
  BY <1>1, <1>2, <1>4
<1>6. Good(n - 1) /\ ~Good(n) /\ ScanShape(f[n - 1]) /\ ScanShape(f[n])
  <2>1. Good(n - 1) /\ ~Good(n)
    <3> HIDE DEF Good
    <3> QED
      BY <1>4, <1>5
  <2>2. \A m \in 0..Len(t) : ScanShape(f[m])
    BY ScanShapes
  <2> QED
    BY <1>5, <2>1, <2>2
<1> HIDE DEF Bad
<1> DEFINE s == f[n - 1]  l == t[n]  c == Len(s.records)
<1>7. CASE n <= k
  <2>1. f[n] = f[n - 1]
    BY <1>5, <1>7 DEF Scans
  <2>2. ASSUME NEW i \in 1..Len(f[n].records) PROVE StatusKnown(t, k, f, n, i, f[n].records[i])
    <3>1. StatusKnown(t, k, f, n - 1, i, f[n].records[i])
      BY <1>6, <2>1
    <3> QED
      BY <1>5, <3>1 DEF StatusKnown
  <2> QED
    BY <1>6, <2>2
<1>8. CASE ~(n <= k)
  <2>1. f[n] = ScanStep(s, l, n)
    BY <1>5, <1>8 DEF Scans
  <2>2. /\ c \in Nat
        /\ Len(f[n].records) = IF Opens(s, l) THEN c + 1 ELSE c
        /\ \A j \in 1..c :
             f[n].records[j] = IF j = c /\ ~Opens(s, l) THEN LastRecord(s, l, n, s.records[c]) ELSE s.records[j]
        /\ Opens(s, l) => f[n].records[c + 1] = NewRecord(l.of)
    <3>1. l \in TextLines
      BY <1>1, <1>5
    <3> HIDE DEF s, l
    <3>2. ScanShape(s)
      BY <1>6 DEF s
    <3> QED
      BY <1>5, <2>1, <3>1, <3>2, StepShape
  <2>3. ASSUME NEW i \in 1..Len(f[n].records) PROVE StatusKnown(t, k, f, n, i, f[n].records[i])
    <3>1. CASE i \in 1..c /\ ~(i = c /\ ~Opens(s, l))
      <4>1. f[n].records[i] = s.records[i] /\ StatusKnown(t, k, f, n - 1, i, s.records[i])
        BY <1>6, <2>2, <3>1
      <4> QED
        BY <1>5, <4>1 DEF StatusKnown
    <3>2. CASE i \in 1..c /\ i = c /\ ~Opens(s, l)
      <4>1. f[n].records[i] = LastRecord(s, l, n, s.records[i]) /\ StatusKnown(t, k, f, n - 1, i, s.records[i])
        BY <1>6, <2>2, <3>2
      <4>2. s.records[i] \in Records
        <5>1. s.records \in Seq(Records)
          BY <1>6 DEF ScanShape
        <5> QED
          BY <3>2, <5>1
      <4> QED
        BY <1>5, <1>6, <1>8, <3>2, <4>1, <4>2, StatusLearned
    <3>3. CASE i \notin 1..c
      <4>1. Opens(s, l) /\ i = c + 1
        BY <2>2, <3>3
      <4>2. f[n].records[i].line = 0 /\ f[n].records[i].meta.of["status"].is = "absent"
        <5>1. l.of \in Names
          BY <1>1, <1>5 DEF TextLines
        <5> QED
          BY <2>2, <4>1, <5>1, NewRecordIs
      <4> QED
        BY <4>2 DEF StatusKnown
    <3> QED
      BY <3>1, <3>2, <3>3
  <2> QED
    BY <1>6, <2>3
<1> QED
  BY <1>7, <1>8

\* A record whose status a flip rewrote in one of these lines.
Consolidated == [is |-> "scalar", of |-> "consolidated", items |-> <<>>]
FlippedMeta(m) == [key |-> m.key, of |-> [j \in Keys |-> IF j = "status" THEN Consolidated ELSE m.of[j]]]
FlippedRecord(at, r) ==
  IF r.line \in at /\ r.meta.of["status"].is = "scalar"
  THEN [header |-> r.header, meta |-> FlippedMeta(r.meta), line |-> r.line, body |-> r.body] ELSE r

FlippedLine(at, l, n) == IF n \in at THEN Status("consolidated") ELSE l

\* A flip changes nothing of a record but its metadata.
LEMMA FlippedIs ==
  ASSUME NEW at, NEW r \in Records
  PROVE  /\ FlippedRecord(at, r) \in Records /\ FlippedRecord(at, r).header = r.header
         /\ FlippedRecord(at, r).line = r.line /\ FlippedRecord(at, r).body = r.body
         /\ FlippedRecord(at, r).meta =
              IF r.line \in at /\ r.meta.of["status"].is = "scalar" THEN FlippedMeta(r.meta) ELSE r.meta
         /\ FlippedMeta(r.meta) \in Metas
<1>1. Consolidated \in Values
  BY DEF Consolidated, Values, Names
<1>2. r.meta \in Metas
  BY DEF Records
<1>3. FlippedMeta(r.meta) \in Metas
  BY <1>1, <1>2 DEF FlippedMeta, Metas
<1> QED
  BY <1>3 DEF FlippedRecord, Records

\* Metadata is its last key and its values.
LEMMA MetasAgree ==
  ASSUME NEW m \in Metas, NEW w \in Metas, m.key = w.key, \A j \in Keys : m.of[j] = w.of[j]
  PROVE  m = w
BY DEF Metas

\* To rewrite a status and to read the line that was rewritten are the same.
LEMMA LastFlips ==
  ASSUME NEW at, NEW s, NEW z, NEW l \in TextLines, NEW n \in Nat, NEW r \in Records, z.at = s.at,
         n \in at => Reads(s, l) /\ IsStatus(l)
  PROVE  LastRecord(z, FlippedLine(at, l, n), n, FlippedRecord(at, r)) = FlippedRecord(at, LastRecord(s, l, n, r))
<1> DEFINE h == FlippedLine(at, l, n)  q == FlippedRecord(at, r)
           x == LastRecord(z, h, n, q)  y == LastRecord(s, l, n, r)  w == FlippedRecord(at, y)
<1>1. h \in TextLines /\ h.is = l.is /\ (n \notin at => h = l) /\ (n \in at => h.of = "consolidated")
  BY DEF FlippedLine, Status, Line, TextLines, IsStatus, Names
<1>2. ~Blank("consolidated")
  BY Zenon DEF Blank, Nil
<1>3. IsStatus(h) <=> IsStatus(l)
  BY <1>1, <1>2 DEF IsStatus
<1>4. (Reads(z, h) <=> Reads(s, l)) /\ (Tells(z, h) <=> Tells(s, l))
  BY <1>1 DEF Reads, Tells
<1>5. q \in Records /\ q.header = r.header /\ q.line = r.line /\ q.body = r.body
  BY FlippedIs
<1>6. /\ y \in Records
      /\ y.header = r.header /\ y.meta = IF Reads(s, l) THEN MetaStep(r.meta, l) ELSE r.meta
      /\ y.line = IF Reads(s, l) /\ IsStatus(l) THEN n ELSE r.line
      /\ y.body = IF ~Reads(s, l) /\ Tells(s, l) THEN Append(r.body, l) ELSE r.body
  <2>1. y \in Records /\ y = [header |-> r.header,
               meta |-> IF Reads(s, l) THEN MetaStep(r.meta, l) ELSE r.meta,
               line |-> IF Reads(s, l) /\ IsStatus(l) THEN n ELSE r.line,
               body |-> IF ~Reads(s, l) /\ Tells(s, l) THEN Append(r.body, l) ELSE r.body]
    BY LastRecordIs
  <2> HIDE DEF y
  <2> QED
    BY <2>1
<1>7. /\ x \in Records
      /\ x.header = q.header /\ x.meta = IF Reads(z, h) THEN MetaStep(q.meta, h) ELSE q.meta
      /\ x.line = IF Reads(z, h) /\ IsStatus(h) THEN n ELSE q.line
      /\ x.body = IF ~Reads(z, h) /\ Tells(z, h) THEN Append(q.body, h) ELSE q.body
  <2> HIDE DEF h, q
  <2>1. x \in Records /\ x = [header |-> q.header,
               meta |-> IF Reads(z, h) THEN MetaStep(q.meta, h) ELSE q.meta,
               line |-> IF Reads(z, h) /\ IsStatus(h) THEN n ELSE q.line,
               body |-> IF ~Reads(z, h) /\ Tells(z, h) THEN Append(q.body, h) ELSE q.body]
    <3>1. h \in TextLines /\ q \in Records
      BY <1>1, <1>5
    <3> QED
      BY <3>1, LastRecordIs, Zenon
  <2> HIDE DEF x
  <2> QED
    BY <2>1
<1>8. /\ w \in Records /\ w.header = y.header /\ w.line = y.line /\ w.body = y.body
      /\ w.meta = IF y.line \in at /\ y.meta.of["status"].is = "scalar" THEN FlippedMeta(y.meta) ELSE y.meta
  BY <1>6, FlippedIs
<1> HIDE DEF h, q, x, y, w
<1>9. x.header = w.header /\ x.line = w.line
  BY <1>3, <1>4, <1>5, <1>6, <1>7, <1>8
<1>10. x.body = w.body
  <2>1. ~Reads(s, l) => h = l
    BY <1>1
  <2> QED
    BY <2>1, <1>4, <1>5, <1>6, <1>7, <1>8
<1>11. x.meta = w.meta
  <2> DEFINE m == r.meta  v == m.of["status"]
  <2>1. m \in Metas /\ q.meta \in Metas /\ x.meta \in Metas /\ w.meta \in Metas /\ y.meta \in Metas
    BY <1>5, <1>6, <1>7, <1>8 DEF Records
  <2>2. q.meta = IF r.line \in at /\ v.is = "scalar" THEN FlippedMeta(m) ELSE m
    BY FlippedIs DEF q
  <2>3. \A k \in Metas : /\ FlippedMeta(k).key = k.key
                         /\ \A j \in Keys : FlippedMeta(k).of[j] = IF j = "status" THEN Consolidated ELSE k.of[j]
    BY DEF FlippedMeta
  <2>4. CASE ~Reads(s, l)
    BY <1>4, <1>6, <1>7, <1>8, <2>2, <2>4
  <2>5. CASE Reads(s, l)
    <3>1. /\ y.meta.key = IF l.is \in Keys THEN l.is ELSE m.key
          /\ \A j \in Keys : y.meta.of[j] =
              IF l.is = j
              THEN [is |-> IF Blank(l.of) THEN "list" ELSE "scalar", of |-> l.of, items |-> <<>>]
              ELSE IF l.is \in Items /\ m.key = j /\ m.of[j].is = "list"
              THEN [m.of[j] EXCEPT !.items = Append(@, l.of)] ELSE m.of[j]
      <4>1. y.meta = MetaStep(m, l)
        BY <1>6, <2>5
      <4> HIDE DEF m, v
      <4> QED
        BY <2>1, <4>1, MetaStepIs
    <3>2. /\ x.meta.key = IF h.is \in Keys THEN h.is ELSE q.meta.key
          /\ \A j \in Keys : x.meta.of[j] =
              IF h.is = j
              THEN [is |-> IF Blank(h.of) THEN "list" ELSE "scalar", of |-> h.of, items |-> <<>>]
              ELSE IF h.is \in Items /\ q.meta.key = j /\ q.meta.of[j].is = "list"
              THEN [q.meta.of[j] EXCEPT !.items = Append(@, h.of)] ELSE q.meta.of[j]
      <4> DEFINE p == q.meta
      <4>1. x.meta = MetaStep(p, h) /\ p \in Metas
        BY <1>4, <1>7, <2>1, <2>5
      <4> HIDE DEF p
      <4>2. /\ x.meta.key = IF h.is \in Keys THEN h.is ELSE p.key
            /\ \A j \in Keys : x.meta.of[j] =
                IF h.is = j
                THEN [is |-> IF Blank(h.of) THEN "list" ELSE "scalar", of |-> h.of, items |-> <<>>]
                ELSE IF h.is \in Items /\ p.key = j /\ p.of[j].is = "list"
                THEN [p.of[j] EXCEPT !.items = Append(@, h.of)] ELSE p.of[j]
        <5>1. h \in TextLines /\ p \in Metas
          BY <1>1, <4>1
        <5> DEFINE o == MetaStep(p, h)
        <5>2. /\ o.key = IF h.is \in Keys THEN h.is ELSE p.key
              /\ \A j \in Keys : o.of[j] =
                  IF h.is = j
                  THEN [is |-> IF Blank(h.of) THEN "list" ELSE "scalar", of |-> h.of, items |-> <<>>]
                  ELSE IF h.is \in Items /\ p.key = j /\ p.of[j].is = "list"
                  THEN [p.of[j] EXCEPT !.items = Append(@, h.of)] ELSE p.of[j]
          BY <5>1, MetaStepIs, Zenon
        <5>3. x.meta = o
          BY <4>1
        <5> HIDE DEF o
        <5> QED
          BY <5>2, <5>3
      <4> QED
        BY <4>2 DEF p
    <3>3. q.meta.key = m.key /\ \A j \in Keys : j # "status" => q.meta.of[j] = m.of[j]
      BY <2>1, <2>2, <2>3
    <3>4. w.meta.key = y.meta.key /\ \A j \in Keys : j # "status" => w.meta.of[j] = y.meta.of[j]
      BY <1>8, <2>1, <2>3
    <3>5. x.meta.key = w.meta.key
      BY <1>1, <3>1, <3>2, <3>3, <3>4
    <3>6. ASSUME NEW j \in Keys, j # "status" PROVE x.meta.of[j] = w.meta.of[j]
      <4>1. n \in at => l.is = "status"
        BY DEF IsStatus
      <4>2. CASE l.is = j
        <5>1. h = l
          BY <1>1, <3>6, <4>1, <4>2
        <5> QED
          BY <3>1, <3>2, <3>4, <3>6, <4>2, <5>1
      <4>3. CASE l.is # j /\ n \notin at
        <5>1. h = l
          BY <1>1, <4>3
        <5> QED
          <6>1. q.meta.of[j] = m.of[j] /\ q.meta.key = m.key /\ w.meta.of[j] = y.meta.of[j]
            BY <3>3, <3>4, <3>6
          <6> DEFINE a == q.meta.of[j]  b == m.of[j]
          <6>2. x.meta.of[j] = IF l.is \in Items /\ m.key = j /\ a.is = "list"
                THEN [a EXCEPT !.items = Append(@, l.of)] ELSE a
            BY <3>2, <4>3, <5>1, <6>1
          <6>3. y.meta.of[j] = IF l.is \in Items /\ m.key = j /\ b.is = "list"
                THEN [b EXCEPT !.items = Append(@, l.of)] ELSE b
            BY <3>1, <4>3
          <6>4. a = b
            BY <6>1
          <6> HIDE DEF a, b
          <6> QED
            BY <6>1, <6>2, <6>3, <6>4
      <4>4. CASE l.is # j /\ n \in at
        <5>1. l.is \notin Items /\ h.is = l.is
          BY <1>1, <4>1, <4>4 DEF Items
        <5> QED
          BY <3>1, <3>2, <3>3, <3>4, <3>6, <4>4, <5>1
      <4> QED
        BY <4>2, <4>3, <4>4
    <3>7. x.meta.of["status"] = w.meta.of["status"]
      <4> DEFINE a == x.meta.of["status"]  b == w.meta.of["status"]  c == y.meta.of["status"]
                 d == q.meta.of["status"]
      <4>1. "status" \in Keys /\ v \in Values
        BY <2>1 DEF Keys, Metas
      <4>2. a = IF h.is = "status"
              THEN [is |-> IF Blank(h.of) THEN "list" ELSE "scalar", of |-> h.of, items |-> <<>>]
              ELSE IF h.is \in Items /\ m.key = "status" /\ d.is = "list"
              THEN [d EXCEPT !.items = Append(@, h.of)] ELSE d
        BY <3>2, <3>3, <4>1
      <4>3. c = IF l.is = "status"
              THEN [is |-> IF Blank(l.of) THEN "list" ELSE "scalar", of |-> l.of, items |-> <<>>]
              ELSE IF l.is \in Items /\ m.key = "status" /\ v.is = "list"
              THEN [v EXCEPT !.items = Append(@, l.of)] ELSE v
        BY <3>1, <4>1
      <4>4. b = IF y.line \in at /\ c.is = "scalar" THEN Consolidated ELSE c
        BY <1>8, <2>1, <2>3, <4>1
      <4>5. d = IF r.line \in at /\ v.is = "scalar" THEN Consolidated ELSE v
        BY <2>1, <2>2, <2>3, <4>1
      <4>6. y.line = IF IsStatus(l) THEN n ELSE r.line
        BY <1>6, <2>5
      <4> HIDE DEF a, b, c, d, m, v
      <4>7. CASE n \in at
        <5>1. a = Consolidated
          BY <1>1, <1>2, <4>2, <4>7 DEF Consolidated, IsStatus
        <5>2. c.is = "scalar" /\ y.line \in at
          BY <4>3, <4>6, <4>7 DEF IsStatus
        <5> QED
          BY <4>4, <5>1, <5>2 DEF a, b
      <4>8. CASE n \notin at /\ IsStatus(l)
        <5>1. h = l /\ y.line = n
          BY <1>1, <4>6, <4>8
        <5> QED
          BY <4>2, <4>3, <4>4, <4>8, <5>1 DEF a, b, IsStatus
      <4>9. CASE n \notin at /\ ~IsStatus(l) /\ l.is = "status"
        <5>1. h = l /\ c.is = "list"
          BY <1>1, <4>3, <4>9 DEF IsStatus
        <5> QED
          BY <4>2, <4>3, <4>4, <4>9, <5>1 DEF a, b
      <4>10. CASE n \notin at /\ l.is # "status"
        <5>1. h = l /\ y.line = r.line
          BY <1>1, <4>6, <4>10 DEF IsStatus
        <5>2. Consolidated.is = "scalar"
          BY DEF Consolidated
        <5>3. CASE v.is = "scalar"
          BY <4>2, <4>3, <4>4, <4>5, <4>10, <5>1, <5>2, <5>3 DEF a, b
        <5>4. CASE v.is # "scalar"
          <6>1. [v EXCEPT !.items = Append(@, l.of)].is = v.is
            BY <4>1 DEF Values
          <6> QED
            BY <4>2, <4>3, <4>4, <4>5, <4>10, <5>1, <5>4, <6>1 DEF a, b
        <5> QED
          BY <5>3, <5>4
      <4> QED
        BY <4>7, <4>8, <4>9, <4>10
    <3>8. \A j \in Keys : x.meta.of[j] = w.meta.of[j]
      BY <3>6, <3>7
    <3> QED
      BY <2>1, <3>5, <3>8, MetasAgree
  <2> QED
    BY <2>4, <2>5
<1>12. x = w
  BY <1>7, <1>8, <1>9, <1>10, <1>11 DEF Records
<1> QED
  BY <1>12 DEF h, q, x, y, w

\* A text in which a flip rewrote these lines.
FlippedText(at, t) == [n \in DOMAIN t |-> FlippedLine(at, t[n], n)]

FlippedScan(at, s, z) ==
  /\ z.at = s.at /\ Len(z.records) = Len(s.records)
  /\ \A i \in 1..Len(s.records) : z.records[i] = FlippedRecord(at, s.records[i])

\* It is a text of the same lines but for these.
LEMMA FlippedLines ==
  ASSUME NEW t \in Seq(TextLines), NEW at
  PROVE  /\ FlippedText(at, t) \in Seq(TextLines) /\ Len(FlippedText(at, t)) = Len(t)
         /\ DOMAIN FlippedText(at, t) = 1..Len(t)
         /\ \A n \in 1..Len(t) : FlippedText(at, t)[n] = FlippedLine(at, t[n], n)
<1> DEFINE u == FlippedText(at, t)
<1>1. Len(t) \in Nat /\ DOMAIN t = 1..Len(t) /\ \A n \in 1..Len(t) : t[n] \in TextLines
  OBVIOUS
<1>2. \A n \in 1..Len(t) : FlippedLine(at, t[n], n) \in TextLines
  BY <1>1 DEF FlippedLine, Status, Line, TextLines, Names
<1>3. u = [n \in 1..Len(t) |-> FlippedLine(at, t[n], n)]
  BY <1>1 DEF FlippedText
<1> HIDE DEF u
<1>4. u \in Seq(TextLines) /\ Len(u) = Len(t)
  BY <1>1, <1>2, <1>3
<1> QED
  BY <1>3, <1>4 DEF u

\* The scan of a flipped text is the scan of the text, its records flipped.
LEMMA FlipScans ==
  ASSUME NEW t \in Seq(TextLines), NEW k, NEW f, Scans(t, k, f), NEW at, NEW g, Scans(FlippedText(at, t), k, g),
         \A n \in 1..Len(t) : n \in at => ~(n <= k) /\ f[n - 1].at = "meta" /\ IsStatus(t[n])
  PROVE  \A n \in 0..Len(t) : FlippedScan(at, f[n], g[n])
<1> DEFINE u == FlippedText(at, t)
           Bad == {n \in 0..Len(t) : ~FlippedScan(at, f[n], g[n])}
<1>1. Len(t) \in Nat /\ \A n \in 1..Len(t) : t[n] \in TextLines
  OBVIOUS
<1>2. u \in Seq(TextLines) /\ Len(u) = Len(t) /\ \A n \in 1..Len(t) : u[n] = FlippedLine(at, t[n], n)
  BY FlippedLines
<1>3. \A n \in 0..Len(t) : ScanShape(f[n]) /\ ScanShape(g[n])
  <2>1. \A n \in 0..Len(t) : ScanShape(f[n])
    BY ScanShapes
  <2>2. \A n \in 0..Len(u) : ScanShape(g[n])
    BY <1>2, ScanShapes
  <2> QED
    BY <1>2, <2>1, <2>2
<1> HIDE DEF u
<1>4. FlippedScan(at, f[0], g[0])
  <2>1. f[0] = ScanFrom /\ g[0] = ScanFrom
    BY DEF Scans
  <2>2. Len(ScanFrom.records) = 0
    BY DEF ScanFrom
  <2> QED
    BY <2>1, <2>2 DEF FlippedScan
<1> SUFFICES ASSUME Bad # {} PROVE FALSE
  OBVIOUS
<1>5. Bad \in SUBSET Nat
  BY <1>1
<1> HIDE DEF Bad
<1>6. PICK n \in Bad : \A m \in Bad : n <= m
  BY <1>5, LeastOf
<1> USE DEF Bad
<1>7. n \in 1..Len(t) /\ n - 1 \in 0..Len(t) /\ n \in Nat /\ n \in 0..Len(t)
  BY <1>1, <1>4, <1>6
<1>8. FlippedScan(at, f[n - 1], g[n - 1]) /\ ~FlippedScan(at, f[n], g[n])
  BY <1>6, <1>7
<1> HIDE DEF Bad
<1> DEFINE s == f[n - 1]  z == g[n - 1]  l == t[n]  h == FlippedLine(at, l, n)  c == Len(s.records)
<1>9. CASE n <= k
  <2>1. f[n] = s /\ g[n] = z
    BY <1>2, <1>7, <1>9 DEF Scans, u
  <2> QED
    BY <1>8, <2>1
<1>10. CASE ~(n <= k)
  <2>1. f[n] = ScanStep(s, l, n) /\ g[n] = ScanStep(z, h, n)
    BY <1>2, <1>7, <1>10 DEF Scans, u
  <2>2. ScanShape(s) /\ ScanShape(z) /\ l \in TextLines /\ h \in TextLines
    <3>1. u[n] \in TextLines
      BY <1>2, <1>7
    <3> QED
      BY <1>1, <1>2, <1>3, <1>7, <3>1
  <2>3. z.at = s.at /\ Len(z.records) = c /\ \A i \in 1..c : z.records[i] = FlippedRecord(at, s.records[i])
    BY <1>8 DEF FlippedScan
  <2>4. h.is = l.is /\ (n \notin at => h = l) /\ (n \in at => s.at = "meta" /\ IsStatus(l))
    BY <1>7 DEF FlippedLine, Status, Line, IsStatus
  <2>5. n \in at => Reads(s, l) /\ IsStatus(l)
    BY <2>4 DEF Reads, IsStatus, FenceLike
  <2> HIDE DEF s, z, l, h, c
  <2>6. (Opens(z, h) <=> Opens(s, l)) /\ NextAt(z, h) = NextAt(s, l)
    BY <2>3, <2>4 DEF Opens, NextAt
  <2>7. /\ c \in Nat /\ f[n].at = NextAt(s, l)
        /\ Len(f[n].records) = IF Opens(s, l) THEN c + 1 ELSE c
        /\ \A i \in 1..c :
             f[n].records[i] = IF i = c /\ ~Opens(s, l) THEN LastRecord(s, l, n, s.records[c]) ELSE s.records[i]
        /\ Opens(s, l) => f[n].records[c + 1] = NewRecord(l.of)
    BY <1>7, <2>1, <2>2, StepShape DEF c
  <2>8. /\ g[n].at = NextAt(z, h)
        /\ Len(g[n].records) = IF Opens(z, h) THEN c + 1 ELSE c
        /\ \A i \in 1..c :
             g[n].records[i] = IF i = c /\ ~Opens(z, h) THEN LastRecord(z, h, n, z.records[c]) ELSE z.records[i]
        /\ Opens(z, h) => g[n].records[c + 1] = NewRecord(h.of)
    <3> DEFINE d == Len(z.records)
    <3>1. /\ g[n].at = NextAt(z, h)
          /\ Len(g[n].records) = IF Opens(z, h) THEN d + 1 ELSE d
          /\ \A i \in 1..d :
               g[n].records[i] = IF i = d /\ ~Opens(z, h) THEN LastRecord(z, h, n, z.records[d]) ELSE z.records[i]
          /\ Opens(z, h) => g[n].records[d + 1] = NewRecord(h.of)
      BY <1>7, <2>1, <2>2, StepShape
    <3>2. d = c
      BY <2>3
    <3> HIDE DEF d
    <3> QED
      BY <3>1, <3>2
  <2>9. ASSUME NEW i \in 1..Len(f[n].records)
        PROVE  g[n].records[i] = FlippedRecord(at, f[n].records[i])
    <3>1. CASE i \in 1..c /\ ~(i = c /\ ~Opens(s, l))
      BY <2>3, <2>6, <2>7, <2>8, <3>1
    <3>2. CASE i \in 1..c /\ i = c /\ ~Opens(s, l)
      <4>1. s.records[c] \in Records
        <5>1. s.records \in Seq(Records) /\ c \in 1..Len(s.records)
          BY <2>2, <3>2 DEF ScanShape, c
        <5> QED
          BY <5>1
      <4>2. LastRecord(z, h, n, FlippedRecord(at, s.records[c])) = FlippedRecord(at, LastRecord(s, l, n, s.records[c]))
        BY <1>7, <2>2, <2>3, <2>5, <4>1, LastFlips DEF h
      <4> QED
        BY <2>3, <2>6, <2>7, <2>8, <3>2, <4>2
    <3>3. CASE i \notin 1..c
      <4>1. Opens(s, l) /\ i = c + 1
        BY <2>7, <3>3
      <4>2. h = l
        BY <2>4, <4>1 DEF Opens
      <4>3. l.of \in Names
        BY <2>2 DEF TextLines
      <4>4. NewRecord(l.of).meta.of["status"].is # "scalar"
        BY <4>3, NewRecordIs
      <4>5. FlippedRecord(at, NewRecord(l.of)) = NewRecord(l.of)
        BY <4>4 DEF FlippedRecord
      <4> QED
        BY <2>6, <2>7, <2>8, <4>1, <4>2, <4>5
    <3> QED
      BY <3>1, <3>2, <3>3
  <2>10. FlippedScan(at, f[n], g[n])
    BY <2>6, <2>7, <2>8, <2>9 DEF FlippedScan
  <2> QED
    BY <1>8, <2>10
<1> QED
  BY <1>9, <1>10

-----------------------------------------------------------------------------
(* A flip                                                                  *)

\* The envelope ends at a line of the text.
LEMMA EnvelopeIs ==
  ASSUME NEW t \in Seq(TextLines)
  PROVE  EnvelopeEnd(t) \in 0..Len(t) /\ Len(t) \in Nat
<1>1. Len(t) \in Nat
  OBVIOUS
<1>2. CASE Rules(t) # {}
  <2>1. Rules(t) \in SUBSET Nat /\ \A n \in Rules(t) : n \in 0..Len(t)
    BY <1>1 DEF Rules
  <2>2. \E n \in Rules(t) : \A j \in Rules(t) : n <= j
    BY <1>2, <2>1, LeastOf
  <2>3. FirstOf(Rules(t)) \in Rules(t)
    BY <2>2 DEF FirstOf
  <2> QED
    BY <1>1, <2>1, <2>3 DEF EnvelopeEnd
<1>3. CASE Rules(t) = {}
  BY <1>1, <1>3 DEF EnvelopeEnd
<1> QED
  BY <1>1, <1>2, <1>3

\* It is where it was when the lines are what they were.
LEMMA SameEnvelope ==
  ASSUME NEW t \in Seq(TextLines), NEW u \in Seq(TextLines), Len(u) = Len(t),
         \A n \in 1..Len(t) : u[n].is = t[n].is
  PROVE  EnvelopeEnd(u) = EnvelopeEnd(t) /\ Rules(u) = Rules(t) /\ (HasEnvelope(u) <=> HasEnvelope(t))
<1>1. Len(t) \in Nat /\ \A n \in 2..Len(t) : n \in 1..Len(t)
  OBVIOUS
<1>2. Rules(u) = Rules(t)
  BY <1>1 DEF Rules
<1>3. HasEnvelope(u) <=> HasEnvelope(t)
  <2>1. u = <<>> <=> t = <<>>
    BY <1>1
  <2>2. t # <<>> => 1 \in 1..Len(t)
    BY <1>1
  <2> QED
    BY <2>1, <2>2 DEF HasEnvelope
<1> QED
  BY <1>2, <1>3 DEF EnvelopeEnd

\* Before the first header there is nothing to find: a scan from the first line is
\* one from the end of a plain envelope.
LEMMA ScanSkips ==
  ASSUME NEW t \in Seq(TextLines), PlainEnvelope(t)
  PROVE  Scan(t, 0) = Scan(t, EnvelopeEnd(t))
<1> DEFINE e == EnvelopeEnd(t)
<1>1. e \in 0..Len(t) /\ Len(t) \in Nat
  BY EnvelopeIs
<1>2. PICK f : Scans(t, 0, f) /\ Scan(t, 0) = f[Len(t)]
  BY <1>1, ScanBy
<1>3. PICK g : Scans(t, e, g) /\ Scan(t, e) = g[Len(t)]
  BY <1>1, ScanBy
<1>4. \A n \in 1..e : t[n].is # "header"
  BY DEF PlainEnvelope
<1> HIDE DEF e
<1> DEFINE Good(n) == f[n] = g[n] /\ (n <= e => f[n] = ScanFrom)
           Bad == {n \in 0..Len(t) : ~Good(n)}
<1>5. Good(0)
  BY <1>2, <1>3 DEF Scans
<1>6. Bad = {}
  <2> SUFFICES ASSUME Bad # {} PROVE FALSE
    OBVIOUS
  <2>1. Bad \in SUBSET Nat
    BY <1>1
  <2> HIDE DEF Bad
  <2>2. PICK n \in Bad : \A m \in Bad : n <= m
    BY <2>1, LeastOf
  <2> USE DEF Bad
  <2>3. n \in 1..Len(t) /\ n - 1 \in 0..Len(t) /\ n \in Nat /\ ~Good(n)
    <3> HIDE DEF Good
    <3> QED
      BY <1>1, <1>5, <2>2
  <2>4. Good(n - 1)
    <3> HIDE DEF Good
    <3> QED
      BY <2>2, <2>3
  <2> HIDE DEF Bad
  <2>5. f[n] = ScanStep(f[n - 1], t[n], n)
    BY <1>2, <2>3 DEF Scans
  <2>6. g[n] = IF n <= e THEN g[n - 1] ELSE ScanStep(g[n - 1], t[n], n)
    BY <1>3, <2>3 DEF Scans
  <2>7. CASE n <= e
    <3>1. f[n - 1] = ScanFrom /\ t[n].is # "header"
      BY <1>1, <1>4, <2>3, <2>4, <2>7
    <3>2. ScanStep(ScanFrom, t[n], n) = ScanFrom
      BY <3>1 DEF ScanStep, ScanFrom
    <3> QED
      BY <2>3, <2>4, <2>5, <2>6, <2>7, <3>1, <3>2
  <2>8. CASE ~(n <= e)
    BY <2>3, <2>4, <2>5, <2>6, <2>8
  <2> QED
    BY <2>7, <2>8
<1>7. Good(Len(t))
  BY <1>1, <1>6
<1> QED
  BY <1>2, <1>3, <1>7 DEF e

\* The status of a record, and when a flip rewrites it.
LEMMA FlippableIs ==
  ASSUME NEW r, NEW ids
  PROVE  /\ StatusOf(r) = IF r.meta.of["status"].is = "scalar" THEN r.meta.of["status"].of ELSE Nil
         /\ Flippable(r, ids) <=>
              /\ IdOf(r) \in ids /\ Coherent(r) /\ r.line # 0
              /\ StatusOf(r) \notin Disposed /\ StatusOf(r) # Nil
<1>1. StatusOf(r) = IF r.meta.of["status"].is = "scalar" THEN r.meta.of["status"].of ELSE Nil
  BY Zenon DEF StatusOf, Nil
<1>2. Flippable(r, ids) <=>
        /\ IdOf(r) \in ids /\ Coherent(r) /\ r.line # 0
        /\ StatusOf(r) \notin Disposed \cup {Nil}
  BY Zenon DEF Flippable, Nil
<1> QED
  BY <1>1, <1>2

\* The status of a record, in terms that the provers share.
LEMMA StatusIs ==
  ASSUME NEW r
  PROVE  StatusOf(r) = IF r.meta.of["status"].is = "scalar" THEN r.meta.of["status"].of ELSE Nil
BY FlippableIs

\* The delta of a record that a flip rewrote.
LEMMA DeltaFlips ==
  ASSUME NEW at, NEW r \in Records, r.line \in at, NEW v,
         r.meta.of["status"] = [is |-> "scalar", of |-> v, items |-> <<>>]
  PROVE  /\ Delta(FlippedRecord(at, r)) =
              [Delta(r) EXCEPT !.status = "consolidated", !.meta["status"].of = "consolidated"]
         /\ IdOf(FlippedRecord(at, r)) = IdOf(r)
<1> DEFINE q == FlippedRecord(at, r)
<1>1. /\ q.header = r.header /\ q.body = r.body /\ q.meta = FlippedMeta(r.meta) /\ q \in Records
  BY FlippedIs
<1>2. /\ "status" \in Keys /\ "delta_id" \in Keys /\ r.meta.of = [j \in Keys |-> r.meta.of[j]]
  BY DEF Keys, Records, Metas
<1>3. q.meta.of = [j \in Keys |-> IF j = "status" THEN Consolidated ELSE r.meta.of[j]]
  BY <1>1 DEF FlippedMeta
<1> HIDE DEF q
<1>4. q.meta.of["delta_id"] = r.meta.of["delta_id"]
  BY <1>2, <1>3
<1>5. IdOf(q) = IdOf(r)
  BY <1>1, <1>4 DEF IdOf
<1>6. StatusOf(q) = "consolidated"
  <2>1. q.meta.of["status"] = Consolidated
    BY <1>2, <1>3
  <2> QED
    BY <2>1, FlippableIs DEF Consolidated
<1>7. Delta(q) = [id |-> IdOf(r), header |-> r.header, meta |-> q.meta.of, status |-> "consolidated", body |-> r.body]
  BY <1>1, <1>5, <1>6 DEF Delta
<1>8. q.meta.of = [r.meta.of EXCEPT !["status"].of = "consolidated"]
  <2>1. [r.meta.of["status"] EXCEPT !.of = "consolidated"] = Consolidated
    BY DEF Consolidated
  <2>2. [r.meta.of EXCEPT !["status"].of = "consolidated"] = [r.meta.of EXCEPT !["status"] = Consolidated]
    BY <2>1
  <2> QED
    BY <1>2, <1>3, <2>2
<1>9. [Delta(r) EXCEPT !.status = "consolidated", !.meta["status"].of = "consolidated"] =
        [id |-> IdOf(r), header |-> r.header, meta |-> [r.meta.of EXCEPT !["status"].of = "consolidated"],
         status |-> "consolidated", body |-> r.body]
  <2> DEFINE m == r.meta.of  w == [m EXCEPT !["status"].of = "consolidated"]  d == Delta(r)
             x == [d EXCEPT !.status = "consolidated"]
  <2>1. d = [id |-> IdOf(r), header |-> r.header, meta |-> m, status |-> StatusOf(r), body |-> r.body]
    BY DEF Delta
  <2>2. [d EXCEPT !.status = "consolidated", !.meta["status"].of = "consolidated"] =
          [x EXCEPT !.meta = [d.meta EXCEPT !["status"].of = "consolidated"]]
    BY <2>1
  <2>3. d.meta = m
    BY <2>1
  <2>4. x = [id |-> IdOf(r), header |-> r.header, meta |-> m, status |-> "consolidated", body |-> r.body]
    BY <2>1
  <2> HIDE DEF d, x
  <2>5. [x EXCEPT !.meta = w] = [id |-> IdOf(r), header |-> r.header, meta |-> w, status |-> "consolidated", body |-> r.body]
    BY <2>4
  <2> QED
    BY <2>2, <2>3, <2>5 DEF d
<1> QED
  BY <1>5, <1>7, <1>8, <1>9 DEF q

\* The records of a text, and those that a flip of these ids rewrites.
RecordsOf(t) == Scan(t, EnvelopeEnd(t)).records
FlippableAt(t, ids) == {i \in 1..Len(RecordsOf(t)) : Flippable(RecordsOf(t)[i], ids)}
FlippedAt(t, ids) == {RecordsOf(t)[i].line : i \in FlippableAt(t, ids)}

\* The scan of a text: records, of which each that has a line to rewrite has one of its own.
LEMMA RecordsAre ==
  ASSUME NEW t \in Seq(TextLines)
  PROVE  /\ ScanShape(Scan(t, EnvelopeEnd(t)))
         /\ RecordsOf(t) \in Seq(Records)
         /\ \E f : /\ Scans(t, EnvelopeEnd(t), f) /\ Scan(t, EnvelopeEnd(t)) = f[Len(t)]
                   /\ \A i \in 1..Len(RecordsOf(t)) :
                        StatusKnown(t, EnvelopeEnd(t), f, Len(t), i, RecordsOf(t)[i])
<1> DEFINE e == EnvelopeEnd(t)
<1>1. Len(t) \in Nat /\ Len(t) \in 0..Len(t)
  OBVIOUS
<1>2. PICK f : Scans(t, e, f) /\ Scan(t, e) = f[Len(t)]
  BY <1>1, ScanBy
<1>3. ScanShape(Scan(t, e))
  <2>1. \A n \in 0..Len(t) : ScanShape(f[n])
    BY <1>2, ScanShapes
  <2> QED
    BY <1>1, <1>2, <2>1
<1>4. \A i \in 1..Len(f[Len(t)].records) : StatusKnown(t, e, f, Len(t), i, f[Len(t)].records[i])
  <2>1. \A n \in 0..Len(t) : \A i \in 1..Len(f[n].records) : StatusKnown(t, e, f, n, i, f[n].records[i])
    BY <1>2, StatusesKnown
  <2> QED
    BY <1>1, <2>1
<1> QED
  BY <1>2, <1>3, <1>4 DEF RecordsOf, ScanShape

\* A record is flipped when its line is rewritten: no other has that line.
LEMMA LinesTell ==
  ASSUME NEW t \in Seq(TextLines), NEW ids, NEW i \in 1..Len(RecordsOf(t))
  PROVE  RecordsOf(t)[i].line \in FlippedAt(t, ids) <=> i \in FlippableAt(t, ids)
<1> DEFINE rs == RecordsOf(t)
<1>1. PICK f : \A j \in 1..Len(rs) : StatusKnown(t, EnvelopeEnd(t), f, Len(t), j, rs[j])
  BY RecordsAre
<1> SUFFICES ASSUME NEW j \in FlippableAt(t, ids), rs[j].line = rs[i].line PROVE i = j
  BY DEF FlippedAt
<1>2. rs[j].line # 0 /\ j \in 1..Len(rs)
  BY FlippableIs DEF FlippableAt
<1>3. Len(f[rs[j].line - 1].records) = j /\ Len(f[rs[i].line - 1].records) = i
  BY <1>1, <1>2 DEF StatusKnown
<1> QED
  BY <1>3

\* Where a record is flipped.
LEMMA FlippedHere ==
  ASSUME NEW t \in Seq(TextLines), NEW ids, NEW i \in FlippableAt(t, ids)
  PROVE  LET r == RecordsOf(t)[i] IN
         /\ i \in 1..Len(RecordsOf(t)) /\ r \in Records /\ r.line \in 1..Len(t) /\ ~(r.line <= EnvelopeEnd(t))
         /\ IsStatus(t[r.line]) /\ t[r.line].of = StatusOf(r) /\ StatusOf(r) \notin Disposed
         /\ r.meta.of["status"] = [is |-> "scalar", of |-> StatusOf(r), items |-> <<>>]
         /\ IdOf(r) \in ids
<1> DEFINE r == RecordsOf(t)[i]
<1>1. i \in 1..Len(RecordsOf(t)) /\ Flippable(r, ids)
  BY DEF FlippableAt
<1>2. r \in Records
  <2>1. RecordsOf(t) \in Seq(Records)
    BY RecordsAre
  <2> QED
    BY <1>1, <2>1
<1>3. PICK f : StatusKnown(t, EnvelopeEnd(t), f, Len(t), i, r)
  BY <1>1, RecordsAre
<1> HIDE DEF r
<1>4. r.line # 0 /\ StatusOf(r) \notin Disposed /\ StatusOf(r) # Nil /\ IdOf(r) \in ids
  BY <1>1, FlippableIs
<1>5. r.meta.of["status"].is = "scalar" /\ StatusOf(r) = r.meta.of["status"].of
  BY <1>4, FlippableIs
<1>6. r.line \in 1..Len(t) /\ ~(r.line <= EnvelopeEnd(t)) /\ IsStatus(t[r.line])
  BY <1>3, <1>4 DEF StatusKnown
<1>7. r.meta.of["status"] = [is |-> "scalar", of |-> t[r.line].of, items |-> <<>>]
  BY <1>3, <1>5 DEF StatusKnown
<1>8. t[r.line].of = StatusOf(r)
  BY <1>5, <1>7
<1> QED
  BY <1>1, <1>2, <1>4, <1>6, <1>7, <1>8 DEF r

\* What flip_statuses finds and writes in a text with a plain envelope.
LEMMA FlipWrites ==
  ASSUME NEW t \in Seq(TextLines), NEW ids, PlainEnvelope(t)
  PROVE  /\ Flipping(t, ids) = {RecordsOf(t)[i] : i \in FlippableAt(t, ids)}
         /\ FlipStatuses(t, ids) = FlippedText(FlippedAt(t, ids), t)
<1> DEFINE rs == RecordsOf(t)
<1>1. Scan(t, 0).records = rs
  BY ScanSkips DEF RecordsOf
<1>2. DOMAIN rs = 1..Len(rs)
  <2>1. rs \in Seq(Records)
    BY RecordsAre
  <2> QED
    BY <2>1
<1>3. Flipping(t, ids) = {rs[i] : i \in FlippableAt(t, ids)}
  BY <1>1, <1>2 DEF Flipping, FlippableAt
<1>4. {r.line : r \in Flipping(t, ids)} = FlippedAt(t, ids)
  BY <1>3 DEF FlippedAt
<1>5. FlipStatuses(t, ids) = FlippedText(FlippedAt(t, ids), t)
  BY <1>4, Zenon DEF FlipStatuses, FlippedText, FlippedLine
<1> QED
  BY <1>3, <1>5

\* The records of the text that a flip wrote.
LEMMA FlippedRecords ==
  ASSUME NEW t \in Seq(TextLines), NEW ids, PlainEnvelope(t)
  PROVE  LET u == FlipStatuses(t, ids) IN
         /\ u \in Seq(TextLines) /\ Len(u) = Len(t) /\ EnvelopeEnd(u) = EnvelopeEnd(t)
         /\ Len(RecordsOf(u)) = Len(RecordsOf(t))
         /\ \A i \in 1..Len(RecordsOf(t)) : RecordsOf(u)[i] = FlippedRecord(FlippedAt(t, ids), RecordsOf(t)[i])
<1> DEFINE at == FlippedAt(t, ids)  u == FlippedText(at, t)  e == EnvelopeEnd(t)
<1>1. FlipStatuses(t, ids) = u
  BY FlipWrites
<1>2. u \in Seq(TextLines) /\ Len(u) = Len(t) /\ \A n \in 1..Len(t) : u[n] = FlippedLine(at, t[n], n)
  BY FlippedLines
<1>3. PICK f : /\ Scans(t, e, f) /\ Scan(t, e) = f[Len(t)]
               /\ \A i \in 1..Len(RecordsOf(t)) : StatusKnown(t, e, f, Len(t), i, RecordsOf(t)[i])
  BY RecordsAre
<1>4. \A n \in 1..Len(t) : n \in at => ~(n <= e) /\ f[n - 1].at = "meta" /\ IsStatus(t[n])
  <2> SUFFICES ASSUME NEW i \in FlippableAt(t, ids), NEW n \in 1..Len(t), n = RecordsOf(t)[i].line
               PROVE  ~(n <= e) /\ f[n - 1].at = "meta" /\ IsStatus(t[n])
    BY DEF FlippedAt
  <2>1. i \in 1..Len(RecordsOf(t))
    BY DEF FlippableAt
  <2>2. n # 0
    OBVIOUS
  <2> QED
    BY <1>3, <2>1, <2>2 DEF StatusKnown
<1>5. \A n \in 1..Len(t) : u[n].is = t[n].is
  BY <1>2, <1>4 DEF FlippedLine, Status, Line, IsStatus
<1>6. EnvelopeEnd(u) = e
  BY <1>2, <1>5, SameEnvelope
<1>7. Len(t) \in Nat
  OBVIOUS
<1> HIDE DEF u, at, e
<1>8. PICK g : Scans(u, e, g) /\ Scan(u, e) = g[Len(u)]
  BY <1>2, <1>7, ScanBy
<1>9. FlippedScan(at, f[Len(t)], g[Len(t)])
  BY <1>3, <1>4, <1>7, <1>8, FlipScans DEF u
<1>10. RecordsOf(u) = g[Len(t)].records /\ RecordsOf(t) = f[Len(t)].records
  BY <1>2, <1>3, <1>6, <1>8 DEF RecordsOf, e
<1>11. /\ Len(RecordsOf(u)) = Len(RecordsOf(t))
       /\ \A i \in 1..Len(RecordsOf(t)) : RecordsOf(u)[i] = FlippedRecord(at, RecordsOf(t)[i])
  BY <1>9, <1>10 DEF FlippedScan
<1> QED
  BY <1>1, <1>2, <1>6, <1>11 DEF at, e

\* Of deltas and of these deltas where some are flipped.
DeltasFlip(K, rs, ds, es) ==
  /\ DOMAIN ds = 1..Len(rs) /\ DOMAIN es = 1..Len(rs)
  /\ Len(es) = Len(rs) /\ Len(rs) \in Nat
  /\ \A i \in 1..Len(rs) : ds[i] = Delta(rs[i]) /\ ds[i].id = IdOf(rs[i]) /\ es[i].id = ds[i].id
  /\ \A i \in K :
       /\ ds[i].status \notin Disposed
       /\ es[i] = [ds[i] EXCEPT !.status = "consolidated", !.meta["status"].of = "consolidated"]
       /\ es[i].status = "consolidated"
  /\ \A i \in 1..Len(rs) : i \notin K => es[i] = ds[i]

\* The deltas of the text that a flip wrote: each that it flipped reads consolidated, the
\* others are what they were.
LEMMA FlippedDeltas ==
  ASSUME NEW t \in Seq(TextLines), NEW ids, PlainEnvelope(t)
  PROVE  DeltasFlip(FlippableAt(t, ids), RecordsOf(t), Deltas(t), Deltas(FlipStatuses(t, ids)))
<1> DEFINE u == FlipStatuses(t, ids)  at == FlippedAt(t, ids)  rs == RecordsOf(t)  qs == RecordsOf(u)
<1>1. u \in Seq(TextLines) /\ Len(qs) = Len(rs) /\ \A i \in 1..Len(rs) : qs[i] = FlippedRecord(at, rs[i])
  BY FlippedRecords
<1>2. rs \in Seq(Records) /\ qs \in Seq(Records)
  BY <1>1, RecordsAre
<1>3. Deltas(t) = [i \in DOMAIN rs |-> Delta(rs[i])] /\ Deltas(u) = [i \in DOMAIN qs |-> Delta(qs[i])]
  BY Zenon DEF Deltas, RecordsOf
<1>4. \A i \in 1..Len(rs) : rs[i].line \in at <=> i \in FlippableAt(t, ids)
  BY LinesTell
<1> HIDE DEF u, at, rs, qs
<1>5. DOMAIN rs = 1..Len(rs) /\ DOMAIN qs = 1..Len(rs) /\ Len(rs) \in Nat /\ \A i \in 1..Len(rs) : rs[i] \in Records
  BY <1>1, <1>2
<1>6. /\ DOMAIN Deltas(t) = 1..Len(rs) /\ DOMAIN Deltas(u) = 1..Len(rs) /\ Len(Deltas(u)) = Len(rs)
      /\ \A i \in 1..Len(rs) : Deltas(t)[i] = Delta(rs[i]) /\ Deltas(u)[i] = Delta(qs[i])
  BY <1>3, <1>5
<1>7. ASSUME NEW i \in 1..Len(rs), i \notin FlippableAt(t, ids)
      PROVE  Deltas(u)[i] = Deltas(t)[i]
  <2>1. qs[i] = rs[i]
    BY <1>1, <1>4, <1>7 DEF FlippedRecord
  <2> QED
    BY <1>6, <2>1
<1>8. ASSUME NEW i \in FlippableAt(t, ids)
      PROVE  /\ i \in 1..Len(rs)
             /\ Deltas(t)[i].status \notin Disposed
             /\ Deltas(u)[i] = [Deltas(t)[i] EXCEPT !.status = "consolidated", !.meta["status"].of = "consolidated"]
             /\ Deltas(u)[i].status = "consolidated" /\ Deltas(u)[i].id = Deltas(t)[i].id
  <2> DEFINE r == rs[i]
  <2>1. /\ i \in 1..Len(rs) /\ r \in Records /\ StatusOf(r) \notin Disposed
        /\ r.meta.of["status"] = [is |-> "scalar", of |-> StatusOf(r), items |-> <<>>]
    BY FlippedHere DEF rs
  <2>2. r.line \in at
    BY <1>4, <2>1
  <2>3. /\ Delta(FlippedRecord(at, r)) =
             [Delta(r) EXCEPT !.status = "consolidated", !.meta["status"].of = "consolidated"]
        /\ IdOf(FlippedRecord(at, r)) = IdOf(r)
    BY <2>1, <2>2, DeltaFlips
  <2>4. /\ Deltas(t)[i] = Delta(r) /\ Deltas(u)[i] = Delta(FlippedRecord(at, r))
    BY <1>1, <1>6, <2>1
  <2>5. Delta(r).status = StatusOf(r) /\ Delta(r).id = IdOf(r)
    BY DEF Delta
  <2>6. Delta(FlippedRecord(at, r)).id = IdOf(FlippedRecord(at, r))
    BY DEF Delta
  <2>7. Delta(FlippedRecord(at, r)).status = "consolidated"
    <3>1. FlippedRecord(at, r).meta.of["status"] = Consolidated
      <4>1. FlippedRecord(at, r).meta = FlippedMeta(r.meta)
        BY <2>1, <2>2, FlippedIs
      <4>2. "status" \in Keys
        BY DEF Keys
      <4> QED
        BY <4>1, <4>2 DEF FlippedMeta
    <3>2. StatusOf(FlippedRecord(at, r)) = "consolidated"
      <4> DEFINE q == FlippedRecord(at, r)
      <4>1. q.meta.of["status"] = Consolidated
        BY <3>1
      <4> HIDE DEF q
      <4>2. StatusOf(q) = "consolidated"
        BY <4>1, StatusIs DEF Consolidated
      <4> QED
        BY <4>2 DEF q
    <3> QED
      BY <3>2 DEF Delta
  <2> HIDE DEF r
  <2> QED
    BY <2>1, <2>3, <2>4, <2>5, <2>6, <2>7
<1>9. \A i \in 1..Len(rs) : Deltas(t)[i].id = IdOf(rs[i]) /\ Deltas(u)[i].id = Deltas(t)[i].id
  <2> SUFFICES ASSUME NEW i \in 1..Len(rs)
               PROVE  Deltas(t)[i].id = IdOf(rs[i]) /\ Deltas(u)[i].id = Deltas(t)[i].id
    OBVIOUS
  <2>1. Deltas(t)[i].id = IdOf(rs[i])
    BY <1>6 DEF Delta
  <2> QED
    BY <1>7, <1>8, <2>1
<1> DEFINE ds == Deltas(t)  es == Deltas(u)  K == FlippableAt(t, ids)
<1>10. DeltasFlip(K, rs, ds, es)
  <2>1. \A i \in K : es[i] = [ds[i] EXCEPT !.status = "consolidated", !.meta["status"].of = "consolidated"]
    BY <1>8
  <2>2. \A i \in K : ds[i].status \notin Disposed /\ es[i].status = "consolidated"
    BY <1>8
  <2>3. \A i \in 1..Len(rs) : ds[i] = Delta(rs[i]) /\ ds[i].id = IdOf(rs[i]) /\ es[i].id = ds[i].id
    BY <1>6, <1>9
  <2>4. \A i \in 1..Len(rs) : i \notin K => es[i] = ds[i]
    BY <1>7
  <2>5. /\ DOMAIN ds = 1..Len(rs) /\ DOMAIN es = 1..Len(rs)
        /\ Len(es) = Len(rs) /\ Len(rs) \in Nat
    BY <1>5, <1>6
  <2> HIDE DEF ds, es, K
  <2> QED
    BY <2>1, <2>2, <2>3, <2>4, <2>5, Zenon DEF DeltasFlip
<1> QED
  BY <1>10 DEF u, rs

\* The line witness, in terms that the provers share.
LEMMA LinesChangedIs ==
  ASSUME NEW t, NEW u, NEW n
  PROVE  LinesChangedOk(t, u, n) <=>
           LET changed == {m \in DOMAIN t : u[m] # t[m]} IN
           /\ Len(t) = Len(u)
           /\ \A m \in changed : IsStatus(t[m]) /\ u[m] = Status("consolidated")
           /\ Cardinality(changed) <= n
<1>1. \A l : IsStatus(l) <=> l.is = "status" /\ l.of # ""
  BY Zenon DEF IsStatus, Blank, Nil
<1> QED
  BY <1>1, Zenon DEF LinesChangedOk

\* A flip changes one line for each delta that it flips, and that line is a status.
LEMMA WitnessAccepts ==
  ASSUME NEW t \in Seq(TextLines), NEW ids, PlainEnvelope(t)
  PROVE  LinesChangedOk(t, FlipStatuses(t, ids), Cardinality(FlippableAt(t, ids)))
<1> DEFINE at == FlippedAt(t, ids)  u == FlipStatuses(t, ids)  K == FlippableAt(t, ids)  rs == RecordsOf(t)
           changed == {m \in DOMAIN t : u[m] # t[m]}
<1>1. u = FlippedText(at, t)
  BY FlipWrites
<1>2. Len(u) = Len(t) /\ DOMAIN t = 1..Len(t) /\ \A n \in 1..Len(t) : u[n] = FlippedLine(at, t[n], n)
  BY <1>1, FlippedLines
<1>3. \A m \in changed : m \in at /\ u[m] = Status("consolidated")
  BY <1>2 DEF FlippedLine
<1>4. \A m \in at : IsStatus(t[m])
  <2> SUFFICES ASSUME NEW i \in K PROVE IsStatus(t[rs[i].line])
    BY DEF FlippedAt
  <2> QED
    BY FlippedHere
<1>5. IsFiniteSet(K)
  <2>1. Len(rs) \in Nat
    BY FlippedDeltas DEF DeltasFlip
  <2>2. IsFiniteSet(1..Len(rs))
    BY <2>1, FS_Interval
  <2> QED
    BY <2>2, FS_Subset DEF FlippableAt
<1>6. IsFiniteSet(at) /\ Cardinality(at) <= Cardinality(K)
  <2> DEFINE f == [i \in K |-> rs[i].line]
  <2>1. f \in Surjection(K, at)
    <3>1. f \in [K -> at]
      BY DEF FlippedAt
    <3>2. \A m \in at : \E i \in K : f[i] = m
      BY DEF FlippedAt
    <3> HIDE DEF f, at, K
    <3> QED
      BY <3>1, <3>2 DEF Surjection
  <2> HIDE DEF f, at, K
  <2> QED
    BY <1>5, <2>1, FS_Surjection
<1>7. IsFiniteSet(changed) /\ Cardinality(changed) <= Cardinality(at)
  <2>1. changed \in SUBSET at
    BY <1>3
  <2> HIDE DEF changed, at
  <2> QED
    BY <1>6, <2>1, FS_Subset
<1>8. Cardinality(changed) <= Cardinality(K)
  <2>1. Cardinality(changed) \in Nat /\ Cardinality(at) \in Nat /\ Cardinality(K) \in Nat
    BY <1>5, <1>6, <1>7, FS_CardinalityType
  <2> HIDE DEF changed, at, K
  <2> QED
    BY <1>6, <1>7, <2>1
<1>9. \A m \in changed : IsStatus(t[m]) /\ u[m] = Status("consolidated")
  BY <1>3, <1>4
<1> QED
  BY <1>2, <1>8, <1>9, LinesChangedIs, Zenon

\* The batch projects the bytes that the flip writes.
LEMMA FlipProjected ==
  ASSUME NEW t \in Seq(TextLines), NEW ids, PlainEnvelope(t)
  PROVE  Projected(t, {Deltas(t)[i].id : i \in FlippableAt(t, ids)}) = FlipStatuses(t, ids)
<1> DEFINE rs == RecordsOf(t)  K == FlippableAt(t, ids)
           I == {Deltas(t)[i].id : i \in K}
           J == I \cap {d.id : d \in {e \in DeltaSet(t) : e.status # "consolidated"}}
<1>1. /\ DOMAIN Deltas(t) = 1..Len(rs)
      /\ \A i \in 1..Len(rs) : Deltas(t)[i].id = IdOf(rs[i])
      /\ \A i \in K : Deltas(t)[i].status \notin Disposed /\ i \in 1..Len(rs)
  <2> DEFINE ds == Deltas(t)  es == Deltas(FlipStatuses(t, ids))
  <2>1. DeltasFlip(K, rs, ds, es) /\ K \subseteq 1..Len(rs)
    BY FlippedDeltas DEF FlippableAt
  <2> HIDE DEF K, rs, ds, es
  <2>2. /\ DOMAIN ds = 1..Len(rs) /\ \A i \in 1..Len(rs) : ds[i].id = IdOf(rs[i])
        /\ \A i \in K : ds[i].status \notin Disposed /\ i \in 1..Len(rs)
    BY <2>1 DEF DeltasFlip
  <2> QED
    BY <2>2 DEF ds
<1>2. J = I
  <2> SUFFICES ASSUME NEW i \in K
               PROVE  \E e \in DeltaSet(t) : e.status # "consolidated" /\ e.id = Deltas(t)[i].id
    OBVIOUS
  <2>1. Deltas(t)[i] \in DeltaSet(t)
    BY <1>1 DEF DeltaSet
  <2>2. Deltas(t)[i].status # "consolidated"
    BY <1>1 DEF Disposed
  <2> QED
    BY <2>1, <2>2
<1>3. Projected(t, I) = FlipStatuses(t, J)
  BY Zenon DEF Projected
<1>4. FlippableAt(t, I) = K
  <2>1. ASSUME NEW i \in 1..Len(rs), Flippable(rs[i], ids)
        PROVE  Flippable(rs[i], I)
    <3>1. i \in K /\ Deltas(t)[i].id = IdOf(rs[i])
      BY <1>1, <2>1 DEF FlippableAt
    <3>2. IdOf(rs[i]) \in I
      BY <3>1
    <3> QED
      BY <2>1, <3>2, FlippableIs
  <2>2. ASSUME NEW i \in 1..Len(rs), Flippable(rs[i], I)
        PROVE  Flippable(rs[i], ids)
    <3>1. IdOf(rs[i]) \in I
      BY <2>2, FlippableIs
    <3>2. PICK j \in K : IdOf(rs[i]) = Deltas(t)[j].id
      BY <3>1
    <3>3. IdOf(rs[i]) \in ids
      BY <1>1, <3>2, FlippedHere
    <3> QED
      BY <2>2, <3>3, FlippableIs
  <2> HIDE DEF I
  <2> QED
    BY <2>1, <2>2 DEF FlippableAt
<1>5. FlipStatuses(t, I) = FlipStatuses(t, ids)
  <2>1. FlippedAt(t, I) = FlippedAt(t, ids)
    <3> HIDE DEF I
    <3> QED
      BY <1>4 DEF FlippedAt
  <2> HIDE DEF I
  <2> QED
    BY <2>1, FlipWrites
<1> QED
  BY <1>2, <1>3, <1>5

\* After the flip of a manifest that the preflight accepted, no id of it is missing.
LEMMA FlipIsRead ==
  ASSUME NEW t \in Seq(TextLines), NEW ids, PlainEnvelope(t), Promotable(t, ids)
  PROVE  NotConsolidated(FlipStatuses(t, ids), ids) = {}
<1> DEFINE rs == RecordsOf(t)  u == FlipStatuses(t, ids)
<1>1. /\ DOMAIN Deltas(t) = 1..Len(rs) /\ DOMAIN Deltas(u) = 1..Len(rs) /\ Len(Deltas(u)) = Len(rs) /\ Len(rs) \in Nat
      /\ \A i \in 1..Len(rs) : Deltas(t)[i].id = IdOf(rs[i]) /\ Deltas(u)[i].id = Deltas(t)[i].id
      /\ \A i \in FlippableAt(t, ids) : Deltas(u)[i].status = "consolidated"
  <2> DEFINE K == FlippableAt(t, ids)  ds == Deltas(t)  es == Deltas(u)
  <2>1. DeltasFlip(K, rs, ds, es)
    BY FlippedDeltas
  <2> HIDE DEF K, rs, ds, es
  <2>2. /\ DOMAIN ds = 1..Len(rs) /\ DOMAIN es = 1..Len(rs) /\ Len(es) = Len(rs) /\ Len(rs) \in Nat
        /\ \A i \in 1..Len(rs) : ds[i].id = IdOf(rs[i]) /\ es[i].id = ds[i].id
        /\ \A i \in K : es[i].status = "consolidated"
    BY <2>1 DEF DeltasFlip
  <2> QED
    BY <2>2 DEF ds, es, K
<1> HIDE DEF u
<1> SUFFICES ASSUME NEW x \in ids
             PROVE  \E k \in DOMAIN Deltas(u) :
                      /\ Deltas(u)[k].id = x /\ Deltas(u)[k].status = "consolidated"
                      /\ \A j \in k + 1..Len(Deltas(u)) : Deltas(u)[j].id # x
  BY DEF NotConsolidated, u
<1>2. x \in FlipReport(t, ids) /\ Cardinality({k \in DOMAIN Deltas(t) : Deltas(t)[k].id = x}) = 1
  BY DEF Promotable
<1>3. PICK k \in FlippableAt(t, ids) : IdOf(rs[k]) = x
  <2>1. Flipping(t, ids) = {rs[i] : i \in FlippableAt(t, ids)}
    BY FlipWrites
  <2> QED
    BY <1>2, <2>1 DEF FlipReport
<1>4. k \in 1..Len(rs)
  BY DEF FlippableAt
<1> DEFINE S == {i \in 1..Len(rs) : Deltas(t)[i].id = x}
<1>5. PICK y : S = {y}
  <2>1. Cardinality(S) = 1
    BY <1>1, <1>2
  <2>2. IsFiniteSet(1..Len(rs)) /\ S \in SUBSET (1..Len(rs))
    BY <1>1, FS_Interval
  <2> HIDE DEF S
  <2>3. IsFiniteSet(S)
    BY <2>2, FS_Subset
  <2> QED
    BY <2>1, <2>3, FS_Singleton
<1>6. ASSUME NEW j \in k + 1..Len(rs)
      PROVE  Deltas(u)[j].id # x
  <2>1. j \in 1..Len(rs) /\ j # k
    BY <1>1, <1>4
  <2>2. k \in S
    BY <1>1, <1>3, <1>4
  <2>3. j \notin S
    <3> HIDE DEF S
    <3> QED
      BY <1>5, <2>1, <2>2
  <2> QED
    BY <1>1, <2>1, <2>3
<1> QED
  BY <1>1, <1>3, <1>4, <1>6

\* What FlipsLand says of a flip.
LEMMA FlipDoes ==
  ASSUME live \in Seq(TextLines), PlainEnvelope(live), NEW ids, Flip(ids)
  PROVE  /\ issue' = issue
         /\ DOMAIN Deltas(live') = DOMAIN Deltas(live)
         /\ \A k \in Flipped :
              LET d == Deltas(live)[k] IN
              /\ d.status \notin Disposed
              /\ Deltas(live')[k] = [d EXCEPT !.status = "consolidated", !.meta["status"].of = "consolidated"]
         /\ LinesChangedOk(live, live', Cardinality(Flipped))
         /\ Projected(live, {Deltas(live)[k].id : k \in Flipped}) = live'
<1> DEFINE t == live  u == FlipStatuses(t, ids)  K == FlippableAt(t, ids)  rs == RecordsOf(t)
<1>1. live' = u /\ Promotable(t, ids) /\ issue' = IF NotConsolidated(live', ids) = {} THEN issue ELSE "yes"
  BY DEF Flip
<1>2. issue' = issue
  <2>1. NotConsolidated(u, ids) = {}
    BY <1>1, FlipIsRead
  <2> QED
    BY <1>1, <2>1
<1> DEFINE ds == Deltas(t)  es == Deltas(u)
<1>3. DeltasFlip(K, rs, ds, es) /\ K \subseteq 1..Len(rs)
  BY FlippedDeltas DEF FlippableAt
<1>4. Flipped = {k \in DOMAIN ds : es[k] # ds[k]}
  BY <1>1 DEF Flipped
<1>5. LinesChangedOk(t, u, Cardinality(K))
  BY WitnessAccepts
<1>6. Projected(t, {ds[i].id : i \in K}) = u
  BY FlipProjected
<1>7. Deltas(live') = es
  BY <1>1
<1> HIDE DEF u, K, rs, ds, es
<1>8. Flipped = K
  <2>1. DOMAIN ds = 1..Len(rs) /\ \A i \in 1..Len(rs) : i \notin K => es[i] = ds[i]
    BY <1>3 DEF DeltasFlip
  <2>2. \A i \in K : es[i].status = "consolidated" /\ ds[i].status # "consolidated"
    BY <1>3 DEF DeltasFlip, Disposed
  <2> QED
    BY <1>3, <1>4, <2>1, <2>2
<1>9. DOMAIN Deltas(live') = DOMAIN Deltas(live)
  BY <1>3, <1>7 DEF DeltasFlip, ds
<1>10. ASSUME NEW k \in Flipped
       PROVE  /\ ds[k].status \notin Disposed
              /\ es[k] = [ds[k] EXCEPT !.status = "consolidated", !.meta["status"].of = "consolidated"]
  BY <1>3, <1>8, <1>10, Zenon DEF DeltasFlip
<1>11. \A k \in Flipped :
         LET d == Deltas(live)[k] IN
         /\ d.status \notin Disposed
         /\ Deltas(live')[k] = [d EXCEPT !.status = "consolidated", !.meta["status"].of = "consolidated"]
  BY <1>7, <1>10, Zenon DEF ds
<1>12. LinesChangedOk(live, live', Cardinality(Flipped))
  BY <1>1, <1>5, <1>8
<1>13. Projected(live, {Deltas(live)[k].id : k \in Flipped}) = live'
  BY <1>1, <1>6, <1>8, Zenon DEF ds
<1> QED
  BY <1>2, <1>9, <1>11, <1>12, <1>13, Zenon

-----------------------------------------------------------------------------
(* The deltas that an archive file takes over                              *)

\* The scan of delta_section.
DepthStep(d, l, n) ==
  IF d.start # 0 THEN d
  ELSE IF l.is = "fence" THEN [d EXCEPT !.depth = 1 - @]
  ELSE IF l.is = "header" /\ d.depth = 0 THEN [d EXCEPT !.start = n] ELSE d

Depths(t, f) ==
  /\ f[0] = [depth |-> 0, start |-> 0]
  /\ \A n \in 1..Len(t) : f[n] = DepthStep(f[n - 1], t[n], n)

\* The recursion of SectionStart has a value.
LEMMA SectionBy ==
  ASSUME NEW t, Len(t) \in Nat
  PROVE  \E f : Depths(t, f) /\ SectionStart(t) = f[Len(t)].start
<1> DEFINE Of(f, n) == IF n = 0 THEN [depth |-> 0, start |-> 0] ELSE DepthStep(f[n - 1], t[n], n)
           Is(m, f) == f = [n \in 0..m |-> Of(f, n)]
           Bad == {m \in Nat : \A f : ~Is(m, f)}
<1>1. Bad = {}
  <2> SUFFICES ASSUME Bad # {} PROVE FALSE
    OBVIOUS
  <2>1. PICK m \in Bad : \A j \in Bad : m <= j
    BY LeastOf
  <2>2. m # 0
    <3>1. Is(0, [n \in 0..0 |-> [depth |-> 0, start |-> 0]])
      OBVIOUS
    <3> QED
      BY <2>1, <3>1
  <2>3. m - 1 \in Nat /\ m - 1 \notin Bad
    <3>1. m \in Nat
      BY <2>1
    <3> HIDE DEF Bad
    <3> QED
      BY <2>1, <2>2, <3>1
  <2>4. PICK f : Is(m - 1, f)
    BY <2>3
  <2> DEFINE g == [n \in 0..m |-> IF n = m THEN Of(f, m) ELSE f[n]]
  <2>5. \A n \in 0..m : Of(g, n) = Of(f, n)
    <3> SUFFICES ASSUME NEW n \in 0..m, n # 0 PROVE g[n - 1] = f[n - 1]
      BY DEF Of
    <3>1. n - 1 \in 0..m /\ n - 1 # m
      BY <2>1
    <3> HIDE DEF Of
    <3> QED
      BY <3>1
  <2>6. Is(m, g)
    <3> HIDE DEF Of
    <3>1. \A n \in 0..m - 1 : f[n] = Of(f, n)
      BY <2>4
    <3>2. \A n \in 0..m : g[n] = Of(f, n)
      BY <2>1, <3>1
    <3>3. g = [n \in 0..m |-> g[n]]
      OBVIOUS
    <3> HIDE DEF g
    <3> QED
      BY <2>5, <3>2, <3>3
  <2> QED
    BY <2>1, <2>6
<1>2. \E f : Is(Len(t), f)
  BY <1>1
<1> DEFINE f == CHOOSE f : Is(Len(t), f)
<1>3. SectionStart(t) = f[Len(t)].start
  BY Zenon DEF SectionStart, Through, DepthStep
<1>4. Is(Len(t), f)
  BY <1>2, Zenon
<1> HIDE DEF f
<1>5. Depths(t, f)
  <2>1. \A n \in 0..Len(t) : f[n] = Of(f, n)
    <3> HIDE DEF Of
    <3> QED
      BY <1>4
  <2>2. 0 \in 0..Len(t) /\ \A n \in 1..Len(t) : n \in 0..Len(t) /\ n # 0
    OBVIOUS
  <2> QED
    BY <2>1, <2>2 DEF Depths
<1> QED
  BY <1>3, <1>5

\* The deltas of a text begin at a line of it.
LEMMA SectionIs ==
  ASSUME NEW t \in Seq(TextLines)
  PROVE  SectionStart(t) \in 0..Len(t)
<1>1. Len(t) \in Nat
  OBVIOUS
<1>2. PICK f : Depths(t, f) /\ SectionStart(t) = f[Len(t)].start
  BY <1>1, SectionBy
<1> DEFINE Good(n) == f[n] = [depth |-> f[n].depth, start |-> f[n].start] /\ f[n].start \in 0..n
           Bad == {n \in 0..Len(t) : ~Good(n)}
<1>3. Good(0)
  BY <1>2 DEF Depths
<1>4. Bad = {}
  <2> SUFFICES ASSUME Bad # {} PROVE FALSE
    OBVIOUS
  <2>1. Bad \in SUBSET Nat
    BY <1>1
  <2> HIDE DEF Bad
  <2>2. PICK n \in Bad : \A m \in Bad : n <= m
    BY <2>1, LeastOf
  <2> USE DEF Bad
  <2>3. n \in 1..Len(t) /\ n - 1 \in 0..Len(t) /\ n \in Nat /\ ~Good(n)
    <3> HIDE DEF Good
    <3> QED
      BY <1>1, <1>3, <2>2
  <2>4. Good(n - 1)
    <3> HIDE DEF Good
    <3> QED
      BY <2>2, <2>3
  <2> HIDE DEF Bad
  <2>5. f[n] = DepthStep(f[n - 1], t[n], n)
    BY <1>2, <2>3 DEF Depths
  <2> DEFINE d == f[n - 1]
  <2>6. d = [depth |-> d.depth, start |-> d.start] /\ d.start \in 0..n - 1
    BY <2>4
  <2> HIDE DEF d
  <2>7. f[n] \in {d, [depth |-> 1 - d.depth, start |-> d.start], [depth |-> d.depth, start |-> n]}
    BY <2>5, <2>6 DEF DepthStep, d
  <2> QED
    BY <2>3, <2>6, <2>7
<1>5. Good(Len(t))
  BY <1>1, <1>4
<1> QED
  BY <1>2, <1>5

\* Where the preamble is plain they begin at the first header.
LEMMA SectionFirst ==
  ASSUME NEW t \in Seq(TextLines), PlainPreamble(t), SectionStart(t) # 0
  PROVE  /\ SectionStart(t) \in 1..Len(t) /\ t[SectionStart(t)].is = "header"
         /\ \A j \in 1..SectionStart(t) - 1 : t[j].is # "header"
<1>1. Len(t) \in Nat /\ DOMAIN t = 1..Len(t) /\ EnvelopeEnd(t) \in Nat
  BY EnvelopeIs
<1>2. PICK f : Depths(t, f) /\ SectionStart(t) = f[Len(t)].start
  BY <1>1, SectionBy
<1>3. \A n \in 1..Len(t) : t[n].is = "fence" => \E k \in 1..n - 1 : t[k].is = "header"
  <2> SUFFICES ASSUME NEW n \in 1..Len(t), t[n].is = "fence" PROVE \E k \in 1..n - 1 : t[k].is = "header"
    OBVIOUS
  <2>1. PICK k \in EnvelopeEnd(t) + 1..n - 1 : t[k].is = "header"
    BY <1>1 DEF PlainPreamble, FenceLike
  <2> QED
    BY <1>1, <2>1
<1> DEFINE Good(n) ==
             /\ f[n] = [depth |-> f[n].depth, start |-> f[n].start]
             /\ IF f[n].start = 0 THEN f[n].depth = 0 /\ \A j \in 1..n : t[j].is # "header"
                ELSE f[n].start \in 1..n /\ t[f[n].start].is = "header" /\ \A j \in 1..f[n].start - 1 : t[j].is # "header"
           Bad == {n \in 0..Len(t) : ~Good(n)}
<1>4. Good(0)
  BY <1>2 DEF Depths
<1>5. Bad = {}
  <2> SUFFICES ASSUME Bad # {} PROVE FALSE
    OBVIOUS
  <2>1. Bad \in SUBSET Nat
    BY <1>1
  <2> HIDE DEF Bad
  <2>2. PICK n \in Bad : \A m \in Bad : n <= m
    BY <2>1, LeastOf
  <2> USE DEF Bad
  <2>3. n \in 1..Len(t) /\ n - 1 \in 0..Len(t) /\ n \in Nat \ {0} /\ ~Good(n)
    <3> HIDE DEF Good
    <3> QED
      BY <1>1, <1>4, <2>2
  <2>4. Good(n - 1)
    <3> HIDE DEF Good
    <3> QED
      BY <2>2, <2>3
  <2> HIDE DEF Bad
  <2> DEFINE d == f[n - 1]
  <2>5. f[n] = DepthStep(d, t[n], n)
    BY <1>2, <2>3 DEF Depths
  <2>6. d = [depth |-> d.depth, start |-> d.start]
    BY <2>4
  <2>7. CASE d.start # 0
    <3>1. f[n] = d
      BY <2>5, <2>7 DEF DepthStep
    <3>2. d.start \in 1..n
      BY <2>3, <2>4, <2>7
    <3> QED
      BY <2>3, <2>4, <2>7, <3>1, <3>2
  <2>8. CASE d.start = 0
    <3>1. d.depth = 0 /\ \A j \in 1..n - 1 : t[j].is # "header"
      BY <2>4, <2>8
    <3>2. t[n].is # "fence"
      BY <1>3, <2>3, <3>1
    <3>3. CASE t[n].is = "header"
      <4>1. f[n] = [depth |-> 0, start |-> n]
        BY <2>5, <2>6, <2>8, <3>1, <3>2, <3>3 DEF DepthStep
      <4> QED
        BY <2>3, <3>1, <3>3, <4>1
    <3>4. CASE t[n].is # "header"
      <4>1. f[n] = d
        BY <2>5, <2>8, <3>2, <3>4 DEF DepthStep
      <4>2. \A j \in 1..n : j \in 1..n - 1 \/ j = n
        BY <2>3
      <4> QED
        BY <2>3, <2>6, <2>8, <3>1, <3>4, <4>1, <4>2
    <3> QED
      BY <3>3, <3>4
  <2> QED
    BY <2>7, <2>8
<1>6. Good(Len(t))
  BY <1>1, <1>5
<1> QED
  BY <1>1, <1>2, <1>6

\* Two texts that begin with the same lines are scanned alike there.
LEMMA PrefixScans ==
  ASSUME NEW t \in Seq(TextLines), NEW u \in Seq(TextLines), NEW k, NEW f, NEW g, Scans(t, k, f), Scans(u, k, g),
         NEW a \in Nat, a <= Len(t), a <= Len(u), \A n \in 1..a : u[n] = t[n]
  PROVE  \A n \in 0..a : g[n] = f[n]
<1> DEFINE Bad == {n \in 0..a : g[n] # f[n]}
<1>1. Len(t) \in Nat /\ Len(u) \in Nat /\ g[0] = f[0]
  BY DEF Scans
<1> SUFFICES ASSUME Bad # {} PROVE FALSE
  OBVIOUS
<1>2. Bad \in SUBSET Nat
  OBVIOUS
<1> HIDE DEF Bad
<1>3. PICK n \in Bad : \A m \in Bad : n <= m
  BY <1>2, LeastOf
<1> USE DEF Bad
<1>4. n \in 1..a /\ n - 1 \in 0..a /\ n \in 1..Len(t) /\ n \in 1..Len(u) /\ n \in Nat
  BY <1>1, <1>3
<1>5. g[n - 1] = f[n - 1] /\ u[n] = t[n] /\ g[n] # f[n]
  BY <1>3, <1>4
<1> HIDE DEF Bad
<1> QED
  BY <1>4, <1>5 DEF Scans

\* Where no header is, nothing is found.
LEMMA HeaderlessScan ==
  ASSUME NEW t \in Seq(TextLines), NEW k, NEW f, Scans(t, k, f),
         NEW a \in Nat, a <= Len(t), \A n \in 1..a : t[n].is # "header"
  PROVE  \A n \in 0..a : f[n] = ScanFrom
<1> DEFINE Bad == {n \in 0..a : f[n] # ScanFrom}
<1>1. Len(t) \in Nat /\ f[0] = ScanFrom
  BY DEF Scans
<1> SUFFICES ASSUME Bad # {} PROVE FALSE
  OBVIOUS
<1>2. Bad \in SUBSET Nat
  OBVIOUS
<1> HIDE DEF Bad
<1>3. PICK n \in Bad : \A m \in Bad : n <= m
  BY <1>2, LeastOf
<1> USE DEF Bad
<1>4. n \in 1..a /\ n - 1 \in 0..a /\ n \in 1..Len(t) /\ n \in Nat
  BY <1>1, <1>3
<1>5. f[n - 1] = ScanFrom /\ t[n].is # "header" /\ f[n] # ScanFrom
  BY <1>3, <1>4
<1> HIDE DEF Bad
<1>6. ScanStep(ScanFrom, t[n], n) = ScanFrom
  BY <1>5 DEF ScanStep, ScanFrom
<1> QED
  BY <1>4, <1>5, <1>6 DEF Scans

\* Records that are one delta: where they stand is not part of it.
SameDelta(r, q) == q.header = r.header /\ q.meta = r.meta /\ q.body = r.body

\* Their reader sees no difference.
LEMMA SameDeltas ==
  ASSUME NEW r, NEW q, SameDelta(r, q)
  PROVE  Delta(q) = Delta(r)
<1>1. IdOf(q) = IdOf(r)
  BY DEF SameDelta, IdOf
<1>2. StatusOf(q) = StatusOf(r)
  BY StatusIs DEF SameDelta
<1> QED
  BY <1>1, <1>2 DEF SameDelta, Delta

\* A scan that goes on where another begins.
GoesOn(rs, s, z) ==
  /\ s.records # <<>> /\ z.at = s.at /\ Len(z.records) = Len(rs) + Len(s.records)
  /\ \A i \in 1..Len(rs) : z.records[i] = rs[i]
  /\ \A i \in 1..Len(s.records) : SameDelta(s.records[i], z.records[Len(rs) + i])

\* It begins with a header.
LEMMA GoesOnFrom ==
  ASSUME NEW y, ScanShape(y), y.at \in {"seek", "await", "body"}, NEW l \in TextLines, l.is = "header",
         NEW n \in Nat, NEW m \in Nat
  PROVE  GoesOn(y.records, ScanStep(ScanFrom, l, n), ScanStep(y, l, m))
<1> DEFINE s == ScanStep(ScanFrom, l, n)  z == ScanStep(y, l, m)  c == Len(y.records)
<1>1. ScanShape(ScanFrom) /\ Len(ScanFrom.records) = 0
  BY DEF ScanShape, ScanFrom, ScanStates
<1>2. Opens(ScanFrom, l) /\ NextAt(ScanFrom, l) = "await" /\ Opens(y, l) /\ NextAt(y, l) = "await"
  BY DEF Opens, NextAt, ScanFrom
<1>3. ScanShape(s) /\ s.at = "await" /\ Len(s.records) = 1 /\ s.records[1] = NewRecord(l.of)
  <2>1. s.at = NextAt(ScanFrom, l) /\ ScanShape(s)
    BY <1>1, StepShape
  <2>2. Len(s.records) = 0 + 1 /\ s.records[0 + 1] = NewRecord(l.of)
    BY <1>1, <1>2, StepShape
  <2> QED
    BY <1>2, <2>1, <2>2
<1>4. /\ z.at = "await" /\ c \in Nat /\ Len(z.records) = c + 1 /\ z.records[c + 1] = NewRecord(l.of)
      /\ \A i \in 1..c : z.records[i] = y.records[i]
  <2>1. z.at = NextAt(y, l) /\ c \in Nat
    BY StepShape
  <2>2. Len(z.records) = c + 1 /\ z.records[c + 1] = NewRecord(l.of)
    BY <1>2, StepShape
  <2>3. \A i \in 1..c : z.records[i] = y.records[i]
    BY <1>2, StepShape
  <2> QED
    BY <1>2, <2>1, <2>2, <2>3
<1> HIDE DEF s, z
<1>5. s.records # <<>>
  BY <1>3
<1>6. \A i \in 1..1 : SameDelta(s.records[i], z.records[c + i])
  BY <1>3, <1>4 DEF SameDelta
<1> QED
  BY <1>3, <1>4, <1>5, <1>6 DEF GoesOn, s, z, c

\* And every line does the same to both.
LEMMA GoesOnNext ==
  ASSUME NEW rs \in Seq(Records), NEW s, NEW z, ScanShape(s), ScanShape(z), GoesOn(rs, s, z),
         NEW l \in TextLines, NEW n \in Nat, NEW m \in Nat
  PROVE  GoesOn(rs, ScanStep(s, l, n), ScanStep(z, l, m))
<1> DEFINE x == ScanStep(s, l, n)  y == ScanStep(z, l, m)  b == Len(rs)  c == Len(s.records)  d == Len(z.records)
<1>1. /\ b \in Nat /\ z.at = s.at /\ d = b + c
      /\ \A i \in 1..b : z.records[i] = rs[i]
      /\ \A i \in 1..c : SameDelta(s.records[i], z.records[b + i])
  BY DEF GoesOn
<1>2. c \in Nat \ {0} /\ s.records \in Seq(Records) /\ z.records \in Seq(Records)
  BY DEF GoesOn, ScanShape
<1>3. /\ x.at = NextAt(s, l) /\ ScanShape(x)
      /\ Len(x.records) = IF Opens(s, l) THEN c + 1 ELSE c
      /\ \A k \in 1..c : x.records[k] = IF k = c /\ ~Opens(s, l) THEN LastRecord(s, l, n, s.records[c]) ELSE s.records[k]
      /\ Opens(s, l) => x.records[c + 1] = NewRecord(l.of)
  BY StepShape
<1>4. /\ y.at = NextAt(z, l)
      /\ Len(y.records) = IF Opens(z, l) THEN d + 1 ELSE d
      /\ \A k \in 1..d : y.records[k] = IF k = d /\ ~Opens(z, l) THEN LastRecord(z, l, m, z.records[d]) ELSE z.records[k]
      /\ Opens(z, l) => y.records[d + 1] = NewRecord(l.of)
  BY StepShape
<1>5. (Opens(z, l) <=> Opens(s, l)) /\ NextAt(z, l) = NextAt(s, l)
  BY <1>1 DEF Opens, NextAt
<1>6. SameDelta(LastRecord(s, l, n, s.records[c]), LastRecord(z, l, m, z.records[d]))
  <2> DEFINE p == s.records[c]  q == z.records[d]
  <2>1. p \in Records /\ q \in Records /\ SameDelta(p, q)
    BY <1>1, <1>2
  <2>2. (Reads(z, l) <=> Reads(s, l)) /\ (Tells(z, l) <=> Tells(s, l))
    BY <1>1 DEF Reads, Tells
  <2> HIDE DEF p, q
  <2>3. LastRecord(s, l, n, p) =
              [header |-> p.header,
               meta |-> IF Reads(s, l) THEN MetaStep(p.meta, l) ELSE p.meta,
               line |-> IF Reads(s, l) /\ IsStatus(l) THEN n ELSE p.line,
               body |-> IF ~Reads(s, l) /\ Tells(s, l) THEN Append(p.body, l) ELSE p.body]
    BY <2>1, LastRecordIs
  <2>4. LastRecord(z, l, m, q) =
              [header |-> q.header,
               meta |-> IF Reads(z, l) THEN MetaStep(q.meta, l) ELSE q.meta,
               line |-> IF Reads(z, l) /\ IsStatus(l) THEN m ELSE q.line,
               body |-> IF ~Reads(z, l) /\ Tells(z, l) THEN Append(q.body, l) ELSE q.body]
    BY <2>1, LastRecordIs
  <2>5. SameDelta(LastRecord(s, l, n, p), LastRecord(z, l, m, q))
    BY <2>1, <2>2, <2>3, <2>4 DEF SameDelta
  <2> QED
    BY <2>5 DEF p, q
<1> HIDE DEF x, y, b, c, d
<1>7. x.records # <<>> /\ y.at = x.at /\ Len(y.records) = b + Len(x.records)
  <2>1. c \in Nat \ {0} /\ b \in Nat /\ d = b + c
    BY <1>1, <1>2
  <2>2. Len(x.records) \in {c, c + 1} /\ Len(y.records) = b + Len(x.records)
    BY <1>3, <1>4, <1>5, <2>1
  <2>3. Len(x.records) # 0
    BY <2>1, <2>2
  <2>4. x.records # <<>>
    BY <2>3
  <2> QED
    BY <1>3, <1>4, <1>5, <2>2, <2>4
<1>8. \A i \in 1..b : y.records[i] = rs[i]
  <2> SUFFICES ASSUME NEW i \in 1..b PROVE y.records[i] = rs[i]
    OBVIOUS
  <2>1. i \in 1..d /\ i # d
    BY <1>1, <1>2
  <2> QED
    BY <1>1, <1>4, <2>1
<1>9. ASSUME NEW i \in 1..Len(x.records)
      PROVE  SameDelta(x.records[i], y.records[b + i])
  <2>1. CASE i \in 1..c /\ ~(i = c /\ ~Opens(s, l))
    <3>1. b + i \in 1..d /\ (b + i = d <=> i = c)
      <4>1. c \in Nat \ {0} /\ b \in Nat /\ d = b + c /\ i \in 1..c
        BY <1>1, <1>2, <2>1
      <4> QED
        BY <4>1
    <3> QED
      BY <1>1, <1>3, <1>4, <1>5, <2>1, <3>1
  <2>2. CASE i \in 1..c /\ i = c /\ ~Opens(s, l)
    <3>1. b + i = d /\ d \in 1..d
      BY <1>1, <1>2, <2>2
    <3> QED
      BY <1>3, <1>4, <1>5, <1>6, <2>2, <3>1
  <2>3. CASE i \notin 1..c
    <3>1. Opens(s, l) /\ i = c + 1
      BY <1>2, <1>3, <2>3
    <3>2. b + i = d + 1
      BY <1>1, <1>2, <3>1
    <3> QED
      BY <1>3, <1>4, <1>5, <3>1, <3>2 DEF SameDelta
  <2> QED
    BY <2>1, <2>2, <2>3
<1> QED
  BY <1>7, <1>8, <1>9 DEF GoesOn, b, x, y

\* The lines of an archive file after the deltas of another file have been appended.
LEMMA AppendedIs ==
  ASSUME NEW t \in Seq(TextLines), NEW u \in Seq(TextLines), NEW m \in 1..Len(u)
  PROVE  LET w == t \o SubSeq(u, m, Len(u)) IN
         /\ w \in Seq(TextLines) /\ Len(w) = Len(t) + (Len(u) - m + 1)
         /\ \A n \in 1..Len(t) : w[n] = t[n]
         /\ \A n \in m..Len(u) : w[Len(t) + (n - m + 1)] = u[n]
<1> DEFINE x == SubSeq(u, m, Len(u))  w == t \o x
<1>1. Len(u) \in Nat /\ Len(t) \in Nat /\ m \in Nat /\ DOMAIN u = 1..Len(u)
  OBVIOUS
<1>2. x = [i \in 1..Len(u) - m + 1 |-> u[i + m - 1]]
  BY <1>1 DEF SubSeq
<1>3. x \in Seq(TextLines) /\ Len(x) = Len(u) - m + 1 /\ \A i \in 1..Len(u) - m + 1 : x[i] = u[i + m - 1]
  <2>1. \A i \in 1..Len(u) - m + 1 : i + m - 1 \in 1..Len(u)
    BY <1>1
  <2>2. \A i \in 1..Len(u) - m + 1 : u[i + m - 1] \in TextLines
    BY <2>1
  <2>3. Len(u) - m + 1 \in Nat
    BY <1>1
  <2> QED
    BY <1>2, <2>2, <2>3
<1> HIDE DEF x
<1>4. \A n \in m..Len(u) : n - m + 1 \in 1..Len(u) - m + 1 /\ (n - m + 1) + m - 1 = n
  BY <1>1
<1>5. \A n \in m..Len(u) : x[n - m + 1] = u[n]
  BY <1>3, <1>4
<1>6. w \in Seq(TextLines) /\ Len(w) = Len(t) + Len(x) /\ \A n \in 1..Len(t) : w[n] = t[n]
  <2>1. t \in Seq(TextLines) /\ x \in Seq(TextLines)
    BY <1>3
  <2> HIDE DEF x
  <2> QED
    BY <1>1, <2>1, ConcatProperties
<1>7. \A i \in 1..Len(x) : w[Len(t) + i] = x[i]
  BY <1>1, <1>3, ConcatProperties
<1> QED
  BY <1>3, <1>4, <1>5, <1>6, <1>7 DEF x

\* The envelope of a file that has one ends where it did when lines come after it.
LEMMA EnvelopeStays ==
  ASSUME NEW t \in Seq(TextLines), NEW u \in Seq(TextLines), Len(t) <= Len(u),
         \A n \in 1..Len(t) : u[n] = t[n], HasEnvelope(t), Rules(t) # {}
  PROVE  EnvelopeEnd(u) = EnvelopeEnd(t) /\ HasEnvelope(u) /\ Rules(u) # {} /\ EnvelopeEnd(t) \in Rules(t)
<1>1. Len(t) \in Nat \ {0} /\ Len(u) \in Nat /\ 1 \in 1..Len(t)
  BY DEF HasEnvelope
<1>2. HasEnvelope(u)
  <2>1. u # <<>> /\ u[1] = t[1]
    BY <1>1
  <2> QED
    BY <2>1 DEF HasEnvelope
<1>3. Rules(t) \in SUBSET Nat /\ Rules(u) \in SUBSET Nat
  BY <1>1 DEF Rules
<1>4. PICK x \in Rules(t) : \A y \in Rules(t) : x <= y
  BY <1>3, LeastOf
<1>5. FirstOf(Rules(t)) \in Rules(t) /\ \A y \in Rules(t) : FirstOf(Rules(t)) <= y
  BY <1>4 DEF FirstOf
<1>6. \A n \in 1..Len(t) : n \in Rules(u) <=> n \in Rules(t)
  BY <1>1 DEF Rules
<1>7. FirstOf(Rules(t)) \in Rules(u) /\ \A y \in Rules(u) : FirstOf(Rules(t)) <= y
  <2>1. FirstOf(Rules(t)) \in 1..Len(t)
    BY <1>1, <1>5 DEF Rules
  <2>2. ASSUME NEW y \in Rules(u), y \notin 1..Len(t) PROVE FirstOf(Rules(t)) <= y
    BY <1>1, <1>3, <2>1, <2>2 DEF Rules
  <2> QED
    BY <1>5, <1>6, <2>1, <2>2
<1>8. FirstOf(Rules(u)) = FirstOf(Rules(t))
  <2>1. PICK x2 \in Rules(u) : \A y \in Rules(u) : x2 <= y
    BY <1>7
  <2>2. FirstOf(Rules(u)) \in Rules(u) /\ \A y \in Rules(u) : FirstOf(Rules(u)) <= y
    BY <2>1 DEF FirstOf
  <2>3. FirstOf(Rules(u)) <= FirstOf(Rules(t)) /\ FirstOf(Rules(t)) <= FirstOf(Rules(u))
    BY <1>7, <2>2
  <2> QED
    BY <1>3, <1>7, <2>2, <2>3
<1> QED
  BY <1>2, <1>5, <1>7, <1>8 DEF EnvelopeEnd

\* The scan of the archive file goes on where the scan of the fragment begins.
LEMMA ArchiveScans ==
  ASSUME NEW t \in Seq(TextLines), HasEnvelope(t), Rules(t) # {}, Scan(t, EnvelopeEnd(t)).at \notin {"meta", "code"},
         NEW u \in Seq(TextLines), PlainPreamble(u), SectionStart(u) # 0
  PROVE  /\ Appended(t, u) \in Seq(TextLines) /\ Rules(Appended(t, u)) # {}
         /\ GoesOn(RecordsOf(t), Scan(u, EnvelopeEnd(u)), Scan(Appended(t, u), EnvelopeEnd(Appended(t, u))))
<1> DEFINE m == SectionStart(u)  w == Appended(t, u)  a == Len(t)  b == Len(u)
<1>1. a \in Nat /\ b \in Nat /\ m \in 1..b /\ u[m].is = "header" /\ \A j \in 1..m - 1 : u[j].is # "header"
  BY SectionFirst
<1>2. w = t \o SubSeq(u, m, b)
  BY DEF Appended
<1> HIDE DEF m
<1>3. /\ w \in Seq(TextLines) /\ Len(w) = a + (b - m + 1)
      /\ \A n \in 1..a : w[n] = t[n]
      /\ \A n \in m..b : w[a + (n - m + 1)] = u[n]
  BY <1>1, <1>2, AppendedIs
<1> HIDE DEF w
<1>4. EnvelopeEnd(w) = EnvelopeEnd(t) /\ Rules(w) # {} /\ EnvelopeEnd(t) \in 0..a /\ EnvelopeEnd(u) \in 0..b
  <2>1. Len(t) <= Len(w)
    BY <1>1, <1>3
  <2> QED
    BY <1>3, <2>1, EnvelopeStays, EnvelopeIs
<1> DEFINE e == EnvelopeEnd(t)  d == EnvelopeEnd(u)
<1>5. PICK f : Scans(t, e, f) /\ Scan(t, e) = f[a]
  BY <1>1, ScanBy
<1>6. PICK g : Scans(u, d, g) /\ Scan(u, d) = g[b]
  BY <1>1, ScanBy
<1>7. PICK h : Scans(w, e, h) /\ Scan(w, e) = h[Len(w)]
  <2>1. Len(w) \in Nat
    BY <1>3
  <2> QED
    BY <2>1, ScanBy
<1>8. h[a] = f[a]
  <2>1. a \in Nat /\ a <= Len(t) /\ a <= Len(w) /\ a \in 0..a
    BY <1>1, <1>3
  <2>2. \A n \in 0..a : h[n] = f[n]
    <3>1. \A n \in 1..a : w[n] = t[n]
      BY <1>3
    <3>2. Scans(t, e, f) /\ Scans(w, e, h)
      BY <1>5, <1>7
    <3> HIDE DEF a, e
    <3> QED
      BY <1>3, <2>1, <3>1, <3>2, PrefixScans
  <2> QED
    BY <2>1, <2>2
<1>9. g[m - 1] = ScanFrom
  <2>1. m - 1 \in Nat /\ m - 1 <= Len(u) /\ m - 1 \in 0..m - 1
    BY <1>1
  <2> QED
    BY <1>1, <1>6, <2>1, HeaderlessScan
<1>10. ~(m <= d)
  <2>1. \A n \in 1..d : u[n].is # "header"
    BY DEF PlainPreamble, PlainEnvelope
  <2> QED
    BY <1>1, <1>4, <2>1
<1>11. ScanShape(f[a]) /\ (\A n \in 0..b : ScanShape(g[n])) /\ (\A n \in 0..Len(w) : ScanShape(h[n]))
  BY <1>1, <1>3, <1>5, <1>6, <1>7, ScanShapes
<1>12. f[a].at \in {"seek", "await", "body"} /\ RecordsOf(t) = f[a].records /\ f[a].records \in Seq(Records)
  BY <1>5, <1>11 DEF ScanShape, ScanStates, RecordsOf
<1> HIDE DEF e, d, a, b
<1> DEFINE Good(n) == GoesOn(f[a].records, g[n], h[a + (n - m + 1)])
           Bad == {n \in m..b : ~Good(n)}
<1>13. \A n \in m..b : /\ n \in 1..Len(u) /\ u[n] \in TextLines /\ g[n] = ScanStep(g[n - 1], u[n], n)
                       /\ a + (n - m + 1) \in 1..Len(w) /\ n \in Nat /\ a + (n - m + 1) \in Nat
                       /\ h[a + (n - m + 1)] = ScanStep(h[a + (n - m)], u[n], a + (n - m + 1))
  <2> SUFFICES ASSUME NEW n \in m..b
               PROVE  /\ n \in 1..Len(u) /\ u[n] \in TextLines /\ g[n] = ScanStep(g[n - 1], u[n], n)
                      /\ a + (n - m + 1) \in 1..Len(w) /\ n \in Nat /\ a + (n - m + 1) \in Nat
                      /\ h[a + (n - m + 1)] = ScanStep(h[a + (n - m)], u[n], a + (n - m + 1))
    OBVIOUS
  <2> DEFINE k == a + (n - m + 1)
  <2>1. n \in 1..Len(u) /\ ~(n <= d) /\ n \in Nat
    BY <1>1, <1>4, <1>10 DEF b, d
  <2>2. k \in 1..Len(w) /\ k - 1 = a + (n - m) /\ k \in Nat
    BY <1>1, <1>3 DEF a, b
  <2>3. ~(k <= e)
    BY <1>1, <1>4 DEF a, b, e
  <2>4. w[k] = u[n]
    BY <1>3 DEF a, b
  <2>5. u[n] \in TextLines
    BY <2>1
  <2>6. g[n] = ScanStep(g[n - 1], u[n], n)
    BY <1>6, <2>1 DEF Scans
  <2> HIDE DEF k
  <2>7. h[k] = ScanStep(h[k - 1], w[k], k)
    BY <1>7, <2>2, <2>3 DEF Scans
  <2>8. h[k] = ScanStep(h[a + (n - m)], u[n], k)
    BY <2>2, <2>4, <2>7
  <2> QED
    BY <2>1, <2>2, <2>5, <2>6, <2>8 DEF k
<1>14. Good(m)
  <2>1. m \in m..b /\ a + (m - m) = a
    BY <1>1 DEF a, b
  <2>2. g[m] = ScanStep(ScanFrom, u[m], m) /\ h[a + (m - m + 1)] = ScanStep(f[a], u[m], a + (m - m + 1))
    BY <1>8, <1>9, <1>13, <2>1
  <2>3. m \in Nat /\ a + (m - m + 1) \in Nat /\ u[m] \in TextLines
    BY <1>13, <2>1
  <2>4. GoesOn(f[a].records, ScanStep(ScanFrom, u[m], m), ScanStep(f[a], u[m], a + (m - m + 1)))
    BY <1>1, <1>11, <1>12, <2>3, GoesOnFrom DEF a
  <2> QED
    BY <2>2, <2>4
<1>15. Bad = {}
  <2> SUFFICES ASSUME Bad # {} PROVE FALSE
    OBVIOUS
  <2>1. Bad \in SUBSET Nat
    BY <1>1 DEF b
  <2> HIDE DEF Bad
  <2>2. PICK n \in Bad : \A k \in Bad : n <= k
    BY <2>1, LeastOf
  <2> USE DEF Bad
  <2>3. n \in m..b /\ n # m /\ ~Good(n)
    <3> HIDE DEF Good
    <3> QED
      BY <1>14, <2>2
  <2>4. n - 1 \in m..b /\ n - 1 \notin Bad
    <3>1. n - 1 \in m..b /\ ~(n <= n - 1)
      BY <1>1, <2>3 DEF b
    <3> HIDE DEF Bad
    <3> QED
      BY <2>2, <3>1
  <2>5. Good(n - 1)
    <3> HIDE DEF Good
    <3> QED
      BY <2>4
  <2> HIDE DEF Bad
  <2>6. n - 1 - m + 1 = n - m /\ a + (n - m) \in 0..Len(w) /\ n - 1 \in 0..b
    <3>1. a \in Nat /\ b \in Nat /\ m \in 1..b /\ n \in m..b /\ n # m /\ Len(w) = a + (b - m + 1)
      BY <1>1, <1>3, <2>3 DEF a, b
    <3> QED
      BY <3>1
  <2>7. GoesOn(f[a].records, g[n - 1], h[a + (n - m)])
    BY <2>5, <2>6
  <2>8. ScanShape(g[n - 1]) /\ ScanShape(h[a + (n - m)])
    BY <1>11, <2>6 DEF b
  <2>9. n \in Nat /\ a + (n - m + 1) \in Nat /\ u[n] \in TextLines
    BY <1>13, <2>3
  <2>10. GoesOn(f[a].records, ScanStep(g[n - 1], u[n], n), ScanStep(h[a + (n - m)], u[n], a + (n - m + 1)))
    BY <1>12, <2>7, <2>8, <2>9, GoesOnNext
  <2> QED
    BY <1>13, <2>3, <2>10
<1>16. Good(b) /\ a + (b - m + 1) = Len(w)
  <2>1. b \in m..b /\ a + (b - m + 1) = Len(w)
    BY <1>1, <1>3 DEF a, b
  <2> HIDE DEF Good
  <2> QED
    BY <1>15, <2>1
<1> QED
  BY <1>3, <1>4, <1>6, <1>7, <1>12, <1>16 DEF w, e, d, b

\* What ArchiveKeepsDeltas says of the removal of a fragment.
LEMMA ArchiveKeeps ==
  ASSUME live \in Seq(TextLines), twin \in Seq(TextLines), PlainPreamble(live), Archive
  PROVE  /\ ~Damaged(twin') /\ Debt(live) = {}
         /\ DeltaSet(live) \cup DeltaSet(twin) \subseteq DeltaSet(twin')
<1>1. AllDisposed(live) /\ ~Damaged(twin)
  BY DEF Archive
<1>2. Debt(live) = {}
  BY <1>1 DEF AllDisposed, Debt, DeltaSet
<1>3. CASE AlreadyAppended(twin, live) /\ UNCHANGED twin
  <2>1. \A d \in DeltaSet(live) : d \in DeltaSet(twin)
    BY <1>3 DEF AlreadyAppended, DeltaSet
  <2>2. twin' = twin
    BY <1>3
  <2>3. ~Damaged(twin') /\ DeltaSet(twin') = DeltaSet(twin)
    BY <1>1, <2>2
  <2> QED
    BY <1>2, <2>1, <2>3
<1>4. CASE SameSessionDisjoint(twin, live) /\ SectionStart(live) # 0 /\ twin' = Appended(twin, live)
  <2> DEFINE t == twin  u == live  w == Appended(twin, live)
             rs == RecordsOf(t)  s == Scan(u, EnvelopeEnd(u))  z == Scan(w, EnvelopeEnd(w))
  <2>1. HasEnvelope(t) /\ Rules(t) # {}
    <3>1. EnvelopeEnd(t) # 0
      BY <1>4 DEF SameSessionDisjoint, SessionOf
    <3> QED
      BY <3>1 DEF EnvelopeEnd
  <2>2. Scan(t, EnvelopeEnd(t)).at \notin {"meta", "code"} /\ s.at \notin {"meta", "code"}
    BY <1>1 DEF Damaged, Archive
  <2>3. w \in Seq(TextLines) /\ Rules(w) # {} /\ GoesOn(rs, s, z)
    BY <1>4, <2>1, <2>2, ArchiveScans
  <2>4. ~Damaged(w)
    BY <2>2, <2>3 DEF Damaged, GoesOn
  <2>5. rs \in Seq(Records) /\ s.records \in Seq(Records) /\ z.records \in Seq(Records)
    BY <2>3, RecordsAre DEF ScanShape
  <2>6. /\ Deltas(t) = [k \in DOMAIN rs |-> Delta(rs[k])]
        /\ Deltas(u) = [k \in DOMAIN s.records |-> Delta(s.records[k])]
        /\ Deltas(w) = [k \in DOMAIN z.records |-> Delta(z.records[k])]
    BY DEF Deltas, RecordsOf
  <2> HIDE DEF rs, s, z, w
  <2> DEFINE a == Len(rs)  b == Len(s.records)
  <2>7. /\ a \in Nat /\ b \in Nat
        /\ DOMAIN rs = 1..a /\ DOMAIN s.records = 1..b /\ DOMAIN z.records = 1..a + b
    BY <2>3, <2>5 DEF GoesOn
  <2>8. \A k \in 1..a : k \in 1..a + b /\ Delta(z.records[k]) = Delta(rs[k])
    <3>1. \A k \in 1..a : k \in 1..a + b
      BY <2>7
    <3> QED
      BY <2>3, <3>1 DEF GoesOn
  <2>9. \A k \in 1..b : a + k \in 1..a + b /\ Delta(z.records[a + k]) = Delta(s.records[k])
    <3>1. \A k \in 1..b : a + k \in 1..a + b
      BY <2>7
    <3>2. \A k \in 1..b : SameDelta(s.records[k], z.records[a + k])
      BY <2>3 DEF GoesOn
    <3> QED
      BY <3>1, <3>2, SameDeltas
  <2>10. DeltaSet(t) \subseteq DeltaSet(w)
    <3>1. \A k \in 1..a : k \in DOMAIN Deltas(w) /\ Deltas(w)[k] = Deltas(t)[k]
      BY <2>6, <2>7, <2>8
    <3>2. DOMAIN Deltas(t) = 1..a
      BY <2>6, <2>7
    <3> QED
      BY <3>1, <3>2, Zenon DEF DeltaSet
  <2>11. DeltaSet(u) \subseteq DeltaSet(w)
    <3>1. \A k \in 1..b : a + k \in DOMAIN Deltas(w) /\ Deltas(w)[a + k] = Deltas(u)[k]
      BY <2>6, <2>7, <2>9
    <3>2. DOMAIN Deltas(u) = 1..b
      BY <2>6, <2>7
    <3> QED
      BY <3>1, <3>2, Zenon DEF DeltaSet
  <2>12. twin' = w
    BY <1>4 DEF w
  <2> QED
    BY <1>2, <2>4, <2>10, <2>11, <2>12
<1> QED
  BY <1>3, <1>4 DEF Archive

\* What the proofs of the texts rest on: the files hold lines.
TextInv == live \in Seq(TextLines) /\ twin \in Seq(TextLines) /\ edits \in Nat

\* Part of a text is one.
LEMMA TextPart ==
  ASSUME NEW t \in Seq(TextLines), NEW a \in Nat \ {0}, NEW b \in Nat, b <= Len(t)
  PROVE  SubSeq(t, a, b) \in Seq(TextLines)
<1>1. SubSeq(t, a, b) = [i \in 1..b - a + 1 |-> t[i + a - 1]]
  BY DEF SubSeq
<1>2. CASE a <= b
  <2>1. \A i \in 1..b - a + 1 : i + a - 1 \in 1..Len(t)
    BY <1>2
  <2>2. \A i \in 1..b - a + 1 : t[i + a - 1] \in TextLines
    BY <2>1
  <2>3. b - a + 1 \in Nat
    BY <1>2
  <2> QED
    BY <1>1, <2>2, <2>3
<1>3. CASE ~(a <= b)
  <2>1. 1..b - a + 1 = {}
    BY <1>3
  <2>2. SubSeq(t, a, b) = <<>>
    BY <1>1, <2>1
  <2> QED
    BY <2>2
<1> QED
  BY <1>2, <1>3

\* What an edit does: it writes a line, removes one or changes one.
LineWritten(t, L, u) == \E n \in 0..Len(t), l \in L : u = SubSeq(t, 1, n) \o <<l>> \o SubSeq(t, n + 1, Len(t))
LineRemoved(t, u) == \E n \in DOMAIN t : u = SubSeq(t, 1, n - 1) \o SubSeq(t, n + 1, Len(t))
LineChanged(t, L, u) == \E n \in DOMAIN t, l \in L : u = [t EXCEPT ![n] = l]

\* An edit does no more.
LEMMA EditKinds ==
  ASSUME NEW t, NEW L, NEW u \in EditsOf(t, L)
  PROVE  LineWritten(t, L, u) \/ LineRemoved(t, u) \/ LineChanged(t, L, u)
<1> DEFINE Put(n, l) == SubSeq(t, 1, n) \o <<l>> \o SubSeq(t, n + 1, Len(t))
           Longer == {Put(n, l) : n \in 0..Len(t), l \in L}
           Shorter == {SubSeq(t, 1, n - 1) \o SubSeq(t, n + 1, Len(t)) : n \in DOMAIN t}
           Rewritten == {[t EXCEPT ![n] = l] : n \in DOMAIN t, l \in L}
<1>1. u \in Longer \/ u \in Shorter \/ u \in Rewritten
  <2>1. EditsOf(t, L) = Longer \cup Shorter \cup Rewritten
    BY DEF EditsOf
  <2> HIDE DEF Longer, Shorter, Rewritten
  <2> QED
    BY <2>1
<1>2. u \in Longer => \E n \in 0..Len(t), l \in L : u = Put(n, l)
  <2> HIDE DEF Put
  <2> QED
    OBVIOUS
<1>3. u \in Shorter => \E n \in DOMAIN t : u = SubSeq(t, 1, n - 1) \o SubSeq(t, n + 1, Len(t))
  BY Zenon
<1>4. u \in Rewritten => \E n \in DOMAIN t, l \in L : u = [t EXCEPT ![n] = l]
  OBVIOUS
<1> HIDE DEF Longer, Shorter, Rewritten
<1> QED
  BY <1>1, <1>2, <1>3, <1>4, Zenon DEF LineWritten, LineRemoved, LineChanged

\* An edit of a text leaves one.
LEMMA EditsAre ==
  ASSUME NEW t \in Seq(TextLines), NEW L \in SUBSET TextLines, NEW u \in EditsOf(t, L)
  PROVE  u \in Seq(TextLines)
<1>1. Len(t) \in Nat /\ DOMAIN t = 1..Len(t)
  OBVIOUS
<1>2. CASE LineWritten(t, L, u)
  <2>1. PICK n \in 0..Len(t), l \in L : u = SubSeq(t, 1, n) \o <<l>> \o SubSeq(t, n + 1, Len(t))
    BY <1>2, Zenon DEF LineWritten
  <2>2. SubSeq(t, 1, n) \in Seq(TextLines) /\ SubSeq(t, n + 1, Len(t)) \in Seq(TextLines)
    BY <1>1, TextPart
  <2>3. <<l>> \in Seq(TextLines)
    <3>1. l \in TextLines
      OBVIOUS
    <3> QED
      BY <3>1, PutTogether, Zenon
  <2> DEFINE x == SubSeq(t, 1, n)  y == SubSeq(t, n + 1, Len(t))  z == <<l>>
  <2>4. x \in Seq(TextLines) /\ y \in Seq(TextLines) /\ z \in Seq(TextLines) /\ u = x \o z \o y
    BY <2>1, <2>2, <2>3
  <2> HIDE DEF x, y, z
  <2>5. x \o z \in Seq(TextLines)
    BY <2>4, ConcatProperties
  <2> QED
    BY <2>4, <2>5, ConcatProperties
<1>3. CASE LineRemoved(t, u)
  <2>1. PICK n \in DOMAIN t : u = SubSeq(t, 1, n - 1) \o SubSeq(t, n + 1, Len(t))
    BY <1>3, Zenon DEF LineRemoved
  <2> DEFINE x == SubSeq(t, 1, n - 1)  y == SubSeq(t, n + 1, Len(t))
  <2>2. x \in Seq(TextLines) /\ y \in Seq(TextLines) /\ u = x \o y
    <3>1. n - 1 \in Nat /\ n - 1 <= Len(t) /\ n + 1 \in Nat \ {0}
      BY <1>1
    <3> QED
      BY <1>1, <2>1, <3>1, TextPart
  <2> HIDE DEF x, y
  <2> QED
    BY <2>2, ConcatProperties
<1>4. CASE LineChanged(t, L, u)
  <2>1. PICK n \in DOMAIN t, l \in L : u = [t EXCEPT ![n] = l]
    BY <1>4, Zenon DEF LineChanged
  <2>2. l \in TextLines
    OBVIOUS
  <2> QED
    BY <2>1, <2>2, PutTogether, Zenon
<1> QED
  BY <1>2, <1>3, <1>4, EditKinds, Zenon

\* A flip writes as many lines as it read.
LEMMA FlipKeepsLines ==
  ASSUME NEW t \in Seq(TextLines), NEW ids
  PROVE  FlipStatuses(t, ids) \in Seq(TextLines) /\ Len(FlipStatuses(t, ids)) = Len(t)
<1> DEFINE at == {r.line : r \in Flipping(t, ids)}
<1>1. FlipStatuses(t, ids) = FlippedText(at, t)
  BY Zenon DEF FlipStatuses, FlippedText, FlippedLine
<1> HIDE DEF at
<1> QED
  BY <1>1, FlippedLines

\* Lines that people write, and those of the texts at the beginning, are lines.
LEMMA LinesAre ==
  /\ Lines.fragment \in SUBSET TextLines
  /\ \A s \in Starts : s.live \in Seq(TextLines) /\ s.twin \in Seq(TextLines)
<1>1. LineType \subseteq TextLines
  BY DEF LineType, TextLines, Names
<1>2. Lines.fragment \in SUBSET LineType
  BY TextConstants
<1>3. ASSUME NEW s \in Starts
      PROVE  s.live \in Seq(LineType) /\ s.twin \in Seq(LineType)
  BY TextConstants
<1>4. \A t \in Seq(LineType) : t \in Seq(TextLines)
  BY <1>1
<1> QED
  BY <1>1, <1>2, <1>3, <1>4

\* Every step of a promotion leaves texts.
LEMMA TextNext ==
  ASSUME TextInv, [Promotes \/ Lints]_<<vars, pinVars>>
  PROVE  TextInv'
<1>1. CASE UNCHANGED vars
  BY <1>1 DEF TextInv, vars
<1>2. CASE Edit
  <2>1. edits' \in Nat
    BY <1>2 DEF Edit, TextInv
  <2>2. live' = live \/ live' \in EditsOf(live, Lines.fragment)
    BY <1>2, Zenon DEF Edit
  <2>3. twin' = twin \/ twin' \in EditsOf(twin, Lines.fragment)
    BY <1>2, Zenon DEF Edit
  <2>4. live' \in Seq(TextLines)
    BY <2>2, EditsAre, LinesAre DEF TextInv
  <2>5. twin' \in Seq(TextLines)
    BY <2>3, EditsAre, LinesAre DEF TextInv
  <2> QED
    BY <2>1, <2>4, <2>5 DEF TextInv
<1>3. CASE Archive
  <2>1. live' \in Seq(TextLines) /\ edits' = edits
    BY <1>3 DEF Archive
  <2>2. twin' \in Seq(TextLines)
    <3>1. CASE twin' = twin
      BY <3>1 DEF TextInv
    <3>2. CASE SectionStart(live) # 0 /\ twin' = Appended(twin, live)
      <4>1. SectionStart(live) \in 1..Len(live)
        BY <3>2, SectionIs DEF TextInv
      <4> QED
        BY <3>2, <4>1, AppendedIs DEF TextInv, Appended
    <3> QED
      BY <1>3, <3>1, <3>2 DEF Archive
  <2> QED
    BY <2>1, <2>2 DEF TextInv
<1>4. CASE \E ids \in SUBSET Ids : Flip(ids)
  <2>1. PICK ids : Flip(ids)
    BY <1>4
  <2>2. live' = FlipStatuses(live, ids) /\ twin' = twin /\ edits' = edits
    BY <2>1 DEF Flip
  <2> QED
    BY <2>2, FlipKeepsLines DEF TextInv
<1>5. CASE \E ids \in {o \in Orders : Len(o) = 1 \/ o[1] # o[2]} : Merge(ids)
  BY <1>5 DEF Merge, TextInv
<1> QED
  BY <1>1, <1>2, <1>3, <1>4, <1>5 DEF Promotes, Lints, Next, vars

\* It holds throughout.
LEMMA TextStays == PagesSpec => []TextInv
<1>1. (Init /\ NoPins) \/ (PinInit /\ NoTexts) => TextInv
  <2>1. CASE Init
    BY <2>1, LinesAre DEF Init, TextInv
  <2>2. CASE NoTexts
    BY <2>2 DEF NoTexts, TextInv
  <2> QED
    BY <2>1, <2>2
<1>2. TextInv /\ [Promotes \/ Lints]_<<vars, pinVars>> => TextInv'
  BY TextNext
<1> QED
  BY <1>1, <1>2, PTL DEF PagesSpec

\* What the preflight promised of a flip happens and nothing else, whatever the texts and
\* the edits, where no header stands in the envelope.
THEOREM FlipsStand == PagesSpec => FlipsLand
<1> DEFINE A == ~Edited /\ PlainEnvelope(live) =>
     /\ issue' = issue
     /\ live' # live /\ live' # <<>> =>
       /\ DOMAIN Deltas(live') = DOMAIN Deltas(live)
       /\ \A k \in Flipped :
            LET d == Deltas(live)[k] IN
            /\ d.status \notin Disposed
            /\ Deltas(live')[k] = [d EXCEPT !.status = "consolidated", !.meta["status"].of = "consolidated"]
       /\ LinesChangedOk(live, live', Cardinality(Flipped))
       /\ Projected(live, {Deltas(live)[k].id : k \in Flipped}) = live'
<1>1. TextInv /\ [Promotes \/ Lints]_<<vars, pinVars>> => [A]_vars
  <2> SUFFICES ASSUME TextInv, [Promotes \/ Lints]_<<vars, pinVars>>, ~Edited, PlainEnvelope(live)
               PROVE  A \/ UNCHANGED vars
    <3> HIDE DEF A
    <3>1. ~(~Edited /\ PlainEnvelope(live)) => A
      BY Zenon DEF A
    <3> QED
      BY <3>1
  <2>1. CASE Edit
    <3> HIDE DEF A
    <3> QED
      BY <2>1 DEF Edit, Edited, TextInv
  <2>2. CASE Archive
    <3>1. issue' = issue /\ live' = <<>>
      BY <2>2 DEF Archive
    <3> QED
      BY <3>1, Zenon DEF A
  <2>3. CASE \E ids \in SUBSET Ids : Flip(ids)
    <3>1. PICK ids : Flip(ids)
      BY <2>3
    <3>2. /\ issue' = issue
          /\ DOMAIN Deltas(live') = DOMAIN Deltas(live)
          /\ \A k \in Flipped :
               LET d == Deltas(live)[k] IN
               /\ d.status \notin Disposed
               /\ Deltas(live')[k] = [d EXCEPT !.status = "consolidated", !.meta["status"].of = "consolidated"]
          /\ LinesChangedOk(live, live', Cardinality(Flipped))
          /\ Projected(live, {Deltas(live)[k].id : k \in Flipped}) = live'
      BY <3>1, FlipDoes, Zenon DEF TextInv
    <3> QED
      BY <3>2, Zenon DEF A
  <2>4. CASE \E ids \in {o \in Orders : Len(o) = 1 \/ o[1] # o[2]} : Merge(ids)
    <3>1. issue' = issue /\ live' = live
      BY <2>4 DEF Merge
    <3> QED
      BY <3>1, Zenon DEF A
  <2> HIDE DEF A
  <2> QED
    BY <2>1, <2>2, <2>3, <2>4 DEF Promotes, Lints, Next, vars
<1> HIDE DEF A
<1>2. PagesSpec => [][A]_vars
  BY <1>1, TextStays, PTL DEF PagesSpec
<1> QED
  BY <1>2, PTL DEF FlipsLand, A

\* The archive file holds every delta of the fragment that a promotion removes, whatever
\* the two files and the edits, where the fragment's preamble is plain.
THEOREM ArchiveStands == PagesSpec => ArchiveKeepsDeltas
<1> DEFINE A == ~Edited /\ live' # live /\ live' = <<>> /\ PlainPreamble(live) =>
       /\ ~Damaged(twin') /\ Debt(live) = {}
       /\ DeltaSet(live) \cup DeltaSet(twin) \subseteq DeltaSet(twin')
<1>1. TextInv /\ [Promotes \/ Lints]_<<vars, pinVars>> => [A]_vars
  <2> SUFFICES ASSUME TextInv, [Promotes \/ Lints]_<<vars, pinVars>>,
                      ~Edited, live' # live, live' = <<>>, PlainPreamble(live)
               PROVE  /\ ~Damaged(twin') /\ Debt(live) = {}
                      /\ DeltaSet(live) \cup DeltaSet(twin) \subseteq DeltaSet(twin')
    BY Zenon
  <2>1. CASE Edit
    BY <2>1 DEF Edit, Edited, TextInv
  <2>2. CASE Archive
    BY <2>2, ArchiveKeeps DEF TextInv
  <2>3. CASE \E ids \in SUBSET Ids : Flip(ids)
    <3>1. PICK ids : Flip(ids)
      BY <2>3
    <3>2. live' = FlipStatuses(live, ids)
      BY <3>1 DEF Flip
    <3>3. Len(live) = Len(live') /\ live \in Seq(TextLines)
      BY <3>2, FlipKeepsLines DEF TextInv
    <3>4. Len(live) = 0
      BY <3>3
    <3>5. live = <<>>
      BY <3>3, <3>4
    <3> QED
      BY <3>5
  <2>4. CASE \E ids \in {o \in Orders : Len(o) = 1 \/ o[1] # o[2]} : Merge(ids)
    BY <2>4 DEF Merge
  <2> QED
    BY <2>1, <2>2, <2>3, <2>4 DEF Promotes, Lints, Next, vars
<1> HIDE DEF A
<1>2. PagesSpec => [][A]_vars
  BY <1>1, TextStays, PTL DEF PagesSpec
<1> QED
  BY <1>2 DEF ArchiveKeepsDeltas, A

-----------------------------------------------------------------------------
(* One fault                                                               *)

\* The scan is inside a fence.
InFence(s) == s.at \in {"meta", "code"}

\* Once a header was found, the scan no longer seeks one.
LEMMA SeeksFirst ==
  ASSUME NEW t \in Seq(TextLines), NEW e \in Nat, NEW f, Scans(t, e, f)
  PROVE  \A n \in 0..Len(t) : (\E k \in e + 1..n : t[k].is = "header") => f[n].at # "seek"
<1> DEFINE Bad == {n \in 0..Len(t) : (\E k \in e + 1..n : t[k].is = "header") /\ f[n].at = "seek"}
<1>1. Len(t) \in Nat
  OBVIOUS
<1> SUFFICES ASSUME Bad # {} PROVE FALSE
  OBVIOUS
<1>2. Bad \in SUBSET Nat
  BY <1>1
<1> HIDE DEF Bad
<1>3. PICK n \in Bad : \A m \in Bad : n <= m
  BY <1>2, LeastOf
<1> USE DEF Bad
<1>4. PICK k \in e + 1..n : t[k].is = "header"
  BY <1>3
<1>5. n \in 1..Len(t) /\ n - 1 \in 0..Len(t) /\ n \in Nat /\ f[n].at = "seek" /\ ~(n <= e) /\ n - 1 \notin Bad
  <2>1. n \in 0..Len(t) /\ k \in e + 1..n /\ f[n].at = "seek"
    BY <1>3, <1>4
  <2>2. n \in 1..Len(t) /\ n - 1 \in 0..Len(t) /\ n \in Nat /\ ~(n <= e) /\ ~(n <= n - 1)
    BY <1>1, <2>1
  <2> HIDE DEF Bad
  <2> QED
    BY <1>3, <2>1, <2>2
<1>6. f[n] = ScanStep(f[n - 1], t[n], n) /\ ScanShape(f[n - 1]) /\ t[n] \in TextLines
  <2>1. \A m \in 0..Len(t) : ScanShape(f[m])
    BY ScanShapes
  <2> HIDE DEF Bad
  <2>2. f[n] = ScanStep(f[n - 1], t[n], n)
    BY <1>5 DEF Scans
  <2>3. t[n] \in TextLines
    BY <1>5
  <2> QED
    BY <1>5, <2>1, <2>2, <2>3
<1>7. NextAt(f[n - 1], t[n]) = "seek" /\ f[n - 1].at \in ScanStates
  BY <1>5, <1>6, StepShape DEF ScanShape
<1>8. f[n - 1].at = "seek" /\ t[n].is # "header"
  BY <1>7 DEF NextAt, ScanStates
<1>9. k \in e + 1..n - 1
  BY <1>4, <1>5, <1>8
<1> QED
  BY <1>4, <1>5, <1>8, <1>9

\* After the first header, a fence that starts its line ends what the one before it began.
LEMMA FenceTurns ==
  ASSUME NEW t \in Seq(TextLines), NEW e, NEW f, Scans(t, e, f), NEW n \in 1..Len(t), ~(n <= e),
         t[n].is # "indented", t[n].is = "fence" => f[n - 1].at # "seek"
  PROVE  InFence(f[n]) <=> ~(InFence(f[n - 1]) <=> t[n].is = "fence")
<1> DEFINE s == f[n - 1]  l == t[n]
<1>1. Len(t) \in Nat /\ n \in Nat /\ n - 1 \in 0..Len(t) /\ l \in TextLines
  OBVIOUS
<1>2. f[n] = ScanStep(s, l, n) /\ ScanShape(s)
  BY <1>1, ScanShapes DEF Scans
<1>3. f[n].at = NextAt(s, l) /\ s.at \in ScanStates
  BY <1>1, <1>2, StepShape DEF ScanShape
<1>4. l.is # "indented" /\ (l.is = "fence" => s.at # "seek")
  OBVIOUS
<1> HIDE DEF s, l
<1>5. NextAt(s, l) \in {"meta", "code"} <=> ~(s.at \in {"meta", "code"} <=> l.is = "fence")
  BY <1>3, <1>4 DEF NextAt, ScanStates, FenceLike
<1> QED
  BY <1>3, <1>5 DEF InFence, s, l

\* In a plain text every fence does.
LEMMA FencesPair ==
  ASSUME NEW t \in Seq(TextLines), Plain(t), NEW f, Scans(t, EnvelopeEnd(t), f), NEW n \in 1..Len(t)
  PROVE  InFence(f[n]) <=> ~(InFence(f[n - 1]) <=> t[n].is = "fence")
<1> DEFINE e == EnvelopeEnd(t)
<1>1. Len(t) \in Nat /\ e \in Nat /\ DOMAIN t = 1..Len(t) /\ n - 1 \in 0..Len(t)
  BY EnvelopeIs
<1>2. t[n].is # "indented"
  BY <1>1 DEF Plain
<1>3. ASSUME t[n].is = "fence" PROVE ~(n <= e) /\ f[n - 1].at # "seek"
  <2>1. PICK k \in e + 1..n - 1 : t[k].is = "header"
    BY <1>1, <1>3 DEF Plain, PlainPreamble, FenceLike
  <2>2. f[n - 1].at # "seek"
    BY <1>1, <2>1, SeeksFirst
  <2> HIDE DEF e
  <2> QED
    BY <1>1, <2>1, <2>2
<1>4. CASE n <= e
  BY <1>3, <1>4 DEF Scans
<1>5. CASE ~(n <= e)
  BY <1>2, <1>3, <1>5, FenceTurns
<1> QED
  BY <1>4, <1>5

\* A record with a header was found; the header was met outside of fences.
FoundBy(s, i) == \E k \in 1..Len(s.records) : s.records[k].header = i
MetBy(t, e, f, i) == \E m \in 1..Len(t) : ~(m <= e) /\ t[m].is = "header" /\ t[m].of = i /\ ~InFence(f[m - 1])

\* The records of a scan are those of the headers that it met outside of fences.
LEMMA HeadersOpen ==
  ASSUME NEW t \in Seq(TextLines), NEW e, NEW f, Scans(t, e, f), NEW i
  PROVE  FoundBy(f[Len(t)], i) <=> MetBy(t, e, f, i)
<1> DEFINE Found(n) == \E k \in 1..Len(f[n].records) : f[n].records[k].header = i
           Met(n) == \E m \in 1..n : ~(m <= e) /\ t[m].is = "header" /\ t[m].of = i /\ ~InFence(f[m - 1])
           Bad == {n \in 0..Len(t) : ~(Found(n) <=> Met(n))}
<1>1. Len(t) \in Nat
  OBVIOUS
<1>2. ~Found(0) /\ ~Met(0)
  <2>1. Len(f[0].records) = 0
    BY DEF Scans, ScanFrom
  <2> QED
    BY <2>1
<1>3. ASSUME NEW n \in 1..Len(t), ~(n <= e), Found(n - 1) <=> Met(n - 1)
      PROVE  Found(n) <=> Met(n)
  <2> DEFINE s == f[n - 1]  l == t[n]  c == Len(s.records)
  <2>1. n \in Nat /\ n - 1 \in 0..Len(t) /\ l \in TextLines
    BY <1>1
  <2>2. f[n] = ScanStep(s, l, n) /\ ScanShape(s)
    BY <1>3, <2>1, ScanShapes DEF Scans
  <2>3. /\ c \in Nat /\ Len(f[n].records) = IF Opens(s, l) THEN c + 1 ELSE c
        /\ \A k \in 1..c :
             f[n].records[k] = IF k = c /\ ~Opens(s, l) THEN LastRecord(s, l, n, s.records[c]) ELSE s.records[k]
        /\ Opens(s, l) => f[n].records[c + 1] = NewRecord(l.of)
    BY <2>1, <2>2, StepShape
  <2>4. Opens(s, l) <=> l.is = "header" /\ ~InFence(s)
    BY <2>2 DEF Opens, InFence, ScanShape, ScanStates
  <2>5. \A k \in 1..c : f[n].records[k].header = s.records[k].header
    <3> SUFFICES ASSUME NEW k \in 1..c PROVE f[n].records[k].header = s.records[k].header
      OBVIOUS
    <3>1. CASE k = c /\ ~Opens(s, l)
      <4>1. s.records[c] \in Records
        BY <2>2, <2>3, <3>1 DEF ScanShape
      <4>2. LastRecord(s, l, n, s.records[c]).header = s.records[c].header
        <5>1. n \in Nat /\ l \in TextLines
          BY <2>1
        <5> DEFINE r == s.records[c]
        <5>2. r \in Records
          BY <4>1
        <5> HIDE DEF l, s, c, r
        <5>3. LastRecord(s, l, n, r) =
                [header |-> r.header,
                 meta |-> IF Reads(s, l) THEN MetaStep(r.meta, l) ELSE r.meta,
                 line |-> IF Reads(s, l) /\ IsStatus(l) THEN n ELSE r.line,
                 body |-> IF ~Reads(s, l) /\ Tells(s, l) THEN Append(r.body, l) ELSE r.body]
          BY <5>1, <5>2, LastRecordIs
        <5>4. LastRecord(s, l, n, r).header = r.header
          BY <5>3
        <5> QED
          BY <5>4 DEF r
      <4> QED
        BY <2>3, <3>1, <4>2
    <3>2. CASE ~(k = c /\ ~Opens(s, l))
      BY <2>3, <3>2
    <3> QED
      BY <3>1, <3>2
  <2>6. Found(n) <=> Found(n - 1) \/ (Opens(s, l) /\ l.of = i)
    <3>1. CASE Opens(s, l)
      <4>1. f[n].records[c + 1].header = l.of
        <5>1. l.of \in Names
          BY <2>1 DEF TextLines
        <5> QED
          BY <2>3, <3>1, <5>1, NewRecordIs
      <4> HIDE DEF l, s, c
      <4>2. \A k \in 1..c + 1 : k \in 1..c \/ k = c + 1
        BY <2>3
      <4>3. 1..c \subseteq 1..c + 1 /\ c + 1 \in 1..c + 1
        BY <2>3
      <4>4. Found(n) <=> \E k \in 1..c + 1 : f[n].records[k].header = i
        BY <2>3, <3>1
      <4>5. Found(n - 1) <=> \E k \in 1..c : s.records[k].header = i
        BY DEF c, s
      <4> HIDE DEF Found
      <4> QED
        BY <2>5, <3>1, <4>1, <4>2, <4>3, <4>4, <4>5
    <3>2. CASE ~Opens(s, l)
      <4>1. Len(f[n].records) = c
        BY <2>3, <3>2
      <4> QED
        BY <2>5, <3>2, <4>1
    <3> QED
      BY <3>1, <3>2
  <2>7. Met(n) <=> Met(n - 1) \/ (l.is = "header" /\ l.of = i /\ ~InFence(s))
    <3>1. \A m \in 1..n : m \in 1..n - 1 \/ m = n
      BY <2>1
    <3>2. 1..n - 1 \subseteq 1..n /\ n \in 1..n /\ ~(n <= e)
      BY <1>3, <2>1
    <3> QED
      BY <3>1, <3>2
  <2> HIDE DEF Found, Met
  <2> QED
    BY <1>3, <2>4, <2>6, <2>7
<1>3a. ASSUME NEW n \in 1..Len(t), n <= e, Found(n - 1) <=> Met(n - 1)
       PROVE  Found(n) <=> Met(n)
  <2>1. f[n] = f[n - 1]
    BY <1>3a DEF Scans
  <2>2. \A m \in 1..n : m \in 1..n - 1 \/ m = n
    BY <1>1
  <2>3. 1..n - 1 \subseteq 1..n
    BY <1>1
  <2>4. Met(n) <=> Met(n - 1)
    BY <1>3a, <2>2, <2>3
  <2>5. Found(n) <=> Found(n - 1)
    BY <2>1
  <2> HIDE DEF Found, Met
  <2> QED
    BY <1>3a, <2>4, <2>5
<1> HIDE DEF Found, Met
<1>4. Bad = {}
  <2> SUFFICES ASSUME Bad # {} PROVE FALSE
    OBVIOUS
  <2>1. Bad \in SUBSET Nat
    BY <1>1
  <2> HIDE DEF Bad
  <2>2. PICK n \in Bad : \A m \in Bad : n <= m
    BY <2>1, LeastOf
  <2> USE DEF Bad
  <2>3. n \in 1..Len(t) /\ n - 1 \in 0..Len(t) /\ ~(n <= n - 1)
    BY <1>1, <1>2, <2>2
  <2>4. Found(n - 1) <=> Met(n - 1)
    BY <2>2, <2>3
  <2> QED
    BY <1>3, <1>3a, <2>2, <2>3, <2>4
<1>5. Found(Len(t)) <=> Met(Len(t))
  BY <1>1, <1>4
<1> QED
  BY <1>5 DEF Found, Met, FoundBy, MetBy

\* The headers of a text that its reader finds, and what damage is there.
LEMMA HeadersAre ==
  ASSUME NEW t \in Seq(TextLines)
  PROVE  \E f : /\ Scans(t, EnvelopeEnd(t), f)
                /\ ~Damaged(t) => ~InFence(f[Len(t)])
                /\ \A i : i \in HeadersRead(t) <=> MetBy(t, EnvelopeEnd(t), f, i)
<1> DEFINE e == EnvelopeEnd(t)  s == Scan(t, e)
<1>1. Len(t) \in Nat
  OBVIOUS
<1>2. PICK f : Scans(t, e, f) /\ s = f[Len(t)]
  BY <1>1, ScanBy
<1>4. ~Damaged(t) => ~InFence(f[Len(t)])
  BY <1>2 DEF Damaged, InFence
<1>5. ASSUME NEW i
      PROVE  i \in HeadersRead(t) <=> FoundBy(s, i)
  <2>1. Deltas(t) = [k \in DOMAIN s.records |-> Delta(s.records[k])]
    BY DEF Deltas
  <2>2. s.records \in Seq(Records)
    BY RecordsAre DEF RecordsOf
  <2> HIDE DEF s
  <2>3. DOMAIN s.records = 1..Len(s.records)
    BY <2>2
  <2>4. \A k \in 1..Len(s.records) : Deltas(t)[k].header = s.records[k].header
    BY <2>1, <2>3 DEF Delta
  <2>5. DOMAIN Deltas(t) = 1..Len(s.records)
    BY <2>1, <2>3
  <2> QED
    BY <2>4, <2>5 DEF HeadersRead, DeltaSet, FoundBy
<1> HIDE DEF s
<1>6. \A i : i \in HeadersRead(t) <=> MetBy(t, e, f, i)
  BY <1>2, <1>5, HeadersOpen
<1> QED
  BY <1>2, <1>4, <1>6

\* A text and what an edit made of it: lines at the beginning and lines at the end are the
\* same, with one line at most between them.
OneEdit(t, u, a, b) ==
  /\ a \in 0..Len(t) /\ b \in 0..Len(t) - a /\ a + b <= Len(u)
  /\ Len(t) <= a + b + 1 /\ Len(u) <= a + b + 1
  /\ \A n \in 1..a : u[n] = t[n]
  /\ \A n \in 0..b - 1 : u[Len(u) - n] = t[Len(t) - n]

\* Its lines, when the rest of a text comes after some others.
LEMMA RestIs ==
  ASSUME NEW t \in Seq(TextLines), NEW a \in 0..Len(t)
  PROVE  /\ SubSeq(t, 1, a) \in Seq(TextLines) /\ Len(SubSeq(t, 1, a)) = a
         /\ \A n \in 1..a : SubSeq(t, 1, a)[n] = t[n]
         /\ SubSeq(t, a + 1, Len(t)) \in Seq(TextLines) /\ Len(SubSeq(t, a + 1, Len(t))) = Len(t) - a
         /\ \A n \in 1..Len(t) - a : SubSeq(t, a + 1, Len(t))[n] = t[a + n]
<1>1. Len(t) \in Nat /\ a \in Nat
  OBVIOUS
<1>2. SubSeq(t, 1, a) \in Seq(TextLines) /\ SubSeq(t, a + 1, Len(t)) \in Seq(TextLines)
  BY <1>1, TextPart
<1>3. SubSeq(t, 1, a) = [n \in 1..a |-> t[n]]
  BY <1>1 DEF SubSeq
<1>4. SubSeq(t, a + 1, Len(t)) = [n \in 1..Len(t) - a |-> t[a + n]]
  BY <1>1 DEF SubSeq
<1> QED
  BY <1>1, <1>2, <1>3, <1>4

\* Every edit is one.
LEMMA EditIsOne ==
  ASSUME NEW t \in Seq(TextLines), NEW L \in SUBSET TextLines, NEW u \in EditsOf(t, L)
  PROVE  \E a, b : OneEdit(t, u, a, b)
<1>1. Len(t) \in Nat /\ DOMAIN t = 1..Len(t)
  OBVIOUS
<1>2. CASE LineWritten(t, L, u)
  <2>1. PICK n \in 0..Len(t), l \in L : u = SubSeq(t, 1, n) \o <<l>> \o SubSeq(t, n + 1, Len(t))
    BY <1>2, Zenon DEF LineWritten
  <2> DEFINE x == SubSeq(t, 1, n)  y == SubSeq(t, n + 1, Len(t))  z == <<l>>
  <2>2. /\ n \in Nat /\ x \in Seq(TextLines) /\ Len(x) = n /\ \A m \in 1..n : x[m] = t[m]
        /\ y \in Seq(TextLines) /\ Len(y) = Len(t) - n /\ \A m \in 1..Len(t) - n : y[m] = t[n + m]
    <3>1. n \in Nat
      BY <1>1
    <3>2. /\ x \in Seq(TextLines) /\ Len(x) = n /\ \A m \in 1..n : x[m] = t[m]
          /\ y \in Seq(TextLines) /\ Len(y) = Len(t) - n /\ \A m \in 1..Len(t) - n : y[m] = t[n + m]
      BY RestIs, Zenon
    <3> QED
      BY <3>1, <3>2
  <2>3. z \in Seq(TextLines) /\ Len(z) = 1
    BY PutTogether
  <2>4. u = x \o z \o y
    BY <2>1
  <2> HIDE DEF x, y, z
  <2>5. /\ x \o z \in Seq(TextLines) /\ Len(x \o z) = n + 1
        /\ \A m \in 1..n : (x \o z)[m] = x[m]
    <3>1. /\ x \o z \in Seq(TextLines) /\ Len(x \o z) = Len(x) + Len(z)
          /\ \A m \in 1..Len(x) + Len(z) : (x \o z)[m] = IF m <= Len(x) THEN x[m] ELSE z[m - Len(x)]
      BY <2>2, <2>3, ConcatProperties
    <3>2. \A m \in 1..n : m \in 1..Len(x) + Len(z) /\ m <= Len(x)
      BY <2>2, <2>3
    <3> QED
      BY <2>2, <2>3, <3>1, <3>2
  <2>6. /\ Len(u) = Len(t) + 1 /\ \A m \in 1..n : u[m] = t[m]
        /\ \A m \in 1..Len(t) - n : u[n + 1 + m] = t[n + m]
    <3> DEFINE w == x \o z
    <3>1. w \in Seq(TextLines) /\ Len(w) = n + 1 /\ u = w \o y /\ \A m \in 1..n : w[m] = t[m]
      BY <2>2, <2>4, <2>5
    <3> HIDE DEF w
    <3>2. Len(u) = Len(w) + Len(y) /\ \A m \in 1..Len(w) + Len(y) : u[m] = IF m <= Len(w) THEN w[m] ELSE y[m - Len(w)]
      BY <2>2, <3>1, ConcatProperties
    <3>3. \A m \in 1..n : m \in 1..Len(w) + Len(y) /\ m <= Len(w)
      BY <1>1, <2>2, <3>1
    <3>4. \A m \in 1..Len(t) - n : n + 1 + m \in 1..Len(w) + Len(y) /\ ~(n + 1 + m <= Len(w)) /\ n + 1 + m - Len(w) = m
      BY <1>1, <2>2, <3>1
    <3> QED
      <4>1. Len(u) = Len(t) + 1
        BY <1>1, <2>2, <3>1, <3>2
      <4>2. \A m \in 1..n : u[m] = t[m]
        BY <3>1, <3>2, <3>3
      <4>3. \A m \in 1..Len(t) - n : u[n + 1 + m] = t[n + m]
        <5> SUFFICES ASSUME NEW m \in 1..Len(t) - n PROVE u[n + 1 + m] = t[n + m]
          OBVIOUS
        <5> DEFINE k == n + 1 + m
        <5>1. k \in 1..Len(w) + Len(y) /\ ~(k <= Len(w)) /\ k - Len(w) = m
          BY <3>4
        <5> HIDE DEF k
        <5>2. u[k] = y[m]
          BY <3>2, <5>1
        <5> QED
          BY <2>2, <5>2 DEF k
      <4> QED
        BY <4>1, <4>2, <4>3
  <2>7. \A m \in 0..Len(t) - n - 1 : u[Len(u) - m] = t[Len(t) - m]
    <3> SUFFICES ASSUME NEW m \in 0..Len(t) - n - 1 PROVE u[Len(u) - m] = t[Len(t) - m]
      OBVIOUS
    <3> DEFINE k == Len(t) - n - m
    <3>1. k \in 1..Len(t) - n /\ n + 1 + k = Len(u) - m /\ n + k = Len(t) - m
      BY <1>1, <2>2, <2>6
    <3> QED
      BY <2>6, <3>1
  <2>8. OneEdit(t, u, n, Len(t) - n)
    BY <1>1, <2>2, <2>6, <2>7 DEF OneEdit
  <2> QED
    BY <2>8
<1>3. CASE LineRemoved(t, u)
  <2>1. PICK n \in 1..Len(t) : u = SubSeq(t, 1, n - 1) \o SubSeq(t, n + 1, Len(t))
    BY <1>1, <1>3, Zenon DEF LineRemoved
  <2> DEFINE x == SubSeq(t, 1, n - 1)  y == SubSeq(t, n + 1, Len(t))
  <2>2. n \in Nat /\ n - 1 \in 0..Len(t) /\ n \in 0..Len(t)
    BY <1>1
  <2>3. /\ x \in Seq(TextLines) /\ Len(x) = n - 1 /\ \A m \in 1..n - 1 : x[m] = t[m]
        /\ y \in Seq(TextLines) /\ Len(y) = Len(t) - n /\ \A m \in 1..Len(t) - n : y[m] = t[n + m]
    BY <2>2, RestIs
  <2>4. u = x \o y
    BY <2>1
  <2> HIDE DEF x, y
  <2>5. Len(u) = Len(x) + Len(y) /\ \A m \in 1..Len(x) + Len(y) : u[m] = IF m <= Len(x) THEN x[m] ELSE y[m - Len(x)]
    BY <2>3, <2>4, ConcatProperties
  <2>6. Len(u) = Len(t) - 1 /\ \A m \in 1..n - 1 : u[m] = t[m]
    <3>1. Len(x) \in Nat /\ Len(y) \in Nat /\ Len(x) = n - 1 /\ Len(y) = Len(t) - n
      BY <2>3
    <3>2. Len(u) = Len(t) - 1
      BY <1>1, <2>2, <2>5, <3>1
    <3>3. \A m \in 1..n - 1 : m \in 1..Len(x) + Len(y) /\ m <= Len(x)
      BY <1>1, <2>2, <3>1
    <3>4. \A m \in 1..n - 1 : u[m] = x[m]
      BY <2>5, <3>3
    <3> QED
      BY <2>3, <3>2, <3>4
  <2>7. \A m \in 0..Len(t) - n - 1 : u[Len(u) - m] = t[Len(t) - m]
    <3> SUFFICES ASSUME NEW m \in 0..Len(t) - n - 1 PROVE u[Len(u) - m] = t[Len(t) - m]
      OBVIOUS
    <3> DEFINE k == Len(t) - n - m  j == Len(u) - m
    <3>1. k \in 1..Len(t) - n /\ n + k = Len(t) - m
      BY <1>1, <2>2
    <3>2. j \in 1..Len(x) + Len(y) /\ ~(j <= Len(x)) /\ j - Len(x) = k
      BY <1>1, <2>2, <2>3, <2>6
    <3> HIDE DEF k, j
    <3>3. u[j] = y[k] /\ y[k] = t[n + k]
      BY <2>3, <2>5, <3>1, <3>2
    <3> QED
      BY <3>1, <3>3 DEF j
  <2>8. OneEdit(t, u, n - 1, Len(t) - n)
    BY <1>1, <2>2, <2>6, <2>7 DEF OneEdit
  <2> QED
    BY <2>8
<1>4. CASE LineChanged(t, L, u)
  <2>1. PICK n \in 1..Len(t), l \in L : u = [t EXCEPT ![n] = l]
    BY <1>1, <1>4, Zenon DEF LineChanged
  <2>2. Len(u) = Len(t) /\ \A m \in 1..Len(t) : m # n => u[m] = t[m]
    BY <1>1, <2>1
  <2>3. n \in Nat /\ \A m \in 1..n - 1 : m \in 1..Len(t) /\ m # n
    BY <1>1
  <2> DEFINE c == Len(t)
  <2>5. \A m \in 0..c - n - 1 : c - m \in 1..c /\ c - m # n
    <3>1. c \in Nat /\ n \in 1..c
      BY <1>1
    <3> HIDE DEF c
    <3> QED
      BY <3>1
  <2>6. \A m \in 0..c - n - 1 : u[c - m] = t[c - m]
    BY <2>2, <2>5
  <2>4. OneEdit(t, u, n - 1, Len(t) - n)
    BY <1>1, <2>2, <2>3, <2>6 DEF OneEdit
  <2> QED
    BY <2>4
<1> QED
  BY <1>2, <1>3, <1>4, EditKinds, Zenon

\* A scan finds nothing in the lines that it passes over.
LEMMA ScanWaits ==
  ASSUME NEW t \in Seq(TextLines), NEW e \in Nat, NEW f, Scans(t, e, f)
  PROVE  \A n \in 0..Len(t) : n <= e => f[n].at = "seek"
<1> DEFINE Bad == {n \in 0..Len(t) : n <= e /\ f[n].at # "seek"}
<1>1. Len(t) \in Nat /\ f[0].at = "seek"
  BY DEF Scans, ScanFrom
<1> SUFFICES ASSUME Bad # {} PROVE FALSE
  OBVIOUS
<1>2. Bad \in SUBSET Nat
  BY <1>1
<1> HIDE DEF Bad
<1>3. PICK n \in Bad : \A m \in Bad : n <= m
  BY <1>2, LeastOf
<1> USE DEF Bad
<1>4. n \in 1..Len(t) /\ n - 1 \in 0..Len(t) /\ n <= e /\ n - 1 <= e /\ f[n].at # "seek" /\ ~(n <= n - 1)
  BY <1>1, <1>3
<1>5. f[n - 1].at = "seek"
  BY <1>3, <1>4
<1> HIDE DEF Bad
<1> QED
  BY <1>4, <1>5 DEF Scans

\* A plain text and another that end alike, outside of fences: where their ends are the
\* same, the other's scan has found no header yet, or both are inside of fences at the
\* same lines.
LEMMA EndsPair ==
  ASSUME NEW t \in Seq(TextLines), NEW u \in Seq(TextLines), Plain(t), NEW f, NEW g,
         Scans(t, EnvelopeEnd(t), f), Scans(u, EnvelopeEnd(u), g), ~InFence(f[Len(t)]), ~InFence(g[Len(u)]),
         NEW b \in Nat, b <= Len(t), b <= Len(u), \A n \in 0..b - 1 : u[Len(u) - n] = t[Len(t) - n]
  PROVE  \A n \in 0..b : g[Len(u) - n].at = "seek" \/ (InFence(g[Len(u) - n]) <=> InFence(f[Len(t) - n]))
<1> DEFINE Same(n) == g[Len(u) - n].at = "seek" \/ (InFence(g[Len(u) - n]) <=> InFence(f[Len(t) - n]))
           Bad == {n \in 0..b : ~Same(n)}
           e == EnvelopeEnd(u)
<1>1. Len(t) \in Nat /\ Len(u) \in Nat /\ e \in Nat /\ DOMAIN t = 1..Len(t)
  BY EnvelopeIs
<1>2. Same(0)
  BY <1>1
<1>3. ASSUME NEW n \in 0..b - 1, Same(n)
      PROVE  Same(n + 1)
  <2> DEFINE i == Len(t) - n  j == Len(u) - n
  <2>1. i \in 1..Len(t) /\ j \in 1..Len(u) /\ i - 1 = Len(t) - (n + 1) /\ j - 1 = Len(u) - (n + 1)
        /\ j - 1 \in 0..Len(u)
    BY <1>1
  <2>2. u[j] = t[i]
    OBVIOUS
  <2>3. g[j].at = "seek" \/ (InFence(g[j]) <=> InFence(f[i]))
    BY <1>3
  <2> HIDE DEF i, j, e
  <2>4. InFence(f[i]) <=> ~(InFence(f[i - 1]) <=> t[i].is = "fence")
    BY <2>1, FencesPair
  <2>5. t[i].is # "indented"
    BY <1>1, <2>1 DEF Plain
  <2>6. CASE g[j - 1].at = "seek"
    BY <2>1, <2>6
  <2>7. CASE g[j - 1].at # "seek"
    <3>1. ~(j <= e)
      <4> SUFFICES ASSUME j <= e PROVE FALSE
        OBVIOUS
      <4>1. g[j - 1].at = "seek"
        BY <1>1, <2>1, ScanWaits DEF e
      <4> QED
        BY <2>7, <4>1
    <3>2. InFence(g[j]) <=> ~(InFence(g[j - 1]) <=> u[j].is = "fence")
      BY <2>1, <2>2, <2>5, <2>7, <3>1, FenceTurns DEF e
    <3>3. g[j].at # "seek"
      <4>1. g[j].at = NextAt(g[j - 1], u[j]) /\ g[j - 1].at \in ScanStates
        <5>1. g[j] = ScanStep(g[j - 1], u[j], j) /\ ScanShape(g[j - 1]) /\ u[j] \in TextLines /\ j \in Nat
          <6>1. Scans(u, e, g)
            BY DEF e
          <6>2. g[j] = IF j <= e THEN g[j - 1] ELSE ScanStep(g[j - 1], u[j], j)
            BY <2>1, <6>1 DEF Scans
          <6>3. ScanShape(g[j - 1])
            BY <2>1, <6>1, ScanShapes
          <6>4. u[j] \in TextLines /\ j \in Nat
            BY <2>1
          <6> QED
            BY <3>1, <6>2, <6>3, <6>4
        <5> DEFINE s == g[j - 1]  l == u[j]
        <5> HIDE DEF s, l
        <5>2. g[j] = ScanStep(s, l, j) /\ ScanShape(s) /\ l \in TextLines /\ j \in Nat
          BY <5>1 DEF s, l
        <5>3. ScanStep(s, l, j).at = NextAt(s, l)
          BY <5>2, StepShape
        <5>4. s.at \in ScanStates
          BY <5>2 DEF ScanShape
        <5>5. g[j].at = NextAt(s, l)
          BY <5>2, <5>3
        <5> QED
          BY <5>4, <5>5 DEF s, l
      <4> QED
        BY <2>7, <4>1 DEF NextAt, ScanStates
    <3>4. InFence(g[j - 1]) <=> InFence(f[i - 1])
      BY <2>2, <2>3, <2>4, <3>2, <3>3
    <3> QED
      BY <2>1, <3>4
  <2> QED
    BY <2>6, <2>7
<1> HIDE DEF Same
<1> SUFFICES ASSUME Bad # {} PROVE FALSE
  BY DEF Same
<1>4. Bad \in SUBSET Nat
  OBVIOUS
<1> HIDE DEF Bad
<1>5. PICK n \in Bad : \A m \in Bad : n <= m
  BY <1>4, LeastOf
<1> USE DEF Bad
<1>6. n \in 1..b /\ n - 1 \in 0..b - 1 /\ n - 1 \in 0..b /\ ~(n <= n - 1) /\ (n - 1) + 1 = n
  BY <1>2, <1>5
<1>7. Same(n - 1)
  BY <1>5, <1>6
<1> HIDE DEF Bad
<1>8. Same(n)
  BY <1>3, <1>6, <1>7
<1> QED
  BY <1>5, <1>8 DEF Bad

\* The closing rule of an envelope is the first one after its first line.
LEMMA EnvelopeCloses ==
  ASSUME NEW t \in Seq(TextLines), EnvelopeEnd(t) # 0
  PROVE  /\ HasEnvelope(t) /\ EnvelopeEnd(t) \in Rules(t)
         /\ \A n \in Rules(t) : EnvelopeEnd(t) <= n
<1>1. HasEnvelope(t) /\ Rules(t) # {} /\ EnvelopeEnd(t) = FirstOf(Rules(t))
  BY DEF EnvelopeEnd
<1>2. Rules(t) \in SUBSET Nat
  BY DEF Rules
<1>3. PICK x \in Rules(t) : \A y \in Rules(t) : x <= y
  BY <1>1, <1>2, LeastOf
<1> QED
  BY <1>1, <1>3 DEF FirstOf

\* Where two undamaged texts begin alike up to the end of an envelope, or one has none,
\* the other's envelope ends there too.
LEMMA EnvelopeShared ==
  ASSUME NEW t \in Seq(TextLines), NEW u \in Seq(TextLines), ~Damaged(t), ~Damaged(u),
         NEW a \in Nat, 1 <= a, a <= Len(t), a <= Len(u), \A n \in 1..a : u[n] = t[n], EnvelopeEnd(u) <= a
  PROVE  EnvelopeEnd(t) = EnvelopeEnd(u)
<1>1. /\ Len(t) \in Nat /\ Len(u) \in Nat /\ 1 \in 1..a /\ t # <<>> /\ u # <<>>
      /\ EnvelopeEnd(t) \in 0..Len(t) /\ EnvelopeEnd(u) \in 0..Len(u)
  BY EnvelopeIs
<1>2. HasEnvelope(u) <=> HasEnvelope(t)
  BY <1>1 DEF HasEnvelope
<1>3. CASE ~HasEnvelope(u)
  BY <1>2, <1>3 DEF EnvelopeEnd
<1>4. CASE HasEnvelope(u)
  <2>1. Rules(u) # {} /\ Rules(t) # {} /\ Rules(u) \in SUBSET (2..Len(u)) /\ Rules(t) \in SUBSET (2..Len(t))
    BY <1>2, <1>4 DEF Damaged, Rules
  <2>2. EnvelopeEnd(u) # 0 /\ EnvelopeEnd(t) # 0
    <3>1. ASSUME NEW S \in SUBSET Nat, S # {}, 0 \notin S PROVE FirstOf(S) # 0
      <4>1. PICK x \in S : \A y \in S : x <= y
        BY <3>1, LeastOf
      <4> QED
        BY <3>1, <4>1 DEF FirstOf
    <3>2. /\ Rules(u) \in SUBSET Nat /\ 0 \notin Rules(u) /\ Rules(t) \in SUBSET Nat /\ 0 \notin Rules(t)
      BY <1>1, <2>1
    <3>3. FirstOf(Rules(u)) # 0 /\ FirstOf(Rules(t)) # 0
      BY <2>1, <3>1, <3>2
    <3> QED
      BY <1>2, <1>4, <2>1, <3>3 DEF EnvelopeEnd
  <2>3. /\ EnvelopeEnd(u) \in Rules(u) /\ \A n \in Rules(u) : EnvelopeEnd(u) <= n
        /\ EnvelopeEnd(t) \in Rules(t) /\ \A n \in Rules(t) : EnvelopeEnd(t) <= n
    BY <2>2, EnvelopeCloses
  <2>4. \A n \in 1..a : n \in Rules(u) <=> n \in Rules(t)
    BY <1>1 DEF Rules
  <2>5. EnvelopeEnd(t) <= EnvelopeEnd(u)
    BY <1>1, <2>2, <2>3, <2>4
  <2>6. EnvelopeEnd(u) <= EnvelopeEnd(t)
    BY <1>1, <2>2, <2>3, <2>4, <2>5
  <2> QED
    BY <1>1, <2>5, <2>6
<1> QED
  BY <1>3, <1>4

\* After one edit of a plain text that was not damaged, a header that was read and still
\* stands below the envelope is read, when no damage is reported.
LEMMA FaultIsSeen ==
  ASSUME NEW t \in Seq(TextLines), NEW u \in Seq(TextLines), Plain(t), ~Damaged(t), ~Damaged(u),
         NEW a, NEW b, OneEdit(t, u, a, b), NEW i \in HeadersRead(t), HeaderLines(u, i) # {}
  PROVE  i \in HeadersRead(u)
<1> DEFINE d == EnvelopeEnd(t)  e == EnvelopeEnd(u)
<1>1. PICK f : /\ Scans(t, d, f) /\ ~InFence(f[Len(t)])
               /\ \A j : j \in HeadersRead(t) <=> MetBy(t, d, f, j)
  BY HeadersAre
<1>2. PICK g : /\ Scans(u, e, g) /\ ~InFence(g[Len(u)])
               /\ \A j : j \in HeadersRead(u) <=> MetBy(u, e, g, j)
  BY HeadersAre
<1>3. PICK p \in 1..Len(t) : ~(p <= d) /\ t[p].is = "header" /\ t[p].of = i /\ ~InFence(f[p - 1])
  BY <1>1 DEF MetBy
<1>5. /\ Len(t) \in Nat /\ Len(u) \in Nat /\ DOMAIN t = 1..Len(t) /\ DOMAIN u = 1..Len(u)
      /\ d \in 0..Len(t) /\ e \in 0..Len(u)
  BY EnvelopeIs
<1> HIDE DEF d, e
<1>4. PICK q \in 1..Len(u) : ~(q <= e) /\ u[q] = Header(i)
  <2>1. PICK q \in e + 1..Len(u) : u[q] = Header(i)
    BY DEF HeaderLines, e
  <2> QED
    BY <1>5, <2>1
<1>6. t[p] = Header(i) /\ Header(i).is = "header" /\ Header(i).of = i
  <2>1. t[p] \in TextLines
    OBVIOUS
  <2> QED
    BY <1>3, <1>4, <2>1 DEF TextLines, Header, Line
<1>7. \A j \in 1..Len(t) : t[j] = Header(i) => j = p
  BY <1>3, <1>5, <1>6, Zenon DEF Plain
<1>9. /\ a \in 0..Len(t) /\ b \in 0..Len(t) - a /\ a + b <= Len(u)
      /\ Len(t) <= a + b + 1 /\ Len(u) <= a + b + 1
      /\ \A n \in 1..a : u[n] = t[n]
      /\ \A n \in 0..b - 1 : u[Len(u) - n] = t[Len(t) - n]
  BY DEF OneEdit
<1>10. ASSUME e <= a PROVE \A n \in 0..a : ~InFence(f[n]) => ~InFence(g[n])
  <2>1. CASE a = 0
    <3>1. ~InFence(g[0])
      BY <1>2 DEF Scans, ScanFrom, InFence
    <3> QED
      BY <2>1, <3>1
  <2>2. CASE a # 0
    <3>1. a \in Nat /\ 1 <= a /\ a <= Len(t) /\ a <= Len(u)
      BY <1>5, <1>9, <2>2
    <3>2. d = e
      BY <1>9, <1>10, <3>1, EnvelopeShared DEF d, e
    <3>3. \A n \in 0..a : g[n] = f[n]
      <4>1. Scans(t, d, f) /\ Scans(u, d, g)
        BY <1>1, <1>2, <3>2
      <4>2. \A n \in 1..a : u[n] = t[n]
        BY <1>9
      <4> QED
        BY <3>1, <4>1, <4>2, PrefixScans
    <3>4. ASSUME NEW n \in 0..a, ~InFence(f[n]) PROVE ~InFence(g[n])
      <4>1. g[n] = f[n]
        BY <3>3
      <4> QED
        BY <3>4, <4>1
    <3> QED
      BY <3>4
  <2> QED
    BY <2>1, <2>2
<1>11. \A n \in 0..b : ~InFence(f[Len(t) - n]) => ~InFence(g[Len(u) - n])
  <2>1. b \in Nat /\ b <= Len(t) /\ b <= Len(u)
    BY <1>5, <1>9
  <2>2. \A n \in 0..b : g[Len(u) - n].at = "seek" \/ (InFence(g[Len(u) - n]) <=> InFence(f[Len(t) - n]))
    BY <1>1, <1>2, <1>9, <2>1, EndsPair DEF d, e
  <2> QED
    BY <2>2 DEF InFence
<1>12. \E m \in 1..Len(u) : ~(m <= e) /\ u[m] = Header(i) /\ ~InFence(g[m - 1])
  <2>1. CASE q <= a
    <3>1. q \in 1..a /\ q \in 1..Len(t) /\ q - 1 \in 0..a /\ e <= a
      BY <1>4, <1>5, <1>9, <2>1
    <3>2. q = p
      BY <1>4, <1>7, <1>9, <3>1
    <3>3. ~InFence(g[q - 1])
      BY <1>3, <1>10, <3>1, <3>2
    <3> QED
      BY <1>4, <3>3
  <2>2. CASE Len(u) - b < q
    <3> DEFINE n == Len(u) - q  j == Len(t) - n
    <3>1. /\ n \in 0..b - 1 /\ n + 1 \in 0..b /\ j \in 1..Len(t) /\ Len(u) - n = q
          /\ Len(u) - (n + 1) = q - 1 /\ Len(t) - (n + 1) = j - 1 /\ Len(t) - n = j
      BY <1>5, <1>9, <2>2
    <3> HIDE DEF n, j
    <3>2. t[j] = Header(i)
      BY <1>4, <1>9, <3>1
    <3>3. j = p
      BY <1>7, <3>1, <3>2
    <3>4. ~InFence(g[q - 1])
      BY <1>3, <1>11, <3>1, <3>3
    <3> QED
      BY <1>4, <3>4
  <2>3. CASE ~(q <= a) /\ ~(Len(u) - b < q)
    <3>1. q = a + 1 /\ Len(u) = a + b + 1 /\ e <= a
      <4> DEFINE c == Len(u)
      <4>1. /\ c \in Nat /\ a \in Nat /\ b \in Nat /\ q \in 1..c /\ a + b <= c /\ c <= a + b + 1
            /\ ~(q <= a) /\ ~(c - b < q) /\ ~(q <= e) /\ e \in Nat
        BY <1>4, <1>5, <1>9, <2>3
      <4> HIDE DEF c
      <4>2. q = a + 1 /\ c = a + b + 1 /\ e <= a
        BY <4>1
      <4> QED
        BY <4>2 DEF c
    <3>2. CASE p <= a
      <4>1. p \in 1..a /\ p \in 1..Len(u) /\ p - 1 \in 0..a /\ 1 <= a /\ a \in Nat /\ a <= Len(t) /\ a <= Len(u)
        BY <1>5, <1>9, <3>1, <3>2
      <4>2. d = e
        BY <1>9, <3>1, <4>1, EnvelopeShared DEF d, e
      <4>3. u[p] = Header(i) /\ ~InFence(g[p - 1]) /\ ~(p <= e)
        BY <1>3, <1>6, <1>9, <1>10, <3>1, <4>1, <4>2
      <4> QED
        BY <4>1, <4>3
    <3>3. CASE Len(t) - b < p
      <4> DEFINE n == Len(t) - p  j == Len(u) - n
      <4>1. /\ n \in 0..b - 1 /\ n + 1 \in 0..b /\ j \in 1..Len(u) /\ Len(t) - n = p /\ Len(u) - n = j
            /\ Len(t) - (n + 1) = p - 1 /\ Len(u) - (n + 1) = j - 1 /\ ~(j <= e)
        BY <1>5, <1>9, <3>1, <3>3
      <4> HIDE DEF n, j
      <4>2. u[j] = Header(i)
        BY <1>6, <1>9, <4>1
      <4>3. ~InFence(g[j - 1])
        BY <1>3, <1>11, <4>1
      <4> QED
        BY <4>1, <4>2, <4>3
    <3>4. CASE ~(p <= a) /\ ~(Len(t) - b < p)
      <4>1. p = a + 1
        <5> DEFINE c == Len(t)
        <5>1. c \in Nat /\ a \in Nat /\ b \in Nat /\ p \in 1..c /\ c <= a + b + 1 /\ ~(p <= a) /\ ~(c - b < p)
          BY <1>5, <1>9, <3>4
        <5> HIDE DEF c
        <5> QED
          BY <5>1
      <4>2. p = q /\ q - 1 = a /\ a \in 0..a
        BY <1>5, <1>9, <3>1, <4>1
      <4>3. ~InFence(g[q - 1])
        BY <1>3, <1>10, <3>1, <4>2
      <4> QED
        BY <1>4, <4>3
    <3> QED
      BY <3>2, <3>3, <3>4
  <2> QED
    BY <2>1, <2>2, <2>3
<1>13. MetBy(u, e, g, i)
  BY <1>6, <1>12 DEF MetBy
<1> QED
  BY <1>2, <1>13

\* One fault does not hide a delta below the envelope, in whatever plain text it is made.
THEOREM SingleFaultStands == PagesSpec => SingleFaultIsSeen
<1> DEFINE A == Edited /\ ~Damaged(live) /\ Plain(live) =>
       \/ Damaged(live')
       \/ \A i \in HeadersRead(live) : HeaderLines(live', i) # {} => i \in HeadersRead(live')
<1>1. TextInv /\ [Promotes \/ Lints]_<<vars, pinVars>> => [A]_vars
  <2> SUFFICES ASSUME TextInv, [Promotes \/ Lints]_<<vars, pinVars>>, Edited, ~Damaged(live), ~Damaged(live'),
                      Plain(live), NEW i \in HeadersRead(live), HeaderLines(live', i) # {}
               PROVE  i \in HeadersRead(live')
    BY Zenon
  <2>1. Edit
    BY DEF Promotes, Lints, Next, vars, Edited, Archive, Flip, Merge
  <2>2. CASE live' = live
    BY <2>2
  <2>3. CASE live' \in EditsOf(live, Lines.fragment)
    <3>1. live \in Seq(TextLines) /\ Lines.fragment \in SUBSET TextLines /\ live' \in Seq(TextLines)
      BY <2>3, LinesAre, EditsAre DEF TextInv
    <3>2. PICK a, b : OneEdit(live, live', a, b)
      BY <2>3, <3>1, EditIsOne
    <3> QED
      BY <3>1, <3>2, FaultIsSeen
  <2> QED
    BY <2>1, <2>2, <2>3, Zenon DEF Edit
<1> HIDE DEF A
<1>2. PagesSpec => [][A]_vars
  BY <1>1, TextStays, PTL DEF PagesSpec
<1> QED
  BY <1>2, PTL DEF SingleFaultIsSeen, A

-----------------------------------------------------------------------------
(* The manifest of a page                                                  *)

\* The lines that a merge writes.
LEMMA NewLinesAre ==
  /\ Key \in TextLines /\ Key.is = "consolidates" /\ Blank(Key.of)
  /\ \A i \in Names : Item(i) \in TextLines /\ Item(i).is = "item" /\ Item(i).of = i
<1>1. Key = [is |-> "consolidates", of |-> Nil] /\ Blank(Nil)
  BY Zenon DEF Key, Line, Blank, Nil
<1>2. Key \in TextLines /\ Key.is = "consolidates" /\ Blank(Key.of)
  BY <1>1 DEF TextLines, Names
<1> QED
  BY <1>2 DEF Item, Line, TextLines

\* Metadata before the first line.
LEMMA NoMetaIs == NoMeta \in Metas /\ NoMeta.key \notin Keys /\ NoMeta.of["consolidates"].items = <<>>
<1>1. NoMeta = [key |-> Nil, of |-> [k \in Keys |-> [is |-> "absent", of |-> Nil, items |-> <<>>]]]
  BY Zenon DEF Nil, NoMeta, Absent
<1>2. Nil \notin Keys
  BY Zenon DEF Nil, Keys
<1>3. <<>> \in Seq(Names) /\ "consolidates" \in Keys
  BY DEF Keys
<1> QED
  BY <1>1, <1>2, <1>3 DEF Metas, Values, KeyNames, Names

\* The metadata after each line.
MetaReads(t, f) ==
  /\ f[0] = NoMeta
  /\ \A n \in 1..Len(t) : f[n] = MetaStep(f[n - 1], t[n])

\* The frontmatter between its rules.
Front(t) == SubSeq(t, 2, EnvelopeEnd(t) - 1)

\* The recursion of ConsumerReads has a value.
LEMMA ConsumerBy ==
  ASSUME NEW t, Len(Front(t)) \in Nat
  PROVE  \E f : MetaReads(Front(t), f) /\ ConsumerReads(t) = f[Len(Front(t))].of["consolidates"]
<1> DEFINE p == Front(t)
           Of(f, n) == IF n = 0 THEN NoMeta ELSE MetaStep(f[n - 1], p[n])
           Is(m, f) == f = [n \in 0..m |-> Of(f, n)]
           Bad == {m \in Nat : \A f : ~Is(m, f)}
<1> HIDE DEF p
<1>1. Bad = {}
  <2> SUFFICES ASSUME Bad # {} PROVE FALSE
    OBVIOUS
  <2>1. PICK m \in Bad : \A j \in Bad : m <= j
    BY LeastOf
  <2>2. m # 0
    <3>1. Is(0, [n \in 0..0 |-> NoMeta])
      OBVIOUS
    <3> QED
      BY <2>1, <3>1
  <2>3. m - 1 \in Nat /\ m - 1 \notin Bad
    <3>1. m \in Nat
      BY <2>1
    <3> HIDE DEF Bad
    <3> QED
      BY <2>1, <2>2, <3>1
  <2>4. PICK f : Is(m - 1, f)
    BY <2>3
  <2> DEFINE g == [n \in 0..m |-> IF n = m THEN Of(f, m) ELSE f[n]]
  <2>5. \A n \in 0..m : Of(g, n) = Of(f, n)
    <3> SUFFICES ASSUME NEW n \in 0..m, n # 0 PROVE g[n - 1] = f[n - 1]
      BY DEF Of
    <3>1. n - 1 \in 0..m /\ n - 1 # m
      BY <2>1
    <3> HIDE DEF Of
    <3> QED
      BY <3>1
  <2>6. Is(m, g)
    <3> HIDE DEF Of
    <3>1. \A n \in 0..m - 1 : f[n] = Of(f, n)
      BY <2>4
    <3>2. \A n \in 0..m : g[n] = Of(f, n)
      BY <2>1, <3>1
    <3>3. g = [n \in 0..m |-> g[n]]
      OBVIOUS
    <3> HIDE DEF g
    <3> QED
      BY <2>5, <3>2, <3>3
  <2> QED
    BY <2>1, <2>6
<1>2. \E f : Is(Len(p), f)
  BY <1>1 DEF p
<1> DEFINE f == CHOOSE f : Is(Len(p), f)
<1>3. ConsumerReads(t) = f[Len(p)].of["consolidates"]
  BY Zenon DEF ConsumerReads, Through, Front, p
<1>4. Is(Len(p), f)
  BY <1>2, Zenon
<1> HIDE DEF f
<1>5. MetaReads(p, f)
  <2>1. \A n \in 0..Len(p) : f[n] = Of(f, n)
    <3> HIDE DEF Of
    <3> QED
      BY <1>4
  <2>2. 0 \in 0..Len(p) /\ \A n \in 1..Len(p) : n \in 0..Len(p) /\ n # 0
    BY DEF p
  <2> QED
    BY <2>1, <2>2 DEF MetaReads
<1> QED
  BY <1>3, <1>5 DEF p

\* The refusals of both scans, in terms that the provers share.
LEMMA CarriesIs ==
  ASSUME NEW t, NEW S
  PROVE  CarriesManifest(t, S) <=>
           /\ EnvelopeEnd(t) # 0 /\ Cardinality(KeyLines(t)) <= 1
           /\ \A k \in KeyLines(t) : Blank(t[k].of) /\ ~ResumesAfter(t, k, S)
BY Zenon DEF CarriesManifest, Blank, Nil

\* Where an envelope is, its rules are its first line and its end.
LEMMA EnvelopeRules ==
  ASSUME NEW t \in Seq(TextLines), EnvelopeEnd(t) # 0
  PROVE  /\ HasEnvelope(t) /\ EnvelopeEnd(t) \in 2..Len(t) /\ t[1].is = "rule" /\ t[EnvelopeEnd(t)].is = "rule"
         /\ \A n \in 2..EnvelopeEnd(t) - 1 : t[n].is # "rule"
<1>1. Len(t) \in Nat
  OBVIOUS
<1>2. HasEnvelope(t) /\ Rules(t) # {} /\ EnvelopeEnd(t) = FirstOf(Rules(t))
  BY DEF EnvelopeEnd
<1>3. Rules(t) \in SUBSET Nat
  BY <1>1 DEF Rules
<1>4. PICK x \in Rules(t) : \A y \in Rules(t) : x <= y
  BY <1>2, <1>3, LeastOf
<1>5. FirstOf(Rules(t)) \in Rules(t) /\ \A y \in Rules(t) : FirstOf(Rules(t)) <= y
  BY <1>4 DEF FirstOf
<1>6. EnvelopeEnd(t) \in Rules(t) /\ \A y \in Rules(t) : EnvelopeEnd(t) <= y
  BY <1>2, <1>5
<1> DEFINE e == EnvelopeEnd(t)
<1> HIDE DEF e
<1>7. e \in 2..Len(t) /\ t[e].is = "rule"
  BY <1>6 DEF Rules, e
<1>8. \A n \in 2..e - 1 : t[n].is # "rule"
  <2> SUFFICES ASSUME NEW n \in 2..e - 1, t[n].is = "rule" PROVE FALSE
    OBVIOUS
  <2>1. n \in 2..Len(t) /\ ~(e <= n)
    BY <1>1, <1>7
  <2> QED
    BY <1>6, <2>1 DEF Rules, e
<1> QED
  BY <1>2, <1>7, <1>8 DEF HasEnvelope, e

\* A manifest: a key in block style at line k, and c items after it; no more are read.
Block(t, S, k, c) ==
  /\ EnvelopeEnd(t) # 0
  /\ k \in 2..EnvelopeEnd(t) - 1 /\ c \in Nat /\ k + c < EnvelopeEnd(t)
  /\ t[k].is = "consolidates" /\ Blank(t[k].of)
  /\ \A n \in 2..EnvelopeEnd(t) : t[n].is = "consolidates" => n = k
  /\ \A n \in k + 1..k + c : t[n].is \in S
  /\ t[k + c + 1].is \notin S
  /\ \A n \in k + c + 1..EnvelopeEnd(t) : t[n].is \in Items => \E m \in k + 1..n : t[m].is \in Keys

\* None.
NoBlock(t) == EnvelopeEnd(t) # 0 /\ \A n \in 2..EnvelopeEnd(t) : t[n].is # "consolidates"

\* The values of the c lines after line k.
Carried(t, k, c) == [n \in 1..c |-> t[k + n].of]

\* What the scans find of one.
LEMMA BlockIs ==
  ASSUME NEW t \in Seq(TextLines), NEW S, NEW k, NEW c, Block(t, S, k, c)
  PROVE  /\ CarriesManifest(t, S) /\ KeyLines(t) = {k} /\ FirstOf(KeyLines(t)) = k
         /\ ItemsAfter(t, k, S) = k + 1..k + c
         /\ Listed(t, S) = Carried(t, k, c)
<1> DEFINE e == EnvelopeEnd(t)
<1>1. e \in 2..Len(t) /\ Len(t) \in Nat
  BY EnvelopeRules DEF Block
<1>2. k \in 2..e - 1 /\ c \in Nat /\ k + c < e
  BY DEF Block
<1>3. KeyLines(t) = {k}
  <2>1. k \in 2..e
    BY <1>1, <1>2
  <2> QED
    BY <2>1 DEF KeyLines, Block
<1>4. FirstOf(KeyLines(t)) = k
  <2>1. k <= k
    BY <1>2
  <2>2. (CHOOSE n \in {k} : \A j \in {k} : n <= j) = k
    BY <2>1
  <2> QED
    BY <1>3, <2>2 DEF FirstOf
<1>5. ItemsAfter(t, k, S) = k + 1..k + c
  <2>1. ASSUME NEW n \in k + 1..k + c PROVE n \in ItemsAfter(t, k, S)
    <3>1. n \in k + 1..e /\ \A m \in k + 1..n : m \in k + 1..k + c
      BY <1>1, <1>2
    <3> QED
      BY <3>1 DEF ItemsAfter, Block
  <2>2. ASSUME NEW n \in ItemsAfter(t, k, S) PROVE n \in k + 1..k + c
    <3>1. n \in k + 1..e /\ \A m \in k + 1..n : t[m].is \in S
      BY DEF ItemsAfter
    <3>2. t[k + c + 1].is \notin S
      BY DEF Block
    <3>3. k + c + 1 \notin k + 1..n
      BY <3>1, <3>2
    <3> QED
      BY <1>1, <1>2, <3>1, <3>3
  <2> QED
    BY <2>1, <2>2
<1>6. Cardinality(k + 1..k + c) = c /\ Cardinality({k}) = 1
  <2>1. Cardinality(k + 1..k + c) = IF k + 1 > k + c THEN 0 ELSE k + c - (k + 1) + 1
    BY <1>2, FS_Interval
  <2>2. Cardinality({k}) = 1
    BY FS_Singleton
  <2>3. Cardinality(k + 1..k + c) = c
    BY <1>2, <2>1
  <2> QED
    BY <2>2, <2>3
<1>7. Listed(t, S) = Carried(t, k, c)
  <2>1. UNION {ItemsAfter(t, j, S) : j \in KeyLines(t)} = k + 1..k + c
    BY <1>3, <1>5
  <2> QED
    BY <1>4, <1>6, <2>1, Zenon DEF Listed, Carried
<1>8. ~ResumesAfter(t, k, S)
  <2> SUFFICES ASSUME NEW n \in k + 1..e, t[n].is \in Items, n \notin k + 1..k + c, \A m \in k + 1..n : t[m].is \notin Keys
               PROVE FALSE
    BY <1>5 DEF ResumesAfter
  <2>1. n \in k + c + 1..e
    BY <1>1, <1>2
  <2> QED
    BY <2>1 DEF Block
<1>9. CarriesManifest(t, S)
  <2>1. Blank(t[k].of) /\ e # 0
    BY <1>1 DEF Block
  <2> QED
    <3>1. Cardinality(KeyLines(t)) <= 1 /\ \A j \in KeyLines(t) : j = k
      BY <1>3, <1>6
    <3>2. EnvelopeEnd(t) # 0
      BY <2>1
    <3> HIDE DEF e
    <3> QED
      BY <1>8, <2>1, <3>1, <3>2, CarriesIs
<1> QED
  BY <1>3, <1>4, <1>5, <1>7, <1>9

\* And of none.
LEMMA NoBlockIs ==
  ASSUME NEW t \in Seq(TextLines), NEW S, NoBlock(t)
  PROVE  CarriesManifest(t, S) /\ KeyLines(t) = {} /\ Listed(t, S) = <<>>
<1>1. KeyLines(t) = {}
  BY DEF KeyLines, NoBlock
<1>2. Cardinality({}) = 0
  BY FS_EmptySet
<1>3. UNION {ItemsAfter(t, k, S) : k \in KeyLines(t)} = {}
  BY <1>1
<1>4. Listed(t, S) = [n \in 1..0 |-> t[FirstOf(KeyLines(t)) + n].of]
  BY <1>2, <1>3, Zenon DEF Listed
<1>5. Listed(t, S) = <<>>
  BY <1>4
<1>6. EnvelopeEnd(t) # 0 /\ Cardinality(KeyLines(t)) <= 1 /\ \A k \in KeyLines(t) : FALSE
  BY <1>1, <1>2 DEF NoBlock
<1>7. CarriesManifest(t, S)
  BY <1>6, CarriesIs
<1> QED
  BY <1>1, <1>5, <1>7

\* A page that carries a manifest has one or none.
LEMMA CarriesBlock ==
  ASSUME NEW t \in Seq(TextLines), NEW S, "rule" \notin S, CarriesManifest(t, S)
  PROVE  NoBlock(t) \/ \E k, c : Block(t, S, k, c)
<1> DEFINE e == EnvelopeEnd(t)
<1>1. e # 0 /\ Cardinality(KeyLines(t)) <= 1 /\ \A k \in KeyLines(t) : Blank(t[k].of) /\ ~ResumesAfter(t, k, S)
  BY CarriesIs
<1>2. e \in 2..Len(t) /\ Len(t) \in Nat /\ t[e].is = "rule"
  BY <1>1, EnvelopeRules
<1>3. CASE KeyLines(t) = {}
  BY <1>1, <1>3 DEF KeyLines, NoBlock
<1>4. CASE KeyLines(t) # {}
  <2>1. PICK k \in KeyLines(t) : TRUE
    BY <1>4
  <2>2. k \in 2..e /\ t[k].is = "consolidates"
    BY <2>1 DEF KeyLines
  <2>3. k \in 2..e - 1
    BY <1>2, <2>2
  <2>4. \A n \in KeyLines(t) : n = k
    <3>1. IsFiniteSet(2..e) /\ KeyLines(t) \subseteq 2..e
      BY <1>2, FS_Interval DEF KeyLines
    <3>2. IsFiniteSet(KeyLines(t))
      BY <3>1, FS_Subset
    <3>3. Cardinality(KeyLines(t)) \in Nat /\ Cardinality(KeyLines(t)) # 0
      BY <1>4, <3>2, FS_CardinalityType, FS_EmptySet
    <3>4. Cardinality(KeyLines(t)) = 1
      BY <1>1, <3>3
    <3>5. PICK x : KeyLines(t) = {x}
      BY <3>2, <3>4, FS_Singleton
    <3> QED
      BY <2>1, <3>5
  <2> DEFINE Stops == {n \in k + 1..e : t[n].is \notin S}
  <2>5. e \in Stops /\ Stops \in SUBSET Nat
    BY <1>2, <2>3
  <2> HIDE DEF Stops
  <2>6. PICK x \in Stops : \A y \in Stops : x <= y
    BY <2>5, LeastOf
  <2> DEFINE c == x - k - 1
  <2>7. x \in k + 1..e /\ t[x].is \notin S /\ c \in Nat /\ k + c < e /\ k + c + 1 = x
    BY <1>2, <2>3, <2>6 DEF Stops
  <2>8. \A n \in k + 1..k + c : t[n].is \in S
    <3> SUFFICES ASSUME NEW n \in k + 1..k + c, t[n].is \notin S PROVE FALSE
      OBVIOUS
    <3>1. n \in k + 1..e /\ ~(x <= n)
      BY <1>2, <2>3, <2>7
    <3> QED
      BY <2>6, <3>1 DEF Stops
  <2>9. \A n \in k + c + 1..e : t[n].is \in Items => \E m \in k + 1..n : t[m].is \in Keys
    <3> SUFFICES ASSUME NEW n \in k + c + 1..e, t[n].is \in Items, \A m \in k + 1..n : t[m].is \notin Keys PROVE FALSE
      OBVIOUS
    <3>1. n \in k + 1..e /\ x \in k + 1..n
      BY <1>2, <2>3, <2>7
    <3>2. n \notin ItemsAfter(t, k, S)
      BY <2>7, <3>1 DEF ItemsAfter
    <3>3. ResumesAfter(t, k, S)
      BY <3>1, <3>2 DEF ResumesAfter
    <3> QED
      BY <1>1, <2>1, <3>3
  <2>10. \A n \in 2..e : t[n].is = "consolidates" => n = k
    BY <2>4 DEF KeyLines
  <2> HIDE DEF c
  <2>11. Blank(t[k].of)
    BY <1>1, <2>1
  <2>12. Block(t, S, k, c)
    BY <1>1, <2>2, <2>3, <2>7, <2>8, <2>9, <2>10, <2>11 DEF Block
  <2> QED
    BY <2>12
<1> QED
  BY <1>3, <1>4

\* What a line of metadata is to the key of the manifest.
LEMMA KeyLearns ==
  ASSUME NEW m \in Metas, NEW l \in TextLines
  PROVE  /\ MetaStep(m, l) \in Metas /\ MetaStep(m, l).key = IF l.is \in Keys THEN l.is ELSE m.key
         /\ MetaStep(m, l).of["consolidates"] =
              IF l.is = "consolidates"
              THEN [is |-> IF Blank(l.of) THEN "list" ELSE "scalar", of |-> l.of, items |-> <<>>]
              ELSE IF l.is \in Items /\ m.key = "consolidates" /\ m.of["consolidates"].is = "list"
              THEN [m.of["consolidates"] EXCEPT !.items = Append(@, l.of)] ELSE m.of["consolidates"]
<1>1. "consolidates" \in Keys
  BY DEF Keys
<1>2. \A j \in Keys : MetaStep(m, l).of[j] =
        IF l.is = j
        THEN [is |-> IF Blank(l.of) THEN "list" ELSE "scalar", of |-> l.of, items |-> <<>>]
        ELSE IF l.is \in Items /\ m.key = j /\ m.of[j].is = "list"
        THEN [m.of[j] EXCEPT !.items = Append(@, l.of)] ELSE m.of[j]
  BY MetaStepIs, Zenon
<1>3. MetaStep(m, l) \in Metas /\ MetaStep(m, l).key = IF l.is \in Keys THEN l.is ELSE m.key
  BY MetaStepIs, Zenon
<1> QED
  BY <1>1, <1>2, <1>3, Zenon

\* The lines of the frontmatter.
LEMMA FrontIs ==
  ASSUME NEW t \in Seq(TextLines), EnvelopeEnd(t) # 0
  PROVE  /\ Len(Front(t)) = EnvelopeEnd(t) - 2 /\ EnvelopeEnd(t) - 2 \in Nat
         /\ \A n \in 1..EnvelopeEnd(t) - 2 : Front(t)[n] = t[n + 1] /\ t[n + 1] \in TextLines
<1> DEFINE e == EnvelopeEnd(t)
<1>1. e \in 2..Len(t) /\ Len(t) \in Nat
  BY EnvelopeRules
<1> HIDE DEF e
<1>2. Front(t) = [n \in 1..1 + (e - 1) - 2 |-> t[n + 2 - 1]]
  <2>1. Front(t) = SubSeq(t, 2, e - 1)
    BY DEF Front, e
  <2>2. SubSeq(t, 2, e - 1) = [n \in 1..1 + (e - 1) - 2 |-> t[n + 2 - 1]]
    BY <1>1 DEF SubSeq
  <2> QED
    BY <2>1, <2>2
<1>3. 1 + (e - 1) - 2 = e - 2 /\ e - 2 \in Nat
  BY <1>1
<1>4. \A n \in 1..e - 2 : n + 2 - 1 = n + 1 /\ n + 1 \in 1..Len(t)
  BY <1>1
<1>5. \A n \in 1..e - 2 : t[n + 1] \in TextLines
  BY <1>4
<1>6. Front(t) = [n \in 1..e - 2 |-> t[n + 1]]
  BY <1>2, <1>3, <1>4
<1>7. Len(Front(t)) = e - 2
  BY <1>3, <1>6
<1>8. \A n \in 1..e - 2 : Front(t)[n] = t[n + 1]
  BY <1>6
<1> QED
  BY <1>3, <1>5, <1>7, <1>8 DEF e

\* What the readers of a page take for its manifest is the key and the items after it.
LEMMA ConsumerBlock ==
  ASSUME NEW t \in Seq(TextLines), NEW S \in SUBSET Items, NEW k, NEW c, Block(t, S, k, c)
  PROVE  ConsumerReads(t).items = Carried(t, k, c)
<1> DEFINE e == EnvelopeEnd(t)  p == Front(t)
<1>1. /\ e \in 2..Len(t) /\ Len(t) \in Nat /\ e - 2 \in Nat /\ Len(p) = e - 2
      /\ \A n \in 1..e - 2 : p[n] = t[n + 1] /\ t[n + 1] \in TextLines
  BY EnvelopeRules, FrontIs DEF Block
<1>2. PICK f : MetaReads(p, f) /\ ConsumerReads(t) = f[e - 2].of["consolidates"]
  BY <1>1, ConsumerBy
<1> HIDE DEF p, e
<1>3. /\ k \in 2..e - 1 /\ c \in Nat /\ k + c < e
      /\ t[k].is = "consolidates" /\ Blank(t[k].of)
      /\ \A n \in 2..e : t[n].is = "consolidates" => n = k
      /\ \A n \in k + 1..k + c : t[n].is \in S
      /\ \A n \in k + c + 1..e : t[n].is \in Items => \E m \in k + 1..n : t[m].is \in Keys
  BY DEF Block, e
<1>4. "consolidates" \in Keys /\ (\A x \in Items : x \notin Keys) /\ "consolidates" \notin Items
  BY DEF Keys, Items
<1> DEFINE Before(s, r) == r < k => s.key # "consolidates" /\ s.of["consolidates"].items = <<>>
           During(s, r) == k <= r /\ r <= k + c =>
             /\ s.key = "consolidates" /\ s.of["consolidates"].is = "list"
             /\ s.of["consolidates"].items = [i \in 1..r - k |-> t[k + i].of]
           After(s, r) == k + c < r =>
             /\ s.of["consolidates"].items = [i \in 1..c |-> t[k + i].of]
             /\ s.key = "consolidates" => \A m \in k + 1..r : t[m].is \notin Keys
           Good(n) == f[n] \in Metas /\ Before(f[n], n + 1) /\ During(f[n], n + 1) /\ After(f[n], n + 1)
           Bad == {n \in 0..e - 2 : ~Good(n)}
<1>5. Good(0)
  <2>1. f[0] = NoMeta
    BY <1>2 DEF MetaReads
  <2>2. 0 + 1 < k
    BY <1>1, <1>3
  <2> QED
    BY <1>1, <1>3, <1>4, <2>1, <2>2, NoMetaIs
<1>6. ASSUME NEW n \in 1..e - 2, Good(n - 1)
      PROVE  Good(n)
  <2> DEFINE m == f[n - 1]  l == t[n + 1]  z == f[n]  v == m.of["consolidates"]
  <2>1. m \in Metas /\ l \in TextLines /\ n \in Nat /\ n - 1 \in Nat /\ n - 1 + 1 = n /\ n \in 1..Len(p)
    BY <1>1, <1>6
  <2>2. z = MetaStep(m, l)
    <3>1. \A j \in 1..Len(p) : f[j] = MetaStep(f[j - 1], p[j])
      BY <1>2 DEF MetaReads
    <3> QED
      BY <1>1, <2>1, <3>1
  <2>3. /\ z \in Metas /\ z.key = IF l.is \in Keys THEN l.is ELSE m.key
        /\ z.of["consolidates"] =
             IF l.is = "consolidates"
             THEN [is |-> IF Blank(l.of) THEN "list" ELSE "scalar", of |-> l.of, items |-> <<>>]
             ELSE IF l.is \in Items /\ m.key = "consolidates" /\ v.is = "list"
             THEN [v EXCEPT !.items = Append(@, l.of)] ELSE v
    BY <2>1, <2>2, KeyLearns, Zenon
  <2>4. /\ n < k => m.key # "consolidates" /\ v.items = <<>>
        /\ k <= n /\ n <= k + c => m.key = "consolidates" /\ v.is = "list" /\ v.items = [i \in 1..n - k |-> t[k + i].of]
        /\ k + c < n => /\ v.items = [i \in 1..c |-> t[k + i].of]
                        /\ m.key = "consolidates" => \A j \in k + 1..n : t[j].is \notin Keys
    <3>1. Before(m, n - 1 + 1) /\ During(m, n - 1 + 1) /\ After(m, n - 1 + 1)
      BY <1>6
    <3>2. n - 1 + 1 = n
      BY <2>1
    <3> HIDE DEF Before, During, After
    <3>3. Before(m, n) /\ During(m, n) /\ After(m, n)
      BY <3>1, <3>2
    <3> USE DEF Before, During, After
    <3> QED
      BY <3>3
  <2>5. n + 1 \in 2..e /\ (l.is = "consolidates" => n + 1 = k)
    <3>1. n + 1 \in 2..e
      BY <1>1
    <3> QED
      BY <1>3, <3>1
  <2>6. v \in Values
    BY <1>4, <2>1 DEF Metas
  <2> HIDE DEF m, l, z, v
  <2>7. k \in Nat /\ c \in Nat /\ n \in Nat /\ e \in Nat
    BY <1>1, <1>3, <2>1
  <2>8. Before(z, n + 1)
    <3> SUFFICES ASSUME n + 1 < k PROVE z.key # "consolidates" /\ z.of["consolidates"].items = <<>>
      OBVIOUS
    <3>1. n < k /\ l.is # "consolidates"
      BY <1>3, <2>1, <2>5
    <3> QED
      BY <2>3, <2>4, <3>1
  <2>9. During(z, n + 1)
    <3> SUFFICES ASSUME k <= n + 1, n + 1 <= k + c
                 PROVE  /\ z.key = "consolidates" /\ z.of["consolidates"].is = "list"
                        /\ z.of["consolidates"].items = [i \in 1..(n + 1) - k |-> t[k + i].of]
      BY Zenon
    <3>1. CASE k = n + 1
      <4>1. l.is = "consolidates" /\ Blank(l.of)
        BY <1>3, <3>1 DEF l
      <4>2. [i \in 1..(n + 1) - k |-> t[k + i].of] = <<>>
        <5>1. 1..(n + 1) - k = {}
          BY <1>3, <2>1, <3>1
        <5> QED
          BY <5>1
      <4>3. z.of["consolidates"] = [is |-> "list", of |-> l.of, items |-> <<>>] /\ z.key = "consolidates"
        BY <1>4, <2>3, <4>1
      <4> QED
        BY <4>2, <4>3
    <3>2. CASE k # n + 1
      <4>1. k <= n /\ n <= k + c /\ n + 1 \in k + 1..k + c /\ n - k \in Nat
        BY <1>3, <2>1, <3>2
      <4>2. l.is \in Items /\ l.is \notin Keys /\ l.is # "consolidates"
        BY <1>3, <1>4, <4>1 DEF l
      <4>3. m.key = "consolidates" /\ v.is = "list" /\ v.items = [i \in 1..n - k |-> t[k + i].of]
        BY <2>4, <4>1
      <4>4. z.key = "consolidates" /\ z.of["consolidates"] = [v EXCEPT !.items = Append(@, l.of)]
        BY <2>3, <4>2, <4>3
      <4>5. z.of["consolidates"].is = "list" /\ z.of["consolidates"].items = Append(v.items, l.of)
        BY <2>6, <4>3, <4>4 DEF Values
      <4>6. Append([i \in 1..n - k |-> t[k + i].of], l.of) = [i \in 1..(n - k) + 1 |-> t[k + i].of]
        <5> DEFINE y == [i \in 1..n - k |-> t[k + i].of]  w == n - k
        <5>1. Len(y) = w /\ w \in Nat /\ k + (w + 1) = n + 1
          BY <1>3, <2>1, <4>1
        <5>2. Append(y, l.of) = [i \in 1..Len(y) + 1 |-> IF i = Len(y) + 1 THEN l.of ELSE y[i]]
          BY <5>1
        <5>3. \A i \in 1..w + 1 : (IF i = w + 1 THEN l.of ELSE y[i]) = t[k + i].of
          <6> SUFFICES ASSUME NEW i \in 1..w + 1 PROVE (IF i = w + 1 THEN l.of ELSE y[i]) = t[k + i].of
            OBVIOUS
          <6>1. CASE i = w + 1
            BY <5>1, <6>1 DEF l
          <6>2. CASE i # w + 1
            <7>1. i \in 1..w
              BY <5>1, <6>2
            <7> QED
              BY <6>2, <7>1
          <6> QED
            BY <6>1, <6>2
        <5> HIDE DEF y, w
        <5> QED
          BY <5>1, <5>2, <5>3 DEF y, w
      <4>7. (n - k) + 1 = (n + 1) - k
        BY <1>3, <2>1
      <4> QED
        BY <4>3, <4>4, <4>5, <4>6, <4>7
    <3> QED
      BY <3>1, <3>2
  <2>10. After(z, n + 1)
    <3> SUFFICES ASSUME k + c < n + 1
                 PROVE  /\ z.of["consolidates"].items = [i \in 1..c |-> t[k + i].of]
                        /\ z.key = "consolidates" => \A j \in k + 1..n + 1 : t[j].is \notin Keys
      OBVIOUS
    <3>1. l.is # "consolidates" /\ n + 1 \in k + c + 1..e
      BY <1>3, <2>1, <2>5
    <3>2. /\ v.items = [i \in 1..c |-> t[k + i].of]
          /\ m.key = "consolidates" => \A j \in k + 1..n : t[j].is \notin Keys
      <4>1. CASE k + c < n
        BY <2>4, <4>1
      <4>2. CASE ~(k + c < n)
        <5>1. n = k + c /\ k <= n /\ n <= k + c /\ n - k = c
          BY <2>7, <3>1, <4>2
        <5>2. \A j \in k + 1..n : t[j].is \notin Keys
          BY <1>3, <1>4, <5>1
        <5> QED
          BY <2>4, <5>1, <5>2
      <4> QED
        BY <4>1, <4>2
    <3>3. CASE l.is \in Keys
      BY <1>4, <2>3, <3>1, <3>2, <3>3
    <3>4. CASE l.is \notin Keys
      <4>1. \A j \in k + 1..n + 1 : j \in k + 1..n \/ j = n + 1
        BY <1>3, <2>1
      <4>2. z.key = "consolidates" => \A j \in k + 1..n + 1 : t[j].is \notin Keys
        BY <2>3, <3>2, <3>4, <4>1 DEF l
      <4>3. ~(l.is \in Items /\ m.key = "consolidates")
        <5>1. z.key = m.key
          BY <2>3, <3>4
        <5> QED
          BY <1>3, <3>1, <4>2, <5>1 DEF l
      <4>4. z.of["consolidates"] = v
        BY <2>3, <3>1, <4>3
      <4> QED
        BY <3>2, <4>2, <4>4
    <3> QED
      BY <3>3, <3>4
  <2> QED
    BY <2>3, <2>8, <2>9, <2>10 DEF z
<1> HIDE DEF Good
<1>7. Bad = {}
  <2> SUFFICES ASSUME Bad # {} PROVE FALSE
    OBVIOUS
  <2>1. Bad \in SUBSET Nat
    BY <1>1
  <2> HIDE DEF Bad
  <2>2. PICK n \in Bad : \A j \in Bad : n <= j
    BY <2>1, LeastOf
  <2> USE DEF Bad
  <2>3. n \in 1..e - 2 /\ n - 1 \in 0..e - 2 /\ ~(n <= n - 1)
    BY <1>1, <1>5, <2>2
  <2>4. Good(n - 1)
    BY <2>2, <2>3
  <2>5. Good(n)
    BY <1>6, <2>3, <2>4
  <2> QED
    BY <2>2, <2>5
<1>8. Good(e - 2)
  BY <1>1, <1>7
<1>9. f[e - 2].of["consolidates"].items = [i \in 1..c |-> t[k + i].of]
  <2>1. CASE k + c = e - 1
    <3>1. k <= k + c /\ k + c <= k + c /\ (k + c) - k = c /\ e - 2 + 1 = k + c
      BY <1>1, <1>3, <2>1
    <3>2. During(f[e - 2], e - 2 + 1)
      BY <1>8 DEF Good
    <3> HIDE DEF During
    <3>3. During(f[e - 2], k + c)
      BY <3>1, <3>2
    <3> USE DEF During
    <3>4. f[e - 2].of["consolidates"].items = [i \in 1..(k + c) - k |-> t[k + i].of]
      BY <3>1, <3>3
    <3> QED
      BY <3>1, <3>4
  <2>2. CASE k + c # e - 1
    <3>1. k + c < (e - 2) + 1
      BY <1>1, <1>3, <2>2
    <3>2. After(f[e - 2], e - 2 + 1)
      BY <1>8 DEF Good
    <3> QED
      BY <3>1, <3>2
  <2> QED
    BY <2>1, <2>2
<1> QED
  BY <1>2, <1>9 DEF Carried

\* And nothing where there is no key.
LEMMA ConsumerNone ==
  ASSUME NEW t \in Seq(TextLines), NoBlock(t)
  PROVE  ConsumerReads(t).items = <<>>
<1> DEFINE e == EnvelopeEnd(t)  p == Front(t)
<1>1. /\ e \in 2..Len(t) /\ Len(t) \in Nat /\ e - 2 \in Nat /\ Len(p) = e - 2
      /\ \A n \in 1..e - 2 : p[n] = t[n + 1] /\ t[n + 1] \in TextLines
  BY EnvelopeRules, FrontIs DEF NoBlock
<1>2. PICK f : MetaReads(p, f) /\ ConsumerReads(t) = f[e - 2].of["consolidates"]
  BY <1>1, ConsumerBy
<1> HIDE DEF p, e
<1>3. \A n \in 2..e : t[n].is # "consolidates"
  BY DEF NoBlock, e
<1>4. "consolidates" \in Keys
  BY DEF Keys
<1> DEFINE Good(n) == f[n] \in Metas /\ f[n].key # "consolidates" /\ f[n].of["consolidates"].items = <<>>
           Bad == {n \in 0..e - 2 : ~Good(n)}
<1>5. Good(0)
  <2>1. f[0] = NoMeta
    BY <1>2 DEF MetaReads
  <2> QED
    BY <1>4, <2>1, NoMetaIs
<1>6. ASSUME NEW n \in 1..e - 2, Good(n - 1)
      PROVE  Good(n)
  <2> DEFINE m == f[n - 1]  l == t[n + 1]
  <2>1. m \in Metas /\ l \in TextLines /\ n \in 1..Len(p) /\ n + 1 \in 2..e
    BY <1>1, <1>6
  <2>2. f[n] = MetaStep(m, l)
    <3>1. \A j \in 1..Len(p) : f[j] = MetaStep(f[j - 1], p[j])
      BY <1>2 DEF MetaReads
    <3> QED
      BY <1>1, <2>1, <3>1
  <2>3. l.is # "consolidates"
    BY <1>3, <2>1
  <2>4. m.key # "consolidates" /\ m.of["consolidates"].items = <<>>
    BY <1>6
  <2> HIDE DEF m, l
  <2>5. /\ f[n] \in Metas /\ f[n].key = IF l.is \in Keys THEN l.is ELSE m.key
        /\ f[n].of["consolidates"] = m.of["consolidates"]
    BY <2>1, <2>2, <2>3, <2>4, KeyLearns
  <2> QED
    BY <2>3, <2>4, <2>5
<1> HIDE DEF Good
<1>7. Bad = {}
  <2> SUFFICES ASSUME Bad # {} PROVE FALSE
    OBVIOUS
  <2>1. Bad \in SUBSET Nat
    BY <1>1
  <2> HIDE DEF Bad
  <2>2. PICK n \in Bad : \A j \in Bad : n <= j
    BY <2>1, LeastOf
  <2> USE DEF Bad
  <2>3. n \in 1..e - 2 /\ n - 1 \in 0..e - 2 /\ ~(n <= n - 1)
    BY <1>1, <1>5, <2>2
  <2>4. Good(n - 1)
    BY <2>2, <2>3
  <2>5. Good(n)
    BY <1>6, <2>3, <2>4
  <2> QED
    BY <2>2, <2>5
<1>8. Good(e - 2)
  BY <1>1, <1>7
<1> QED
  BY <1>2, <1>8 DEF Good

\* Where the scan of fewer item shapes reads a manifest as well, it reads the same.
LEMMA SameBlock ==
  ASSUME NEW t \in Seq(TextLines), NEW S \in SUBSET Items, NEW k, NEW c, Block(t, S, k, c),
         NEW R \in SUBSET S, NEW j, NEW d, Block(t, R, j, d)
  PROVE  j = k /\ d = c
<1> DEFINE e == EnvelopeEnd(t)
<1>1. e \in 2..Len(t) /\ Len(t) \in Nat
  BY EnvelopeRules DEF Block
<1>2. \A x \in Items : x \notin Keys
  BY DEF Keys, Items
<1>3. k \in 2..e - 1 /\ c \in Nat /\ k + c < e /\ j \in 2..e - 1 /\ d \in Nat /\ j + d < e
  BY DEF Block
<1>4. j = k
  <2>1. j \in 2..e
    BY <1>1, <1>3
  <2> QED
    BY <2>1 DEF Block
<1> HIDE DEF e
<1>5. ASSUME d < c PROVE FALSE
  <2>1. k + d + 1 \in k + 1..k + c /\ k + d + 1 \in k + d + 1..e
    BY <1>1, <1>3, <1>5
  <2>2. t[k + d + 1].is \in Items
    BY <2>1 DEF Block
  <2>3. \E m \in k + 1..k + d + 1 : t[m].is \in Keys
    BY <1>4, <2>1, <2>2 DEF Block, e
  <2>4. \A m \in k + 1..k + d + 1 : m \in k + 1..k + c
    BY <1>3, <1>5
  <2> QED
    BY <1>2, <2>3, <2>4 DEF Block
<1>6. ASSUME c < d PROVE FALSE
  <2>1. k + c + 1 \in k + 1..k + d
    BY <1>3, <1>6
  <2>2. t[k + c + 1].is \in R
    BY <1>4, <2>1 DEF Block
  <2> QED
    BY <2>2 DEF Block
<1> QED
  BY <1>3, <1>4, <1>5, <1>6

\* A text with d lines more after line a.
Grown(t, u, a, d) ==
  /\ u \in Seq(TextLines) /\ Len(u) = Len(t) + d
  /\ \A n \in 1..a : u[n] = t[n]
  /\ \A n \in a + 1..Len(t) : u[n + d] = t[n]

\* Two texts joined.
LEMMA JoinIs ==
  ASSUME NEW p \in Seq(TextLines), NEW q \in Seq(TextLines)
  PROVE  /\ p \o q \in Seq(TextLines) /\ Len(p \o q) = Len(p) + Len(q)
         /\ \A n \in 1..Len(p) : (p \o q)[n] = p[n]
         /\ \A n \in 1..Len(q) : (p \o q)[Len(p) + n] = q[n]
<1>1. Len(p) \in Nat /\ Len(q) \in Nat
  OBVIOUS
<1>2. p \o q \in Seq(TextLines) /\ Len(p \o q) = Len(p) + Len(q) /\ \A n \in 1..Len(p) : (p \o q)[n] = p[n]
  BY <1>1, ConcatProperties
<1>3. \A n \in 1..Len(q) : (p \o q)[Len(p) + n] = q[n]
  BY <1>1, ConcatProperties
<1> QED
  BY <1>2, <1>3

\* Lines put after line a.
LEMMA GrownIs ==
  ASSUME NEW t \in Seq(TextLines), NEW x \in Seq(TextLines), NEW a \in 0..Len(t)
  PROVE  LET u == SubSeq(t, 1, a) \o x \o SubSeq(t, a + 1, Len(t)) IN
         Grown(t, u, a, Len(x)) /\ \A n \in 1..Len(x) : u[a + n] = x[n]
<1> DEFINE p == SubSeq(t, 1, a)  q == SubSeq(t, a + 1, Len(t))  u == p \o x \o q
<1>1. Len(t) \in Nat /\ Len(x) \in Nat /\ a \in Nat /\ a <= Len(t)
  OBVIOUS
<1>2. /\ p \in Seq(TextLines) /\ Len(p) = a /\ \A n \in 1..a : p[n] = t[n]
      /\ q \in Seq(TextLines) /\ Len(q) = Len(t) - a /\ \A n \in 1..Len(t) - a : q[n] = t[a + n]
  BY RestIs
<1> HIDE DEF p, q
<1> DEFINE w == p \o x
<1>3. /\ w \in Seq(TextLines) /\ Len(w) = a + Len(x)
      /\ \A n \in 1..a : w[n] = p[n]
      /\ \A n \in 1..Len(x) : w[a + n] = x[n]
  BY <1>2, JoinIs
<1>4. u = w \o q
  BY DEF u
<1> HIDE DEF w, u
<1>5. /\ u \in Seq(TextLines) /\ Len(u) = (a + Len(x)) + (Len(t) - a)
      /\ \A n \in 1..a + Len(x) : u[n] = w[n]
      /\ \A n \in 1..Len(t) - a : u[(a + Len(x)) + n] = q[n]
  <2>1. /\ w \o q \in Seq(TextLines) /\ Len(w \o q) = Len(w) + Len(q)
        /\ \A n \in 1..Len(w) : (w \o q)[n] = w[n]
        /\ \A n \in 1..Len(q) : (w \o q)[Len(w) + n] = q[n]
    BY <1>2, <1>3, JoinIs, Zenon
  <2>2. Len(w) = a + Len(x) /\ Len(q) = Len(t) - a
    BY <1>2, <1>3
  <2> QED
    BY <1>4, <2>1, <2>2, Zenon
<1>6. \A n \in 1..a : u[n] = t[n]
  <2> TAKE n \in 1..a
  <2>1. n \in 1..a + Len(x)
    BY <1>1
  <2> QED
    BY <1>2, <1>3, <1>5, <2>1
<1>7. \A n \in 1..Len(x) : u[a + n] = x[n]
  <2> TAKE n \in 1..Len(x)
  <2>1. a + n \in 1..a + Len(x)
    BY <1>1
  <2> QED
    BY <1>3, <1>5, <2>1
<1>8. \A n \in a + 1..Len(t) : u[n + Len(x)] = t[n]
  <2> TAKE n \in a + 1..Len(t)
  <2>1. (a + Len(x)) + (n - a) = n + Len(x) /\ n - a \in 1..Len(t) - a /\ a + (n - a) = n
    BY <1>1
  <2>2. u[(a + Len(x)) + (n - a)] = q[n - a] /\ q[n - a] = t[a + (n - a)]
    BY <1>2, <1>5, <2>1
  <2> QED
    BY <2>1, <2>2
<1>9. Len(u) = Len(t) + Len(x)
  BY <1>1, <1>5
<1> QED
  BY <1>5, <1>6, <1>7, <1>8, <1>9 DEF Grown, u, p, q

\* Lines within the envelope move its end.
LEMMA GrownEnvelope ==
  ASSUME NEW t \in Seq(TextLines), EnvelopeEnd(t) # 0, NEW u, NEW a \in 1..EnvelopeEnd(t) - 1, NEW d \in Nat,
         Grown(t, u, a, d), \A n \in a + 1..a + d : u[n].is # "rule"
  PROVE  EnvelopeEnd(u) = EnvelopeEnd(t) + d
<1> DEFINE e == EnvelopeEnd(t)
<1>1. /\ e \in 2..Len(t) /\ t[1].is = "rule" /\ t[e].is = "rule" /\ Len(t) \in Nat
      /\ \A n \in 2..e - 1 : t[n].is # "rule"
  BY EnvelopeRules
<1>2. /\ u \in Seq(TextLines) /\ Len(u) = Len(t) + d
      /\ \A n \in 1..a : u[n] = t[n]
      /\ \A n \in a + 1..Len(t) : u[n + d] = t[n]
  BY DEF Grown
<1>3. a \in 1..e - 1
  OBVIOUS
<1> HIDE DEF e
<1>4. HasEnvelope(u)
  <2>1. 1 \in 1..a /\ Len(u) # 0
    BY <1>1, <1>2, <1>3
  <2>2. u[1] = t[1] /\ u # <<>>
    BY <1>2, <2>1
  <2> QED
    BY <1>1, <2>2 DEF HasEnvelope
<1>5. e + d \in Rules(u)
  <2>1. e \in a + 1..Len(t) /\ e + d \in 2..Len(u)
    BY <1>1, <1>2, <1>3
  <2> QED
    BY <1>1, <1>2, <2>1 DEF Rules
<1>6. \A y \in Rules(u) : e + d <= y
  <2> SUFFICES ASSUME NEW y \in Rules(u), ~(e + d <= y) PROVE FALSE
    OBVIOUS
  <2>1. y \in 2..Len(u) /\ u[y].is = "rule"
    BY DEF Rules
  <2>2. CASE y <= a
    <3>1. y \in 1..a /\ y \in 2..e - 1
      BY <1>1, <1>3, <2>1, <2>2
    <3> QED
      BY <1>1, <1>2, <2>1, <3>1
  <2>3. CASE a < y /\ y <= a + d
    <3>1. y \in a + 1..a + d
      BY <1>3, <2>1, <2>3
    <3> QED
      BY <2>1, <3>1
  <2>4. CASE a + d < y
    <3>1. y - d \in a + 1..Len(t) /\ y - d \in 2..e - 1 /\ (y - d) + d = y
      BY <1>1, <1>2, <1>3, <2>1, <2>4
    <3>2. u[(y - d) + d] = t[y - d]
      BY <1>2, <3>1
    <3> QED
      BY <1>1, <2>1, <3>1, <3>2
  <2> QED
    BY <1>3, <2>1, <2>2, <2>3, <2>4
<1>7. FirstOf(Rules(u)) = e + d
  <2>1. Rules(u) \in SUBSET Nat /\ e + d \in Nat
    BY <1>1, <1>2 DEF Rules
  <2>2. \A x, y \in Rules(u) : (\A z \in Rules(u) : x <= z) /\ (\A z \in Rules(u) : y <= z) => x = y
    BY <2>1
  <2> HIDE DEF Rules
  <2>3. FirstOf(Rules(u)) \in Rules(u) /\ \A y \in Rules(u) : FirstOf(Rules(u)) <= y
    BY <1>5, <1>6 DEF FirstOf
  <2> QED
    BY <1>5, <1>6, <2>2, <2>3, Zenon
<1> QED
  BY <1>4, <1>5, <1>7 DEF EnvelopeEnd, e

\* Items after the last one are of the manifest.
LEMMA GrownBlock ==
  ASSUME NEW t \in Seq(TextLines), NEW S \in SUBSET Items, NEW k, NEW c, Block(t, S, k, c), "item" \in S,
         NEW u, NEW d \in Nat, Grown(t, u, k + c, d), \A n \in k + c + 1..(k + c) + d : u[n].is = "item"
  PROVE  Block(u, S, k, c + d)
<1> DEFINE e == EnvelopeEnd(t)  a == k + c
<1>1. e \in 2..Len(t) /\ Len(t) \in Nat
  BY EnvelopeRules DEF Block
<1>2. /\ k \in 2..e - 1 /\ c \in Nat /\ k + c < e
      /\ t[k].is = "consolidates" /\ Blank(t[k].of)
      /\ \A n \in 2..e : t[n].is = "consolidates" => n = k
      /\ \A n \in k + 1..k + c : t[n].is \in S
      /\ t[k + c + 1].is \notin S
      /\ \A n \in k + c + 1..e : t[n].is \in Items => \E m \in k + 1..n : t[m].is \in Keys
  BY DEF Block
<1>3. /\ Len(u) = Len(t) + d
      /\ \A n \in 1..a : u[n] = t[n]
      /\ \A n \in a + 1..Len(t) : u[n + d] = t[n]
      /\ \A n \in a + 1..a + d : u[n].is = "item"
  BY DEF Grown
<1>4. (\A x \in Items : x \notin Keys) /\ "item" # "consolidates" /\ "item" # "rule"
  BY DEF Keys, Items
<1>5. EnvelopeEnd(u) = e + d
  <2>1. a \in 1..e - 1
    BY <1>1, <1>2
  <2>2. \A n \in a + 1..a + d : u[n].is # "rule"
    BY <1>3, <1>4
  <2>3. e # 0 /\ Grown(t, u, a, d)
    BY <1>1
  <2> HIDE DEF a
  <2> QED
    BY <2>1, <2>2, <2>3, GrownEnvelope
<1> HIDE DEF e, a
<1>6. a \in Nat /\ a = k + c /\ e \in Nat /\ k \in Nat /\ c \in Nat /\ k <= a /\ a < e /\ 2 <= k
  BY <1>1, <1>2 DEF a
<1>7. u[k] = t[k]
  BY <1>3, <1>6
<1>8. ASSUME NEW n \in 2..e + d, u[n].is = "consolidates" PROVE n = k
  <2>1. CASE n <= a
    <3>1. n \in 1..a /\ n \in 2..e
      BY <1>6, <2>1
    <3> QED
      BY <1>2, <1>3, <1>8, <3>1
  <2>2. CASE a < n /\ n <= a + d
    <3>1. n \in a + 1..a + d
      BY <1>6, <2>2
    <3> QED
      BY <1>3, <1>4, <1>8, <3>1
  <2>3. CASE a + d < n
    <3>1. n - d \in a + 1..Len(t) /\ n - d \in 2..e /\ (n - d) + d = n /\ n - d # k
      BY <1>1, <1>6, <2>3
    <3> QED
      BY <1>2, <1>3, <1>8, <3>1
  <2> QED
    BY <1>6, <2>1, <2>2, <2>3
<1>9. ASSUME NEW n \in k + 1..k + (c + d) PROVE u[n].is \in S
  <2>1. CASE n <= a
    <3>1. n \in 1..a /\ n \in k + 1..k + c
      BY <1>6, <2>1
    <3> QED
      BY <1>2, <1>3, <3>1
  <2>2. CASE a < n
    <3>1. n \in a + 1..a + d
      BY <1>6, <2>2
    <3> QED
      BY <1>3, <3>1
  <2> QED
    BY <1>6, <2>1, <2>2
<1>10. u[k + (c + d) + 1].is \notin S
  <2>1. k + c + 1 \in a + 1..Len(t) /\ (k + c + 1) + d = k + (c + d) + 1
    BY <1>1, <1>6
  <2> QED
    BY <1>2, <1>3, <2>1
<1>11. ASSUME NEW n \in k + (c + d) + 1..e + d, u[n].is \in Items PROVE \E m \in k + 1..n : u[m].is \in Keys
  <2>1. n - d \in a + 1..Len(t) /\ n - d \in k + c + 1..e /\ (n - d) + d = n
    BY <1>1, <1>6
  <2>2. t[n - d].is \in Items
    BY <1>3, <1>11, <2>1
  <2>3. PICK m \in k + 1..n - d : t[m].is \in Keys
    BY <1>2, <2>1, <2>2
  <2>4. m \notin k + 1..k + c
    BY <1>2, <1>4, <2>3
  <2>5. m \in a + 1..Len(t) /\ m + d \in k + 1..n
    <3>1. m \in Nat /\ n \in Nat /\ k < m /\ m <= n - d /\ n <= e + d /\ e <= Len(t)
      BY <1>1, <1>6, <2>3
    <3>2. a < m
      BY <1>6, <2>4, <3>1
    <3> QED
      BY <1>1, <1>6, <3>1, <3>2
  <2> QED
    BY <1>3, <2>3, <2>5
<1>12. k \in 2..(e + d) - 1 /\ c + d \in Nat /\ k + (c + d) < e + d /\ e + d # 0
  BY <1>6
<1> QED
  BY <1>2, <1>5, <1>7, <1>8, <1>9, <1>10, <1>11, <1>12 DEF Block

\* And a key with items before the end of an envelope that has none is one.
LEMMA FreshBlock ==
  ASSUME NEW t \in Seq(TextLines), NEW S \in SUBSET Items, NoBlock(t), "item" \in S,
         NEW u, NEW d \in Nat, Grown(t, u, EnvelopeEnd(t) - 1, d + 1),
         u[EnvelopeEnd(t)] = Key, \A n \in EnvelopeEnd(t) + 1..EnvelopeEnd(t) + d : u[n].is = "item"
  PROVE  Block(u, S, EnvelopeEnd(t), d)
<1> DEFINE e == EnvelopeEnd(t)
<1>1. e \in 2..Len(t) /\ Len(t) \in Nat /\ t[e].is = "rule" /\ e # 0 /\ e \in Nat
  BY EnvelopeRules DEF NoBlock
<1>2. \A n \in 2..e : t[n].is # "consolidates"
  BY DEF NoBlock
<1>3. /\ Len(u) = Len(t) + (d + 1)
      /\ \A n \in 1..e - 1 : u[n] = t[n]
      /\ \A n \in (e - 1) + 1..Len(t) : u[n + (d + 1)] = t[n]
      /\ u[e] = Key /\ \A n \in e + 1..e + d : u[n].is = "item"
  BY DEF Grown
<1>4. /\ "item" # "consolidates" /\ "item" # "rule" /\ "rule" \notin Items /\ "rule" # "consolidates"
      /\ Key.is = "consolidates" /\ Blank(Key.of)
  BY NewLinesAre DEF Items
<1>5. EnvelopeEnd(u) = e + (d + 1)
  <2>1. e - 1 \in 1..e - 1 /\ d + 1 \in Nat
    BY <1>1
  <2>2. \A n \in (e - 1) + 1..(e - 1) + (d + 1) : u[n].is # "rule"
    <3> SUFFICES ASSUME NEW n \in (e - 1) + 1..(e - 1) + (d + 1) PROVE u[n].is # "rule"
      OBVIOUS
    <3>1. n = e \/ n \in e + 1..e + d
      BY <1>1
    <3> QED
      BY <1>3, <1>4, <3>1
  <2>3. Grown(t, u, e - 1, d + 1)
    OBVIOUS
  <2> QED
    BY <1>1, <2>1, <2>2, <2>3, GrownEnvelope
<1>6. u[e + (d + 1)] = t[e]
  <2>1. e \in (e - 1) + 1..Len(t)
    BY <1>1
  <2> QED
    BY <1>3, <2>1
<1> HIDE DEF e
<1>7. ASSUME NEW n \in 2..e + (d + 1), u[n].is = "consolidates" PROVE n = e
  <2>1. (n \in 1..e - 1 /\ n \in 2..e) \/ n = e \/ n \in e + 1..e + d \/ n = e + (d + 1)
    BY <1>1
  <2> QED
    BY <1>1, <1>2, <1>3, <1>4, <1>6, <1>7, <2>1
<1>8. \A n \in e + 1..e + d : u[n].is \in S
  BY <1>3
<1>9. u[e + d + 1].is \notin S
  <2>1. e + d + 1 = e + (d + 1)
    BY <1>1
  <2> QED
    BY <1>1, <1>4, <1>6, <2>1
<1>10. \A n \in e + d + 1..e + (d + 1) : u[n].is \notin Items
  <2> SUFFICES ASSUME NEW n \in e + d + 1..e + (d + 1) PROVE u[n].is \notin Items
    OBVIOUS
  <2>1. n = e + (d + 1)
    BY <1>1
  <2> QED
    BY <1>1, <1>4, <1>6, <2>1
<1>11. e \in 2..(e + (d + 1)) - 1 /\ e + d < e + (d + 1) /\ e + (d + 1) # 0
  BY <1>1
<1>12. u[e].is = "consolidates" /\ Blank(u[e].of)
  BY <1>3, <1>4
<1>13. Block(u, S, e, d)
  BY <1>5, <1>7, <1>8, <1>9, <1>10, <1>11, <1>12 DEF Block
<1> QED
  BY <1>13 DEF e

\* The lines of a text at some places, in order, and those that are not after line g up
\* to line h.
Selected(t, kept) ==
  [n \in 1..Cardinality(kept) |-> t[CHOOSE m \in kept : Cardinality({j \in kept : j <= m}) = n]]
Around(t, g, h) == [n \in 1..Len(t) - (h - g) |-> t[IF n <= g THEN n ELSE n + (h - g)]]

\* They are the same.
LEMMA GapIs ==
  ASSUME NEW t \in Seq(TextLines), NEW g \in Nat, NEW h \in Nat, g <= h, h <= Len(t),
         NEW kept, kept = {n \in 1..Len(t) : n \notin g + 1..h}
  PROVE  Selected(t, kept) = Around(t, g, h)
<1> DEFINE At(m) == IF m <= g THEN m ELSE IF m <= h THEN g ELSE m - (h - g)
           Bad == {m \in 0..Len(t) : Rank(kept, m) # At(m)}
<1>1. Len(t) \in Nat /\ kept \in SUBSET Nat /\ \A n \in 1..Len(t) : n \in kept <=> n <= g \/ h < n
  OBVIOUS
<1>2. /\ \A m \in Nat : Rank(kept, m) \in Nat
      /\ Rank(kept, 0) = 0
      /\ \A m \in Nat \ {0} : Rank(kept, m) = Rank(kept, m - 1) + (IF m \in kept THEN 1 ELSE 0)
  BY <1>1, RankIs
<1>3. \A m \in 0..Len(t) : Rank(kept, m) = At(m)
  <2> SUFFICES ASSUME Bad # {} PROVE FALSE
    OBVIOUS
  <2>1. Bad \in SUBSET Nat
    BY <1>1
  <2> HIDE DEF Bad
  <2>2. PICK m \in Bad : \A j \in Bad : m <= j
    BY <2>1, LeastOf
  <2> USE DEF Bad
  <2>3. m \in 1..Len(t) /\ m \in Nat \ {0} /\ m - 1 \in 0..Len(t) /\ ~(m <= m - 1)
    <3>1. At(0) = 0
      OBVIOUS
    <3>2. m # 0
      BY <1>2, <2>2, <3>1
    <3> QED
      BY <1>1, <2>2, <3>2
  <2>4. Rank(kept, m - 1) = At(m - 1)
    BY <2>2, <2>3
  <2>5. Rank(kept, m) = Rank(kept, m - 1) + (IF m <= g \/ h < m THEN 1 ELSE 0)
    BY <1>1, <1>2, <2>3
  <2>6. At(m - 1) + (IF m <= g \/ h < m THEN 1 ELSE 0) = At(m)
    BY <1>1, <2>3
  <2> HIDE DEF At
  <2> QED
    BY <2>2, <2>4, <2>5, <2>6
<1>4. Cardinality(kept) = Len(t) - (h - g)
  <2>1. kept \cap 1..Len(t) = kept
    OBVIOUS
  <2>2. At(Len(t)) = Len(t) - (h - g)
    BY <1>1
  <2> HIDE DEF At
  <2> QED
    BY <1>1, <1>3, <2>1, <2>2 DEF Rank
<1>5. \A m \in kept : Cardinality({j \in kept : j <= m}) = At(m)
  <2> TAKE m \in kept
  <2>1. {j \in kept : j <= m} = kept \cap 1..m
    BY <1>1
  <2>2. m \in 0..Len(t)
    BY <1>1
  <2> HIDE DEF At
  <2> QED
    BY <1>3, <2>1, <2>2 DEF Rank
<1> DEFINE Pos(n) == IF n <= g THEN n ELSE n + (h - g)
           Pick(n) == CHOOSE m \in kept : Cardinality({j \in kept : j <= m}) = n
<1>6. ASSUME NEW n \in 1..Len(t) - (h - g)
      PROVE  Pick(n) = Pos(n)
  <2>1. Pos(n) \in kept /\ At(Pos(n)) = n
    BY <1>1
  <2>2. \A m \in kept : At(m) = n => m = Pos(n)
    BY <1>1
  <2>3. \A m \in kept : Cardinality({j \in kept : j <= m}) = n <=> m = Pos(n)
    <3> HIDE DEF At, Pos
    <3> QED
      BY <1>5, <2>1, <2>2
  <2> HIDE DEF At, Pos
  <2>4. Pick(n) \in kept /\ Cardinality({j \in kept : j <= Pick(n)}) = n
    BY <2>1, <2>3, Zenon
  <2> HIDE DEF Pick
  <2> QED
    BY <2>3, <2>4, Zenon
<1> HIDE DEF Pick
<1>7. [n \in 1..Cardinality(kept) |-> t[Pick(n)]] = [n \in 1..Len(t) - (h - g) |-> t[Pos(n)]]
  <2> HIDE DEF Pos
  <2> QED
    BY <1>4, <1>6
<1> QED
  BY <1>7, Zenon DEF Pick, Pos, Selected, Around

\* The page around its manifest.
LEMMA AroundIs ==
  ASSUME NEW t \in Seq(TextLines), NEW g \in Nat, NEW h \in Nat, g <= h, h <= Len(t),
         KeyLines(t) \cup UNION {ItemsAfter(t, k, {"item"}) : k \in KeyLines(t)} = g + 1..h
  PROVE  Integrity(t) = Around(t, g, h)
<1> DEFINE span == KeyLines(t) \cup UNION {ItemsAfter(t, k, {"item"}) : k \in KeyLines(t)}
           kept == {n \in DOMAIN t : n \notin span}
<1>1. kept = {n \in 1..Len(t) : n \notin g + 1..h}
  OBVIOUS
<1>2. Integrity(t) = Selected(t, kept)
  BY Zenon DEF Integrity, Selected
<1> HIDE DEF kept
<1>3. Selected(t, kept) = Around(t, g, h)
  BY <1>1, GapIs
<1> QED
  BY <1>2, <1>3

\* With one.
LEMMA AroundBlock ==
  ASSUME NEW t \in Seq(TextLines), NEW k, NEW c, Block(t, {"item"}, k, c)
  PROVE  Integrity(t) = [n \in 1..Len(t) - (c + 1) |-> t[IF n <= k - 1 THEN n ELSE n + (c + 1)]]
<1>1. EnvelopeEnd(t) \in 2..Len(t) /\ Len(t) \in Nat
  BY EnvelopeRules DEF Block
<1>2. k \in 2..EnvelopeEnd(t) - 1 /\ c \in Nat /\ k + c < EnvelopeEnd(t)
  BY DEF Block
<1>3. KeyLines(t) = {k} /\ ItemsAfter(t, k, {"item"}) = k + 1..k + c
  BY BlockIs
<1>4. KeyLines(t) \cup UNION {ItemsAfter(t, j, {"item"}) : j \in KeyLines(t)} = {k} \cup (k + 1..k + c)
  BY <1>3
<1>5. k \in Nat /\ c \in Nat /\ k - 1 \in Nat /\ k + c \in Nat /\ k - 1 <= k + c /\ k + c <= Len(t)
  BY <1>1, <1>2
<1>6. {k} \cup (k + 1..k + c) = (k - 1) + 1..k + c /\ (k + c) - (k - 1) = c + 1
  BY <1>5
<1> DEFINE g == k - 1  h == k + c
<1>7. Integrity(t) = Around(t, g, h)
  <2>1. KeyLines(t) \cup UNION {ItemsAfter(t, j, {"item"}) : j \in KeyLines(t)} = g + 1..h
    BY <1>4, <1>6
  <2>2. g \in Nat /\ h \in Nat /\ g <= h /\ h <= Len(t)
    BY <1>5
  <2> HIDE DEF g, h
  <2> QED
    BY <2>1, <2>2, AroundIs
<1>8. h - g = c + 1
  BY <1>6
<1> HIDE DEF h
<1> QED
  BY <1>7, <1>8 DEF Around

\* And a page without one.
LEMMA AroundNone ==
  ASSUME NEW t \in Seq(TextLines), NoBlock(t)
  PROVE  Integrity(t) = t
<1>1. KeyLines(t) = {} /\ Len(t) \in Nat
  BY NoBlockIs
<1>2. KeyLines(t) \cup UNION {ItemsAfter(t, j, {"item"}) : j \in KeyLines(t)} = 0 + 1..0
  BY <1>1
<1>3. Integrity(t) = [n \in 1..Len(t) - (0 - 0) |-> t[IF n <= 0 THEN n ELSE n + (0 - 0)]]
  BY <1>1, <1>2, AroundIs DEF Around
<1>4. t = [n \in 1..Len(t) |-> t[n]]
  OBVIOUS
<1>5. \A n \in 1..Len(t) : n + (0 - 0) = n /\ ~(n <= 0)
  OBVIOUS
<1> QED
  BY <1>1, <1>3, <1>4, <1>5

\* The ids that are missing, after each one.
MissingReads(ids, listed, f) ==
  /\ f[0] = <<>>
  /\ \A n \in 1..Len(ids) : f[n] = IF \E m \in DOMAIN listed : listed[m] = ids[n]
                                   THEN f[n - 1] ELSE Append(f[n - 1], ids[n])

\* The recursion of Missing has a value.
LEMMA MissingBy ==
  ASSUME NEW ids, NEW listed, Len(ids) \in Nat
  PROVE  \E f : MissingReads(ids, listed, f) /\ Missing(ids, listed) = f[Len(ids)]
<1> DEFINE Step(s, i) == IF \E m \in DOMAIN listed : listed[m] = i THEN s ELSE Append(s, i)
           Of(f, n) == IF n = 0 THEN <<>> ELSE Step(f[n - 1], ids[n])
           Is(m, f) == f = [n \in 0..m |-> Of(f, n)]
           Bad == {m \in Nat : \A f : ~Is(m, f)}
<1> HIDE DEF Step
<1>1. Bad = {}
  <2> SUFFICES ASSUME Bad # {} PROVE FALSE
    OBVIOUS
  <2>1. PICK m \in Bad : \A j \in Bad : m <= j
    BY LeastOf
  <2>2. m # 0
    <3>1. Is(0, [n \in 0..0 |-> <<>>])
      OBVIOUS
    <3> QED
      BY <2>1, <3>1
  <2>3. m - 1 \in Nat /\ m - 1 \notin Bad
    <3>1. m \in Nat
      BY <2>1
    <3> HIDE DEF Bad
    <3> QED
      BY <2>1, <2>2, <3>1
  <2>4. PICK f : Is(m - 1, f)
    BY <2>3
  <2> DEFINE g == [n \in 0..m |-> IF n = m THEN Of(f, m) ELSE f[n]]
  <2>5. \A n \in 0..m : Of(g, n) = Of(f, n)
    <3> SUFFICES ASSUME NEW n \in 0..m, n # 0 PROVE g[n - 1] = f[n - 1]
      BY DEF Of
    <3>1. n - 1 \in 0..m /\ n - 1 # m
      BY <2>1
    <3> HIDE DEF Of
    <3> QED
      BY <3>1
  <2>6. Is(m, g)
    <3> HIDE DEF Of
    <3>1. \A n \in 0..m - 1 : f[n] = Of(f, n)
      BY <2>4
    <3>2. \A n \in 0..m : g[n] = Of(f, n)
      BY <2>1, <3>1
    <3>3. g = [n \in 0..m |-> g[n]]
      OBVIOUS
    <3> HIDE DEF g
    <3> QED
      BY <2>5, <3>2, <3>3
  <2> QED
    BY <2>1, <2>6
<1>2. \E f : Is(Len(ids), f)
  BY <1>1
<1> DEFINE f == CHOOSE f : Is(Len(ids), f)
<1>3. Missing(ids, listed) = f[Len(ids)]
  BY Zenon DEF Missing, Through, f, Is, Of, Step
<1>4. Is(Len(ids), f)
  BY <1>2, Zenon
<1> HIDE DEF f
<1>5. MissingReads(ids, listed, f)
  <2>1. \A n \in 0..Len(ids) : f[n] = Of(f, n)
    <3> HIDE DEF Of
    <3> QED
      BY <1>4
  <2>2. 0 \in 0..Len(ids) /\ \A n \in 1..Len(ids) : n \in 0..Len(ids) /\ n # 0
    OBVIOUS
  <2> QED
    BY <2>1, <2>2, Zenon DEF MissingReads, Of, Step
<1> QED
  BY <1>3, <1>5

\* Each id is missing once, and none that is listed.
LEMMA MissingIs ==
  ASSUME NEW ids \in Seq(Names), NEW listed, \A n, m \in 1..Len(ids) : ids[n] = ids[m] => n = m
  PROVE  LET add == Missing(ids, listed) IN
         /\ add \in Seq(Names)
         /\ \A n \in 1..Len(add) : \A m \in DOMAIN listed : listed[m] # add[n]
         /\ \A n, m \in 1..Len(add) : add[n] = add[m] => n = m
<1> DEFINE Good(s, r) ==
             /\ s \in Seq(Names)
             /\ \A n \in 1..Len(s) : \A m \in DOMAIN listed : listed[m] # s[n]
             /\ \A n \in 1..Len(s) : \E i \in 1..r : s[n] = ids[i]
             /\ \A n, m \in 1..Len(s) : s[n] = s[m] => n = m
<1>1. Len(ids) \in Nat
  OBVIOUS
<1>2. PICK f : MissingReads(ids, listed, f) /\ Missing(ids, listed) = f[Len(ids)]
  BY <1>1, MissingBy
<1>3. Good(f[0], 0)
  <2>1. f[0] = <<>>
    BY <1>2 DEF MissingReads
  <2> QED
    BY <2>1
<1>4. ASSUME NEW n \in 1..Len(ids), Good(f[n - 1], n - 1)
      PROVE  Good(f[n], n)
  <2> DEFINE s == f[n - 1]  z == f[n]
  <2>1. z = IF \E m \in DOMAIN listed : listed[m] = ids[n] THEN s ELSE Append(s, ids[n])
    BY <1>2 DEF MissingReads
  <2>2. /\ s \in Seq(Names)
        /\ \A j \in 1..Len(s) : \A m \in DOMAIN listed : listed[m] # s[j]
        /\ \A j \in 1..Len(s) : \E i \in 1..n - 1 : s[j] = ids[i]
        /\ \A j, m \in 1..Len(s) : s[j] = s[m] => j = m
    BY <1>4
  <2>3. ids[n] \in Names /\ Len(s) \in Nat
    BY <2>2
  <2> HIDE DEF s, z
  <2>4. CASE \E m \in DOMAIN listed : listed[m] = ids[n]
    <3>1. z = s
      BY <2>1, <2>4
    <3>2. \A i \in 1..n - 1 : i \in 1..n
      BY <1>1
    <3>3. Good(z, n)
      BY <2>2, <3>1, <3>2
    <3> QED
      BY <3>3 DEF z
  <2>5. CASE \A m \in DOMAIN listed : listed[m] # ids[n]
    <3>1. z = Append(s, ids[n])
      BY <2>1, <2>5
    <3>2. /\ z \in Seq(Names) /\ Len(z) = Len(s) + 1 /\ z[Len(s) + 1] = ids[n]
          /\ \A j \in 1..Len(s) : z[j] = s[j]
      BY <2>2, <2>3, <3>1
    <3>3. \A j \in 1..Len(z) : j = Len(s) + 1 \/ j \in 1..Len(s)
      BY <2>3, <3>2
    <3>4. \A j \in 1..Len(s) : s[j] # ids[n]
      <4> SUFFICES ASSUME NEW j \in 1..Len(s), s[j] = ids[n] PROVE FALSE
        OBVIOUS
      <4>1. PICK i \in 1..n - 1 : s[j] = ids[i]
        BY <2>2
      <4>2. i \in 1..Len(ids) /\ i # n
        BY <1>1
      <4> QED
        BY <4>1, <4>2
    <3>5. \A j \in 1..Len(z) : \A m \in DOMAIN listed : listed[m] # z[j]
      BY <2>2, <2>5, <3>2, <3>3
    <3>6. \A j \in 1..Len(z) : \E i \in 1..n : z[j] = ids[i]
      <4>1. n \in 1..n /\ \A i \in 1..n - 1 : i \in 1..n
        BY <1>1
      <4> QED
        BY <2>2, <3>2, <3>3, <4>1
    <3>7. \A j, m \in 1..Len(z) : z[j] = z[m] => j = m
      BY <2>2, <3>2, <3>3, <3>4
    <3>8. Good(z, n)
      BY <3>2, <3>5, <3>6, <3>7
    <3> QED
      BY <3>8 DEF z
  <2> QED
    BY <2>4, <2>5
<1> DEFINE Bad == {n \in 0..Len(ids) : ~Good(f[n], n)}
<1> HIDE DEF Good
<1>5. Bad = {}
  <2> SUFFICES ASSUME Bad # {} PROVE FALSE
    OBVIOUS
  <2>1. Bad \in SUBSET Nat
    BY <1>1
  <2> HIDE DEF Bad
  <2>2. PICK n \in Bad : \A j \in Bad : n <= j
    BY <2>1, LeastOf
  <2> USE DEF Bad
  <2>3. n \in 1..Len(ids) /\ n - 1 \in 0..Len(ids) /\ ~(n <= n - 1)
    BY <1>1, <1>3, <2>2
  <2>4. Good(f[n - 1], n - 1)
    BY <2>2, <2>3
  <2>5. Good(f[n], n)
    BY <1>4, <2>3, <2>4
  <2> QED
    BY <2>2, <2>5
<1>6. Good(f[Len(ids)], Len(ids))
  BY <1>1, <1>5
<1> QED
  BY <1>2, <1>6 DEF Good

\* A manifest with ids after it that it did not have.
Grows(before, after) ==
  /\ Len(after) > Len(before) /\ SubSeq(after, 1, Len(before)) = before
  /\ \A n \in DOMAIN after : \A m \in DOMAIN after : n # m /\ n > Len(before) => after[n] # after[m]

\* It has c ids, and then those of add, which are others.
Extends(before, after, add, c, d) ==
  /\ before = [n \in 1..c |-> before[n]] /\ after = [n \in 1..c + d |-> after[n]]
  /\ \A n \in 1..c : after[n] = before[n]
  /\ \A n \in 1..d : after[c + n] = add[n]
  /\ \A n \in 1..d : \A m \in 1..c : before[m] # add[n]
  /\ \A n, m \in 1..d : add[n] = add[m] => n = m

\* Such a manifest grows.
LEMMA ListGrows ==
  ASSUME NEW c \in Nat, NEW d \in Nat \ {0}, NEW before, NEW after, NEW add, Extends(before, after, add, c, d)
  PROVE  Grows(before, after)
<1> USE DEF Extends
<1>1. Len(before) = c /\ Len(after) = c + d /\ DOMAIN after = 1..c + d /\ c + d \in Nat
  OBVIOUS
<1>2. SubSeq(after, 1, c) = before
  <2>1. SubSeq(after, 1, c) = [n \in 1..c |-> after[n]]
    BY DEF SubSeq
  <2> QED
    BY <2>1
<1>3. ASSUME NEW n \in 1..c + d, NEW m \in 1..c + d, n # m, n > c
      PROVE  after[n] # after[m]
  <2>1. n - c \in 1..d /\ c + (n - c) = n
    BY <1>3
  <2>2. after[n] = add[n - c]
    BY <2>1
  <2>3. CASE m <= c
    <3>1. m \in 1..c
      BY <2>3
    <3> QED
      BY <2>1, <2>2, <3>1
  <2>4. CASE ~(m <= c)
    <3>1. m - c \in 1..d /\ c + (m - c) = m /\ m - c # n - c
      BY <1>3, <2>4
    <3>2. after[m] = add[m - c]
      BY <3>1
    <3> QED
      BY <2>1, <2>2, <3>1, <3>2
  <2> QED
    BY <2>3, <2>4
<1>4. Len(after) > Len(before) /\ SubSeq(after, 1, Len(before)) = before
  <2>1. Len(after) > Len(before)
    BY <1>1
  <2>2. SubSeq(after, 1, Len(before)) = before
    BY <1>1, <1>2, Zenon
  <2> QED
    BY <2>1, <2>2
<1>5. \A n \in DOMAIN after : \A m \in DOMAIN after : n # m /\ n > Len(before) => after[n] # after[m]
  BY <1>1, <1>3
<1> QED
  BY <1>4, <1>5, Zenon DEF Grows

\* What a merge owes to the readers of a page.
Agrees(t, u) ==
  /\ Grows(ConsumerReads(t).items, ConsumerReads(u).items)
  /\ WitnessReads(t) =>
       /\ WitnessReads(u) /\ TargetManifest(u) = ConsumerReads(u).items
       /\ Integrity(u) = Integrity(t)

\* The lines for ids that are missing.
LEMMA AddedIs ==
  ASSUME NEW add \in Seq(Names)
  PROVE  LET new == [n \in DOMAIN add |-> Item(add[n])] IN
         /\ new \in Seq(TextLines) /\ Len(new) = Len(add) /\ Len(add) \in Nat
         /\ \A n \in 1..Len(add) : new[n].is = "item" /\ new[n].of = add[n]
<1> DEFINE new == [n \in DOMAIN add |-> Item(add[n])]
<1>1. DOMAIN add = 1..Len(add) /\ Len(add) \in Nat /\ \A n \in 1..Len(add) : add[n] \in Names
  OBVIOUS
<1>2. \A n \in 1..Len(add) : Item(add[n]) \in TextLines /\ Item(add[n]).is = "item" /\ Item(add[n]).of = add[n]
  BY <1>1, NewLinesAre
<1>3. new = [n \in 1..Len(add) |-> Item(add[n])]
  BY <1>1, Zenon
<1> HIDE DEF new
<1> QED
  BY <1>1, <1>2, <1>3 DEF new

\* A merge into a manifest.
LEMMA MergeGrows ==
  ASSUME NEW t \in Seq(TextLines), NEW ids \in Seq(Names), \A n, m \in 1..Len(ids) : ids[n] = ids[m] => n = m,
         NEW k, NEW c, Block(t, MergedShapes, k, c), Merged(t, ids) # t
  PROVE  Merged(t, ids) \in Seq(TextLines) /\ Agrees(t, Merged(t, ids))
<1> DEFINE listed == Listed(t, MergedShapes)
           add == Missing(ids, listed)
           new == [n \in DOMAIN add |-> Item(add[n])]
           a == k + c
           u == SubSeq(t, 1, a) \o new \o SubSeq(t, a + 1, Len(t))
           d == Len(add)
<1>1. EnvelopeEnd(t) \in 2..Len(t) /\ Len(t) \in Nat
  BY EnvelopeRules DEF Block
<1>2. k \in 2..EnvelopeEnd(t) - 1 /\ c \in Nat /\ k + c < EnvelopeEnd(t)
  BY DEF Block
<1>3. MergedShapes \in SUBSET Items /\ "item" \in MergedShapes /\ {"item"} \in SUBSET MergedShapes
      /\ {"item"} \in SUBSET Items /\ "item" \in {"item"} /\ "rule" \notin {"item"}
  BY DEF MergedShapes, Items
<1>4. /\ KeyLines(t) = {k} /\ FirstOf(KeyLines(t)) = k
      /\ listed = Carried(t, k, c)
  BY BlockIs
<1>5. ConsumerReads(t).items = listed
  BY <1>3, <1>4, ConsumerBlock
<1>6. Len(listed) = c /\ DOMAIN listed = 1..c /\ \A n \in 1..c : listed[n] = t[k + n].of
  BY <1>2, <1>4 DEF Carried
<1> HIDE DEF listed
<1>7. /\ add \in Seq(Names)
      /\ \A n \in 1..d : \A m \in 1..c : listed[m] # add[n]
      /\ \A n, m \in 1..d : add[n] = add[m] => n = m
  BY <1>6, MissingIs
<1>8. add # <<>> /\ Merged(t, ids) = u
  <2>1. Merged(t, ids) = IF add = <<>> THEN t ELSE
          SubSeq(t, 1, IF KeyLines(t) = {} THEN EnvelopeEnd(t) - 1 ELSE FirstOf(KeyLines(t)) + Len(listed))
            \o (IF KeyLines(t) = {} THEN <<Key>> ELSE <<>>) \o new
            \o SubSeq(t, (IF KeyLines(t) = {} THEN EnvelopeEnd(t) - 1 ELSE FirstOf(KeyLines(t)) + Len(listed)) + 1, Len(t))
    BY Zenon DEF Merged, listed, add
  <2>2. add # <<>>
    BY <2>1
  <2>3. (IF KeyLines(t) = {} THEN EnvelopeEnd(t) - 1 ELSE FirstOf(KeyLines(t)) + Len(listed)) = a
        /\ (IF KeyLines(t) = {} THEN <<Key>> ELSE <<>>) = <<>>
    BY <1>4, <1>6
  <2>4. Merged(t, ids) = SubSeq(t, 1, a) \o <<>> \o new \o SubSeq(t, a + 1, Len(t))
    BY <2>1, <2>2, <2>3, Zenon
  <2>5. SubSeq(t, 1, a) \in Seq(TextLines)
    <3>1. a \in 0..Len(t)
      BY <1>1, <1>2
    <3> HIDE DEF a
    <3> QED
      BY <3>1, RestIs
  <2>6. SubSeq(t, 1, a) \o <<>> = SubSeq(t, 1, a)
    BY <2>5, ConcatEmptySeq
  <2> QED
    BY <2>2, <2>4, <2>6
<1> HIDE DEF add
<1>9. /\ new \in Seq(TextLines) /\ Len(new) = d /\ d \in Nat
      /\ \A n \in 1..d : new[n].is = "item" /\ new[n].of = add[n]
  BY <1>7, AddedIs
<1> HIDE DEF new
<1>10. d \in Nat \ {0}
  BY <1>7, <1>8
<1>11. a \in 0..Len(t) /\ a \in Nat
  BY <1>1, <1>2
<1>12. Grown(t, u, a, d) /\ \A n \in 1..d : u[a + n] = new[n]
  <2> HIDE DEF a
  <2>1. Grown(t, u, a, Len(new)) /\ \A n \in 1..Len(new) : u[a + n] = new[n]
    BY <1>9, <1>11, GrownIs, Zenon
  <2> QED
    BY <1>9, <2>1, Zenon
<1> HIDE DEF u, d
<1>13. u \in Seq(TextLines) /\ Len(u) = Len(t) + d /\ \A n \in 1..a : u[n] = t[n]
  BY <1>12 DEF Grown
<1>14. \A n \in (k + c) + 1..(k + c) + d : u[n].is = "item"
  <2> SUFFICES ASSUME NEW n \in (k + c) + 1..(k + c) + d PROVE u[n].is = "item"
    OBVIOUS
  <2>1. n - a \in 1..d /\ a + (n - a) = n
    BY <1>2, <1>10
  <2> QED
    BY <1>9, <1>12, <2>1
<1>15. ASSUME NEW S \in SUBSET Items, "item" \in S, Block(t, S, k, c)
       PROVE  Block(u, S, k, c + d)
  <2>1. Grown(t, u, k + c, d)
    BY <1>12
  <2> QED
    BY <1>10, <1>14, <1>15, <2>1, GrownBlock
<1>16. ConsumerReads(u).items = Carried(u, k, c + d)
  BY <1>3, <1>13, <1>15, ConsumerBlock
<1>17. Grows(ConsumerReads(t).items, ConsumerReads(u).items)
  <2> DEFINE before == ConsumerReads(t).items  after == ConsumerReads(u).items
  <2>1. before = [n \in 1..c |-> before[n]] /\ after = [n \in 1..c + d |-> after[n]]
    BY <1>4, <1>5, <1>16 DEF listed, Carried
  <2>2. \A n \in 1..c : after[n] = before[n]
    <3> TAKE n \in 1..c
    <3>1. n \in 1..c + d /\ k + n \in 1..a
      BY <1>2, <1>10
    <3> QED
      BY <1>5, <1>6, <1>13, <1>16, <3>1 DEF Carried
  <2>3. \A n \in 1..d : after[c + n] = add[n]
    <3> TAKE n \in 1..d
    <3>1. c + n \in 1..c + d /\ k + (c + n) = a + n
      BY <1>2, <1>10
    <3> QED
      BY <1>9, <1>12, <1>16, <3>1 DEF Carried
  <2>4. \A n \in 1..d : \A m \in 1..c : before[m] # add[n]
    BY <1>5, <1>7 DEF d
  <2>5. \A n, m \in 1..d : add[n] = add[m] => n = m
    BY <1>7 DEF d
  <2>6. c \in Nat
    BY <1>2
  <2> HIDE DEF before, after
  <2>7. Extends(before, after, add, c, d)
    BY <2>1, <2>2, <2>3, <2>4, <2>5, Zenon DEF Extends
  <2>8. Grows(before, after)
    BY <1>10, <2>6, <2>7, ListGrows
  <2> QED
    BY <2>8 DEF before, after
<1>18. ASSUME WitnessReads(t)
       PROVE  /\ WitnessReads(u) /\ TargetManifest(u) = ConsumerReads(u).items
              /\ Integrity(u) = Integrity(t)
  <2>1. CarriesManifest(t, {"item"})
    BY <1>18 DEF WitnessReads
  <2>2. ~NoBlock(t)
    <3>1. k \in 2..EnvelopeEnd(t) /\ t[k].is = "consolidates"
      BY <1>1, <1>2 DEF Block
    <3> QED
      BY <3>1 DEF NoBlock
  <2>3. PICK j, b : Block(t, {"item"}, j, b)
    BY <1>3, <2>1, <2>2, CarriesBlock
  <2>4. j = k /\ b = c
    BY <1>3, <2>3, SameBlock
  <2>5. Block(t, {"item"}, k, c)
    BY <2>3, <2>4
  <2>6. Block(u, {"item"}, k, c + d)
    BY <1>3, <1>15, <2>5
  <2>7. CarriesManifest(u, {"item"}) /\ Listed(u, {"item"}) = Carried(u, k, c + d)
    BY <1>13, <2>6, BlockIs
  <2>8. Integrity(t) = [n \in 1..Len(t) - (c + 1) |-> t[IF n <= k - 1 THEN n ELSE n + (c + 1)]]
    BY <2>5, AroundBlock
  <2>9. Integrity(u) = [n \in 1..Len(u) - ((c + d) + 1) |-> u[IF n <= k - 1 THEN n ELSE n + ((c + d) + 1)]]
    BY <1>13, <2>6, AroundBlock
  <2>10. Len(u) - ((c + d) + 1) = Len(t) - (c + 1)
    BY <1>1, <1>2, <1>10, <1>13
  <2>11. \A n \in 1..Len(t) - (c + 1) :
           u[IF n <= k - 1 THEN n ELSE n + ((c + d) + 1)] = t[IF n <= k - 1 THEN n ELSE n + (c + 1)]
    <3> TAKE n \in 1..Len(t) - (c + 1)
    <3>1. CASE n <= k - 1
      <4>1. n \in 1..a
        BY <1>1, <1>2, <3>1
      <4> QED
        BY <1>13, <3>1, <4>1
    <3>2. CASE ~(n <= k - 1)
      <4>1. n + (c + 1) \in a + 1..Len(t) /\ (n + (c + 1)) + d = n + ((c + d) + 1)
        BY <1>1, <1>2, <1>10, <3>2
      <4>2. u[(n + (c + 1)) + d] = t[n + (c + 1)]
        BY <1>12, <4>1 DEF Grown
      <4> QED
        BY <3>2, <4>1, <4>2
    <3> QED
      BY <3>1, <3>2
  <2>12. Integrity(u) = Integrity(t)
    BY <2>8, <2>9, <2>10, <2>11
  <2> QED
    BY <1>16, <2>7, <2>12 DEF WitnessReads, TargetManifest
<1>19. Agrees(t, u)
  BY <1>17, <1>18, Zenon DEF Agrees
<1> QED
  BY <1>8, <1>13, <1>19

\* A merge into a page without a manifest.
LEMMA MergeStarts ==
  ASSUME NEW t \in Seq(TextLines), NEW ids \in Seq(Names), \A n, m \in 1..Len(ids) : ids[n] = ids[m] => n = m,
         NoBlock(t), Merged(t, ids) # t
  PROVE  Merged(t, ids) \in Seq(TextLines) /\ Agrees(t, Merged(t, ids))
<1> DEFINE listed == Listed(t, MergedShapes)
           add == Missing(ids, listed)
           new == [n \in DOMAIN add |-> Item(add[n])]
           k == EnvelopeEnd(t)
           a == k - 1
           x == <<Key>> \o new
           u == SubSeq(t, 1, a) \o x \o SubSeq(t, a + 1, Len(t))
           d == Len(add)
<1>1. k \in 2..Len(t) /\ Len(t) \in Nat
  BY EnvelopeRules DEF NoBlock
<1>2. "item" \in {"item"} /\ {"item"} \in SUBSET Items
  BY DEF Items
<1>3. KeyLines(t) = {} /\ listed = <<>>
  BY NoBlockIs
<1>4. ConsumerReads(t).items = <<>>
  BY ConsumerNone
<1>5. \A m \in DOMAIN listed : FALSE
  BY <1>3
<1> HIDE DEF listed
<1>6. add \in Seq(Names) /\ \A n, m \in 1..d : add[n] = add[m] => n = m
  BY MissingIs
<1> HIDE DEF add
<1>7. /\ new \in Seq(TextLines) /\ Len(new) = d /\ d \in Nat
      /\ \A n \in 1..d : new[n].is = "item" /\ new[n].of = add[n]
  BY <1>6, AddedIs
<1>8. <<Key>> \in Seq(TextLines) /\ Len(<<Key>>) = 1 /\ <<Key>>[1] = Key
  BY NewLinesAre
<1>9. a \in 0..Len(t) /\ a \in Nat /\ a + 1 = k /\ k \in Nat
  BY <1>1
<1> HIDE DEF a
<1>10. SubSeq(t, 1, a) \in Seq(TextLines)
  BY <1>9, RestIs
<1>11. add # <<>> /\ Merged(t, ids) = u
  <2>1. Merged(t, ids) = IF add = <<>> THEN t ELSE
          SubSeq(t, 1, IF KeyLines(t) = {} THEN k - 1 ELSE FirstOf(KeyLines(t)) + Len(listed))
            \o (IF KeyLines(t) = {} THEN <<Key>> ELSE <<>>) \o new
            \o SubSeq(t, (IF KeyLines(t) = {} THEN k - 1 ELSE FirstOf(KeyLines(t)) + Len(listed)) + 1, Len(t))
    BY Zenon DEF Merged, listed, add
  <2>2. add # <<>>
    BY <2>1
  <2>3. Merged(t, ids) = SubSeq(t, 1, a) \o <<Key>> \o new \o SubSeq(t, a + 1, Len(t))
    BY <1>3, <2>1, <2>2, Zenon DEF a
  <2>4. (SubSeq(t, 1, a) \o <<Key>>) \o new = SubSeq(t, 1, a) \o x
    <3> DEFINE y == <<Key>>  p == SubSeq(t, 1, a)
    <3>1. new \in Seq(TextLines) /\ y \in Seq(TextLines) /\ p \in Seq(TextLines)
      BY <1>7, <1>8, <1>10
    <3> HIDE DEF new, y, p
    <3>2. (p \o y) \o new = p \o (y \o new)
      BY <3>1, ConcatAssociative
    <3> QED
      BY <3>2 DEF y, p
  <2> QED
    BY <2>2, <2>3, <2>4
<1> HIDE DEF new
<1>12. x \in Seq(TextLines) /\ Len(x) = d + 1 /\ x[1] = Key /\ \A n \in 1..d : x[1 + n] = new[n]
  <2> DEFINE y == <<Key>>
  <2>1. y \in Seq(TextLines) /\ Len(y) = 1 /\ y[1] = Key
    BY <1>8
  <2> HIDE DEF y
  <2>2. /\ y \o new \in Seq(TextLines) /\ Len(y \o new) = Len(y) + Len(new)
        /\ \A n \in 1..Len(y) : (y \o new)[n] = y[n]
        /\ \A n \in 1..Len(new) : (y \o new)[Len(y) + n] = new[n]
    BY <1>7, <2>1, JoinIs
  <2>3. Len(y \o new) = d + 1 /\ (y \o new)[1] = Key /\ \A n \in 1..d : (y \o new)[1 + n] = new[n]
    BY <1>7, <2>1, <2>2
  <2> QED
    BY <2>2, <2>3 DEF y
<1> HIDE DEF x
<1>13. Grown(t, u, a, d + 1) /\ \A n \in 1..d + 1 : u[a + n] = x[n]
  <2>1. Grown(t, u, a, Len(x)) /\ \A n \in 1..Len(x) : u[a + n] = x[n]
    BY <1>9, <1>12, GrownIs, Zenon
  <2> QED
    BY <1>12, <2>1, Zenon
<1>14. d \in Nat \ {0}
  BY <1>6, <1>11
<1> HIDE DEF u, d
<1>15. u \in Seq(TextLines) /\ Len(u) = Len(t) + (d + 1) /\ \A n \in 1..a : u[n] = t[n]
  BY <1>13 DEF Grown
<1>16. u[k] = Key
  <2>1. 1 \in 1..d + 1
    BY <1>14
  <2> QED
    BY <1>9, <1>12, <1>13, <2>1
<1>17. \A n \in 1..d : u[k + n] = new[n]
  <2> TAKE n \in 1..d
  <2>1. n + 1 \in 1..d + 1 /\ a + (n + 1) = k + n /\ 1 + n = n + 1
    BY <1>9, <1>14
  <2>2. u[a + (n + 1)] = x[n + 1] /\ x[1 + n] = new[n]
    BY <1>12, <1>13, <2>1
  <2> QED
    BY <2>1, <2>2
<1>18. \A n \in k + 1..k + d : u[n].is = "item"
  <2> SUFFICES ASSUME NEW n \in k + 1..k + d PROVE u[n].is = "item"
    OBVIOUS
  <2>1. n - k \in 1..d /\ k + (n - k) = n
    BY <1>9, <1>14
  <2>2. u[k + (n - k)] = new[n - k]
    BY <1>17, <2>1
  <2> QED
    BY <1>7, <2>1, <2>2
<1>19. Block(u, {"item"}, k, d)
  BY <1>2, <1>13, <1>14, <1>16, <1>18, FreshBlock DEF a
<1>20. ConsumerReads(u).items = Carried(u, k, d)
  BY <1>2, <1>15, <1>19, ConsumerBlock
<1>21. Grows(ConsumerReads(t).items, ConsumerReads(u).items)
  <2> DEFINE before == ConsumerReads(t).items  after == ConsumerReads(u).items
  <2>1. after = [n \in 1..0 + d |-> after[n]] /\ \A n \in 1..d : after[0 + n] = add[n]
    <3>1. 0 + d = d /\ \A n \in 1..d : 0 + n = n
      BY <1>14
    <3>2. after = [n \in 1..d |-> u[k + n].of]
      BY <1>20 DEF Carried
    <3>3. \A n \in 1..d : after[n] = add[n]
      BY <1>7, <1>17, <3>2
    <3> HIDE DEF after
    <3> QED
      BY <3>1, <3>2, <3>3
  <2>2. before = [n \in 1..0 |-> before[n]] /\ \A n \in 1..0 : FALSE
    BY <1>4
  <2>3. \A n, m \in 1..d : add[n] = add[m] => n = m
    BY <1>6 DEF d
  <2> HIDE DEF before, after
  <2>4. Extends(before, after, add, 0, d)
    BY <2>1, <2>2, <2>3 DEF Extends
  <2>5. Grows(before, after)
    BY <1>14, <2>4, ListGrows
  <2> QED
    BY <2>5 DEF before, after
<1>22. WitnessReads(u) /\ TargetManifest(u) = ConsumerReads(u).items
  BY <1>15, <1>19, <1>20, BlockIs DEF WitnessReads, TargetManifest
<1>23. Integrity(u) = Integrity(t)
  <2>1. Integrity(t) = t
    BY AroundNone
  <2>2. Integrity(u) = [n \in 1..Len(u) - (d + 1) |-> u[IF n <= k - 1 THEN n ELSE n + (d + 1)]]
    BY <1>15, <1>19, AroundBlock
  <2>3. Len(u) - (d + 1) = Len(t) /\ k - 1 = a
    BY <1>1, <1>9, <1>14, <1>15
  <2>4. \A n \in 1..Len(t) : u[IF n <= k - 1 THEN n ELSE n + (d + 1)] = t[n]
    <3> TAKE n \in 1..Len(t)
    <3>1. CASE n <= k - 1
      <4>1. n \in 1..a
        BY <1>9, <3>1
      <4> QED
        BY <1>15, <3>1, <4>1
    <3>2. CASE ~(n <= k - 1)
      <4>1. n \in a + 1..Len(t)
        BY <1>1, <1>9, <3>2
      <4>2. u[n + (d + 1)] = t[n]
        BY <1>13, <4>1 DEF Grown
      <4> QED
        BY <3>2, <4>2
    <3> QED
      BY <3>1, <3>2
  <2>5. t = [n \in 1..Len(t) |-> t[n]]
    OBVIOUS
  <2> QED
    BY <2>1, <2>2, <2>3, <2>4, <2>5
<1>24. Agrees(t, u)
  BY <1>21, <1>22, <1>23, Zenon DEF Agrees
<1> QED
  BY <1>11, <1>15, <1>24

\* A merge into any page.
LEMMA MergeAgrees ==
  ASSUME NEW t \in Seq(TextLines), NEW ids \in Seq(Names), \A n, m \in 1..Len(ids) : ids[n] = ids[m] => n = m,
         Merges(t), Merged(t, ids) # t
  PROVE  Merged(t, ids) \in Seq(TextLines) /\ Agrees(t, Merged(t, ids))
<1>1. CarriesManifest(t, MergedShapes) /\ "rule" \notin MergedShapes
  BY DEF Merges, MergedShapes
<1>2. NoBlock(t) \/ \E k, c : Block(t, MergedShapes, k, c)
  BY <1>1, CarriesBlock
<1> QED
  BY <1>2, MergeGrows, MergeStarts

\* A page is a text, and so is what a person or a merge makes of it.
PageInv == page \in Seq(TextLines)

\* The pages and their lines.
LEMMA PagesAre ==
  /\ Lines.page \in SUBSET TextLines
  /\ \A s \in Starts : s.page \in Seq(TextLines)
<1>1. LineType \subseteq TextLines
  BY DEF LineType, TextLines, Names
<1>2. Lines.page \in SUBSET LineType
  BY TextConstants
<1>3. ASSUME NEW s \in Starts
      PROVE  s.page \in Seq(LineType)
  BY TextConstants
<1>4. \A t \in Seq(LineType) : t \in Seq(TextLines)
  BY <1>1
<1> QED
  BY <1>1, <1>2, <1>3, <1>4

\* The ids of a merge are different ones.
LEMMA OrdersAre ==
  ASSUME NEW ids \in {o \in Orders : Len(o) = 1 \/ o[1] # o[2]}
  PROVE  ids \in Seq(Names) /\ \A n, m \in 1..Len(ids) : ids[n] = ids[m] => n = m
<1>1. Ids \subseteq Names
  BY TextConstants DEF Names
<1>2. CASE \E i \in Ids : ids = <<i>>
  BY <1>1, <1>2
<1>3. CASE \E i, j \in Ids : ids = <<i, j>>
  <2>1. PICK i \in Ids, j \in Ids : ids = <<i, j>>
    BY <1>3
  <2>2. ids \in Seq(Names) /\ Len(ids) = 2 /\ ids[1] = i /\ ids[2] = j
    BY <1>1, <2>1
  <2>3. i # j
    BY <2>2
  <2>4. \A n \in 1..2 : n = 1 \/ n = 2
    OBVIOUS
  <2> QED
    BY <2>2, <2>3, <2>4
<1> QED
  BY <1>2, <1>3 DEF Orders

\* It holds throughout.
LEMMA PageStays == PagesSpec => []PageInv
<1>1. (Init /\ NoPins) \/ (PinInit /\ NoTexts) => PageInv
  <2>1. CASE Init
    BY <2>1, PagesAre DEF Init, PageInv
  <2>2. CASE NoTexts
    BY <2>2 DEF NoTexts, PageInv
  <2> QED
    BY <2>1, <2>2
<1>2. PageInv /\ [Promotes \/ Lints]_<<vars, pinVars>> => PageInv'
  <2> SUFFICES ASSUME PageInv, [Promotes \/ Lints]_<<vars, pinVars>> PROVE PageInv'
    OBVIOUS
  <2>1. CASE Edit
    <3>1. page' = page \/ page' \in EditsOf(page, Lines.page)
      BY <2>1, Zenon DEF Edit
    <3> QED
      BY <3>1, EditsAre, PagesAre DEF PageInv
  <2>2. CASE \E ids \in {o \in Orders : Len(o) = 1 \/ o[1] # o[2]} : Merge(ids)
    <3>1. PICK ids \in {o \in Orders : Len(o) = 1 \/ o[1] # o[2]} : Merge(ids)
      BY <2>2
    <3>2. ids \in Seq(Names) /\ \A n, m \in 1..Len(ids) : ids[n] = ids[m] => n = m
      BY OrdersAre
    <3>3. page' = Merged(page, ids) /\ Merges(page)
      BY <3>1 DEF Merge
    <3> QED
      BY <3>2, <3>3, MergeAgrees DEF PageInv
  <2>3. CASE page' = page
    BY <2>3 DEF PageInv
  <2> QED
    BY <2>1, <2>2, <2>3 DEF Promotes, Lints, Next, vars, Archive, Flip
<1> QED
  BY <1>1, <1>2, PTL DEF PagesSpec

\* A merge adds ids that the page did not have after those it had, whatever the page and
\* the edits, and the batch's witness reads of the page what its readers do.
THEOREM MergeStands == PagesSpec => MergeIsSeen
<1> DEFINE A == ~Edited /\ page' # page =>
       /\ LET before == ConsumerReads(page).items
              after == ConsumerReads(page').items
          IN /\ Len(after) > Len(before) /\ SubSeq(after, 1, Len(before)) = before
             /\ \A n \in DOMAIN after : \A m \in DOMAIN after : n # m /\ n > Len(before) => after[n] # after[m]
       /\ WitnessReads(page) =>
            /\ WitnessReads(page') /\ TargetManifest(page') = ConsumerReads(page').items
            /\ Integrity(page') = Integrity(page)
<1>1. TextInv /\ PageInv /\ [Promotes \/ Lints]_<<vars, pinVars>> => [A]_vars
  <2> SUFFICES ASSUME TextInv, PageInv, [Promotes \/ Lints]_<<vars, pinVars>>, ~Edited, page' # page
               PROVE  Agrees(page, page')
    BY Zenon DEF Agrees, Grows
  <2>1. \E ids \in {o \in Orders : Len(o) = 1 \/ o[1] # o[2]} : Merge(ids)
    <3>1. ~Edit
      BY DEF Edit, Edited, TextInv
    <3> QED
      BY <3>1 DEF Promotes, Lints, Next, vars, Archive, Flip
  <2>2. PICK ids \in {o \in Orders : Len(o) = 1 \/ o[1] # o[2]} : Merge(ids)
    BY <2>1
  <2>3. ids \in Seq(Names) /\ \A n, m \in 1..Len(ids) : ids[n] = ids[m] => n = m
    BY OrdersAre
  <2>4. page' = Merged(page, ids) /\ Merges(page)
    BY <2>2 DEF Merge
  <2> QED
    BY <2>3, <2>4, MergeAgrees DEF PageInv
<1> HIDE DEF A
<1>2. PagesSpec => [][A]_vars
  BY <1>1, TextStays, PageStays, PTL DEF PagesSpec
<1> QED
  BY <1>2, PTL DEF MergeIsSeen, A
=============================================================================
