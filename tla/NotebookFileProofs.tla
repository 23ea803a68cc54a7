-------------------------- MODULE NotebookFileProofs --------------------------
(***************************************************************************)
(* A name identifies a cell, a change touches one cell, and undo goes back *)
(* state by state, for any files, any names and any number of calls.       *)
(***************************************************************************)
EXTENDS NotebookFile, SequenceTheorems, FiniteSetTheorems, WellFoundedInduction, TLAPS

----------------------------------------------------------------------------
(* Numbers.                                                                *)

\* Every set of numbers has a least one.
LEMMA LeastNumber ==
  ASSUME NEW S, S \subseteq Nat, S # {}
  PROVE  \E m \in S : \A k \in S : m <= k
<1>1. PICK R : R = OpToRel(<, Nat)
  OBVIOUS
<1>2. \A y \in Nat, x \in Nat : y < x => <<y, x>> \in R
  BY <1>1 DEF OpToRel
<1>3. IsWellFoundedOn(R, Nat)
  BY <1>1, NatLessThanWellFounded
<1>4. PICK x \in S : \A y \in S : ~ (<<y, x>> \in R)
  BY <1>3, WFMin
<1>5. \A y \in S : ~(y < x)
  BY <1>2, <1>4
<1> QED BY <1>5

\* A bounded one has a greatest.
LEMMA GreatestNumber ==
  ASSUME NEW n \in Nat, NEW S, S \subseteq 1..n, S # {}
  PROVE  \E m \in S : \A k \in S : k <= m
<1> DEFINE T == {n - j : j \in S}
<1>1. T \subseteq Nat /\ T # {}
  <2>1. \A j \in S : n - j \in Nat
    OBVIOUS
  <2> QED BY <2>1
<1>2. PICK m \in T : \A k \in T : m <= k
  BY <1>1, LeastNumber
<1>3. PICK j \in S : m = n - j
  BY <1>2
<1>4. ASSUME NEW k \in S PROVE k <= j
  <2>1. m <= n - k
    BY <1>2
  <2> QED BY <1>3, <2>1
<1> QED BY <1>4

\* Something may be computed step by step.
Steps(D, base, n, next) ==
  {f \in [0..n -> D] : f[0] = base /\ \A i \in 1..n : f[i] = next[i][f[i - 1]]}

LEMMA StepByStep ==
  ASSUME NEW D, NEW base \in D, NEW n \in Nat, NEW next \in [1..n -> [D -> D]]
  PROVE  Steps(D, base, n, next) # {}
<1> DEFINE Is(f, m) == f \in [0..m -> D] /\ f[0] = base /\ \A i \in 1..m : f[i] = next[i][f[i - 1]]
           Bad == {m \in 0..n : \A f : ~Is(f, m)}
<1>1. ASSUME Bad # {} PROVE FALSE
  <2>1. PICK m \in Bad : \A k \in Bad : m <= k
    <3>1. Bad \subseteq Nat
      OBVIOUS
    <3> HIDE DEF Bad
    <3> QED BY <1>1, <3>1, LeastNumber
  <2>2. m \in Nat /\ m <= n
    OBVIOUS
  <2>3. CASE m = 0
    <3>1. Is([k \in 0..0 |-> base], 0)
      OBVIOUS
    <3> QED BY <2>3, <3>1
  <2>4. CASE m # 0
    <3>1. m - 1 \in 0..n /\ ~(m <= m - 1)
      BY <2>2, <2>4
    <3>2. m - 1 \notin Bad
      <4> HIDE DEF Bad
      <4> QED BY <2>1, <3>1
    <3>3. PICK f : Is(f, m - 1)
      <4> HIDE DEF Is
      <4> QED BY <3>1, <3>2
    <3> DEFINE g == [k \in 0..m |-> IF k = m THEN next[m][f[m - 1]] ELSE f[k]]
    <3>4. f[m - 1] \in D /\ m \in 1..n
      BY <2>2, <2>4, <3>3
    <3>5. next[m][f[m - 1]] \in D
      BY <3>4
    <3>6. g \in [0..m -> D]
      BY <2>2, <3>3, <3>5
    <3>7. g[0] = base
      BY <2>2, <2>4, <3>3
    <3>8. ASSUME NEW i \in 1..m PROVE g[i] = next[i][g[i - 1]]
      <4>1. g[i - 1] = f[i - 1]
        BY <2>2
      <4>2. CASE i = m
        BY <4>1, <4>2
      <4>3. CASE i # m
        <5>1. i \in 1..m - 1 /\ g[i] = f[i]
          BY <2>2, <4>3
        <5> QED BY <3>3, <4>1, <5>1
      <4> QED BY <4>2, <4>3
    <3>9. Is(g, m)
      BY <3>6, <3>7, <3>8
    <3> QED BY <3>9
  <2> QED BY <2>3, <2>4
<1>2. n \notin Bad
  BY <1>1
<1> QED BY <1>2 DEF Steps
----------------------------------------------------------------------------
(* _ensure_names().                                                        *)

CellSet == [name: AllNames \cup {Unnamed}, src: Sources]

\* Every cell has a name, and no two have the same.
Good(b) ==
  /\ Unnamed \notin NamesOf(b)
  /\ \A i, j \in DOMAIN b : b[i].name = b[j].name => i = j

LEMMA NamesFinite ==
  ASSUME NEW b \in Notebooks
  PROVE  IsFiniteSet(NamesOf(b)) /\ Cardinality(NamesOf(b)) \in Nat
<1>1. Len(b) \in Nat /\ DOMAIN b = 1..Len(b)
  BY LenProperties DEF Notebooks
<1>2. IsFiniteSet(1..Len(b))
  BY <1>1, FS_Interval
<1> DEFINE f == [i \in 1..Len(b) |-> b[i].name]
<1>3. f \in Surjection(1..Len(b), NamesOf(b))
  BY <1>1 DEF NamesOf, Surjection
<1> HIDE DEF f
<1> QED BY <1>2, <1>3, FS_Surjection, FS_CardinalityType

\* Among the numbers tried there is a free one, so the name given is free.
LEMMA NumberedIs ==
  ASSUME NEW n \in AllNames, NEW seen, IsFiniteSet(seen)
  PROVE  /\ Numbered(n, seen) \in AllNames /\ Numbered(n, seen) \notin seen
         /\ n \notin seen => Numbered(n, seen) = n
<1>1. CASE n \notin seen
  BY <1>1 DEF Numbered
<1>2. CASE n \in seen
  <2> DEFINE c == Cardinality(seen)
             Free == {k \in 2..c + 2 : WithNumber(n, k) \notin seen}
  <2>1. c \in Nat
    BY FS_CardinalityType
  <2> HIDE DEF c
  <2>2. \A k \in Nat : WithNumber(n, k) \in AllNames
    BY AppendProperties DEF WithNumber, AllNames
  <2>3. \A j, k \in Nat : WithNumber(n, j) = WithNumber(n, k) => j = k
    <3>1. n.nums \in Seq(Nat)
      BY DEF AllNames
    <3>2. \A j \in Nat : WithNumber(n, j).nums = Append(n.nums, j)
      BY DEF WithNumber, AllNames
    <3>3. \A j \in Nat : Append(n.nums, j)[Len(n.nums) + 1] = j
      BY <3>1, AppendProperties
    <3> QED BY <3>2, <3>3
  <2>4. Free # {}
    <3> SUFFICES ASSUME Free = {} PROVE FALSE
      OBVIOUS
    <3> DEFINE f == [k \in 2..c + 2 |-> WithNumber(n, k)]
    <3>1. f \in [2..c + 2 -> seen]
      OBVIOUS
    <3>2. IsFiniteSet(2..c + 2) /\ Cardinality(2..c + 2) = c + 1
      BY <2>1, FS_Interval
    <3>3. \A j, k \in 2..c + 2 : f[j] = f[k] => j = k
      BY <2>1, <2>3
    <3> HIDE DEF f
    <3>4. Cardinality(seen) < Cardinality(2..c + 2)
      BY <2>1, <3>2 DEF c
    <3> DEFINE tried == 2..c + 2
    <3>5. f \in [tried -> seen] /\ IsFiniteSet(tried) /\ IsFiniteSet(seen)
          /\ Cardinality(seen) < Cardinality(tried)
      BY <3>1, <3>2, <3>4
    <3> HIDE DEF tried
    <3>6. \E x, y \in tried : x # y /\ f[x] = f[y]
      BY ONLY <3>5, FS_PigeonHole
    <3> QED BY <3>3, <3>6 DEF tried
  <2>5. PICK k \in Free : \A j \in Free : k <= j
    <3>1. Free \subseteq Nat
      OBVIOUS
    <3> HIDE DEF Free
    <3> QED BY <2>4, <3>1, LeastNumber
  <2> DEFINE OK(i) == WithNumber(n, i) \notin seen /\ \A j \in 2..(i - 1) : WithNumber(n, j) \in seen
             l == CHOOSE i \in 2..c + 2 : OK(i)
  <2>6. k \in 2..c + 2 /\ OK(k)
    BY <2>1, <2>5
  <2>7. l \in 2..c + 2 /\ OK(l)
    <3> HIDE DEF OK
    <3> QED BY <2>6
  <2>8. Numbered(n, seen) = WithNumber(n, l)
    BY <1>2 DEF Numbered, c
  <2>9. l \in Nat
    BY <2>1, <2>7
  <2>10. WithNumber(n, l) \notin seen
    BY <2>7
  <2> HIDE DEF l
  <2> QED BY <1>2, <2>2, <2>8, <2>9, <2>10
<1> QED BY <1>1, <1>2

\* A cell is put behind cells that are told from each other ...
LEMMA BehindIs ==
  ASSUME NEW b \in Notebooks, Good(b), NEW c \in CellSet
  PROVE  /\ Behind(b, c) \in Notebooks /\ Good(Behind(b, c))
         /\ c.name # Unnamed /\ c.name \notin NamesOf(b) => Behind(b, c) = Append(b, c)
<1> DEFINE m == Numbered(Wanted(c), NamesOf(b))
           d == Cell(m, c.src)
<1>1. Wanted(c) \in AllNames
  BY NamesAssumption DEF Wanted, CellSet
<1>2. m \in AllNames /\ m \notin NamesOf(b) /\ (Wanted(c) \notin NamesOf(b) => m = Wanted(c))
  BY <1>1, NamesFinite, NumberedIs
<1>3. m # Unnamed
  BY <1>2, NamesAssumption DEF AllNames, Unnamed, Name
<1> HIDE DEF m
<1>4. d \in CellSet /\ d.name = m
  BY <1>2 DEF CellSet, Cell
<1>5. b \in Seq(CellSet) /\ Len(b) \in Nat /\ DOMAIN b = 1..Len(b)
  BY LenProperties DEF Notebooks, CellSet
<1>6. Behind(b, c) = Append(b, d)
  BY DEF Behind, m
<1> HIDE DEF d
<1>7. /\ Append(b, d) \in Seq(CellSet) /\ Len(Append(b, d)) = Len(b) + 1
      /\ \A i \in 1..Len(b) : Append(b, d)[i] = b[i]
      /\ Append(b, d)[Len(b) + 1] = d
  BY <1>4, <1>5, AppendProperties
<1> DEFINE s == Append(b, d)
<1> HIDE DEF s
<1>8. DOMAIN s = 1..Len(b) + 1 /\ \A i \in 1..Len(b) + 1 : i = Len(b) + 1 \/ i \in 1..Len(b)
  BY <1>5, <1>7, LenProperties DEF s
<1>9. \A i \in 1..Len(b) : s[i] = b[i] /\ b[i].name \in NamesOf(b)
  BY <1>5, <1>7 DEF NamesOf, s
<1>10. s[Len(b) + 1].name = m
  BY <1>4, <1>7 DEF s
<1>11. Good(s)
  <2>1. ASSUME NEW i \in DOMAIN s PROVE s[i].name # Unnamed
    BY <1>3, <1>8, <1>9, <1>10 DEF Good
  <2>2. ASSUME NEW i \in DOMAIN s, NEW j \in DOMAIN s, s[i].name = s[j].name PROVE i = j
    <3>1. i = Len(b) + 1 \/ i \in 1..Len(b)
      BY <1>8
    <3>2. j = Len(b) + 1 \/ j \in 1..Len(b)
      BY <1>8
    <3>3. CASE i \in 1..Len(b) /\ j \in 1..Len(b)
      BY <1>5, <1>9, <2>2, <3>3 DEF Good
    <3>4. CASE i = Len(b) + 1 /\ j \in 1..Len(b)
      BY <1>2, <1>9, <1>10, <2>2, <3>4
    <3>5. CASE j = Len(b) + 1 /\ i \in 1..Len(b)
      BY <1>2, <1>9, <1>10, <2>2, <3>5
    <3> QED BY <3>1, <3>2, <3>3, <3>4, <3>5
  <2> QED BY <2>1, <2>2 DEF Good, NamesOf
<1>12. ASSUME c.name # Unnamed, c.name \notin NamesOf(b) PROVE d = c
  <2>1. m = c.name
    BY <1>2, <1>12 DEF Wanted
  <2> QED BY <2>1 DEF d, Cell, CellSet
<1> QED BY <1>6, <1>7, <1>11, <1>12 DEF s, Notebooks, CellSet

\* ... so the names a notebook is read under tell its cells from each other, and
\* reading it again changes nothing.
LEMMA NamedIs ==
  ASSUME NEW b \in Notebooks
  PROVE  Named(b) \in Notebooks /\ Good(Named(b)) /\ (Good(b) => Named(b) = b)
<1> DEFINE D == {s \in Notebooks : Good(s)}
           next == [i \in 1..Len(b) |-> [s \in D |-> Behind(s, b[i])]]
           step(f) == [i \in 0..Len(b) |-> IF i = 0 THEN <<>> ELSE Behind(f[i - 1], b[i])]
           named == CHOOSE f : f = step(f)
<1>1. b \in Seq(CellSet) /\ Len(b) \in Nat /\ DOMAIN b = 1..Len(b) /\ \A i \in 1..Len(b) : b[i] \in CellSet
  BY LenProperties, ElementOfSeq DEF Notebooks, CellSet
<1>2. <<>> \in D
  BY DEF Notebooks, Good, NamesOf
<1>3. next \in [1..Len(b) -> [D -> D]]
  BY <1>1, BehindIs
<1>4. \A i \in 1..Len(b), s \in D : next[i][s] = Behind(s, b[i])
  OBVIOUS
<1> HIDE DEF next, D
<1>5. PICK f \in [0..Len(b) -> D] : f[0] = <<>> /\ \A i \in 1..Len(b) : f[i] = next[i][f[i - 1]]
  <2>1. Steps(D, <<>>, Len(b), next) # {}
    BY <1>1, <1>2, <1>3, StepByStep
  <2> QED BY <2>1 DEF Steps
<1>6. f = step(f)
  <2>1. ASSUME NEW i \in 0..Len(b) PROVE f[i] = IF i = 0 THEN <<>> ELSE Behind(f[i - 1], b[i])
    <3>1. CASE i = 0
      BY <1>5, <3>1
    <3>2. CASE i # 0
      <4>1. i \in 1..Len(b) /\ i - 1 \in 0..Len(b)
        BY <1>1, <3>2
      <4>2. f[i - 1] \in D
        BY <1>5, <4>1
      <4> QED BY <1>4, <1>5, <3>2, <4>1, <4>2
    <3> QED BY <3>1, <3>2
  <2> QED BY <1>5, <2>1
<1>7. named = step(named)
  <2> HIDE DEF step
  <2> QED BY <1>6
<1>8. Named(b) = named[Len(b)]
  BY DEF Named
<1> HIDE DEF named
<1>9. named[0] = <<>> /\ \A i \in 1..Len(b) : named[i] = Behind(named[i - 1], b[i])
  BY <1>1, <1>7
<1> HIDE DEF step
<1> DEFINE Wrong == {i \in 0..Len(b) : ~(named[i] \in D /\ (Good(b) => named[i] = SubSeq(b, 1, i)))}
<1>10. Wrong = {}
  <2> SUFFICES ASSUME Wrong # {} PROVE FALSE
    OBVIOUS
  <2>1. PICK i \in Wrong : \A j \in Wrong : i <= j
    <3>1. Wrong \subseteq Nat
      OBVIOUS
    <3> HIDE DEF Wrong
    <3> QED BY <3>1, LeastNumber
  <2>2. i \in 0..Len(b)
    OBVIOUS
  <2>3. CASE i = 0
    <3>1. SubSeq(b, 1, 0) = <<>>
      BY SubSeqEmpty
    <3> QED BY <1>2, <1>9, <2>3, <3>1
  <2>4. CASE i # 0
    <3>1. i \in 1..Len(b) /\ i - 1 \in 0..Len(b) /\ ~(i <= i - 1)
      BY <1>1, <2>2, <2>4
    <3>2. i - 1 \notin Wrong
      <4> HIDE DEF Wrong
      <4> QED BY <2>1, <3>1
    <3>3. named[i - 1] \in D /\ (Good(b) => named[i - 1] = SubSeq(b, 1, i - 1))
      BY <3>1, <3>2
    <3>4. named[i] = Behind(named[i - 1], b[i]) /\ b[i] \in CellSet
      BY <1>1, <1>9, <3>1
    <3>5. named[i] \in D
      BY <3>3, <3>4, BehindIs DEF D
    <3>6. ASSUME Good(b) PROVE named[i] = SubSeq(b, 1, i)
      <4> DEFINE s == SubSeq(b, 1, i - 1)
      <4>1. \A j \in 1..i - 1 : b[j] \in CellSet
        BY <1>1, <3>1
      <4>2. /\ s \in Seq(CellSet) /\ Len(s) = i - 1
            /\ \A j \in 1..i - 1 : s[j] = b[j]
        BY <1>1, <3>1, <4>1, SubSeqProperties
      <4> HIDE DEF s
      <4>3. named[i - 1] = s /\ s \in D
        BY <3>3, <3>6 DEF s
      <4>4. b[i].name # Unnamed
        BY <1>1, <3>1, <3>6 DEF Good, NamesOf
      <4>5. b[i].name \notin NamesOf(s)
        <5> SUFFICES ASSUME NEW j \in DOMAIN s, s[j].name = b[i].name PROVE FALSE
          BY DEF NamesOf
        <5>1. j \in 1..i - 1
          BY <3>1, <4>2, LenProperties
        <5>2. b[j].name = b[i].name /\ j \in 1..Len(b) /\ j # i
          BY <1>1, <3>1, <4>2, <5>1
        <5> QED BY <1>1, <3>1, <3>6, <5>2 DEF Good
      <4>6. named[i] = Append(s, b[i])
        BY <3>4, <4>3, <4>4, <4>5, BehindIs DEF D
      <4>7. SubSeq(b, 1, i) = Append(s, b[i])
        <5> DEFINE t == SubSeq(b, 1, i)
                   u == Append(s, b[i])
        <5>1. \A j \in 1..i : b[j] \in CellSet
          BY <1>1, <3>1
        <5>2. /\ t \in Seq(CellSet) /\ Len(t) = i
              /\ \A j \in 1..i : t[j] = b[j]
          BY <1>1, <3>1, <5>1, SubSeqProperties
        <5>3. /\ u \in Seq(CellSet) /\ Len(u) = i /\ u[i] = b[i]
              /\ \A j \in 1..i - 1 : u[j] = s[j]
          <6>1. /\ u \in Seq(CellSet) /\ Len(u) = Len(s) + 1 /\ u[Len(s) + 1] = b[i]
                /\ \A j \in 1..Len(s) : u[j] = s[j]
            BY <3>4, <4>2, AppendProperties
          <6>2. Len(s) + 1 = i
            BY <3>1, <4>2
          <6> QED BY <4>2, <6>1, <6>2
        <5> HIDE DEF t, u
        <5>4. ASSUME NEW j \in 1..Len(t) PROVE t[j] = u[j]
          <6>1. j = i \/ j \in 1..i - 1
            BY <3>1, <5>2
          <6> QED BY <4>2, <5>2, <5>3, <6>1
        <5>5. t = u
          BY <5>2, <5>3, <5>4, SeqEqual
        <5> QED BY <5>5 DEF t, u
      <4> QED BY <4>6, <4>7
    <3> QED BY <3>5, <3>6
  <2> QED BY <2>3, <2>4
<1>11. Len(b) \in 0..Len(b) /\ SubSeq(b, 1, Len(b)) = b
  BY <1>1, SubSeqFull
<1>12. named[Len(b)] \in D /\ (Good(b) => named[Len(b)] = b)
  BY <1>10, <1>11
<1> QED BY <1>8, <1>12 DEF D

----------------------------------------------------------------------------
(* One cell more, one less, one other.                                     *)

LEMMA BookIs ==
  ASSUME NEW b \in Notebooks
  PROVE  /\ b \in Seq(CellSet) /\ Len(b) \in Nat /\ DOMAIN b = 1..Len(b)
         /\ \A i \in 1..Len(b) : b[i] \in CellSet /\ b[i].name \in NamesOf(b)
BY LenProperties, ElementOfSeq DEF Notebooks, CellSet, NamesOf

LEMMA AtIs ==
  ASSUME NEW b \in Notebooks, NEW n \in NamesOf(b)
  PROVE  At(b, n) \in 1..Len(b) /\ b[At(b, n)].name = n
<1> DEFINE S == {i \in 1..Len(b) : b[i].name = n}
           First(i) == b[i].name = n /\ \A j \in 1..(i - 1) : b[j].name # n
<1>1. Len(b) \in Nat /\ DOMAIN b = 1..Len(b)
  BY BookIs
<1>2. PICK i \in S : \A j \in S : i <= j
  <2>1. S \subseteq Nat /\ S # {}
    BY <1>1 DEF NamesOf
  <2> HIDE DEF S
  <2> QED BY <2>1, LeastNumber
<1>3. i \in DOMAIN b /\ First(i)
  BY <1>1, <1>2
<1>4. At(b, n) = CHOOSE j \in DOMAIN b : First(j)
  BY DEF At
<1>5. At(b, n) \in DOMAIN b /\ First(At(b, n))
  <2> HIDE DEF First
  <2> QED BY <1>3, <1>4
<1> QED BY <1>1, <1>5

LEMMA Inserted ==
  ASSUME NEW b \in Notebooks, NEW e \in CellSet, NEW p \in 1..Len(b) + 1
  PROVE  /\ InsertAt(b, p, e) \in Notebooks /\ Len(InsertAt(b, p, e)) = Len(b) + 1
         /\ DOMAIN InsertAt(b, p, e) = 1..Len(b) + 1
         /\ \A j \in 1..Len(b) + 1 :
              InsertAt(b, p, e)[j] = IF j < p THEN b[j] ELSE IF j = p THEN e ELSE b[j - 1]
<1> DEFINE u == SubSeq(b, 1, p - 1)
           v == <<e>>
           w == SubSeq(b, p, Len(b))
           d == u \o v
           r == d \o w
<1>1. Len(b) \in Nat /\ p \in Nat \ {0} /\ p - 1 \in Int /\ Len(b) \in Int
      /\ \A j \in 1..Len(b) : b[j] \in CellSet
  BY BookIs
<1>2. u \in Seq(CellSet) /\ Len(u) = p - 1 /\ \A j \in 1..p - 1 : u[j] = b[j]
  <2>1. \A j \in 1..p - 1 : b[j] \in CellSet
    BY <1>1
  <2> QED BY <1>1, <2>1, SubSeqProperties
<1>3. w \in Seq(CellSet) /\ Len(w) = Len(b) - p + 1 /\ \A j \in 1..Len(b) - p + 1 : w[j] = b[p + j - 1]
  <2>1. \A j \in p..Len(b) : b[j] \in CellSet
    BY <1>1
  <2>2. w \in Seq(CellSet) /\ Len(w) = IF p <= Len(b) THEN Len(b) - p + 1 ELSE 0
    BY <1>1, <2>1, SubSeqProperties
  <2>3. \A j \in 1..Len(b) - p + 1 : w[j] = b[p + j - 1]
    BY <1>1, <2>1, SubSeqProperties
  <2> QED BY <1>1, <2>2, <2>3
<1>4. v \in Seq(CellSet) /\ Len(v) = 1 /\ v[1] = e
  OBVIOUS
<1> HIDE DEF u, v, w
<1>5. d \in Seq(CellSet) /\ Len(d) = p
      /\ \A j \in 1..p : d[j] = IF j < p THEN b[j] ELSE e
  <2>1. /\ d \in Seq(CellSet) /\ Len(d) = Len(u) + Len(v)
        /\ \A j \in 1..Len(u) + Len(v) : d[j] = IF j <= Len(u) THEN u[j] ELSE v[j - Len(u)]
    BY <1>2, <1>4, ConcatProperties
  <2>2. Len(u) + Len(v) = p
    BY <1>1, <1>2, <1>4
  <2>3. ASSUME NEW j \in 1..p PROVE d[j] = IF j < p THEN b[j] ELSE e
    <3>1. CASE j < p
      <4>1. j \in 1..p - 1 /\ j <= Len(u)
        BY <1>1, <1>2, <3>1
      <4> QED BY <1>2, <2>1, <2>2, <3>1, <4>1
    <3>2. CASE ~(j < p)
      <4>1. ~(j <= Len(u)) /\ j - Len(u) = 1
        BY <1>1, <1>2, <3>2
      <4> QED BY <1>4, <2>1, <2>2, <3>2, <4>1
    <3> QED BY <3>1, <3>2
  <2> QED BY <2>1, <2>2, <2>3
<1> HIDE DEF d
<1>6. /\ r \in Seq(CellSet) /\ Len(r) = Len(b) + 1
      /\ \A j \in 1..Len(b) + 1 : r[j] = IF j <= p THEN d[j] ELSE w[j - p]
  <2>1. /\ r \in Seq(CellSet) /\ Len(r) = Len(d) + Len(w)
        /\ \A j \in 1..Len(d) + Len(w) : r[j] = IF j <= Len(d) THEN d[j] ELSE w[j - Len(d)]
    BY <1>3, <1>5, ConcatProperties
  <2>2. Len(d) + Len(w) = Len(b) + 1 /\ Len(d) = p
    BY <1>1, <1>3, <1>5
  <2> QED BY <2>1, <2>2
<1> HIDE DEF r
<1>7. ASSUME NEW j \in 1..Len(b) + 1
      PROVE  r[j] = IF j < p THEN b[j] ELSE IF j = p THEN e ELSE b[j - 1]
  <2>1. CASE j <= p
    <3>1. j \in 1..p
      BY <1>1, <2>1
    <3>2. d[j] = IF j < p THEN b[j] ELSE e
      BY <1>5, <3>1
    <3>3. j < p \/ (~(j < p) /\ j = p)
      BY <1>1, <2>1
    <3> QED BY <1>6, <2>1, <3>2, <3>3
  <2>2. CASE ~(j <= p)
    <3>1. j - p \in 1..Len(b) - p + 1 /\ p + (j - p) - 1 = j - 1 /\ ~(j < p) /\ j # p
      BY <1>1, <2>2
    <3> QED BY <1>3, <1>6, <2>2, <3>1
  <2> QED BY <2>1, <2>2
<1>8. r = InsertAt(b, p, e)
  BY DEF r, d, u, v, w, InsertAt
<1>9. DOMAIN r = 1..Len(b) + 1
  BY <1>6, LenProperties
<1> QED BY <1>6, <1>7, <1>8, <1>9 DEF Notebooks, CellSet

LEMMA Removed ==
  ASSUME NEW b \in Notebooks, NEW p \in 1..Len(b)
  PROVE  /\ RemoveAt(b, p) \in Notebooks /\ Len(RemoveAt(b, p)) = Len(b) - 1
         /\ DOMAIN RemoveAt(b, p) = 1..Len(b) - 1
         /\ \A j \in 1..Len(b) - 1 : RemoveAt(b, p)[j] = IF j < p THEN b[j] ELSE b[j + 1]
<1> DEFINE u == SubSeq(b, 1, p - 1)
           w == SubSeq(b, p + 1, Len(b))
           r == u \o w
<1>1. Len(b) \in Nat /\ p \in Nat \ {0} /\ p - 1 \in Int /\ p + 1 \in Int /\ Len(b) \in Int
      /\ \A j \in 1..Len(b) : b[j] \in CellSet
  BY BookIs
<1>2. u \in Seq(CellSet) /\ Len(u) = p - 1 /\ \A j \in 1..p - 1 : u[j] = b[j]
  <2>1. \A j \in 1..p - 1 : b[j] \in CellSet
    BY <1>1
  <2> QED BY <1>1, <2>1, SubSeqProperties
<1>3. w \in Seq(CellSet) /\ Len(w) = Len(b) - p /\ \A j \in 1..Len(b) - p : w[j] = b[p + j]
  <2>1. \A j \in p + 1..Len(b) : b[j] \in CellSet
    BY <1>1
  <2>2. /\ w \in Seq(CellSet) /\ Len(w) = IF p + 1 <= Len(b) THEN Len(b) - (p + 1) + 1 ELSE 0
        /\ \A j \in 1..Len(b) - (p + 1) + 1 : w[j] = b[(p + 1) + j - 1]
    BY <1>1, <2>1, SubSeqProperties
  <2>3. Len(b) - (p + 1) + 1 = Len(b) - p /\ (~(p + 1 <= Len(b)) => Len(b) - p = 0)
    BY <1>1
  <2>4. \A j \in 1..Len(b) - p : (p + 1) + j - 1 = p + j
    BY <1>1
  <2> QED BY <2>2, <2>3, <2>4
<1> HIDE DEF u, w
<1>4. /\ r \in Seq(CellSet) /\ Len(r) = Len(b) - 1
      /\ \A j \in 1..Len(b) - 1 : r[j] = IF j <= p - 1 THEN u[j] ELSE w[j - (p - 1)]
  <2>1. /\ r \in Seq(CellSet) /\ Len(r) = Len(u) + Len(w)
        /\ \A j \in 1..Len(u) + Len(w) : r[j] = IF j <= Len(u) THEN u[j] ELSE w[j - Len(u)]
    BY <1>2, <1>3, ConcatProperties
  <2>2. Len(u) + Len(w) = Len(b) - 1 /\ Len(u) = p - 1
    BY <1>1, <1>2, <1>3
  <2> QED BY <2>1, <2>2
<1> HIDE DEF r
<1>5. ASSUME NEW j \in 1..Len(b) - 1 PROVE r[j] = IF j < p THEN b[j] ELSE b[j + 1]
  <2>1. CASE j < p
    <3>1. j \in 1..p - 1 /\ j <= p - 1
      BY <1>1, <2>1
    <3> QED BY <1>2, <1>4, <2>1, <3>1
  <2>2. CASE ~(j < p)
    <3>1. ~(j <= p - 1) /\ j - (p - 1) \in 1..Len(b) - p /\ p + (j - (p - 1)) = j + 1
      BY <1>1, <2>2
    <3> QED BY <1>3, <1>4, <2>2, <3>1
  <2> QED BY <2>1, <2>2
<1>6. r = RemoveAt(b, p)
  BY DEF r, u, w, RemoveAt
<1>7. DOMAIN r = 1..Len(b) - 1
  BY <1>4, LenProperties
<1> QED BY <1>4, <1>5, <1>6, <1>7 DEF Notebooks, CellSet

\* Cells that are found again, in the same order, are still there.
LEMMA OthersWithin ==
  ASSUME NEW b, NEW c, NEW n, NEW k, NEW m,
         \A i \in DOMAIN b : b[i].name # n =>
           m[i] \in DOMAIN c /\ c[m[i]] = b[i] /\ b[i].name # k,
         \A i, j \in DOMAIN b : i <= j => m[i] <= m[j]
  PROVE  Others(b, n) \subseteq Others(c, k)
<1> SUFFICES ASSUME NEW i \in DOMAIN b, NEW j \in DOMAIN b, i <= j, b[i].name # n, b[j].name # n
             PROVE  <<b[i], b[j]>> \in Others(c, k)
  BY DEF Others
<1>1. m[i] \in DOMAIN c /\ m[j] \in DOMAIN c /\ m[i] <= m[j] /\ c[m[i]] = b[i] /\ c[m[j]] = b[j]
      /\ c[m[i]].name # k /\ c[m[j]].name # k
  OBVIOUS
<1> DEFINE q == <<m[i], m[j]>>
<1>2. q \in (DOMAIN c) \X (DOMAIN c) /\ q[1] <= q[2] /\ c[q[1]].name # k /\ c[q[2]].name # k
      /\ <<c[q[1]], c[q[2]]>> = <<b[i], b[j]>>
  BY <1>1
<1> HIDE DEF q
<1> QED BY <1>2 DEF Others

\* Putting in a cell with a name of its own ...
LEMMA InsertOne ==
  ASSUME NEW b \in Notebooks, Good(b), NEW e \in CellSet, NEW p \in 1..Len(b) + 1,
         e.name # Unnamed, e.name \notin NamesOf(b)
  PROVE  /\ InsertAt(b, p, e) \in Notebooks /\ Good(InsertAt(b, p, e))
         /\ At(InsertAt(b, p, e), e.name) = p
         /\ Others(InsertAt(b, p, e), e.name) = Others(b, e.name)
<1> DEFINE r == InsertAt(b, p, e)
           n == e.name
<1>1. Len(b) \in Nat /\ DOMAIN b = 1..Len(b) /\ p \in Nat
      /\ \A i \in 1..Len(b) : b[i].name \in NamesOf(b)
  BY BookIs
<1>2. /\ r \in Notebooks /\ Len(r) = Len(b) + 1 /\ DOMAIN r = 1..Len(b) + 1
      /\ \A j \in 1..Len(b) + 1 : r[j] = IF j < p THEN b[j] ELSE IF j = p THEN e ELSE b[j - 1]
  BY Inserted
<1> HIDE DEF r
\* where each cell of r comes from
<1>3. ASSUME NEW j \in 1..Len(b) + 1
      PROVE  \/ j < p /\ j \in 1..Len(b) /\ r[j] = b[j]
             \/ j = p /\ r[j] = e
             \/ j > p /\ j - 1 \in 1..Len(b) /\ r[j] = b[j - 1]
  <2>1. CASE j < p
    BY <1>1, <1>2, <2>1
  <2>2. CASE j = p
    BY <1>1, <1>2, <2>2
  <2>3. CASE j > p
    <3>1. j - 1 \in 1..Len(b) /\ ~(j < p) /\ j # p
      BY <1>1, <2>3
    <3> QED BY <1>2, <2>3, <3>1
  <2> QED BY <1>1, <2>1, <2>2, <2>3
<1>4. Good(r)
  <2>1. ASSUME NEW j \in DOMAIN r PROVE r[j].name # Unnamed
    BY <1>1, <1>2, <1>3 DEF Good
  <2>2. ASSUME NEW j \in DOMAIN r, NEW k \in DOMAIN r, r[j].name = r[k].name PROVE j = k
    <3> DEFINE from(i) == IF i < p THEN i ELSE i - 1
    <3>1. ASSUME NEW i \in DOMAIN r, i # p PROVE from(i) \in 1..Len(b) /\ r[i] = b[from(i)]
      <4>1. CASE i < p
        <5>1. from(i) = i
          BY <4>1
        <5> QED BY <1>1, <1>2, <1>3, <4>1, <5>1
      <4>2. CASE ~(i < p)
        <5>1. from(i) = i - 1 /\ i > p
          BY <1>1, <1>2, <3>1, <4>2
        <5> QED BY <1>1, <1>2, <1>3, <5>1
      <4> QED BY <4>1, <4>2
    <3>2. CASE j = p /\ k = p
      BY <3>2
    <3>3. CASE j = p /\ k # p
      BY <1>1, <1>2, <2>2, <3>1, <3>3
    <3>4. CASE j # p /\ k = p
      BY <1>1, <1>2, <2>2, <3>1, <3>4
    <3>5. CASE j # p /\ k # p
      <4>1. from(j) = from(k)
        <5> HIDE DEF from
        <5> QED BY <1>1, <2>2, <3>1, <3>5 DEF Good
      <4> QED BY <1>1, <1>2, <3>5, <4>1
    <3> QED BY <3>2, <3>3, <3>4, <3>5
  <2> QED BY <2>1, <2>2 DEF Good, NamesOf
<1>5. p \in DOMAIN r /\ r[p].name = n /\ n \in NamesOf(r)
  <2>1. p \in 1..Len(b) + 1 /\ ~(p < p)
    BY <1>1
  <2>2. p \in DOMAIN r /\ r[p] = e
    BY <1>2, <2>1
  <2> QED BY <2>2 DEF NamesOf
<1>6. At(r, n) = p
  <2>1. At(r, n) \in DOMAIN r /\ r[At(r, n)].name = n
    BY <1>2, <1>5, AtIs, BookIs
  <2> QED BY <1>4, <1>5, <2>1 DEF Good
<1>7. Others(b, n) \subseteq Others(r, n)
  <2> DEFINE m == [i \in 1..Len(b) |-> IF i < p THEN i ELSE i + 1]
  <2>1. ASSUME NEW i \in DOMAIN b, b[i].name # n
        PROVE  m[i] \in DOMAIN r /\ r[m[i]] = b[i] /\ b[i].name # n
    <3>1. m[i] \in DOMAIN r /\ m[i] # p
      BY <1>1, <1>2
    <3>2. i = IF m[i] < p THEN m[i] ELSE m[i] - 1
      BY <1>1
    <3> HIDE DEF m
    <3> QED BY <1>1, <1>2, <2>1, <3>1, <3>2
  <2>2. \A i, j \in DOMAIN b : i <= j => m[i] <= m[j]
    BY <1>1
  <2> HIDE DEF m
  <2> QED BY <2>1, <2>2, OthersWithin
<1>8. Others(r, n) \subseteq Others(b, n)
  <2> DEFINE m == [i \in 1..Len(b) + 1 |-> IF i < p THEN i ELSE i - 1]
  <2>1. ASSUME NEW i \in DOMAIN r, r[i].name # n
        PROVE  m[i] \in DOMAIN b /\ b[m[i]] = r[i] /\ r[i].name # n
    <3>1. i # p
      BY <1>5, <2>1
    <3>2. m[i] = IF i < p THEN i ELSE i - 1
      BY <1>2
    <3> HIDE DEF m
    <3> QED BY <1>1, <1>2, <1>3, <2>1, <3>1, <3>2
  <2>2. \A i, j \in DOMAIN r : i <= j => m[i] <= m[j]
    BY <1>1, <1>2
  <2> HIDE DEF m
  <2> QED BY <2>1, <2>2, OthersWithin
<1> QED BY <1>2, <1>4, <1>6, <1>7, <1>8 DEF r

\* ... and taking one out leaves all others as they are.
LEMMA RemoveOne ==
  ASSUME NEW b \in Notebooks, Good(b), NEW n \in NamesOf(b)
  PROVE  /\ Without(b, n) \in Notebooks /\ Good(Without(b, n)) /\ Len(Without(b, n)) = Len(b) - 1
         /\ NamesOf(Without(b, n)) = NamesOf(b) \ {n}
         /\ Others(Without(b, n), n) = Others(b, n)
<1> DEFINE p == At(b, n)
           r == RemoveAt(b, p)
<1>1. Len(b) \in Nat /\ DOMAIN b = 1..Len(b) /\ p \in 1..Len(b) /\ b[p].name = n
  BY BookIs, AtIs
<1> HIDE DEF p
<1>2. /\ r \in Notebooks /\ Len(r) = Len(b) - 1 /\ DOMAIN r = 1..Len(b) - 1
      /\ \A j \in 1..Len(b) - 1 : r[j] = IF j < p THEN b[j] ELSE b[j + 1]
  BY <1>1, Removed
<1> HIDE DEF r
<1> DEFINE m == [i \in 1..Len(b) |-> IF i < p THEN i ELSE i - 1]
           g == [i \in 1..Len(b) - 1 |-> IF i < p THEN i ELSE i + 1]
\* what is at j in r was at g[j] in b
<1>3. \A j \in DOMAIN r : g[j] \in 1..Len(b) /\ g[j] # p /\ m[g[j]] = j /\ r[j] = b[g[j]]
  <2> TAKE j \in DOMAIN r
  <2>1. g[j] \in 1..Len(b) /\ g[j] # p /\ m[g[j]] = j
    BY <1>1, <1>2
  <2>2. g[j] = IF j < p THEN j ELSE j + 1
    BY <1>2
  <2> QED BY <1>2, <2>1, <2>2
<1>4. \A i \in DOMAIN b : i # p => m[i] \in DOMAIN r /\ g[m[i]] = i
  BY <1>1, <1>2
<1>5. \A i, j \in DOMAIN b : i <= j => m[i] <= m[j]
  BY <1>1
<1>6. \A i, j \in DOMAIN r : i <= j => g[i] <= g[j]
  BY <1>1, <1>2
<1>7. \A i \in DOMAIN b : b[i].name # n => i # p
  BY <1>1
<1> HIDE DEF m, g
<1>8. \A j \in DOMAIN r : r[j].name # n
  <2> TAKE j \in DOMAIN r
  <2>1. g[j] \in DOMAIN b /\ p \in DOMAIN b /\ g[j] # p
    BY <1>1, <1>3
  <2>2. b[g[j]].name # b[p].name
    BY <2>1 DEF Good
  <2> QED BY <1>1, <1>3, <2>2
<1>9. Good(r)
  <2>1. \A j \in DOMAIN r : r[j].name # Unnamed
    BY <1>1, <1>3 DEF Good, NamesOf
  <2>2. ASSUME NEW i \in DOMAIN r, NEW j \in DOMAIN r, r[i].name = r[j].name PROVE i = j
    <3>1. g[i] = g[j]
      BY <1>1, <1>3, <2>2 DEF Good
    <3> QED BY <1>3, <3>1
  <2> QED BY <2>1, <2>2 DEF Good, NamesOf
<1>10. NamesOf(r) = NamesOf(b) \ {n}
  <2>1. ASSUME NEW j \in DOMAIN r PROVE r[j].name \in NamesOf(b) \ {n}
    BY <1>1, <1>3, <1>8 DEF NamesOf
  <2>2. ASSUME NEW i \in DOMAIN b, b[i].name # n PROVE b[i].name \in NamesOf(r)
    <3>1. m[i] \in DOMAIN r /\ r[m[i]] = b[i]
      BY <1>3, <1>4, <1>7, <2>2
    <3> QED BY <3>1 DEF NamesOf
  <2> QED BY <2>1, <2>2 DEF NamesOf
<1>11. Others(b, n) \subseteq Others(r, n)
  <2>1. \A i \in DOMAIN b : b[i].name # n => m[i] \in DOMAIN r /\ r[m[i]] = b[i] /\ b[i].name # n
    BY <1>3, <1>4, <1>7
  <2> QED BY <1>5, <2>1, OthersWithin
<1>12. Others(r, n) \subseteq Others(b, n)
  <2>1. \A i \in DOMAIN r : r[i].name # n => g[i] \in DOMAIN b /\ b[g[i]] = r[i] /\ r[i].name # n
    BY <1>1, <1>3
  <2> QED BY <1>6, <2>1, OthersWithin
<1> QED BY <1>2, <1>9, <1>10, <1>11, <1>12 DEF r, p, Without

\* A cell may change its source, and its name to a free one.
LEMMA ReplaceOne ==
  ASSUME NEW b \in Notebooks, Good(b), NEW n \in NamesOf(b), NEW e \in CellSet,
         e.name # Unnamed, e.name = n \/ e.name \notin NamesOf(b)
  PROVE  LET r == [b EXCEPT ![At(b, n)] = e]
         IN  r \in Notebooks /\ Good(r) /\ Others(r, e.name) = Others(b, n)
<1> DEFINE p == At(b, n)
           r == [b EXCEPT ![p] = e]
           m == [i \in 1..Len(b) |-> i]
<1>1. b \in Seq(CellSet) /\ Len(b) \in Nat /\ DOMAIN b = 1..Len(b) /\ p \in 1..Len(b) /\ b[p].name = n
  BY BookIs, AtIs
<1> HIDE DEF p
<1>2. r \in Notebooks /\ DOMAIN r = 1..Len(b) /\ \A j \in 1..Len(b) : r[j] = IF j = p THEN e ELSE b[j]
  <2>1. r \in Seq(CellSet)
    BY <1>1, ExceptSeq
  <2> QED BY <1>1, <2>1 DEF Notebooks, CellSet
<1> HIDE DEF r
<1>3. \A i \in 1..Len(b) : b[i].name \in NamesOf(b) /\ b[i].name # Unnamed /\ (i # p => b[i].name # n)
  BY <1>1 DEF NamesOf, Good
<1>4. \A i \in 1..Len(b) : i # p => r[i].name # e.name
  BY <1>2, <1>3
<1>5. Good(r)
  <2>1. \A j \in DOMAIN r : r[j].name # Unnamed
    BY <1>2, <1>3
  <2>2. ASSUME NEW i \in DOMAIN r, NEW j \in DOMAIN r, r[i].name = r[j].name PROVE i = j
    <3>1. CASE i = p \/ j = p
      BY <1>1, <1>2, <1>4, <2>2, <3>1
    <3>2. CASE i # p /\ j # p
      BY <1>1, <1>2, <2>2, <3>2 DEF Good
    <3> QED BY <3>1, <3>2
  <2> QED BY <2>1, <2>2 DEF Good, NamesOf
<1>6. Others(b, n) \subseteq Others(r, e.name)
  <2>1. \A i \in DOMAIN b : b[i].name # n => m[i] \in DOMAIN r /\ r[m[i]] = b[i] /\ b[i].name # e.name
    BY <1>1, <1>2, <1>3, <1>4
  <2>2. \A i, j \in DOMAIN b : i <= j => m[i] <= m[j]
    BY <1>1
  <2> HIDE DEF m
  <2> QED BY <2>1, <2>2, OthersWithin
<1>7. Others(r, e.name) \subseteq Others(b, n)
  <2>1. \A i \in DOMAIN r : r[i].name # e.name => m[i] \in DOMAIN b /\ b[m[i]] = r[i] /\ r[i].name # n
    BY <1>1, <1>2, <1>3
  <2>2. \A i, j \in DOMAIN r : i <= j => m[i] <= m[j]
    BY <1>1, <1>2
  <2> HIDE DEF m
  <2> QED BY <2>1, <2>2, OthersWithin
<1> QED BY <1>2, <1>5, <1>6, <1>7 DEF r, p

----------------------------------------------------------------------------
(* The names of snapshots, in order.                                       *)

\* Those before a name are fewer the smaller it is.
LEMMA RankIs ==
  ASSUME NEW S, S \subseteq Nat, IsFiniteSet(S)
  PROVE  /\ \A k \in S : Rank(S, k) \in 0..Cardinality(S) - 1
         /\ \A j, k \in S : j < k => Rank(S, j) < Rank(S, k)
<1> DEFINE Under(k) == {j \in S : j < k}
<1>1. \A k \in S : IsFiniteSet(Under(k)) /\ Cardinality(Under(k)) \in Nat
  <2> TAKE k \in S
  <2>1. Under(k) \in SUBSET S
    OBVIOUS
  <2> HIDE DEF Under
  <2> QED BY <2>1, FS_Subset, FS_CardinalityType
<1>2. Cardinality(S) \in Nat
  BY FS_CardinalityType
<1>3. ASSUME NEW k \in S PROVE Cardinality(Under(k)) <= Cardinality(S) - 1
  <2> DEFINE R == S \ {k}
  <2>1. IsFiniteSet(R) /\ Cardinality(R) = Cardinality(S) - 1
    BY FS_RemoveElement
  <2>2. Under(k) \in SUBSET R
    OBVIOUS
  <2> HIDE DEF Under, R
  <2> QED BY <2>1, <2>2, FS_Subset
<1>4. ASSUME NEW j \in S, NEW k \in S, j < k
      PROVE  Cardinality(Under(j)) < Cardinality(Under(k))
  <2> DEFINE R == Under(j) \cup {j}
  <2>1. j \notin Under(j) /\ R \in SUBSET Under(k)
    <3>1. ASSUME NEW i \in S, i < j PROVE i < k
      <4>1. i \in Nat /\ j \in Nat /\ k \in Nat
        OBVIOUS
      <4> QED BY <1>4, <3>1, <4>1
    <3>2. ~(j < j)
      <4>1. j \in Nat
        OBVIOUS
      <4> QED BY <4>1
    <3> QED BY <1>4, <3>1, <3>2
  <2>2. IsFiniteSet(R) /\ Cardinality(R) = Cardinality(Under(j)) + 1
    BY <1>1, <2>1, FS_AddElement
  <2> HIDE DEF Under, R
  <2>3. Cardinality(R) <= Cardinality(Under(k))
    BY <1>1, <2>1, FS_Subset
  <2> QED BY <1>1, <2>2, <2>3
<1>5. \A k : Rank(S, k) = Cardinality(Under(k))
  BY DEF Rank
<1> HIDE DEF Under
<1> QED BY <1>1, <1>2, <1>3, <1>4, <1>5

\* Sorted(S) lists S, each once, the smaller first.
LEMMA SortedIs ==
  ASSUME NEW S, S \subseteq Nat, IsFiniteSet(S)
  PROVE  /\ Cardinality(S) \in Nat /\ DOMAIN Sorted(S) = 1..Cardinality(S)
         /\ \A i \in 1..Cardinality(S) : Sorted(S)[i] \in S /\ Rank(S, Sorted(S)[i]) = i - 1
         /\ \A k \in S : Rank(S, k) + 1 \in 1..Cardinality(S) /\ Sorted(S)[Rank(S, k) + 1] = k
<1> DEFINE c == Cardinality(S)
           T == 1..c
           f == [k \in S |-> Rank(S, k) + 1]
<1>1. c \in Nat
  BY FS_CardinalityType
<1>2. \A k \in S : Rank(S, k) \in 0..c - 1
  BY RankIs
<1>3. \A j, k \in S : Rank(S, j) = Rank(S, k) => j = k
  <2> SUFFICES ASSUME NEW j \in S, NEW k \in S, j # k PROVE Rank(S, j) # Rank(S, k)
    OBVIOUS
  <2>1. j < k \/ k < j
    OBVIOUS
  <2>2. Rank(S, j) < Rank(S, k) \/ Rank(S, k) < Rank(S, j)
    BY <2>1, RankIs
  <2>3. Rank(S, j) \in Int /\ Rank(S, k) \in Int
    BY <1>2
  <2> QED BY <2>2, <2>3
<1>4. f \in Injection(S, T)
  <2>1. f \in [S -> T]
    BY <1>1, <1>2
  <2>2. \A j, k \in S : f[j] = f[k] => j = k
    <3> SUFFICES ASSUME NEW j \in S, NEW k \in S, f[j] = f[k] PROVE j = k
      OBVIOUS
    <3>1. Rank(S, j) + 1 = Rank(S, k) + 1
      OBVIOUS
    <3>2. Rank(S, j) = Rank(S, k)
      BY <1>2, <3>1
    <3> QED BY <1>3, <3>2
  <2> HIDE DEF f, T
  <2> QED BY <2>1, <2>2 DEF Injection, IsInjective
<1>5. IsFiniteSet(T) /\ Cardinality(T) = c
  BY <1>1, FS_Interval
<1>6. f \in Surjection(S, T)
  <2> HIDE DEF f, T
  <2> QED BY <1>4, <1>5, FS_Injection DEF c
<1>7. \A i \in 1..c : \E k \in S : Rank(S, k) = i - 1
  <2> TAKE i \in 1..c
  <2>1. PICK k \in S : f[k] = i
    <3> HIDE DEF f
    <3> QED BY <1>6 DEF Surjection
  <2>2. Rank(S, k) + 1 = i /\ Rank(S, k) \in Int
    BY <1>2, <2>1
  <2>3. Rank(S, k) = i - 1
    BY <2>2
  <2> QED BY <2>3
<1>8. \A i \in 1..c : Sorted(S)[i] \in S /\ Rank(S, Sorted(S)[i]) = i - 1
  BY <1>7 DEF Sorted
<1>9. ASSUME NEW k \in S PROVE Rank(S, k) + 1 \in 1..c /\ Sorted(S)[Rank(S, k) + 1] = k
  <2> DEFINE i == Rank(S, k) + 1
  <2>1. i \in 1..c /\ i - 1 = Rank(S, k)
    BY <1>1, <1>2
  <2> HIDE DEF i
  <2>2. Sorted(S)[i] = k
    BY <1>3, <1>8, <2>1
  <2> QED BY <2>1, <2>2 DEF i
<1>10. DOMAIN Sorted(S) = 1..c
  BY DEF Sorted
<1> QED BY <1>1, <1>8, <1>9, <1>10

\* A list of S with the smaller first is that one.
LEMMA SortedOnly ==
  ASSUME NEW n \in Nat, NEW t, DOMAIN t = 1..n, t = [i \in 1..n |-> t[i]],
         \A i \in 1..n : t[i] \in Nat, \A i, j \in 1..n : i < j => t[i] < t[j]
  PROVE  LET S == {t[i] : i \in 1..n}
         IN  IsFiniteSet(S) /\ Cardinality(S) = n /\ Sorted(S) = t
<1> DEFINE S == {t[i] : i \in 1..n}
           From(i) == {t[j] : j \in 1..i}
<1>1. \A i, j \in 1..n : t[i] = t[j] => i = j
  <2> SUFFICES ASSUME NEW i \in 1..n, NEW j \in 1..n, i # j PROVE t[i] # t[j]
    OBVIOUS
  <2>1. i < j \/ j < i
    OBVIOUS
  <2> QED BY <2>1
<1>2. ASSUME NEW i \in 0..n PROVE IsFiniteSet(From(i)) /\ Cardinality(From(i)) = i
  <2> DEFINE f == [j \in 1..i |-> t[j]]
             T == From(i)
  <2>1. \A j, k \in 1..i : f[j] = f[k] => j = k
    BY <1>1
  <2>2. f \in [1..i -> T] /\ \A k \in T : \E j \in 1..i : f[j] = k
    OBVIOUS
  <2> HIDE DEF f, T
  <2>3. f \in Bijection(1..i, T)
    BY <2>1, <2>2 DEF Bijection, Injection, IsInjective, Surjection
  <2>4. ExistsBijection(1..i, T)
    BY <2>3 DEF ExistsBijection
  <2>5. i \in Nat
    OBVIOUS
  <2>6. IsFiniteSet(T) /\ Cardinality(T) = i
    BY <2>4, <2>5, FS_NatBijection, FS_CountingElements
  <2> QED BY <2>6 DEF T
<1>3. S = From(n) /\ n \in 0..n
  OBVIOUS
<1>4. IsFiniteSet(S) /\ Cardinality(S) = n
  BY <1>2, <1>3
<1>5. ASSUME NEW i \in 1..n PROVE Rank(S, t[i]) = i - 1
  <2>1. {k \in S : k < t[i]} = From(i - 1)
    <3>1. ASSUME NEW j \in 1..n, t[j] < t[i] PROVE j \in 1..i - 1
      <4>1. ~(i < j) /\ i # j
        BY <3>1
      <4> QED BY <4>1
    <3>2. ASSUME NEW j \in 1..i - 1 PROVE j \in 1..n /\ t[j] < t[i]
      OBVIOUS
    <3> QED BY <3>1, <3>2
  <2>2. i - 1 \in 0..n
    OBVIOUS
  <2> HIDE DEF From
  <2> QED BY <1>2, <2>1, <2>2 DEF Rank
<1>6. ASSUME NEW i \in 1..n PROVE Sorted(S)[i] = t[i]
  <2>1. t[i] \in S /\ S \subseteq Nat /\ i - 1 + 1 = i
    OBVIOUS
  <2> HIDE DEF S
  <2> QED BY <1>4, <1>5, <2>1, SortedIs
<1>7. Sorted(S) = t
  <2>1. Sorted(S) = [i \in 1..n |-> Sorted(S)[i]]
    <3> HIDE DEF S
    <3> QED BY <1>4 DEF Sorted
  <2> HIDE DEF S
  <2> QED BY <1>6, <2>1
<1> QED BY <1>4, <1>7

\* At most MaxSnapshots stay: all if they are not more, or all but the first
\* name if they are one more.
LEMMA KeptIs ==
  ASSUME NEW S, S \subseteq Nat, IsFiniteSet(S)
  PROVE  /\ Kept(S) \subseteq S /\ IsFiniteSet(Kept(S)) /\ Cardinality(Kept(S)) <= MaxSnapshots
         /\ Cardinality(S) <= MaxSnapshots => Kept(S) = S
         /\ Cardinality(S) = MaxSnapshots + 1 =>
              \A k \in S : k \notin Kept(S) <=> \A j \in S : k <= j
<1> DEFINE Over(k) == {j \in S : j > k}
<1>1. Cardinality(S) \in Nat /\ MaxSnapshots \in Nat \ {0}
  BY FS_CardinalityType, BoundsAssumption
<1>2. Kept(S) = {k \in S : Cardinality(Over(k)) < MaxSnapshots}
  BY DEF Kept
<1>3. ASSUME NEW k \in S
      PROVE  /\ IsFiniteSet(Over(k)) /\ Cardinality(Over(k)) \in Nat
             /\ Cardinality(Over(k)) <= Cardinality(S) - 1
             /\ (\A j \in S : k <= j) => Cardinality(Over(k)) = Cardinality(S) - 1
             /\ (\E j \in S : j < k) => Cardinality(Over(k)) <= Cardinality(S) - 2
  <2> DEFINE R == S \ {k}
  <2>1. IsFiniteSet(R) /\ Cardinality(R) = Cardinality(S) - 1
    BY FS_RemoveElement
  <2>2. Over(k) \in SUBSET R
    OBVIOUS
  <2>3. ASSUME \A j \in S : k <= j PROVE Over(k) = R
    <3>1. ASSUME NEW j \in S, j # k PROVE j > k
      <4>1. k <= j /\ j \in Nat /\ k \in Nat
        BY <2>3
      <4> QED BY <3>1, <4>1
    <3> QED BY <2>2, <3>1
  <2>4. ASSUME NEW j \in S, j < k PROVE Cardinality(Over(k)) <= Cardinality(S) - 2
    <3> DEFINE Q == R \ {j}
    <3>1. j # k /\ j \in R
      BY <2>4
    <3>2. IsFiniteSet(Q) /\ Cardinality(Q) = Cardinality(R) - 1
      BY <2>1, <3>1, FS_RemoveElement
    <3>3. Over(k) \in SUBSET Q
      BY <2>4
    <3> HIDE DEF Over, Q
    <3>4. Cardinality(Over(k)) <= Cardinality(Q)
      BY <3>2, <3>3, FS_Subset
    <3>5. IsFiniteSet(Over(k)) /\ Cardinality(Over(k)) \in Nat
      BY <3>2, <3>3, FS_Subset, FS_CardinalityType
    <3> QED BY <1>1, <2>1, <3>2, <3>4, <3>5
  <2> HIDE DEF Over, R
  <2>5. IsFiniteSet(Over(k)) /\ Cardinality(Over(k)) \in Nat /\ Cardinality(Over(k)) <= Cardinality(S) - 1
    BY <2>1, <2>2, FS_Subset, FS_CardinalityType
  <2> QED BY <2>1, <2>3, <2>4, <2>5
<1> HIDE DEF Over
<1>4. Kept(S) \subseteq S /\ IsFiniteSet(Kept(S))
  <2>1. Kept(S) \in SUBSET S
    BY <1>2
  <2> QED BY <2>1, FS_Subset
<1>5. Cardinality(Kept(S)) <= MaxSnapshots
  <2>1. CASE Kept(S) = {}
    BY <1>1, <2>1, FS_EmptySet
  <2>2. CASE Kept(S) # {}
    <3>1. PICK k \in Kept(S) : \A j \in Kept(S) : k <= j
      BY <1>4, <2>2, LeastNumber
    <3>2. Cardinality(Over(k)) < MaxSnapshots /\ k \in S
      BY <1>2, <3>1
    <3> DEFINE R == Over(k) \cup {k}
    <3>3. Kept(S) \in SUBSET R
      <4>1. ASSUME NEW j \in Kept(S), j # k PROVE j > k
        <5>1. k <= j /\ j \in Nat /\ k \in Nat
          BY <1>4, <3>1
        <5> QED BY <4>1, <5>1
      <4> QED BY <1>4, <4>1 DEF Over
    <3>4. IsFiniteSet(R) /\ Cardinality(R) <= Cardinality(Over(k)) + 1
      <4> DEFINE o == Over(k)
      <4>1. IsFiniteSet(o) /\ Cardinality(o) \in Nat
        BY <1>3, <3>2
      <4> HIDE DEF o
      <4>2. IsFiniteSet(o \cup {k}) /\ Cardinality(o \cup {k}) = IF k \in o THEN Cardinality(o) ELSE Cardinality(o) + 1
        BY <4>1, FS_AddElement
      <4>3. R = o \cup {k}
        BY DEF o
      <4> HIDE DEF R
      <4>4. Cardinality(R) <= Cardinality(o) + 1
        BY <4>1, <4>2, <4>3
      <4> QED BY <4>2, <4>3, <4>4 DEF o
    <3> HIDE DEF R
    <3>5. Cardinality(Kept(S)) <= Cardinality(R) /\ Cardinality(Kept(S)) \in Nat /\ Cardinality(R) \in Nat
      BY <1>4, <3>3, <3>4, FS_Subset, FS_CardinalityType
    <3>6. Cardinality(Over(k)) \in Nat
      BY <1>3, <3>2
    <3> QED BY <1>1, <3>2, <3>4, <3>5, <3>6
  <2> QED BY <2>1, <2>2
<1>6. ASSUME Cardinality(S) <= MaxSnapshots PROVE Kept(S) = S
  <2>1. ASSUME NEW k \in S PROVE Cardinality(Over(k)) < MaxSnapshots
    <3>1. Cardinality(Over(k)) <= Cardinality(S) - 1 /\ Cardinality(Over(k)) \in Nat
      BY <1>3
    <3> QED BY <1>1, <1>6, <3>1
  <2> QED BY <1>2, <2>1
<1>7. ASSUME Cardinality(S) = MaxSnapshots + 1, NEW k \in S
      PROVE  k \notin Kept(S) <=> \A j \in S : k <= j
  <2>1. k \in Nat /\ \A j \in S : j \in Nat
    OBVIOUS
  <2>2. CASE \A j \in S : k <= j
    <3>1. Cardinality(Over(k)) = Cardinality(S) - 1
      BY <1>3, <2>2
    <3>2. ~(Cardinality(Over(k)) < MaxSnapshots)
      BY <1>1, <1>7, <3>1
    <3> QED BY <1>2, <2>2, <3>2
  <2>3. CASE \E j \in S : ~(k <= j)
    <3>1. \E j \in S : j < k
      BY <2>1, <2>3
    <3>2. Cardinality(Over(k)) <= Cardinality(S) - 2 /\ Cardinality(Over(k)) \in Nat
      BY <1>3, <3>1
    <3>3. Cardinality(Over(k)) < MaxSnapshots
      BY <1>1, <1>7, <3>2
    <3> QED BY <1>2, <2>3, <3>3
  <2> QED BY <2>2, <2>3
<1> QED BY <1>4, <1>5, <1>6, <1>7

\* The stack without the names that were pruned: some of those that were in it ...
LEMMA UnlistedIs ==
  ASSUME NEW T, NEW s \in Seq(T), NEW gone
  PROVE  /\ Unlisted(s, gone) \in Seq(T)
         /\ gone = {} => Unlisted(s, gone) = s
         /\ s # <<>> /\ gone = {s[1]} /\ (\A i, j \in DOMAIN s : s[i] = s[j] => i = j) =>
              Unlisted(s, gone) = Tail(s)
<1> DEFINE left == {i \in DOMAIN s : s[i] \in gone => \E j \in 1..(i - 1) : s[j] = s[i]}
           r == Unlisted(s, gone)
<1>1. Len(s) \in Nat /\ DOMAIN s = 1..Len(s) /\ \A i \in 1..Len(s) : s[i] \in T
  BY LenProperties, ElementOfSeq
<1>2. left \subseteq 1..Len(s) /\ left \subseteq Nat /\ IsFiniteSet(left)
  <2>1. left \in SUBSET (1..Len(s)) /\ left \subseteq Nat
    BY <1>1
  <2>2. IsFiniteSet(1..Len(s))
    BY <1>1, FS_Interval
  <2> HIDE DEF left
  <2> QED BY <2>1, <2>2, FS_Subset
<1>3. r = [i \in 1..Cardinality(left) |-> s[Sorted(left)[i]]]
  BY DEF Unlisted
<1>4. r \in Seq(T)
  <2>1. Cardinality(left) \in Nat /\ \A i \in 1..Cardinality(left) : Sorted(left)[i] \in left
    <3> HIDE DEF left
    <3> QED BY <1>2, SortedIs
  <2>2. \A i \in 1..Cardinality(left) : s[Sorted(left)[i]] \in T
    <3> HIDE DEF left
    <3> QED BY <1>1, <1>2, <2>1
  <2> HIDE DEF left
  <2> DEFINE n == Cardinality(left)
             q == [i \in 1..n |-> s[Sorted(left)[i]]]
  <2>3. n \in Nat /\ q \in [1..n -> T]
    BY <2>1, <2>2
  <2> HIDE DEF n, q
  <2>4. q \in Seq(T)
    BY <2>3, SeqDef
  <2> QED BY <1>3, <2>4 DEF q, n
<1>5. ASSUME gone = {} PROVE r = s
  <2> DEFINE t == [i \in 1..Len(s) |-> i]
  <2>1. left = 1..Len(s)
    BY <1>1, <1>5
  <2>2. DOMAIN t = 1..Len(s) /\ t = [i \in 1..Len(s) |-> t[i]]
        /\ (\A i \in 1..Len(s) : t[i] \in Nat) /\ \A i, j \in 1..Len(s) : i < j => t[i] < t[j]
    OBVIOUS
  <2>3. {t[i] : i \in 1..Len(s)} = 1..Len(s)
    OBVIOUS
  <2>4. \A i \in 1..Len(s) : t[i] = i
    OBVIOUS
  <2> HIDE DEF t, left
  <2>5. Cardinality(left) = Len(s) /\ Sorted(left) = t
    BY <1>1, <2>1, <2>2, <2>3, SortedOnly
  <2>6. r = [i \in 1..Len(s) |-> s[i]]
    BY <1>3, <2>4, <2>5
  <2> QED BY <1>1, <2>6
<1>6. ASSUME s # <<>>, gone = {s[1]}, \A i, j \in DOMAIN s : s[i] = s[j] => i = j
      PROVE  r = Tail(s)
  <2> DEFINE n == Len(s) - 1
             t == [i \in 1..n |-> i + 1]
  <2>1. n \in Nat /\ 1 \in DOMAIN s /\ n + 1 = Len(s)
    BY <1>1, <1>6, EmptySeq
  <2>2. left = 2..Len(s)
    <3>1. 1 \notin left
      BY <1>6
    <3>2. ASSUME NEW i \in 2..Len(s) PROVE i \in left
      BY <1>1, <1>6, <2>1
    <3>3. \A i \in DOMAIN s : i = 1 \/ i \in 2..Len(s)
      BY <1>1
    <3> QED BY <3>1, <3>2, <3>3
  <2>3. DOMAIN t = 1..n /\ t = [i \in 1..n |-> t[i]]
        /\ (\A i \in 1..n : t[i] \in Nat) /\ \A i, j \in 1..n : i < j => t[i] < t[j]
    BY <2>1
  <2>4. {t[i] : i \in 1..n} = 2..Len(s)
    <3>1. ASSUME NEW k \in 2..Len(s) PROVE k - 1 \in 1..n /\ t[k - 1] = k
      BY <1>1
    <3>2. ASSUME NEW i \in 1..n PROVE t[i] \in 2..Len(s)
      BY <1>1
    <3> HIDE DEF t
    <3> QED BY <3>1, <3>2
  <2>5. \A i \in 1..n : t[i] = i + 1
    OBVIOUS
  <2> HIDE DEF t, left, n
  <2>6. Cardinality(left) = n /\ Sorted(left) = t
    BY <2>1, <2>2, <2>3, <2>4, SortedOnly
  <2>7. r = [i \in 1..n |-> s[i + 1]]
    BY <1>3, <2>5, <2>6
  <2>8. /\ Tail(s) \in Seq(T) /\ Len(Tail(s)) = Len(s) - 1
        /\ \A i \in 1..Len(Tail(s)) : Tail(s)[i] = s[i + 1]
    BY <1>6, HeadTailProperties
  <2>9. Len(Tail(s)) = n /\ DOMAIN Tail(s) = 1..n
    BY <2>8, LenProperties DEF n
  <2> DEFINE u == Tail(s)
  <2>10. u = [i \in 1..n |-> u[i]]
    BY <2>8, <2>9, LenProperties
  <2> HIDE DEF u, r
  <2>11. \A i \in 1..n : u[i] = s[i + 1]
    BY <2>8, <2>9 DEF u
  <2>12. r = u
    BY <2>7, <2>10, <2>11
  <2> QED BY <2>12 DEF u
<1> HIDE DEF r, left
<1> QED BY <1>4, <1>5, <1>6 DEF r

----------------------------------------------------------------------------
(* The operations.                                                         *)

LEMMA PositionIs ==
  ASSUME NEW b \in Notebooks, NEW to \in Targets(b)
  PROVE  Position(b, to) \in 1..Len(b) + 1
<1>1. Len(b) \in Nat /\ MaxCells \in Nat
  BY BookIs, BoundsAssumption
<1>2. CASE to = <<"end">>
  BY <1>1, <1>2 DEF Position
<1>3. CASE \E i \in {-1, 0, 1, MaxCells} : to = <<"index", i>>
  <2>1. PICK i \in {-1, 0, 1, MaxCells} : to = <<"index", i>>
    BY <1>3
  <2>2. Position(b, to) = IF i < 0 THEN 1 ELSE IF i > Len(b) THEN Len(b) + 1 ELSE i + 1
    BY <2>1 DEF Position
  <2>3. i \in Int
    BY <1>1
  <2> QED BY <1>1, <2>2, <2>3
<1>4. CASE \E n \in NamesOf(b) \cup {Unnamed} : to = <<"after", n>>
  <2>1. PICK n \in NamesOf(b) \cup {Unnamed} : to = <<"after", n>>
    BY <1>4
  <2>2. Position(b, to) = IF n = Unnamed THEN 1 ELSE At(b, n) + 1
    BY <2>1 DEF Position
  <2>3. n # Unnamed => At(b, n) \in 1..Len(b)
    BY AtIs
  <2> QED BY <1>1, <2>2, <2>3
<1> QED BY <1>2, <1>3, <1>4 DEF Targets

\* A cell put in is where it was asked for.
LEMMA InsertIsAt ==
  ASSUME NEW b \in Notebooks, Good(b), NEW e \in CellSet, NEW to \in Targets(b),
         e.name # Unnamed, e.name \notin NamesOf(b)
  PROVE  LET r == InsertAt(b, Position(b, to), e)
         IN  r \in Notebooks /\ Good(r) /\ IsAt(r, e.name, to) /\ Others(r, e.name) = Others(b, e.name)
<1> DEFINE p == Position(b, to)
           r == InsertAt(b, p, e)
           n == e.name
<1>1. p \in 1..Len(b) + 1 /\ Len(b) \in Nat
  BY PositionIs, BookIs
<1>2. /\ r \in Notebooks /\ Good(r) /\ At(r, n) = p /\ Others(r, n) = Others(b, n)
      /\ Len(r) = Len(b) + 1
      /\ \A j \in 1..Len(b) + 1 : r[j] = IF j < p THEN b[j] ELSE IF j = p THEN e ELSE b[j - 1]
  <2> HIDE DEF p
  <2> QED BY <1>1, InsertOne, Inserted
<1> HIDE DEF r, p
<1>3. IsAt(r, n, to)
  <2>1. CASE to = <<"end">>
    <3>1. p = Len(b) + 1
      BY <2>1 DEF p, Position
    <3> QED BY <1>2, <2>1, <3>1 DEF IsAt
  <2>2. CASE \E i \in {-1, 0, 1, MaxCells} : to = <<"index", i>>
    <3>1. PICK i \in {-1, 0, 1, MaxCells} : to = <<"index", i>>
      BY <2>2
    <3>2. p = IF i < 0 THEN 1 ELSE IF i > Len(b) THEN Len(b) + 1 ELSE i + 1
      BY <3>1 DEF p, Position
    <3>3. IsAt(r, n, to) <=> p = i + 1 \/ (p = 1 /\ i < 0) \/ (p = Len(r) /\ i >= p)
      BY <1>2, <3>1 DEF IsAt
    <3>4. i \in Int
      BY BoundsAssumption
    <3> QED BY <1>1, <1>2, <3>2, <3>3, <3>4
  <2>3. CASE \E m \in NamesOf(b) \cup {Unnamed} : to = <<"after", m>>
    <3>1. PICK m \in NamesOf(b) \cup {Unnamed} : to = <<"after", m>>
      BY <2>3
    <3>2. p = IF m = Unnamed THEN 1 ELSE At(b, m) + 1
      BY <3>1 DEF p, Position
    <3>3. IsAt(r, n, to) <=> IF p = 1 THEN m = Unnamed ELSE m = r[p - 1].name
      BY <1>2, <3>1 DEF IsAt
    <3>4. CASE m = Unnamed
      BY <3>2, <3>3, <3>4
    <3>5. CASE m # Unnamed
      <4>1. At(b, m) \in 1..Len(b) /\ b[At(b, m)].name = m /\ p = At(b, m) + 1
        BY <3>2, <3>5, AtIs
      <4> DEFINE i == At(b, m)
      <4> HIDE DEF i
      <4>2. i \in 1..Len(b) + 1 /\ i < p /\ p # 1 /\ p - 1 = i
        BY <1>1, <4>1 DEF i
      <4>3. r[p - 1] = b[i]
        BY <1>2, <4>2
      <4> QED BY <3>3, <4>1, <4>2, <4>3 DEF i
    <3> QED BY <3>4, <3>5
  <2> QED BY <2>1, <2>2, <2>3 DEF Targets
<1> QED BY <1>2, <1>3 DEF r, p

LEMMA MovedIs ==
  ASSUME NEW b \in Notebooks, Good(b), NEW n \in NamesOf(b), NEW to \in Targets(b), to # <<"after", n>>
  PROVE  LET r == Moved(b, n, to)
         IN  r \in Notebooks /\ Good(r) /\ IsAt(r, n, to) /\ Others(r, n) = Others(b, n)
<1> DEFINE w == Without(b, n)
           e == b[At(b, n)]
<1>1. e \in CellSet /\ e.name = n /\ n # Unnamed
  BY AtIs, BookIs DEF Good
<1>2. w \in Notebooks /\ Good(w) /\ NamesOf(w) = NamesOf(b) \ {n} /\ Others(w, n) = Others(b, n)
  BY RemoveOne
<1>3. to \in Targets(w)
  <2> HIDE DEF w
  <2> QED BY <1>1, <1>2 DEF Targets
<1>4. Moved(b, n, to) = InsertAt(w, Position(w, to), e)
  BY DEF Moved
<1> HIDE DEF w, e
<1> QED BY <1>1, <1>2, <1>3, <1>4, InsertIsAt

LEMMA AddedIs ==
  ASSUME NEW b \in Notebooks, Good(b), NEW n \in Names, NEW s \in Sources, NEW to \in Targets(b),
         n \notin NamesOf(b)
  PROVE  LET r == InsertAt(b, Position(b, to), Cell(n, s))
         IN  r \in Notebooks /\ Good(r) /\ IsAt(r, n, to) /\ Others(r, n) = Others(b, n)
<1> DEFINE e == Cell(n, s)
<1>1. e \in CellSet /\ e.name = n /\ n # Unnamed
  BY NamesAssumption DEF CellSet, Cell, AllNames, Unnamed, Name
<1> HIDE DEF e
<1>2. LET r == InsertAt(b, Position(b, to), e)
      IN  r \in Notebooks /\ Good(r) /\ IsAt(r, n, to) /\ Others(r, n) = Others(b, n)
  BY <1>1, InsertIsAt
<1> QED BY <1>2 DEF e

LEMMA UpdatedIs ==
  ASSUME NEW b \in Notebooks, Good(b), NEW n \in NamesOf(b), NEW s \in Sources,
         NEW new \in Names \cup NamesOf(b), new = n \/ new \notin NamesOf(b)
  PROVE  LET r == [b EXCEPT ![At(b, n)] = Cell(new, s)]
         IN  r \in Notebooks /\ Good(r) /\ Others(r, new) = Others(b, n)
<1> DEFINE e == Cell(new, s)
<1>1. new \in AllNames /\ new # Unnamed
  <2>1. \A m \in NamesOf(b) : m \in AllNames
    BY BookIs DEF NamesOf, CellSet, Good
  <2>2. Unnamed \notin AllNames
    BY NamesAssumption DEF AllNames, Unnamed, Name
  <2> QED BY <2>1, <2>2, NamesAssumption
<1>2. e \in CellSet /\ e.name = new
  BY <1>1 DEF CellSet, Cell
<1> HIDE DEF e
<1>3. LET r == [b EXCEPT ![At(b, n)] = e]
      IN  r \in Notebooks /\ Good(r) /\ Others(r, e.name) = Others(b, n)
  BY <1>1, <1>2, ReplaceOne
<1> QED BY <1>2, <1>3 DEF e

----------------------------------------------------------------------------
(* The invariant: the cells the tools see are told from each other, and    *)
(* the stack lists the snapshots there are, the earlier first.             *)

StackInv ==
  steady =>
    /\ \A i, j \in DOMAIN undo : i < j => undo[i] < undo[j]
    /\ {undo[i] : i \in DOMAIN undo} = DOMAIN files
    /\ ideal = [i \in DOMAIN undo |-> files[undo[i]]]

Inv == TypeOK /\ Good(book) /\ StackInv

CellsOK == book \in Notebooks /\ disk \in Notebooks /\ sync \in Notebooks /\ Good(book)

StoreOK ==
  /\ DOMAIN files \subseteq 1..MaxKeys /\ Cardinality(DOMAIN files) <= MaxSnapshots
  /\ files \in [DOMAIN files -> Notebooks]
  /\ undo \in Seq(1..MaxKeys) /\ ideal \in Seq(Notebooks)

LEMMA StoreIs ==
  ASSUME StoreOK
  PROVE  /\ DOMAIN files \subseteq Nat /\ IsFiniteSet(DOMAIN files) /\ Cardinality(DOMAIN files) \in Nat
         /\ Len(undo) \in Nat /\ DOMAIN undo = 1..Len(undo) /\ \A i \in 1..Len(undo) : undo[i] \in 1..MaxKeys
         /\ \A k \in DOMAIN files : files[k] \in Notebooks
<1>1. DOMAIN files \in SUBSET (1..MaxKeys) /\ MaxKeys \in Nat
  BY BoundsAssumption DEF StoreOK
<1>2. IsFiniteSet(DOMAIN files) /\ Cardinality(DOMAIN files) \in Nat
  <2>1. IsFiniteSet(1..MaxKeys)
    BY <1>1, FS_Interval
  <2> QED BY <1>1, <2>1, FS_Subset, FS_CardinalityType
<1>3. Len(undo) \in Nat /\ DOMAIN undo = 1..Len(undo) /\ \A i \in 1..Len(undo) : undo[i] \in 1..MaxKeys
  BY LenProperties, ElementOfSeq DEF StoreOK
<1> QED BY <1>1, <1>2, <1>3 DEF StoreOK

\* The names that are in the directory, in order, are a stack.
LEMMA SortedStack ==
  ASSUME StoreOK
  PROVE  /\ Sorted(DOMAIN files) \in Seq(1..MaxKeys)
         /\ StackInv /\ steady => Sorted(DOMAIN files) = undo
<1> DEFINE S == DOMAIN files
           n == Cardinality(S)
           q == Sorted(S)
<1>1. n \in Nat /\ DOMAIN q = 1..n /\ \A i \in 1..n : q[i] \in S
  BY StoreIs, SortedIs
<1>2. q = [i \in 1..n |-> q[i]]
  BY DEF Sorted
<1>3. S \subseteq 1..MaxKeys
  BY DEF StoreOK
<1>4. q \in Seq(1..MaxKeys)
  <2> HIDE DEF q, n, S
  <2>1. q \in [1..n -> 1..MaxKeys]
    BY <1>1, <1>2, <1>3
  <2> QED BY <1>1, <2>1, SeqDef
<1>5. ASSUME StackInv, steady PROVE q = undo
  <2>1. /\ Len(undo) \in Nat /\ DOMAIN undo = 1..Len(undo)
        /\ undo = [i \in 1..Len(undo) |-> undo[i]]
        /\ \A i \in 1..Len(undo) : undo[i] \in Nat
    BY StoreIs, LenProperties DEF StoreOK
  <2>2. \A i, j \in 1..Len(undo) : i < j => undo[i] < undo[j]
    BY <1>5, <2>1 DEF StackInv
  <2>3. {undo[i] : i \in 1..Len(undo)} = S
    BY <1>5, <2>1 DEF StackInv
  <2>4. Sorted({undo[i] : i \in 1..Len(undo)}) = undo
    BY <2>1, <2>2, SortedOnly
  <2> QED BY <2>3, <2>4
<1> QED BY <1>4, <1>5

\* snapshot() keeps the store what it is ...
LEMMA SnapshotStore ==
  ASSUME StoreOK, disk \in Notebooks, Snapshot
  PROVE  StoreOK'
<1>1. PICK k \in 1..MaxKeys :
        LET all  == DOMAIN files \cup {k}
            kept == Kept(all)
        IN  /\ files' = [j \in kept |-> IF j = k THEN disk ELSE files[j]]
            /\ undo' = Unlisted(Append(undo, k), all \ kept)
            /\ ideal' = LastOnes(Append(ideal, disk))
  BY DEF Snapshot
<1> DEFINE all == DOMAIN files \cup {k}
           kept == Kept(all)
<1>2. all \subseteq 1..MaxKeys /\ all \subseteq Nat /\ IsFiniteSet(all)
  <2>1. k \in Nat
    BY BoundsAssumption
  <2> QED BY <2>1, StoreIs, FS_AddElement DEF StoreOK
<1>3. kept \subseteq all /\ Cardinality(kept) <= MaxSnapshots
  <2> HIDE DEF all
  <2> QED BY <1>2, KeptIs
<1>4. files' = [j \in kept |-> IF j = k THEN disk ELSE files[j]]
  BY <1>1
<1>5. ASSUME NEW j \in kept PROVE (IF j = k THEN disk ELSE files[j]) \in Notebooks
  <2>1. CASE j = k
    BY <2>1
  <2>2. CASE j # k
    BY <1>3, <2>2, StoreIs
  <2> QED BY <2>1, <2>2
<1>6. DOMAIN files' = kept /\ files' \in [kept -> Notebooks]
  <2> HIDE DEF kept
  <2> QED BY <1>4, <1>5
<1>7. undo' \in Seq(1..MaxKeys)
  <2> DEFINE s == Append(undo, k)
  <2>1. s \in Seq(1..MaxKeys) /\ undo' = Unlisted(s, all \ kept)
    BY <1>1, AppendProperties DEF StoreOK
  <2> HIDE DEF s, all, kept
  <2> QED BY <2>1, UnlistedIs
<1>8. ideal' \in Seq(Notebooks)
  <2> DEFINE s == Append(ideal, disk)
  <2>1. s \in Seq(Notebooks) /\ Len(s) > 0 /\ s # <<>> /\ ideal' = LastOnes(s)
    <3>1. s \in Seq(Notebooks) /\ Len(s) = Len(ideal) + 1 /\ Len(ideal) \in Nat
      BY AppendProperties, LenProperties DEF StoreOK
    <3> HIDE DEF s
    <3>2. s # <<>>
      BY <3>1, EmptySeq
    <3> QED BY <1>1, <3>1, <3>2 DEF s
  <2> HIDE DEF s
  <2>2. Tail(s) \in Seq(Notebooks)
    BY <2>1, HeadTailProperties
  <2> QED BY <2>1, <2>2 DEF LastOnes
<1>9. kept \subseteq 1..MaxKeys
  BY <1>2, <1>3
<1> HIDE DEF kept
<1> QED BY <1>3, <1>6, <1>7, <1>8, <1>9 DEF StoreOK

\* ... and, if its name is a later one, puts it last in the stack, which loses its
\* first one when there are too many.
LEMMA SnapshotStack ==
  ASSUME StoreOK, disk \in Notebooks, StackInv, Snapshot
  PROVE  StackInv'
<1> SUFFICES ASSUME steady'
             PROVE  /\ \A i, j \in DOMAIN undo' : i < j => undo'[i] < undo'[j]
                    /\ {undo'[i] : i \in DOMAIN undo'} = DOMAIN files'
                    /\ ideal' = [i \in DOMAIN undo' |-> files'[undo'[i]]]
  BY DEF StackInv
<1>1. PICK k \in 1..MaxKeys :
        LET all  == DOMAIN files \cup {k}
            kept == Kept(all)
        IN  /\ files' = [j \in kept |-> IF j = k THEN disk ELSE files[j]]
            /\ undo' = Unlisted(Append(undo, k), all \ kept)
            /\ steady' = (steady /\ \A j \in DOMAIN files : j < k)
            /\ ideal' = LastOnes(Append(ideal, disk))
  BY DEF Snapshot
<1> DEFINE all == DOMAIN files \cup {k}
           kept == Kept(all)
           n == Len(undo)
           s == Append(undo, k)
           d == Append(ideal, disk)
<1>2. /\ n \in Nat /\ DOMAIN undo = 1..n /\ \A i \in 1..n : undo[i] \in 1..MaxKeys
      /\ DOMAIN files \subseteq Nat /\ \A j \in DOMAIN files : files[j] \in Notebooks
      /\ k \in Nat /\ MaxKeys \in Nat /\ MaxSnapshots \in Nat \ {0}
  BY StoreIs, BoundsAssumption
<1>3. /\ \A i, j \in 1..n : i < j => undo[i] < undo[j]
      /\ {undo[i] : i \in 1..n} = DOMAIN files
      /\ ideal = [i \in 1..n |-> files[undo[i]]]
      /\ \A j \in DOMAIN files : j < k
  BY <1>1, <1>2 DEF StackInv
<1>4. n + 1 \in Nat /\ s \in Seq(1..MaxKeys) /\ Len(s) = n + 1 /\ DOMAIN s = 1..n + 1
      /\ (\A i \in 1..n : s[i] = undo[i]) /\ s[n + 1] = k
      /\ s = [i \in 1..n + 1 |-> s[i]]
  <2>1. s \in Seq(1..MaxKeys) /\ Len(s) = n + 1 /\ (\A i \in 1..n : s[i] = undo[i]) /\ s[n + 1] = k
    BY AppendProperties DEF StoreOK
  <2> HIDE DEF s
  <2> QED BY <1>2, <2>1, LenProperties
<1>5. d \in Seq(Notebooks) /\ Len(d) = n + 1
      /\ (\A i \in 1..n : d[i] = files[undo[i]]) /\ d[n + 1] = disk
  <2>1. ideal \in Seq(Notebooks) /\ DOMAIN ideal = 1..n /\ \A i \in 1..n : ideal[i] = files[undo[i]]
    BY <1>3 DEF StoreOK
  <2>2. Len(ideal) = n
    BY <1>2, <2>1, LenProperties
  <2>3. d \in Seq(Notebooks) /\ Len(d) = Len(ideal) + 1
        /\ (\A i \in 1..Len(ideal) : d[i] = ideal[i]) /\ d[Len(ideal) + 1] = disk
    BY <2>1, AppendProperties
  <2> QED BY <2>1, <2>2, <2>3
<1>6. files' = [j \in kept |-> IF j = k THEN disk ELSE files[j]]
      /\ undo' = Unlisted(s, all \ kept) /\ ideal' = LastOnes(d)
  BY <1>1
<1>7. all \subseteq Nat /\ IsFiniteSet(all)
  BY <1>2, StoreIs, FS_AddElement
<1> HIDE DEF s, d
<1>8. all = {s[i] : i \in 1..n + 1}
  <2>1. {undo[i] : i \in 1..n} = {s[i] : i \in 1..n}
    BY <1>4
  <2>2. \A i : i \in 1..n + 1 <=> i \in 1..n \/ i = n + 1
    BY <1>2
  <2>3. {s[i] : i \in 1..n + 1} = {s[i] : i \in 1..n} \cup {k}
    BY <1>4, <2>2
  <2> QED BY <1>3, <2>1, <2>3
<1>9. \A i, j \in 1..n + 1 : i < j => s[i] < s[j]
  <2> SUFFICES ASSUME NEW i \in 1..n + 1, NEW j \in 1..n + 1, i < j PROVE s[i] < s[j]
    OBVIOUS
  <2>1. i \in 1..n /\ s[i] = undo[i]
    <3>1. i \in 1..n
      BY <1>2
    <3> QED BY <1>4, <3>1
  <2>2. CASE j \in 1..n
    <3>1. s[j] = undo[j]
      BY <1>4, <2>2
    <3> QED BY <1>3, <2>1, <2>2, <3>1
  <2>3. CASE j = n + 1
    <3>1. undo[i] \in DOMAIN files
      BY <1>3, <2>1
    <3> QED BY <1>3, <1>4, <2>1, <2>3, <3>1
  <2>4. j \in 1..n \/ j = n + 1
    BY <1>2
  <2> QED BY <2>2, <2>3, <2>4
<1>10. \A i \in 1..n + 1 : s[i] \in Nat
  BY <1>2, <1>4, ElementOfSeq
<1>11. Cardinality(all) = n + 1
  <2> DEFINE m == n + 1
  <2>1. /\ m \in Nat /\ DOMAIN s = 1..m /\ s = [i \in 1..m |-> s[i]]
        /\ \A i \in 1..m : s[i] \in Nat
        /\ \A i, j \in 1..m : i < j => s[i] < s[j]
    BY <1>4, <1>9, <1>10
  <2>2. all = {s[i] : i \in 1..m}
    BY <1>8
  <2> HIDE DEF m, all
  <2>3. Cardinality({s[i] : i \in 1..m}) = m
    BY <2>1, SortedOnly
  <2> QED BY <2>2, <2>3 DEF m
<1>12. Cardinality(DOMAIN files) = n /\ n <= MaxSnapshots
  <2>1. undo = [i \in 1..n |-> undo[i]]
    BY <1>2, LenProperties DEF StoreOK
  <2>2. \A i \in 1..n : undo[i] \in Nat
    BY <1>2
  <2>3. Cardinality({undo[i] : i \in 1..n}) = n
    BY <1>2, <1>3, <2>1, <2>2, SortedOnly
  <2> QED BY <1>3, <2>3 DEF StoreOK
<1> DEFINE now == [j \in all |-> IF j = k THEN disk ELSE files[j]]
<1>13. kept \subseteq all /\ \A j \in kept : files'[j] = now[j]
  <2>1. kept \subseteq all
    <3> HIDE DEF all
    <3> QED BY <1>7, KeptIs
  <2>2. \A j \in kept : files'[j] = IF j = k THEN disk ELSE files[j]
    <3> HIDE DEF kept
    <3> QED BY <1>6
  <2> HIDE DEF kept
  <2> QED BY <2>1, <2>2
<1>14. \A i \in 1..n + 1 : d[i] = now[s[i]]
  <2> TAKE i \in 1..n + 1
  <2>1. CASE i \in 1..n
    <3>1. s[i] = undo[i] /\ undo[i] \in DOMAIN files /\ undo[i] < k
      BY <1>3, <1>4, <2>1
    <3>2. undo[i] # k
      BY <1>2, <2>1, <3>1
    <3> QED BY <1>5, <2>1, <3>1, <3>2
  <2>2. CASE i = n + 1
    BY <1>4, <1>5, <2>2
  <2> QED BY <1>2, <2>1, <2>2
<1> HIDE DEF now
<1>15. CASE n + 1 <= MaxSnapshots
  <2>1. kept = all
    <3> HIDE DEF all
    <3> QED BY <1>7, <1>11, <1>15, KeptIs
  <2>2. undo' = s
    <3>1. all \ kept = {}
      BY <2>1
    <3> HIDE DEF all, kept
    <3> QED BY <1>4, <1>6, <3>1, UnlistedIs
  <2>3. ideal' = d
    BY <1>2, <1>5, <1>6, <1>15 DEF LastOnes
  <2>4. DOMAIN files' = all
    <3> HIDE DEF kept, all
    <3> QED BY <1>6, <2>1
  <2>5. d = [i \in 1..n + 1 |-> files'[s[i]]]
    <3>1. d = [i \in 1..n + 1 |-> d[i]]
      BY <1>5, LenProperties
    <3>2. \A i \in 1..n + 1 : d[i] = files'[s[i]]
      BY <1>8, <1>13, <1>14, <2>1
    <3> QED BY <3>1, <3>2
  <2> HIDE DEF all, kept
  <2> QED BY <1>4, <1>8, <1>9, <2>2, <2>3, <2>4, <2>5
<1>16. CASE n + 1 > MaxSnapshots
  <2>1. n + 1 = MaxSnapshots + 1 /\ n \in Nat \ {0} /\ 1 \in 1..n + 1
    BY <1>2, <1>12, <1>16
  <2>2. \A i, j \in 1..n + 1 : s[i] = s[j] => i = j
    <3> SUFFICES ASSUME NEW i \in 1..n + 1, NEW j \in 1..n + 1, i # j PROVE s[i] # s[j]
      OBVIOUS
    <3>1. i < j \/ j < i
      BY <1>2
    <3>2. s[i] < s[j] \/ s[j] < s[i]
      BY <1>9, <3>1
    <3> QED BY <1>10, <3>2
  <2>3. all \ kept = {s[1]}
    <3>1. \A j \in all : s[1] <= j
      <4>1. ASSUME NEW i \in 1..n + 1 PROVE s[1] <= s[i]
        <5>1. i = 1 \/ 1 < i
          OBVIOUS
        <5>2. s[1] \in Nat /\ s[i] \in Nat
          BY <1>10, <2>1
        <5>3. 1 < i => s[1] < s[i]
          BY <1>9, <2>1
        <5> QED BY <5>1, <5>2, <5>3
      <4> QED BY <1>8, <4>1
    <3>2. s[1] \in all
      BY <1>8, <2>1
    <3>3. \A j \in all : (\A i \in all : j <= i) => j = s[1]
      <4> SUFFICES ASSUME NEW j \in all, \A i \in all : j <= i PROVE j = s[1]
        OBVIOUS
      <4>1. j <= s[1] /\ s[1] <= j
        BY <3>1, <3>2
      <4>2. j \in Nat /\ s[1] \in Nat
        BY <1>7, <3>2
      <4> QED BY <4>1, <4>2
    <3>4. Cardinality(all) = MaxSnapshots + 1
      BY <1>11, <2>1
    <3> HIDE DEF all
    <3>5. \A j \in all : j \notin kept <=> \A i \in all : j <= i
      BY <1>7, <3>4, KeptIs
    <3> HIDE DEF kept
    <3> QED BY <3>1, <3>2, <3>3, <3>5
  <2>4. undo' = Tail(s)
    <3>1. s # <<>>
      BY <1>4, EmptySeq
    <3> HIDE DEF all, kept
    <3> QED BY <1>4, <1>6, <2>2, <2>3, <3>1, UnlistedIs
  <2>5. ideal' = Tail(d)
    BY <1>5, <1>6, <1>16 DEF LastOnes
  <2>6. DOMAIN files' = kept
    <3> HIDE DEF kept
    <3> QED BY <1>6
  <2> DEFINE t == Tail(s)
             e == Tail(d)
  <2>7. t \in Seq(1..MaxKeys) /\ Len(t) = n /\ DOMAIN t = 1..n /\ \A i \in 1..n : t[i] = s[i + 1]
    <3>1. s # <<>>
      BY <1>4, EmptySeq
    <3>2. t \in Seq(1..MaxKeys) /\ Len(t) = Len(s) - 1 /\ \A i \in 1..Len(t) : t[i] = s[i + 1]
      BY <1>4, <3>1, HeadTailProperties
    <3>3. Len(t) = n
      BY <1>2, <1>4, <3>2
    <3> HIDE DEF t
    <3> QED BY <3>2, <3>3, LenProperties
  <2>8. e = [i \in 1..n |-> d[i + 1]]
    <3>1. d # <<>>
      BY <1>4, <1>5, EmptySeq
    <3>2. e \in Seq(Notebooks) /\ Len(e) = Len(d) - 1 /\ \A i \in 1..Len(e) : e[i] = d[i + 1]
      BY <1>5, <3>1, HeadTailProperties
    <3>3. Len(e) = n
      BY <1>2, <1>5, <3>2
    <3> HIDE DEF e
    <3>4. e = [i \in 1..n |-> e[i]]
      BY <3>2, <3>3, LenProperties
    <3> QED BY <3>2, <3>3, <3>4
  <2> HIDE DEF t, e
  <2>9. kept = {t[i] : i \in 1..n}
    <3>1. \A j : j \in kept <=> j \in all /\ j # s[1]
      BY <1>13, <2>3
    <3>2. ASSUME NEW j \in kept PROVE \E i \in 1..n : t[i] = j
      <4>1. PICK m \in 1..n + 1 : s[m] = j
        BY <1>8, <1>13
      <4>2. m # 1
        BY <3>1, <4>1
      <4>3. m - 1 \in 1..n /\ (m - 1) + 1 = m
        BY <1>2, <4>2
      <4>4. t[m - 1] = s[m]
        BY <2>7, <4>3
      <4> QED BY <4>1, <4>3, <4>4
    <3>3. ASSUME NEW i \in 1..n PROVE t[i] \in kept
      <4>1. i + 1 \in 1..n + 1 /\ i + 1 # 1
        BY <1>2
      <4>2. s[i + 1] # s[1]
        BY <2>1, <2>2, <4>1
      <4>3. s[i + 1] \in all
        BY <1>8, <4>1
      <4> QED BY <2>7, <3>1, <4>2, <4>3
    <3> HIDE DEF kept, all
    <3> QED BY <3>2, <3>3
  <2>10. \A i, j \in 1..n : i < j => t[i] < t[j]
    <3> SUFFICES ASSUME NEW i \in 1..n, NEW j \in 1..n, i < j PROVE t[i] < t[j]
      OBVIOUS
    <3>1. i + 1 \in 1..n + 1 /\ j + 1 \in 1..n + 1 /\ i + 1 < j + 1
      BY <1>2
    <3> QED BY <1>9, <2>7, <3>1
  <2>11. \A i \in 1..n : d[i + 1] = files'[t[i]]
    <3> TAKE i \in 1..n
    <3>1. i + 1 \in 1..n + 1
      BY <1>2
    <3>2. t[i] \in kept /\ t[i] = s[i + 1]
      <4> HIDE DEF kept
      <4> QED BY <2>7, <2>9
    <3> QED BY <1>13, <1>14, <3>1, <3>2
  <2>12. e = [i \in 1..n |-> files'[t[i]]]
    BY <2>8, <2>11
  <2>13. undo' = t /\ ideal' = e
    BY <2>4, <2>5 DEF t, e
  <2> HIDE DEF kept, all
  <2> QED BY <2>6, <2>7, <2>9, <2>10, <2>12, <2>13
<1>17. n + 1 <= MaxSnapshots \/ n + 1 > MaxSnapshots
  BY <1>2
<1> QED BY <1>15, <1>16, <1>17

\* undo_last takes the last name that is still there.
LEMMA TopIs ==
  ASSUME StoreOK, Restorable # {}
  PROVE  /\ Top \in 1..Len(undo) /\ undo[Top] \in DOMAIN files
         /\ \A i \in 1..Len(undo) : undo[i] \in DOMAIN files => i <= Top
<1>1. Len(undo) \in Nat /\ Restorable = {i \in 1..Len(undo) : undo[i] \in DOMAIN files}
  BY StoreIs DEF Restorable
<1>2. PICK i \in Restorable : \A j \in Restorable : j <= i
  <2>1. Restorable \subseteq 1..Len(undo)
    BY <1>1
  <2> QED BY <1>1, <2>1, GreatestNumber
<1>3. Top \in Restorable /\ \A j \in Restorable : j <= Top
  BY <1>2 DEF Top
<1> QED BY <1>1, <1>3

\* undo_last takes that name and all after it off the stack ...
LEMMA UndoStore ==
  ASSUME StoreOK, UndoLast
  PROVE  StoreOK'
<1>1. CASE Restorable # {} /\ files' = [k \in DOMAIN files \ {undo[Top]} |-> files[k]]
           /\ undo' = SubSeq(undo, 1, Top - 1) /\ ideal' = IF ideal = <<>> THEN <<>> ELSE Front(ideal)
  <2> DEFINE left == DOMAIN files \ {undo[Top]}
  <2>1. DOMAIN files' = left /\ files' \in [left -> Notebooks]
    BY <1>1, StoreIs
  <2>2. left \in SUBSET (DOMAIN files)
    OBVIOUS
  <2>3. Cardinality(left) <= Cardinality(DOMAIN files) /\ Cardinality(left) \in Nat
        /\ Cardinality(DOMAIN files) \in Nat
    <3> HIDE DEF left
    <3> QED BY <2>2, StoreIs, FS_Subset, FS_CardinalityType
  <2>4. Cardinality(left) <= MaxSnapshots
    BY <2>3, BoundsAssumption DEF StoreOK
  <2>5. undo' \in Seq(1..MaxKeys)
    <3>1. Top \in 1..Len(undo) /\ Len(undo) \in Nat
      BY <1>1, TopIs, StoreIs
    <3>2. Top - 1 \in Int /\ \A i \in 1..Top - 1 : undo[i] \in 1..MaxKeys
      BY <3>1, StoreIs
    <3> QED BY <1>1, <3>2, SubSeqProperties
  <2>6. ideal' \in Seq(Notebooks)
    <3>1. Len(ideal) \in Nat /\ \A i \in 1..Len(ideal) - 1 : ideal[i] \in Notebooks
      BY LenProperties, ElementOfSeq DEF StoreOK
    <3>2. Front(ideal) \in Seq(Notebooks)
      BY <3>1, SubSeqProperties DEF Front
    <3> QED BY <1>1, <3>2
  <2> HIDE DEF left
  <2> QED BY <2>1, <2>2, <2>4, <2>5, <2>6 DEF StoreOK
<1>2. CASE undo' = <<>> /\ UNCHANGED <<files, ideal>>
  BY <1>2 DEF StoreOK
<1> QED BY <1>1, <1>2 DEF UndoLast

\* ... which is only the last one when all are there.
LEMMA UndoStack ==
  ASSUME StoreOK, StackInv, UndoLast
  PROVE  StackInv'
<1> SUFFICES ASSUME steady'
             PROVE  /\ \A i, j \in DOMAIN undo' : i < j => undo'[i] < undo'[j]
                    /\ {undo'[i] : i \in DOMAIN undo'} = DOMAIN files'
                    /\ ideal' = [i \in DOMAIN undo' |-> files'[undo'[i]]]
  BY DEF StackInv
<1> DEFINE n == Len(undo)
<1>1. steady
  BY DEF UndoLast
<1>2. n \in Nat /\ DOMAIN undo = 1..n /\ \A i \in 1..n : undo[i] \in 1..MaxKeys
  BY StoreIs
<1>3. /\ \A i, j \in 1..n : i < j => undo[i] < undo[j]
      /\ {undo[i] : i \in 1..n} = DOMAIN files
      /\ ideal = [i \in 1..n |-> files[undo[i]]]
  BY <1>1, <1>2 DEF StackInv
<1>4. Restorable = 1..n
  BY <1>2, <1>3 DEF Restorable
<1>5. CASE Restorable # {} /\ files' = [k \in DOMAIN files \ {undo[Top]} |-> files[k]]
           /\ undo' = SubSeq(undo, 1, Top - 1) /\ ideal' = IF ideal = <<>> THEN <<>> ELSE Front(ideal)
  <2>1. Top = n /\ n \in Nat \ {0}
    <3>1. Top \in 1..n /\ \A i \in 1..n : i <= Top
      BY <1>3, <1>5, TopIs
    <3>2. n \in 1..n
      BY <1>2, <3>1
    <3>3. n <= Top
      BY <3>1, <3>2
    <3>4. Top \in Nat /\ 1 <= Top /\ Top <= n
      BY <1>2, <3>1
    <3> HIDE DEF n
    <3> QED BY <1>2, <3>3, <3>4
  <2> DEFINE u == SubSeq(undo, 1, n - 1)
             d == SubSeq(ideal, 1, n - 1)
  <2>2. u \in Seq(1..MaxKeys) /\ DOMAIN u = 1..n - 1 /\ \A i \in 1..n - 1 : u[i] = undo[i]
    <3>1. n - 1 \in Int /\ \A i \in 1..n - 1 : undo[i] \in 1..MaxKeys
      BY <1>2
    <3>2. u \in Seq(1..MaxKeys) /\ Len(u) = n - 1 /\ \A i \in 1..n - 1 : u[i] = undo[i]
      BY <2>1, <3>1, SubSeqProperties
    <3> HIDE DEF u
    <3> QED BY <3>2, LenProperties
  <2>3. Len(ideal) = n /\ ideal # <<>> /\ \A i \in 1..n : ideal[i] = files[undo[i]] /\ ideal[i] \in Notebooks
    <3>1. ideal \in Seq(Notebooks) /\ DOMAIN ideal = 1..n /\ \A i \in 1..n : ideal[i] = files[undo[i]]
      BY <1>3 DEF StoreOK
    <3>2. Len(ideal) = n
      BY <1>2, <3>1, LenProperties
    <3> QED BY <2>1, <3>1, <3>2, EmptySeq, ElementOfSeq
  <2>4. d = [i \in 1..n - 1 |-> files[undo[i]]]
    <3>1. n - 1 \in Int /\ \A i \in 1..n - 1 : ideal[i] \in Notebooks /\ ideal[i] = files[undo[i]]
      BY <1>2, <2>3
    <3>2. d \in Seq(Notebooks) /\ Len(d) = n - 1 /\ \A i \in 1..n - 1 : d[i] = ideal[i]
      BY <2>1, <3>1, SubSeqProperties
    <3> HIDE DEF d
    <3>3. d = [i \in 1..n - 1 |-> d[i]]
      BY <3>2, LenProperties
    <3> QED BY <3>1, <3>2, <3>3
  <2>5. ideal' = d /\ undo' = u
    BY <1>5, <2>1, <2>3 DEF Front
  <2> HIDE DEF u, d
  <2>6. \A i \in 1..n - 1 : i \in 1..n /\ n \in 1..n /\ i < n
    BY <1>2, <2>1
  <2>7. \A i \in 1..n : i = n \/ i \in 1..n - 1
    <3>1. n \in Nat
      BY <1>2
    <3> HIDE DEF n
    <3> QED BY <3>1
  <2>8. \A i \in 1..n - 1 : undo[i] \in DOMAIN files /\ undo[i] # undo[n]
    <3> TAKE i \in 1..n - 1
    <3>1. undo[i] < undo[n] /\ undo[i] \in DOMAIN files
      BY <1>3, <2>6
    <3>2. undo[i] \in Int /\ undo[n] \in Int
      BY <1>2, <2>6
    <3> QED BY <3>1, <3>2
  <2>9. DOMAIN files' = DOMAIN files \ {undo[n]} /\ \A i \in 1..n - 1 : files'[undo[i]] = files[undo[i]]
    BY <1>5, <2>1, <2>8
  <2>10. {u[i] : i \in 1..n - 1} = DOMAIN files \ {undo[n]}
    <3>1. \A k \in DOMAIN files : \E i \in 1..n : undo[i] = k
      BY <1>3
    <3> HIDE DEF n
    <3> QED BY <2>2, <2>7, <2>8, <3>1
  <2>11. d = [i \in 1..n - 1 |-> files'[u[i]]]
    BY <2>2, <2>4, <2>9
  <2>12. \A i, j \in 1..n - 1 : i < j => u[i] < u[j]
    BY <1>3, <2>2, <2>6
  <2> HIDE DEF n
  <2> QED BY <2>2, <2>5, <2>9, <2>10, <2>11, <2>12
<1>6. CASE Restorable = {} /\ undo' = <<>> /\ UNCHANGED <<files, ideal>>
  <2>1. ~(1 \in 1..n)
    BY <1>4, <1>6
  <2>2. n = 0
    BY <1>2, <2>1
  <2>3. undo = <<>>
    BY <2>2, EmptySeq DEF StoreOK
  <2> QED BY <1>1, <1>6, <2>3 DEF StackInv
<1> QED BY <1>5, <1>6 DEF UndoLast

----------------------------------------------------------------------------
(* What a step keeps.                                                      *)

\* A change of cells is made by one of the tools.
LEMMA EditIs ==
  ASSUME CellsOK, Edit
  PROVE  \E new : new \in Notebooks /\ Good(new) /\ Mutate(new)
<1>1. CASE \E n \in Names, s \in Sources, to \in Targets(book) : AddCell(n, s, to)
  <2>1. PICK n \in Names, s \in Sources, to \in Targets(book) : AddCell(n, s, to)
    BY <1>1
  <2> QED BY <2>1, AddedIs DEF AddCell, CellsOK
<1>2. CASE \E n \in NamesOf(book), s \in Sources, new \in Names \cup NamesOf(book) : UpdateCell(n, new, s)
  <2>1. PICK n \in NamesOf(book), s \in Sources, new \in Names \cup NamesOf(book) : UpdateCell(n, new, s)
    BY <1>2
  <2> QED BY <2>1, UpdatedIs DEF UpdateCell, CellsOK
<1>3. CASE \E n \in NamesOf(book) : RemoveCell(n)
  <2>1. PICK n \in NamesOf(book) : RemoveCell(n)
    BY <1>3
  <2> QED BY <2>1, RemoveOne DEF RemoveCell, CellsOK
<1>4. CASE \E n \in NamesOf(book), to \in Targets(book) : MoveCell(n, to)
  <2>1. PICK n \in NamesOf(book), to \in Targets(book) : MoveCell(n, to)
    BY <1>4
  <2> QED BY <2>1, MovedIs DEF MoveCell, CellsOK
<1> QED BY <1>1, <1>2, <1>3, <1>4 DEF Edit

LEMMA StartIs == Init => Inv
<1> SUFFICES ASSUME Init PROVE Inv
  OBVIOUS
<1>1. disk \in Notebooks /\ sync = disk /\ book = Named(disk)
  BY NamesAssumption DEF Init
<1>2. book \in Notebooks /\ Good(book)
  BY <1>1, NamedIs
<1>3. DOMAIN files = {} /\ files \in [{} -> Notebooks] /\ undo = <<>> /\ ideal = <<>>
  BY DEF Init
<1>4. Cardinality({}) = 0 /\ MaxSnapshots \in Nat
  BY FS_EmptySet, BoundsAssumption
<1>5. <<>> \in Seq(1..MaxKeys) /\ <<>> \in Seq(Notebooks) /\ DOMAIN <<>> = {}
  OBVIOUS
<1>6. calls \in 0..MaxCalls /\ edits \in 0..MaxEdits /\ steady \in BOOLEAN
  BY BoundsAssumption DEF Init
<1>7. TypeOK
  BY <1>1, <1>2, <1>3, <1>4, <1>5, <1>6 DEF TypeOK
<1>8. StackInv
  BY <1>3, <1>5 DEF StackInv
<1> QED BY <1>2, <1>7, <1>8 DEF Inv

LEMMA StepKeeps == Inv /\ [Next]_vars => Inv'
<1> SUFFICES ASSUME Inv, [Next]_vars PROVE Inv'
  OBVIOUS
<1>1. CellsOK /\ StoreOK /\ StackInv /\ calls \in 0..MaxCalls /\ edits \in 0..MaxEdits /\ steady \in BOOLEAN
  BY DEF Inv, TypeOK, CellsOK, StoreOK
<1>2. ASSUME CellsOK', StoreOK', StackInv', calls' \in 0..MaxCalls, edits' \in 0..MaxEdits, steady' \in BOOLEAN
      PROVE  Inv'
  BY <1>2 DEF Inv, TypeOK, CellsOK, StoreOK
<1>3. ASSUME Call PROVE calls' \in 0..MaxCalls
  BY <1>1, <1>3, BoundsAssumption DEF Call
\* a step that leaves the snapshots alone
<1>4. ASSUME UNCHANGED <<files, undo, ideal, steady>> PROVE StoreOK' /\ StackInv' /\ steady' \in BOOLEAN
  BY <1>1, <1>4 DEF StoreOK, StackInv
\* the directory is read again
<1>5. ASSUME undo' = Sorted(DOMAIN files), UNCHANGED <<files, ideal, steady>>
      PROVE  StoreOK' /\ StackInv' /\ steady' \in BOOLEAN
  <2>1. StoreOK'
    BY <1>1, <1>5, SortedStack DEF StoreOK
  <2>2. StackInv'
    <3> SUFFICES ASSUME steady' PROVE StackInv'
      BY DEF StackInv
    <3>1. undo' = undo
      BY <1>1, <1>5, SortedStack
    <3> QED BY <1>1, <1>5, <3>1 DEF StackInv
  <2> QED BY <1>1, <1>5, <2>1, <2>2
<1>6. ASSUME Snapshot PROVE StoreOK' /\ StackInv' /\ steady' \in BOOLEAN
  BY <1>1, <1>6, SnapshotStore, SnapshotStack DEF CellsOK, Snapshot
\* the file is read again
<1>7. ASSUME book' = Named(disk'), sync' = disk', disk' \in Notebooks PROVE CellsOK'
  BY <1>7, NamedIs DEF CellsOK
<1>8. CASE Edit
  <2>1. PICK new : new \in Notebooks /\ Good(new) /\ Mutate(new)
    BY <1>1, <1>8, EditIs
  <2>2. CellsOK'
    BY <2>1 DEF Mutate, CellsOK
  <2>3. edits' \in 0..MaxEdits
    BY <1>1, <2>1, BoundsAssumption DEF Mutate
  <2> QED BY <1>2, <1>3, <1>6, <2>1, <2>2, <2>3 DEF Mutate
<1>9. CASE TakeSnapshotOnly
  <2>1. CellsOK'
    BY <1>1, <1>7, <1>9 DEF TakeSnapshotOnly, Load, CellsOK
  <2> QED BY <1>1, <1>2, <1>3, <1>6, <1>9, <2>1 DEF TakeSnapshotOnly
<1>10. CASE UndoLast
  <2>1. CellsOK'
    <3>1. CASE Restorable # {} /\ book' = Named(files[undo[Top]]) /\ disk' = book' /\ sync' = book'
      <4>1. files[undo[Top]] \in Notebooks
        BY <1>1, <3>1, TopIs, StoreIs
      <4> QED BY <3>1, <4>1, NamedIs DEF CellsOK
    <3>2. CASE UNCHANGED <<book, disk, sync>>
      BY <1>1, <3>2 DEF CellsOK
    <3> QED BY <1>10, <3>1, <3>2 DEF UndoLast
  <2>2. StoreOK' /\ StackInv'
    BY <1>1, <1>10, UndoStore, UndoStack
  <2>3. Call /\ UNCHANGED <<edits, steady>>
    BY <1>10 DEF UndoLast
  <2> QED BY <1>1, <1>2, <1>3, <2>1, <2>2, <2>3
<1>11. CASE Reload
  <2>1. CellsOK'
    BY <1>1, <1>7, <1>11 DEF Reload, Load, CellsOK
  <2> QED BY <1>1, <1>2, <1>4, <1>11, <2>1 DEF Reload
<1>12. CASE \E b \in Books : EditorSaves(b)
  <2>1. PICK b \in Books : EditorSaves(b)
    BY <1>12
  <2>2. CellsOK'
    BY <1>1, <2>1, NamesAssumption DEF EditorSaves, CellsOK
  <2> QED BY <1>1, <1>2, <1>3, <1>4, <2>1, <2>2 DEF EditorSaves
<1>13. CASE ServerRestarts
  <2>1. CellsOK'
    BY <1>1, <1>7, <1>13 DEF ServerRestarts, Load, CellsOK
  <2> QED BY <1>1, <1>2, <1>5, <1>13, <2>1 DEF ServerRestarts
<1>14. CASE CrashInUndo
  <2>1. files[undo[Top]] \in Notebooks
    BY <1>1, <1>14, TopIs, StoreIs DEF CrashInUndo
  <2>2. CellsOK'
    BY <1>7, <1>14, <2>1 DEF CrashInUndo
  <2> QED BY <1>1, <1>2, <1>3, <1>5, <1>14, <2>2 DEF CrashInUndo
<1>15. CASE UNCHANGED vars
  <2>1. CellsOK'
    BY <1>1, <1>15 DEF vars, CellsOK
  <2> QED BY <1>1, <1>2, <1>4, <1>15, <2>1 DEF vars
<1> QED BY <1>8, <1>9, <1>10, <1>11, <1>12, <1>13, <1>14, <1>15 DEF Next

THEOREM Invariant == Spec => []Inv
BY StartIs, StepKeeps, PTL DEF Spec

----------------------------------------------------------------------------
(* What it is for.                                                         *)

\* Cells, snapshots and the undo stack have their shape, and no more than
\* MAX_SNAPSHOTS snapshots are kept.
THEOREM TypeCorrect == Spec => []TypeOK
BY Invariant, PTL DEF Inv

\* Whatever names files come with and callers give, a name is one cell's.
THEOREM NamesAreUnique == Spec => []NamesIdentify
<1>1. Inv => NamesIdentify
  BY NamedIs DEF Inv, TypeOK, Good, NamesIdentify
<1> QED BY <1>1, Invariant, PTL

\* Undo goes back state by state, over restarts of the server and crashes in
\* undo_last, as long as the clock does not go back.
THEOREM UndoGoesBack == Spec => []UndoIsStack
<1>1. Inv => UndoIsStack
  BY DEF Inv, StackInv, UndoIsStack
<1> QED BY <1>1, Invariant, PTL

\* A tool that changes a cell leaves the others, and their order, alone.
THEOREM ChangesAreLocal == Spec => ChangesOneCell
<1>1. ASSUME Inv, NEW n \in Names, NEW s \in Sources, NEW to \in Targets(book), AddCell(n, s, to)
      PROVE  IsAt(book', n, to) /\ Others(book', n) = Others(book, n)
  BY <1>1, AddedIs DEF Inv, TypeOK, AddCell, Mutate
<1>2. ASSUME Inv, NEW n \in NamesOf(book), NEW to \in Targets(book), MoveCell(n, to)
      PROVE  IsAt(book', n, to) /\ Others(book', n) = Others(book, n)
  BY <1>2, MovedIs DEF Inv, TypeOK, MoveCell, Mutate
<1>3. ASSUME Inv, NEW n \in NamesOf(book), NEW s \in Sources, NEW new \in Names \cup NamesOf(book),
             UpdateCell(n, new, s)
      PROVE  Others(book', new) = Others(book, n)
  BY <1>3, UpdatedIs DEF Inv, TypeOK, UpdateCell, Mutate
<1>4. ASSUME Inv, NEW n \in NamesOf(book), RemoveCell(n)
      PROVE  n \notin NamesOf(book') /\ Others(book', n) = Others(book, n)
  BY <1>4, RemoveOne DEF Inv, TypeOK, RemoveCell, Mutate
<1> DEFINE Local ==
      /\ \A n \in Names, s \in Sources, to \in Targets(book) :
           AddCell(n, s, to) => IsAt(book', n, to) /\ Others(book', n) = Others(book, n)
      /\ \A n \in NamesOf(book), to \in Targets(book) :
           MoveCell(n, to) => IsAt(book', n, to) /\ Others(book', n) = Others(book, n)
      /\ \A n \in NamesOf(book), s \in Sources, new \in Names \cup NamesOf(book) :
           UpdateCell(n, new, s) => Others(book', new) = Others(book, n)
      /\ \A n \in NamesOf(book) : RemoveCell(n) => n \notin NamesOf(book') /\ Others(book', n) = Others(book, n)
<1>5. Inv => [Local]_vars
  BY <1>1, <1>2, <1>3, <1>4
<1>6. ChangesOneCell <=> [][Local]_vars
  BY DEF ChangesOneCell
<1> HIDE DEF Local
<1> QED BY <1>5, <1>6, Invariant, PTL
================================================================================
