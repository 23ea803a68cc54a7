---------------------------- MODULE StalenessProofs ---------------------------
(***************************************************************************)
(* A default run makes everything fresh, and what reads as fresh has read  *)
(* the latest value of all it uses that one cell alone writes (Sole),      *)
(* whatever was edited between the runs and whatever the worker did while  *)
(* run() chose its cells, for any number of cells, variables and sources.  *)
(***************************************************************************)
EXTENDS Staleness, SequenceTheorems, FiniteSetTheorems, WellFoundedInduction, TLAPS

----------------------------------------------------------------------------
(* The inductive invariant.                                                *)

Newest(p, rev) == [cell |-> p, rev |-> rev, latest |-> TRUE]

\* c uses what p writes.
Feeds(p, c) == \E v \in Vars : <<v, p>> \in Deps(c)

IsRunning(c) == running # NoTask /\ running.cell = c
Waits(c) == \E k \in DOMAIN batches : \E j \in DOMAIN batches[k] : batches[k][j].cell = c
InQueue(c) == IsRunning(c) \/ Waits(c)

Computed(p) == stamp[p] # NoStamp /\ stamp[p].rev = src[p]

\* A stamp tells of cells of this notebook that have been there.
StampInv ==
  \A c \in Cells : stamp[c] # NoStamp =>
    /\ c \notin unused /\ stamp[c].rev \in SourcesOf[c]
    /\ \A d \in stamp[c].deps : d[2] \notin unused

\* Nobody edits while there are tasks.
TasksInv ==
  /\ \A k \in DOMAIN batches : \A j \in DOMAIN batches[k] :
       batches[k][j].cell \in Present /\ batches[k][j].rev = src[batches[k][j].cell]
  /\ running # NoTask => running.cell \in Present /\ running.rev = src[running.cell]

\* Behind a cell its batch has all the cells that use what it writes.
FollowInv ==
  /\ \A k \in DOMAIN batches : \A j \in DOMAIN batches[k] : \A p, c \in Present :
       batches[k][j].cell = p /\ Feeds(p, c) =>
         \E i \in DOMAIN batches[k] : i > j /\ batches[k][i].cell = c
  /\ \A p, c \in Present : IsRunning(p) /\ Feeds(p, c) =>
       batches # <<>> /\ \E i \in DOMAIN batches[1] : batches[1][i].cell = c

\* What a cell uses is computed before it.
LeadInv ==
  /\ \A k \in DOMAIN batches : \A j \in DOMAIN batches[k] : \A p, c \in Present :
       batches[k][j].cell = c /\ Feeds(p, c) =>
         Computed(p) \/ IsRunning(p) \/ \E i \in DOMAIN batches[k] : i < j /\ batches[k][i].cell = p
  /\ \A p, c \in Present : IsRunning(c) /\ Feeds(p, c) => Computed(p)

\* What is not to be run is fresh.
RestInv == Busy => \A c \in Present : ~InQueue(c) => Matches(c)

\* What run() has chosen takes all that uses it along, and what serves it is
\* chosen as well, computed, or in the kernel; the rest is fresh or queued.
WantedInv == wanted # {} =>
  /\ \A p, c \in Present : p \in wanted /\ Feeds(p, c) => c \in wanted
  /\ \A p, c \in Present : p \notin wanted /\ c \in wanted /\ Feeds(p, c) => Computed(p) \/ IsRunning(p)
  /\ \A c \in Present : c \in wanted \/ Matches(c) \/ InQueue(c)

\* A cell's stamp tells what the variables hold that it alone writes.
ValueInv ==
  \A p \in Cells : stamp[p] # NoStamp =>
    \A v \in Writes[stamp[p].rev] : Sole(v) => value[v] = Newest(p, stamp[p].rev)

\* It tells as well what the cell has read.
SeenInv ==
  \A c \in Present : stamp[c] # NoStamp /\ ~InQueue(c) =>
    \A d \in stamp[c].deps : d[2] \in Present =>
      stamp[d[2]] # NoStamp /\ (Sole(d[1]) => seen[c][d[1]] = Newest(d[2], stamp[d[2]].rev))

Queued  == TasksInv /\ FollowInv /\ LeadInv /\ RestInv /\ WantedInv
Tracked == ValueInv /\ SeenInv

QueueInv == TypeOK /\ StampInv /\ (disturbed = "no" => Queued)
CalmInv  == QueueInv /\ (disturbed = "no" => Tracked)

----------------------------------------------------------------------------
(* The graph.                                                              *)

\* Every set of numbers has a least one.
LEMMA LeastNumber ==
  ASSUME NEW S, S \subseteq Nat, S # {}
  PROVE  \E m \in S : \A k \in S : m <= k
<1>1. PICK R : R = OpToRel(<, Nat)
  OBVIOUS
<1>2. \A y \in Nat, x \in Nat : y < x => <<y, x>> \in R
  BY <1>1 DEF OpToRel
<1>3. IsWellFoundedOn(R, Nat)
  BY <1>1, NatLessThanWellFounded
<1>4. PICK x \in S : \A y \in S : ~ (<<y, x>> \in R)
  BY <1>3, WFMin
<1>5. \A y \in S : ~(y < x)
  BY <1>2, <1>4
<1> QED BY <1>5

\* A bounded one has a greatest.
LEMMA LatestIn ==
  ASSUME NEW n \in Nat, NEW J, J \subseteq 1..n, J # {}
  PROVE  Latest(J) \in J
<1> DEFINE S == {n - j : j \in J}
<1>1. S \subseteq Nat /\ S # {}
  <2>1. \A j \in J : n - j \in Nat
    OBVIOUS
  <2> QED BY <2>1
<1>2. PICK m \in S : \A k \in S : m <= k
  BY <1>1, LeastNumber
<1>3. PICK j \in J : m = n - j
  BY <1>2
<1>4. \A k \in J : k <= j
  BY <1>2, <1>3
<1> QED BY <1>4 DEF Latest

\* The position of a cell.
LEMMA PositionIs ==
  ASSUME TypeOK, NEW i \in DOMAIN order PROVE Position(order[i]) = i
BY DEF TypeOK, Position

LEMMA PresentIs ==
  ASSUME TypeOK, NEW c \in Present
  PROVE  /\ c \in Cells /\ c \notin unused
         /\ Position(c) \in DOMAIN order /\ order[Position(c)] = c
         /\ DOMAIN order = 1..Len(order) /\ Len(order) \in Nat
<1>1. order \in Seq(Cells) /\ unused \subseteq Cells \ Present
  BY DEF TypeOK
<1>2. PICK i \in DOMAIN order : order[i] = c
  BY DEF Present
<1>3. Position(c) = i
  BY <1>2, PositionIs
<1> QED BY <1>1, <1>2, <1>3, ElementOfSeq, LenProperties

\* A provider is a cell further up that writes the variable.
LEMMA DepsAre ==
  ASSUME TypeOK, NEW c \in Present, NEW d \in Deps(c)
  PROVE  /\ d = <<d[1], d[2]>> /\ d[1] \in Vars /\ d[1] \in Uses[src[c]]
         /\ d[2] \in Present /\ d[1] \in Writes[src[d[2]]]
         /\ Position(d[2]) < Position(c) /\ d[2] # c
<1> DEFINE uses == Find(Uses)
           writes == Find(Writes)
           n == Position(c)
<1>1. /\ n \in DOMAIN order /\ order[n] = c /\ DOMAIN order = 1..Len(order) /\ Len(order) \in Nat
      /\ uses[n] = Uses[src[c]]
  BY PresentIs DEF Find
<1>2. PICK v \in uses[n] : /\ Candidates(writes, {}, n, v) # {}
                           /\ d = <<v, order[Latest(Candidates(writes, {}, n, v))]>>
  BY DEF Deps, ParentsOf
<1> DEFINE J == Writers(writes, n, v)
           j == Latest(J)
<1>3. Candidates(writes, {}, n, v) = J /\ J # {}
  BY <1>2 DEF Candidates, Wildcards
<1>4. J \subseteq 1..n - 1 /\ n - 1 \in Nat
  BY <1>1 DEF Writers
<1>5. j \in J
  BY <1>3, <1>4, LatestIn
<1>6. j \in DOMAIN order /\ j < n /\ v \in writes[j]
  BY <1>1, <1>4, <1>5 DEF Writers
<1>7. d[1] = v /\ d[2] = order[j] /\ d = <<d[1], d[2]>>
  BY <1>2, <1>3
<1>8. Position(order[j]) = j /\ order[j] \in Present /\ writes[j] = Writes[src[order[j]]]
  BY <1>6, PositionIs DEF Present, Find
<1>9. v \in Vars
  <2>1. c \in Cells
    BY PresentIs
  <2>2. src[c] \in Sources
    BY <2>1 DEF TypeOK
  <2> QED BY <1>1, <2>2, SourcesAssumption
<1> HIDE DEF j
<1>10. Position(d[2]) < Position(c)
  BY <1>6, <1>7, <1>8
<1> QED BY <1>1, <1>2, <1>6, <1>7, <1>8, <1>9, <1>10

\* The set Reach chooses is there.
LEMMA ReachIs ==
  ASSUME NEW E, NEW All, NEW S \in SUBSET All, \A e \in E : e[1] \in All => e[2] \in All
  PROVE  /\ Reach(E, S, All) \in SUBSET All /\ S \subseteq Reach(E, S, All)
         /\ \A e \in E : e[1] \in Reach(E, S, All) => e[2] \in Reach(E, S, All)
         /\ \A T \in SUBSET All :
              S \subseteq T /\ (\A e \in E : e[1] \in T => e[2] \in T) => Reach(E, S, All) \subseteq T
<1> DEFINE Closed(T) == S \subseteq T /\ \A e \in E : e[1] \in T => e[2] \in T
           R == {x \in All : \A T \in SUBSET All : Closed(T) => x \in T}
           Is(Q) == Closed(Q) /\ \A T \in SUBSET All : Closed(T) => Q \subseteq T
<1>1. R \in SUBSET All /\ Is(R)
  OBVIOUS
<1>2. Reach(E, S, All) = CHOOSE Q \in SUBSET All : Is(Q)
  BY DEF Reach
<1> HIDE DEF R, Is
<1>3. Reach(E, S, All) \in SUBSET All /\ Is(Reach(E, S, All))
  BY <1>1, <1>2
<1> QED BY <1>3 DEF Is

\* What is stale: what does not match and all that uses what it writes.
LEMMA StaleIs ==
  ASSUME TypeOK
  PROVE  /\ Stale \subseteq Present
         /\ \A c \in Present : ~Matches(c) => c \in Stale
         /\ \A c \in Present, p \in Stale : Feeds(p, c) => c \in Stale
         /\ (\A c \in Present : Matches(c)) => Stale = {}
<1>1. \A e \in Edges : e[1] \in Present /\ e[2] \in Present
  <2> SUFFICES ASSUME NEW c \in Present, NEW d \in Deps(c) PROVE d[2] \in Present
    BY DEF Edges
  <2> QED BY DepsAre
<1>2. \A c \in Present, p \in Present : Feeds(p, c) => <<p, c>> \in Edges
  <2> SUFFICES ASSUME NEW c \in Present, NEW p, NEW v \in Vars, <<v, p>> \in Deps(c)
               PROVE  <<p, c>> \in Edges
    BY DEF Feeds
  <2>1. <<p, c>> \in {<<d[2], c>> : d \in Deps(c)}
    OBVIOUS
  <2> QED BY <2>1 DEF Edges
<1> DEFINE S == {c \in Present : ~Matches(c)}
<1>3. S \in SUBSET Present
  OBVIOUS
<1>4. Stale = Reach(Edges, S, Present)
  BY DEF Stale
<1> HIDE DEF S
<1>5. /\ Stale \in SUBSET Present /\ S \subseteq Stale
      /\ \A e \in Edges : e[1] \in Stale => e[2] \in Stale
      /\ \A T \in SUBSET Present : S \subseteq T /\ (\A e \in Edges : e[1] \in T => e[2] \in T) => Stale \subseteq T
  BY <1>1, <1>3, <1>4, ReachIs
<1>6. ASSUME NEW c \in Present, NEW p \in Stale, Feeds(p, c) PROVE c \in Stale
  <2>1. <<p, c>> \in Edges
    BY <1>2, <1>5, <1>6
  <2> QED BY <1>5, <2>1
<1>7. S = {} => Stale = {}
  BY <1>5
<1> QED BY <1>5, <1>6, <1>7 DEF S

----------------------------------------------------------------------------
(* Types.                                                                  *)

\* The cells of a batch.
LEMMA OrderedAre ==
  ASSUME TypeOK, NEW S, S \subseteq Present, S # {}, NEW names \in Ordered(S)
  PROVE  /\ names \in Seq(Cells) /\ names # <<>>
         /\ \A i \in DOMAIN names : names[i] \in S
         /\ \A c \in S : \E i \in DOMAIN names : names[i] = c
         /\ \A i, j \in DOMAIN names : i < j => Position(names[i]) < Position(names[j])
         /\ DOMAIN names = 1..Len(names) /\ Len(names) \in Nat
<1>1. Present \subseteq Cells
  BY PresentIs
<1>2. IsFiniteSet(S)
  BY <1>1, SourcesAssumption, FS_Subset
<1>3. Cardinality(S) \in Nat
  BY <1>2, FS_CardinalityType
<1>4. /\ names \in [1..Cardinality(S) -> S]
      /\ \A c \in S : \E i \in DOMAIN names : names[i] = c
      /\ \A i, j \in DOMAIN names : i < j => Position(names[i]) < Position(names[j])
  BY DEF Ordered
<1>5. names \in Seq(S)
  BY <1>3, <1>4, SeqDef
<1>6. names \in [1..Cardinality(S) -> Cells]
  BY <1>1, <1>4
<1>7. names \in Seq(Cells)
  BY <1>3, <1>6, SeqDef
<1>8. names # <<>>
  <2>1. PICK c \in S : TRUE
    OBVIOUS
  <2>2. PICK i \in DOMAIN names : names[i] = c
    BY <1>4, <2>1
  <2>3. DOMAIN names # {}
    BY <2>2
  <2> QED BY <1>7, <2>3, EmptySeq, LenProperties
<1> QED BY <1>4, <1>7, <1>8, LenProperties

\* A sequence with one element more, and with one less.
LEMMA Inserted ==
  ASSUME NEW S, NEW s \in Seq(S), NEW c \in S, NEW i \in 0..Len(s)
  PROVE  /\ InsertAt(s, c, i) \in Seq(S) /\ Len(InsertAt(s, c, i)) = Len(s) + 1
         /\ \A j \in 1..Len(s) + 1 :
              InsertAt(s, c, i)[j] = IF j <= i THEN s[j] ELSE IF j = i + 1 THEN c ELSE s[j - 1]
<1> DEFINE a == SubSeq(s, 1, i)
           b == SubSeq(s, i + 1, Len(s))
           d == a \o <<c>>
<1>1. Len(s) \in Nat /\ i \in Nat /\ \A j \in 1..Len(s) : s[j] \in S
  BY LenProperties, ElementOfSeq
<1>2. /\ a \in Seq(S) /\ Len(a) = i
      /\ \A j \in 1..i : a[j] = s[j]
  BY <1>1, SubSeqProperties
<1>3. /\ b \in Seq(S) /\ Len(b) = Len(s) - i
      /\ \A j \in 1..Len(s) - i : b[j] = s[i + j]
  <2>1. \A j \in i + 1..Len(s) : s[j] \in S
    BY <1>1
  <2>2. b \in Seq(S)
    BY <1>1, <2>1, SubSeqProperties
  <2>3. Len(b) = Len(s) - i
    BY <1>1, SubSeqProperties
  <2>4. \A j \in 1..Len(s) - i : b[j] = s[i + j]
    BY <1>1, SubSeqProperties
  <2> QED BY <2>2, <2>3, <2>4
<1>4. <<c>> \in Seq(S) /\ Len(<<c>>) = 1 /\ <<c>>[1] = c
  OBVIOUS
<1> HIDE DEF a, b
<1>5. /\ d \in Seq(S) /\ Len(d) = i + 1
      /\ \A j \in 1..i + 1 : d[j] = IF j <= i THEN a[j] ELSE c
  <2> DEFINE e == <<c>>
  <2> HIDE DEF e
  <2>1. e \in Seq(S) /\ Len(e) = 1 /\ e[1] = c
    BY <1>4 DEF e
  <2>2. /\ a \o e \in Seq(S) /\ Len(a \o e) = Len(a) + Len(e)
        /\ \A j \in 1..Len(a) + Len(e) : (a \o e)[j] = IF j <= Len(a) THEN a[j] ELSE e[j - Len(a)]
    BY <1>2, <2>1, ConcatProperties
  <2>3. \A j \in 1..i + 1 : j <= i \/ j - i = 1
    BY <1>1
  <2> QED BY <1>1, <1>2, <2>1, <2>2, <2>3 DEF e
<1>6. InsertAt(s, c, i) = d \o b
  BY DEF InsertAt, a, b
<1> HIDE DEF d
<1>7. /\ d \o b \in Seq(S) /\ Len(d \o b) = Len(s) + 1
      /\ \A j \in 1..Len(s) + 1 : (d \o b)[j] = IF j <= i + 1 THEN d[j] ELSE b[j - (i + 1)]
  BY <1>1, <1>3, <1>5, ConcatProperties
<1>8. ASSUME NEW j \in 1..Len(s) + 1
      PROVE  (d \o b)[j] = IF j <= i THEN s[j] ELSE IF j = i + 1 THEN c ELSE s[j - 1]
  <2>1. CASE j <= i
    <3>1. j \in 1..i /\ j \in 1..i + 1 /\ j <= i + 1
      BY <1>1, <2>1
    <3> QED BY <1>2, <1>5, <1>7, <2>1, <3>1
  <2>2. CASE j = i + 1
    <3>1. j \in 1..i + 1 /\ ~(j <= i) /\ j <= i + 1
      BY <1>1, <2>2
    <3> QED BY <1>5, <1>7, <2>2, <3>1
  <2>3. CASE j > i + 1
    <3>1. /\ ~(j <= i) /\ j # i + 1 /\ ~(j <= i + 1) /\ j - (i + 1) \in 1..Len(s) - i
          /\ i + (j - (i + 1)) = j - 1
      BY <1>1, <2>3
    <3> QED BY <1>3, <1>7, <3>1
  <2>4. j <= i \/ j = i + 1 \/ j > i + 1
    BY <1>1
  <2> QED BY <2>1, <2>2, <2>3, <2>4
<1> QED BY <1>6, <1>7, <1>8

LEMMA Removed ==
  ASSUME NEW S, NEW s \in Seq(S), NEW k \in 1..Len(s)
  PROVE  LET r == SubSeq(s, 1, k - 1) \o SubSeq(s, k + 1, Len(s))
         IN  /\ r \in Seq(S) /\ Len(r) = Len(s) - 1
             /\ \A j \in 1..Len(s) - 1 : r[j] = IF j < k THEN s[j] ELSE s[j + 1]
<1> DEFINE a == SubSeq(s, 1, k - 1)
           b == SubSeq(s, k + 1, Len(s))
<1>1. Len(s) \in Nat /\ k \in Nat \ {0} /\ \A j \in 1..Len(s) : s[j] \in S
  BY LenProperties, ElementOfSeq
<1>2. /\ a \in Seq(S) /\ Len(a) = k - 1
      /\ \A j \in 1..k - 1 : a[j] = s[j]
  <2>1. \A j \in 1..k - 1 : s[j] \in S
    BY <1>1
  <2>2. a \in Seq(S)
    BY <1>1, <2>1, SubSeqProperties
  <2>3. Len(a) = k - 1
    BY <1>1, SubSeqProperties
  <2>4. \A j \in 1..k - 1 : a[j] = s[j]
    BY <1>1, SubSeqProperties
  <2> QED BY <2>2, <2>3, <2>4
<1>3. /\ b \in Seq(S) /\ Len(b) = Len(s) - k
      /\ \A j \in 1..Len(s) - k : b[j] = s[k + j]
  <2>1. \A j \in k + 1..Len(s) : s[j] \in S
    BY <1>1
  <2>2. b \in Seq(S)
    BY <1>1, <2>1, SubSeqProperties
  <2>3. Len(b) = Len(s) - k
    BY <1>1, SubSeqProperties
  <2>4. \A j \in 1..Len(s) - k : b[j] = s[k + j]
    BY <1>1, SubSeqProperties
  <2> QED BY <2>2, <2>3, <2>4
<1> HIDE DEF a, b
<1>4. /\ a \o b \in Seq(S) /\ Len(a \o b) = Len(s) - 1
      /\ \A j \in 1..Len(s) - 1 : (a \o b)[j] = IF j <= k - 1 THEN a[j] ELSE b[j - (k - 1)]
  <2>1. /\ a \o b \in Seq(S) /\ Len(a \o b) = Len(a) + Len(b)
        /\ \A j \in 1..Len(a) + Len(b) : (a \o b)[j] = IF j <= Len(a) THEN a[j] ELSE b[j - Len(a)]
    BY <1>2, <1>3, ConcatProperties
  <2>2. Len(a) + Len(b) = Len(s) - 1 /\ Len(a) = k - 1
    BY <1>1, <1>2, <1>3
  <2> QED BY <2>1, <2>2
<1>5. ASSUME NEW j \in 1..Len(s) - 1 PROVE (a \o b)[j] = IF j < k THEN s[j] ELSE s[j + 1]
  <2>1. CASE j < k
    <3>1. j \in 1..k - 1 /\ j <= k - 1
      BY <1>1, <2>1
    <3> QED BY <1>2, <1>4, <2>1, <3>1
  <2>2. CASE ~(j < k)
    <3>1. ~(j <= k - 1) /\ j - (k - 1) \in 1..Len(s) - k /\ k + (j - (k - 1)) = j + 1
      BY <1>1, <2>2
    <3> QED BY <1>3, <1>4, <2>2, <3>1
  <2> QED BY <2>1, <2>2
<1> QED BY <1>4, <1>5 DEF a, b

\* The notebook's cells are in an order, each once.
LEMMA OrderIs ==
  ASSUME TypeOK
  PROVE  /\ order \in Seq(Cells) /\ Len(order) \in Nat /\ DOMAIN order = 1..Len(order)
         /\ \A i, j \in 1..Len(order) : order[i] = order[j] => i = j
         /\ \A i \in 1..Len(order) : order[i] \in Present /\ order[i] \in Cells
BY LenProperties, ElementOfSeq DEF TypeOK, Present

\* What add_cell makes of the order.
LEMMA AddedOrder ==
  ASSUME NEW s \in Seq(Cells), \A i, j \in DOMAIN s : s[i] = s[j] => i = j,
         NEW c \in Cells, \A i \in DOMAIN s : s[i] # c, NEW i \in 0..Len(s)
  PROVE  LET r == InsertAt(s, c, i)
         IN  /\ r \in Seq(Cells) /\ \A j, k \in DOMAIN r : r[j] = r[k] => j = k
             /\ {r[j] : j \in DOMAIN r} = {s[j] : j \in DOMAIN s} \cup {c}
<1> DEFINE r == InsertAt(s, c, i)
<1>1. /\ r \in Seq(Cells) /\ Len(r) = Len(s) + 1
      /\ \A j \in 1..Len(s) + 1 : r[j] = IF j <= i THEN s[j] ELSE IF j = i + 1 THEN c ELSE s[j - 1]
  <2> HIDE DEF r
  <2>1. s \in Seq(Cells) /\ c \in Cells /\ i \in 0..Len(s)
    OBVIOUS
  <2>2. /\ InsertAt(s, c, i) \in Seq(Cells) /\ Len(InsertAt(s, c, i)) = Len(s) + 1
        /\ \A j \in 1..Len(s) + 1 :
             InsertAt(s, c, i)[j] = IF j <= i THEN s[j] ELSE IF j = i + 1 THEN c ELSE s[j - 1]
    BY <2>1, Inserted
  <2>3. r = InsertAt(s, c, i)
    BY DEF r
  <2> QED BY <2>2, <2>3
<1> HIDE DEF r
<1>2. Len(s) \in Nat /\ DOMAIN s = 1..Len(s) /\ DOMAIN r = 1..Len(s) + 1 /\ i \in Nat
  BY <1>1, LenProperties
<1>3. ASSUME NEW j \in DOMAIN r
      PROVE  \/ j = i + 1 /\ r[j] = c
             \/ \E k \in DOMAIN s : r[j] = s[k] /\ j = IF k <= i THEN k ELSE k + 1
  <2>1. CASE j <= i
    <3>1. j \in DOMAIN s
      BY <1>2, <2>1
    <3> QED BY <1>1, <1>2, <2>1, <3>1
  <2>2. CASE j = i + 1
    <3>1. ~(j <= i)
      BY <1>2, <2>2
    <3> QED BY <1>1, <1>2, <2>2, <3>1
  <2>3. CASE ~(j <= i) /\ j # i + 1
    <3>1. j - 1 \in DOMAIN s /\ ~(j - 1 <= i) /\ j = j - 1 + 1
      BY <1>2, <2>3
    <3> QED BY <1>1, <1>2, <2>3, <3>1
  <2> QED BY <2>1, <2>2, <2>3
<1>4. ASSUME NEW k \in DOMAIN s PROVE \E j \in DOMAIN r : r[j] = s[k]
  <2>1. CASE k <= i
    <3>1. k \in DOMAIN r
      BY <1>2
    <3> QED BY <1>1, <1>2, <2>1, <3>1
  <2>2. CASE ~(k <= i)
    <3>1. k + 1 \in DOMAIN r /\ ~(k + 1 <= i) /\ k + 1 # i + 1 /\ k + 1 - 1 = k
      BY <1>2, <2>2
    <3>2. r[k + 1] = s[k + 1 - 1]
      BY <1>1, <1>2, <3>1
    <3> QED BY <3>1, <3>2
  <2> QED BY <2>1, <2>2
<1>5. \E j \in DOMAIN r : r[j] = c
  <2>1. i + 1 \in DOMAIN r /\ ~(i + 1 <= i)
    BY <1>2
  <2> QED BY <1>1, <1>2, <2>1
<1>6. \A j, k \in DOMAIN r : r[j] = r[k] => j = k
  BY <1>2, <1>3
<1>7. {r[j] : j \in DOMAIN r} = {s[j] : j \in DOMAIN s} \cup {c}
  BY <1>3, <1>4, <1>5
<1> QED BY <1>1, <1>6, <1>7 DEF r

\* What remove_cell makes of it.
LEMMA RemovedOrder ==
  ASSUME TypeOK, NEW c \in Present
  PROVE  /\ Without(c) \in Seq(Cells) /\ Len(Without(c)) = Len(order) - 1
         /\ \A j, k \in DOMAIN Without(c) : Without(c)[j] = Without(c)[k] => j = k
         /\ {Without(c)[j] : j \in DOMAIN Without(c)} = Present \ {c}
<1> DEFINE r == Without(c)
           n == Position(c)
<1>1. /\ order \in Seq(Cells) /\ Len(order) \in Nat /\ DOMAIN order = 1..Len(order)
      /\ \A i, j \in 1..Len(order) : order[i] = order[j] => i = j
  BY OrderIs
<1>2. n \in 1..Len(order) /\ order[n] = c
  BY PresentIs, <1>1
<1>3. /\ r \in Seq(Cells) /\ Len(r) = Len(order) - 1
      /\ \A j \in 1..Len(order) - 1 : r[j] = IF j < n THEN order[j] ELSE order[j + 1]
  BY <1>1, <1>2, Removed DEF Without
<1> HIDE DEF r, n
<1>4. DOMAIN r = 1..Len(order) - 1
  BY <1>3, LenProperties
<1>5. ASSUME NEW j \in DOMAIN r
      PROVE  \E k \in 1..Len(order) : r[j] = order[k] /\ k # n /\ k = IF j < n THEN j ELSE j + 1
  <2>1. CASE j < n
    <3>1. j \in 1..Len(order) /\ j # n
      BY <1>1, <1>2, <1>4, <2>1
    <3> QED BY <1>3, <1>4, <2>1, <3>1
  <2>2. CASE ~(j < n)
    <3>1. j + 1 \in 1..Len(order) /\ j + 1 # n
      BY <1>1, <1>2, <1>4, <2>2
    <3> QED BY <1>3, <1>4, <2>2, <3>1
  <2> QED BY <2>1, <2>2
<1>6. ASSUME NEW k \in 1..Len(order), k # n PROVE \E j \in DOMAIN r : r[j] = order[k]
  <2>1. CASE k < n
    <3>1. k \in DOMAIN r
      BY <1>1, <1>2, <1>4, <2>1
    <3> QED BY <1>3, <1>4, <2>1, <3>1
  <2>2. CASE ~(k < n)
    <3>1. k - 1 \in DOMAIN r /\ ~(k - 1 < n) /\ k - 1 + 1 = k
      BY <1>1, <1>2, <1>4, <1>6, <2>2
    <3>2. r[k - 1] = order[k - 1 + 1]
      BY <1>3, <1>4, <3>1
    <3> QED BY <3>1, <3>2
  <2> QED BY <2>1, <2>2
<1>7. \A j, k \in DOMAIN r : r[j] = r[k] => j = k
  <2> SUFFICES ASSUME NEW j \in DOMAIN r, NEW k \in DOMAIN r, r[j] = r[k] PROVE j = k
    OBVIOUS
  <2>1. PICK a \in 1..Len(order) : r[j] = order[a] /\ a = IF j < n THEN j ELSE j + 1
    BY <1>5
  <2>2. PICK b \in 1..Len(order) : r[k] = order[b] /\ b = IF k < n THEN k ELSE k + 1
    BY <1>5
  <2>3. a = b
    BY <1>1, <2>1, <2>2
  <2>4. j \in Nat /\ k \in Nat /\ n \in Nat
    BY <1>1, <1>2, <1>4
  <2> QED BY <2>1, <2>2, <2>3, <2>4
<1>8. {r[j] : j \in DOMAIN r} = Present \ {c}
  <2>1. ASSUME NEW j \in DOMAIN r PROVE r[j] \in Present /\ r[j] # c
    <3>1. PICK k \in 1..Len(order) : r[j] = order[k] /\ k # n
      BY <1>5
    <3> QED BY <1>1, <1>2, <3>1 DEF Present
  <2>2. ASSUME NEW d \in Present, d # c PROVE \E j \in DOMAIN r : r[j] = d
    <3>1. PICK k \in 1..Len(order) : order[k] = d
      BY <1>1 DEF Present
    <3> QED BY <1>2, <1>6, <2>2, <3>1
  <2> QED BY <2>1, <2>2
<1> QED BY <1>3, <1>7, <1>8 DEF r

LEMMA InitType == Init => TypeOK /\ StampInv
<1> SUFFICES ASSUME Init PROVE TypeOK /\ StampInv
  OBVIOUS
<1>1. PICK n \in 1..Cardinality(Cells) : order \in [1..n -> Cells] /\ \A i, j \in 1..n : order[i] = order[j] => i = j
  BY DEF Init
<1>2. n \in Nat
  <2>1. Cardinality(Cells) \in Nat
    BY SourcesAssumption, FS_CardinalityType
  <2> QED BY <2>1
<1>3. order \in Seq(Cells) /\ DOMAIN order = 1..n
  BY <1>1, <1>2, SeqDef
<1>4. /\ src \in [Cells -> Sources] /\ \A c \in Cells : src[c] \in SourcesOf[c]
      /\ unused = Cells \ Present /\ stamp = [c \in Cells |-> NoStamp]
      /\ running = NoTask /\ batches = <<>> /\ wanted = {} /\ disturbed = "no"
      /\ value = [v \in Vars |-> Unset] /\ seen = [c \in Cells |-> [v \in Vars |-> Unset]]
  BY DEF Init
<1>5. batches \in Seq(Seq(Tasks) \ {<<>>})
  BY <1>4, EmptySeq
<1>6. TypeOK
  BY <1>1, <1>3, <1>4, <1>5 DEF TypeOK
<1> QED BY <1>4, <1>6 DEF StampInv

\* An edit that leaves a notebook leaves the stamps alone.
LEMMA EditedType ==
  ASSUME TypeOK, StampInv, Edited, stamp' = stamp, unused' \subseteq unused \ Present',
         order' \in Seq(Cells), \A i, j \in DOMAIN order' : order'[i] = order'[j] => i = j,
         src' \in [Cells -> Sources], \A c \in Cells : src'[c] \in SourcesOf[c]
  PROVE  TypeOK' /\ StampInv'
<1>1. UNCHANGED <<running, batches, wanted, value, seen>> /\ disturbed' \in {"no", "yes"}
  BY DEF Edited, exec, kernel, TypeOK
<1>2. TypeOK'
  BY <1>1 DEF TypeOK
<1> QED BY <1>2 DEF StampInv

LEMMA EditType ==
  ASSUME TypeOK, StampInv, EditStep
  PROVE  /\ TypeOK' /\ StampInv' /\ Edited /\ stamp' = stamp
         /\ unused' \subseteq unused /\ Present' \subseteq Present \cup unused
<1>1. PICK c \in Cells :
        \/ \E s \in Sources : UpdateCell(c, s)
        \/ \E i \in 0..Len(order) : AddCell(c, i) \/ MoveCell(c, i)
        \/ RemoveCell(c)
  BY DEF EditStep
<1>2. /\ order \in Seq(Cells) /\ \A i, j \in DOMAIN order : order[i] = order[j] => i = j
      /\ unused \subseteq Cells \ Present
      /\ src \in [Cells -> Sources] /\ \A d \in Cells : src[d] \in SourcesOf[d]
  BY DEF TypeOK
<1>3. CASE \E s \in Sources : UpdateCell(c, s)
  <2>1. PICK s \in Sources : UpdateCell(c, s)
    BY <1>3
  <2>2. /\ Edited /\ stamp' = stamp /\ order' = order /\ unused' = unused
        /\ s \in SourcesOf[c] /\ src' = [src EXCEPT ![c] = s] /\ Present' = Present
    BY <2>1 DEF UpdateCell, Present
  <2>3. src' \in [Cells -> Sources] /\ \A d \in Cells : src'[d] \in SourcesOf[d]
    BY <1>2, <2>2
  <2>4. TypeOK' /\ StampInv'
    BY <1>2, <2>2, <2>3, EditedType
  <2> QED BY <2>2, <2>4
<1>4. ASSUME NEW i \in 0..Len(order), AddCell(c, i)
      PROVE  /\ TypeOK' /\ StampInv' /\ Edited /\ stamp' = stamp
             /\ unused' \subseteq unused /\ Present' \subseteq Present \cup unused
  <2>1. /\ Edited /\ stamp' = stamp /\ src' = src /\ unused' = unused \ {c} /\ c \in unused
        /\ order' = InsertAt(order, c, i)
    BY <1>4 DEF AddCell
  <2>2. \A j \in DOMAIN order : order[j] # c
    BY <1>2, <2>1 DEF Present
  <2>3. /\ order' \in Seq(Cells) /\ \A j, k \in DOMAIN order' : order'[j] = order'[k] => j = k
        /\ Present' = Present \cup {c}
    <3> DEFINE r == InsertAt(order, c, i)
    <3> HIDE DEF r
    <3>1. /\ r \in Seq(Cells) /\ \A j, k \in DOMAIN r : r[j] = r[k] => j = k
          /\ {r[j] : j \in DOMAIN r} = {order[j] : j \in DOMAIN order} \cup {c}
      BY <1>2, <2>2, AddedOrder DEF r
    <3>2. order' = r
      BY <2>1 DEF r
    <3>3. Present' = {r[j] : j \in DOMAIN r} /\ Present = {order[j] : j \in DOMAIN order}
      BY <3>2 DEF Present
    <3> QED BY <3>1, <3>2, <3>3
  <2>4. TypeOK' /\ StampInv'
    BY <1>2, <2>1, <2>3, EditedType
  <2> QED BY <2>1, <2>3, <2>4
<1>5. ASSUME NEW i \in 0..Len(order), MoveCell(c, i)
      PROVE  /\ TypeOK' /\ StampInv' /\ Edited /\ stamp' = stamp
             /\ unused' \subseteq unused /\ Present' \subseteq Present \cup unused
  <2>1. /\ Edited /\ stamp' = stamp /\ src' = src /\ unused' = unused /\ c \in Present /\ i < Len(order)
        /\ order' = InsertAt(Without(c), c, i)
    BY <1>5 DEF MoveCell
  <2>2. /\ Without(c) \in Seq(Cells) /\ Len(Without(c)) = Len(order) - 1
        /\ \A j, k \in DOMAIN Without(c) : Without(c)[j] = Without(c)[k] => j = k
        /\ {Without(c)[j] : j \in DOMAIN Without(c)} = Present \ {c}
    BY <2>1, RemovedOrder
  <2>3. i \in 0..Len(Without(c)) /\ \A j \in DOMAIN Without(c) : Without(c)[j] # c
    <3>1. Len(order) \in Nat
      BY OrderIs
    <3> QED BY <2>1, <2>2, <3>1
  <2> DEFINE w == Without(c)
  <2> HIDE DEF w
  <2>4. /\ InsertAt(w, c, i) \in Seq(Cells)
        /\ \A j, k \in DOMAIN InsertAt(w, c, i) : InsertAt(w, c, i)[j] = InsertAt(w, c, i)[k] => j = k
        /\ {InsertAt(w, c, i)[j] : j \in DOMAIN InsertAt(w, c, i)} = {w[j] : j \in DOMAIN w} \cup {c}
    BY <2>2, <2>3, AddedOrder DEF w
  <2>5. /\ order' \in Seq(Cells) /\ \A j, k \in DOMAIN order' : order'[j] = order'[k] => j = k
        /\ Present' = Present
    <3> DEFINE r == InsertAt(w, c, i)
    <3>1. order' = r
      BY <2>1 DEF w
    <3> HIDE DEF r
    <3>2. Present' = {r[j] : j \in DOMAIN r}
      BY <3>1 DEF Present
    <3>3. {r[j] : j \in DOMAIN r} = Present
      BY <2>1, <2>2, <2>4 DEF r, w
    <3> QED BY <2>4, <3>1, <3>2, <3>3 DEF r
  <2>6. TypeOK' /\ StampInv'
    BY <1>2, <2>1, <2>5, EditedType
  <2> QED BY <2>1, <2>5, <2>6
<1>6. CASE RemoveCell(c)
  <2>1. Edited /\ stamp' = stamp /\ src' = src /\ unused' = unused /\ c \in Present /\ order' = Without(c)
    BY <1>6 DEF RemoveCell
  <2>2. /\ order' \in Seq(Cells) /\ \A j, k \in DOMAIN order' : order'[j] = order'[k] => j = k
        /\ Present' = Present \ {c}
    <3> DEFINE r == Without(c)
    <3> HIDE DEF r
    <3>1. /\ r \in Seq(Cells) /\ \A j, k \in DOMAIN r : r[j] = r[k] => j = k
          /\ {r[j] : j \in DOMAIN r} = Present \ {c}
      BY <2>1, RemovedOrder DEF r
    <3>2. order' = r
      BY <2>1 DEF r
    <3>3. Present' = {r[j] : j \in DOMAIN r}
      BY <3>2 DEF Present
    <3> QED BY <3>1, <3>2, <3>3
  <2>3. TypeOK' /\ StampInv'
    BY <1>2, <2>1, <2>2, EditedType
  <2> QED BY <2>1, <2>2, <2>3
<1> QED BY <1>1, <1>3, <1>4, <1>5, <1>6

\* run() chooses cells, and nothing else changes.
LEMMA WantType ==
  ASSUME TypeOK, StampInv, NEW S, S \subseteq Present, Want(S), disturbed' \in {"no", "yes"}
  PROVE  /\ TypeOK' /\ StampInv' /\ wanted' = S
         /\ UNCHANGED <<order, unused, src, stamp, running, batches, value, seen>>
<1>1. UNCHANGED <<order, unused, src, stamp, running, batches, value, seen>> /\ wanted' = S
  BY DEF Want, notebook, exec, kernel
<1>2. S \subseteq Cells
  BY PresentIs
<1>3. TypeOK'
  BY <1>1, <1>2 DEF TypeOK, Present
<1> QED BY <1>1, <1>3 DEF StampInv

LEMMA RefuseType ==
  ASSUME TypeOK, StampInv, Refuse
  PROVE  /\ TypeOK' /\ StampInv' /\ wanted' = {}
         /\ UNCHANGED <<order, unused, src, stamp, running, batches, value, seen, disturbed>>
<1>1. /\ UNCHANGED <<order, unused, src, stamp, running, batches, value, seen, disturbed>>
      /\ wanted' = {}
  BY DEF Refuse, notebook, exec, kernel
<1>2. TypeOK'
  BY <1>1 DEF TypeOK, Present
<1> QED BY <1>1, <1>2 DEF StampInv

\* A new batch has a task for each of its cells, in the order of the notebook.
LEMMA SubmitType ==
  ASSUME TypeOK, StampInv, Submit
  PROVE  /\ TypeOK' /\ StampInv' /\ wanted \subseteq Present /\ wanted # {} /\ wanted' = {}
         /\ UNCHANGED <<order, unused, src, stamp, running, value, seen, disturbed>>
         /\ \E names \in Ordered(wanted), b \in Seq(Tasks) \ {<<>>} :
              /\ batches' = Append(batches, b) /\ DOMAIN b = DOMAIN names
              /\ \A i \in DOMAIN names : b[i] = [cell |-> names[i], rev |-> src[names[i]]]
<1>1. /\ UNCHANGED <<order, unused, src, stamp, running, value, seen, disturbed>>
      /\ wanted \subseteq Present /\ wanted # {} /\ wanted' = {}
  BY DEF Submit, notebook, kernel
<1>2. PICK names \in Ordered(wanted) :
        batches' = Append(batches, [i \in DOMAIN names |-> [cell |-> names[i], rev |-> src[names[i]]]])
  BY DEF Submit
<1> DEFINE b == [i \in DOMAIN names |-> [cell |-> names[i], rev |-> src[names[i]]]]
<1>3. /\ names \in Seq(Cells) /\ names # <<>> /\ DOMAIN names = 1..Len(names) /\ Len(names) \in Nat
      /\ src \in [Cells -> Sources]
  BY <1>1, OrderedAre DEF TypeOK
<1>4. b \in [1..Len(names) -> Tasks]
  <2>1. \A i \in 1..Len(names) : names[i] \in Cells
    BY <1>3, ElementOfSeq
  <2> QED BY <1>3, <2>1 DEF Tasks
<1>5. b \in Seq(Tasks)
  BY <1>3, <1>4, SeqDef
<1>6. b # <<>>
  <2>1. Len(names) # 0
    BY <1>3, EmptySeq
  <2>2. 1 \in DOMAIN b
    BY <1>3, <2>1
  <2> QED BY <1>5, <2>2
<1>7. DOMAIN b = DOMAIN names /\ \A i \in DOMAIN names : b[i] = [cell |-> names[i], rev |-> src[names[i]]]
  OBVIOUS
<1> HIDE DEF b
<1>8. batches' = Append(batches, b) /\ batches' \in Seq(Seq(Tasks) \ {<<>>})
  <2>1. b \in Seq(Tasks) \ {<<>>} /\ batches \in Seq(Seq(Tasks) \ {<<>>})
    BY <1>5, <1>6 DEF TypeOK
  <2> QED BY <1>2, <2>1, AppendProperties DEF b
<1>9. TypeOK'
  BY <1>1, <1>8 DEF TypeOK, Present
<1>10. StampInv'
  BY <1>1 DEF StampInv
<1> QED BY <1>1, <1>5, <1>6, <1>7, <1>8, <1>9, <1>10

\* The batches without their first task.
Rest ==
  IF Len(Head(batches)) = 1 THEN Tail(batches) ELSE <<Tail(Head(batches))>> \o Tail(batches)

LEMMA BatchesAre ==
  ASSUME TypeOK
  PROVE  /\ batches \in Seq(Seq(Tasks) \ {<<>>}) /\ Len(batches) \in Nat /\ DOMAIN batches = 1..Len(batches)
         /\ \A k \in DOMAIN batches :
              /\ batches[k] \in Seq(Tasks) /\ Len(batches[k]) \in Nat \ {0}
              /\ DOMAIN batches[k] = 1..Len(batches[k])
              /\ \A j \in DOMAIN batches[k] : batches[k][j] \in Tasks
         /\ batches # <<>> => 1 \in DOMAIN batches /\ 1 \in DOMAIN batches[1]
<1>1. batches \in Seq(Seq(Tasks) \ {<<>>}) /\ Len(batches) \in Nat /\ DOMAIN batches = 1..Len(batches)
  BY LenProperties DEF TypeOK
<1>2. ASSUME NEW k \in DOMAIN batches
      PROVE  /\ batches[k] \in Seq(Tasks) /\ Len(batches[k]) \in Nat \ {0}
             /\ DOMAIN batches[k] = 1..Len(batches[k])
             /\ \A j \in DOMAIN batches[k] : batches[k][j] \in Tasks
  <2>1. batches[k] \in Seq(Tasks) \ {<<>>}
    BY <1>1, ElementOfSeq
  <2> QED BY <2>1, LenProperties, EmptySeq, ElementOfSeq
<1>3. batches # <<>> => 1 \in DOMAIN batches /\ 1 \in DOMAIN batches[1]
  <2>1. batches # <<>> => 1 \in DOMAIN batches
    BY <1>1, EmptySeq
  <2> QED BY <1>2, <2>1
<1> QED BY <1>1, <1>2, <1>3

\* Each task of the rest is one of the batches, at the same place or, in the
\* first batch, one later; and all of them but the first are there.
LEMMA RestIs ==
  ASSUME TypeOK, batches # <<>>
  PROVE  /\ Rest \in Seq(Seq(Tasks) \ {<<>>})
         /\ Head(batches) = batches[1] /\ Head(Head(batches)) = batches[1][1]
         /\ \A k \in DOMAIN Rest :
              \/ \E l \in DOMAIN batches : l > 1 /\ Rest[k] = batches[l]
              \/ /\ DOMAIN Rest[k] = 1..Len(batches[1]) - 1
                 /\ \A j \in DOMAIN Rest[k] : j + 1 \in DOMAIN batches[1] /\ Rest[k][j] = batches[1][j + 1]
         /\ \A l \in DOMAIN batches : l > 1 => \E k \in DOMAIN Rest : Rest[k] = batches[l]
         /\ Len(batches[1]) > 1 => Rest # <<>> /\ \A i \in DOMAIN batches[1] :
              i > 1 => i - 1 \in DOMAIN Rest[1] /\ 1 \in DOMAIN Rest /\ Rest[1][i - 1] = batches[1][i]
<1> DEFINE first == batches[1]
           more == Tail(batches)
           B == Seq(Tasks) \ {<<>>}
<1>1. /\ batches \in Seq(B) /\ Len(batches) \in Nat \ {0} /\ DOMAIN batches = 1..Len(batches)
      /\ first \in Seq(Tasks) /\ Len(first) \in Nat \ {0} /\ DOMAIN first = 1..Len(first)
      /\ 1 \in DOMAIN batches
  <2>1. Len(batches) # 0
    BY EmptySeq, BatchesAre
  <2> QED BY <2>1, BatchesAre
<1>2. /\ Head(batches) = first /\ more \in Seq(B) /\ Len(more) = Len(batches) - 1
      /\ \A i \in 1..Len(batches) - 1 : more[i] = batches[i + 1]
      /\ DOMAIN more = 1..Len(batches) - 1
  <2>1. Head(batches) = batches[1]
    BY <1>1, HeadTailProperties
  <2>2. more \in Seq(B) /\ Len(more) = Len(batches) - 1
        /\ \A i \in 1..Len(more) : more[i] = batches[i + 1]
    BY <1>1, HeadTailProperties
  <2> QED BY <2>1, <2>2, LenProperties
<1>3. Head(Head(batches)) = batches[1][1]
  <2>1. first # <<>>
    BY <1>1, EmptySeq
  <2> QED BY <1>1, <1>2, <2>1, HeadTailProperties
<1>4. CASE Len(first) = 1
  <2>1. Rest = more
    BY <1>2, <1>4 DEF Rest
  <2>2. ASSUME NEW k \in DOMAIN more PROVE \E l \in DOMAIN batches : l > 1 /\ more[k] = batches[l]
    <3>1. k + 1 \in DOMAIN batches /\ k + 1 > 1
      BY <1>1, <1>2
    <3> QED BY <1>2, <3>1
  <2>3. ASSUME NEW l \in DOMAIN batches, l > 1 PROVE \E k \in DOMAIN more : more[k] = batches[l]
    <3>1. l - 1 \in DOMAIN more /\ l - 1 + 1 = l
      BY <1>1, <1>2, <2>3
    <3> QED BY <1>2, <3>1
  <2>4. ~(Len(batches[1]) > 1)
    BY <1>4
  <2> HIDE DEF more, first
  <2> QED BY <1>2, <1>3, <2>1, <2>2, <2>3, <2>4 DEF first
<1>5. CASE Len(first) # 1
  <2> DEFINE left == Tail(first)
             one == <<left>>
  <2>1. /\ left \in B /\ Len(left) = Len(first) - 1 /\ DOMAIN left = 1..Len(first) - 1
        /\ \A j \in DOMAIN left : j + 1 \in DOMAIN first /\ left[j] = first[j + 1]
    <3>1. first # <<>>
      BY <1>1, EmptySeq
    <3>2. left \in Seq(Tasks) /\ Len(left) = Len(first) - 1
          /\ \A j \in 1..Len(left) : left[j] = first[j + 1]
      BY <1>1, <3>1, HeadTailProperties
    <3>3. Len(left) # 0 /\ DOMAIN left = 1..Len(first) - 1
      BY <1>1, <1>5, <3>2, LenProperties
    <3>4. left # <<>>
      BY <3>2, <3>3, EmptySeq
    <3>5. \A j \in DOMAIN left : j + 1 \in DOMAIN first
      BY <1>1, <3>3
    <3> QED BY <3>2, <3>3, <3>4, <3>5
  <2> HIDE DEF left
  <2>2. one \in Seq(B) /\ Len(one) = 1 /\ one[1] = left
    BY <2>1
  <2>3. Rest = one \o more
    BY <1>2, <1>5 DEF Rest, left
  <2> HIDE DEF one, more, first
  <2>4. /\ Rest \in Seq(B) /\ Len(Rest) = 1 + Len(more)
        /\ \A k \in 1..1 + Len(more) : Rest[k] = IF k <= 1 THEN left ELSE more[k - 1]
    <3> HIDE DEF B
    <3>1. one \in Seq(B) /\ more \in Seq(B)
      BY <1>2, <2>2
    <3>2. /\ one \o more \in Seq(B) /\ Len(one \o more) = Len(one) + Len(more)
          /\ \A k \in 1..Len(one) + Len(more) :
               (one \o more)[k] = IF k <= Len(one) THEN one[k] ELSE more[k - Len(one)]
      BY <3>1, ConcatProperties
    <3>3. \A k \in 1..1 + Len(more) : k <= 1 => k = 1
      BY <1>1, <1>2
    <3> QED BY <2>2, <2>3, <3>2, <3>3
  <2>5. DOMAIN Rest = 1..Len(batches) /\ 1 \in DOMAIN Rest /\ Rest[1] = left
    <3>1. 1 + Len(more) = Len(batches) /\ 1 \in 1..Len(batches)
      BY <1>1, <1>2
    <3>2. DOMAIN Rest = 1..Len(batches)
      BY <2>4, <3>1, LenProperties
    <3> QED BY <2>4, <3>1, <3>2
  <2>6. ASSUME NEW k \in DOMAIN Rest, k # 1 PROVE k > 1 /\ k \in DOMAIN batches /\ Rest[k] = batches[k]
    <3>1. k > 1 /\ k \in DOMAIN batches /\ k - 1 \in 1..Len(batches) - 1 /\ k - 1 + 1 = k
          /\ k \in 1..1 + Len(more) /\ ~(k <= 1)
      BY <1>1, <1>2, <2>5, <2>6
    <3> QED BY <1>2, <2>4, <3>1
  <2>7. ASSUME NEW l \in DOMAIN batches, l > 1 PROVE \E k \in DOMAIN Rest : Rest[k] = batches[l]
    <3>1. l \in DOMAIN Rest /\ l # 1
      BY <1>1, <2>5, <2>7
    <3> QED BY <2>6, <3>1
  <2>8. Rest # <<>>
    BY <2>4, <2>5, EmptySeq
  <2>9. ASSUME NEW i \in DOMAIN first, i > 1 PROVE i - 1 \in DOMAIN left /\ left[i - 1] = first[i]
    <3>1. i - 1 \in DOMAIN left /\ i - 1 + 1 = i
      BY <1>1, <2>1, <2>9
    <3> QED BY <2>1, <3>1
  <2> QED BY <1>2, <1>3, <2>1, <2>4, <2>5, <2>6, <2>7, <2>8, <2>9 DEF first
<1> QED BY <1>4, <1>5

\* A task begins or is passed over.
LEMMA BeginType ==
  ASSUME TypeOK, StampInv, Begin
  PROVE  TypeOK' /\ StampInv'
<1> DEFINE task == batches[1][1]
           batch == batches[1]
<1>1. /\ running = NoTask /\ batches # <<>> /\ batches' = Rest
      /\ UNCHANGED <<order, unused, src, wanted, value, seen, disturbed>>
      /\ \/ UNCHANGED <<running, stamp>>
         \/ /\ running' = [cell |-> task.cell, rev |-> task.rev, last |-> Len(batch) = 1]
            /\ stamp' = [stamp EXCEPT ![task.cell] = NoStamp]
  BY RestIs DEF Begin, Rest, notebook, kernel
<1>2. task \in Tasks
  BY <1>1, BatchesAre
<1>3. Rest \in Seq(Seq(Tasks) \ {<<>>})
  BY <1>1, RestIs
<1> HIDE DEF task
<1>4. running' \in Running \cup {NoTask}
  <2>1. (Len(batch) = 1) \in BOOLEAN
    OBVIOUS
  <2> DEFINE l == Len(batch) = 1
  <2> HIDE DEF l
  <2>2. l \in BOOLEAN
    BY <2>1 DEF l
  <2>3. [cell |-> task.cell, rev |-> task.rev, last |-> l] \in Running
    BY <1>2, <2>2 DEF Tasks, Running
  <2> QED BY <1>1, <2>3 DEF l
<1>5. stamp' \in [Cells -> Stamps \cup {NoStamp}] /\ \A c \in Cells : stamp'[c] # NoStamp => stamp'[c] = stamp[c]
  BY <1>1, <1>2 DEF TypeOK, Tasks
<1>6. TypeOK'
  BY <1>1, <1>3, <1>4, <1>5 DEF TypeOK, Present
<1>7. StampInv'
  BY <1>1, <1>5 DEF StampInv
<1> QED BY <1>6, <1>7

\* What a value becomes when the cell c runs.
AgedBy(c, val) == IF val # Unset /\ val.cell = c THEN [val EXCEPT !.latest = FALSE] ELSE val

LEMMA RanType ==
  ASSUME TypeOK, NEW c \in Cells, NEW rev \in Sources, NEW R, NEW W, Ran(c, rev, R, W)
  PROVE  /\ value' \in [Vars -> Values \cup {Unset}] /\ seen' \in [Cells -> [Vars -> Values \cup {Unset}]]
         /\ \A v \in Vars : value'[v] = IF v \in W THEN Newest(c, rev) ELSE AgedBy(c, value[v])
         /\ \A d \in Cells, v \in Vars :
              seen'[d][v] = IF d # c THEN AgedBy(c, seen[d][v])
                            ELSE IF v \in R THEN AgedBy(c, value[v]) ELSE Unset
<1>1. /\ value' = [v \in Vars |-> IF v \in W THEN Newest(c, rev) ELSE AgedBy(c, value[v])]
      /\ seen' = [d \in Cells |-> [v \in Vars |->
           IF d # c THEN AgedBy(c, seen[d][v]) ELSE IF v \in R THEN AgedBy(c, value[v]) ELSE Unset]]
  BY Zenon DEF Ran, AgedBy, Newest
<1>2. ASSUME NEW val \in Values \cup {Unset} PROVE AgedBy(c, val) \in Values \cup {Unset}
  BY DEF AgedBy, Values
<1>3. Newest(c, rev) \in Values
  BY DEF Newest, Values
<1>4. \A v \in Vars : value[v] \in Values \cup {Unset}
  BY DEF TypeOK
<1>5. \A d \in Cells, v \in Vars : seen[d][v] \in Values \cup {Unset}
  BY DEF TypeOK
<1> HIDE DEF Values
<1> QED BY <1>1, <1>2, <1>3, <1>4, <1>5

\* What a run that went through stamps.
LEMMA EndOkType ==
  ASSUME TypeOK, StampInv, EndOk
  PROVE  /\ TypeOK' /\ StampInv'
         /\ running # NoTask /\ running' = NoTask
         /\ UNCHANGED <<order, unused, src, batches, wanted, disturbed>>
         /\ \A c \in Cells : c # running.cell => stamp'[c] = stamp[c]
         /\ running.cell \in Present /\ src[running.cell] = running.rev =>
              /\ stamp'[running.cell] # NoStamp
              /\ stamp'[running.cell] = [rev |-> running.rev, deps |-> Deps(running.cell)]
<1> DEFINE c == running.cell
           rev == running.rev
           new == [rev |-> rev, deps |-> Deps(c)]
<1>1. /\ running # NoTask /\ running' = NoTask
      /\ UNCHANGED <<order, unused, src, batches, wanted, disturbed>>
      /\ Ran(c, rev, Uses[rev], Writes[rev])
      /\ stamp' = IF c \in Present /\ src[c] = rev THEN [stamp EXCEPT ![c] = new] ELSE stamp
  BY DEF EndOk, notebook, Stamped
<1>2. c \in Cells /\ rev \in Sources
  BY <1>1 DEF TypeOK, Running
<1>3. ASSUME c \in Present PROVE new \in Stamps /\ new # NoStamp /\ \A d \in Deps(c) : d[2] \notin unused
  <2>1. ASSUME NEW d \in Deps(c) PROVE d \in Vars \X Cells /\ d[2] \notin unused
    <3>1. d = <<d[1], d[2]>> /\ d[1] \in Vars /\ d[2] \in Present
      BY <1>3, DepsAre
    <3>2. d[2] \in Cells /\ d[2] \notin unused
      BY <3>1, PresentIs
    <3> QED BY <3>1, <3>2
  <2>2. Deps(c) \in SUBSET (Vars \X Cells)
    BY <2>1
  <2> HIDE DEF c, rev
  <2>3. new \in Stamps
    BY <1>2, <2>2 DEF Stamps
  <2> QED BY <2>1, <2>3, SpecialValues
<1> HIDE DEF c, rev, new
<1>4. /\ stamp' \in [Cells -> Stamps \cup {NoStamp}]
      /\ \A d \in Cells : d # c => stamp'[d] = stamp[d]
      /\ c \in Present /\ src[c] = rev => stamp'[c] = new /\ new # NoStamp
      /\ ~(c \in Present /\ src[c] = rev) => stamp'[c] = stamp[c]
  BY <1>1, <1>2, <1>3 DEF TypeOK
<1>5. TypeOK'
  <2>1. /\ value' \in [Vars -> Values \cup {Unset}]
        /\ seen' \in [Cells -> [Vars -> Values \cup {Unset}]]
    BY <1>1, <1>2, RanType
  <2> QED BY <1>1, <1>4, <2>1 DEF TypeOK, Present
<1>6. StampInv'
  <2> SUFFICES ASSUME NEW d \in Cells, stamp'[d] # NoStamp
               PROVE  /\ d \notin unused' /\ stamp'[d].rev \in SourcesOf[d]
                      /\ \A e \in stamp'[d].deps : e[2] \notin unused'
    BY DEF StampInv
  <2>1. CASE stamp'[d] = stamp[d]
    BY <1>1, <2>1 DEF StampInv
  <2>2. CASE stamp'[d] # stamp[d]
    <3>1. d = c /\ c \in Present /\ src[c] = rev /\ stamp'[d] = new
      BY <1>4, <2>2
    <3>2. c \notin unused /\ rev \in SourcesOf[c]
      BY <1>2, <3>1 DEF TypeOK
    <3>3. new.rev = rev /\ new.deps = Deps(c)
      BY DEF new
    <3> QED BY <1>1, <1>3, <3>1, <3>2, <3>3
  <2> QED BY <2>1, <2>2
<1> QED BY <1>1, <1>4, <1>5, <1>6 DEF c, rev, new

LEMMA EndFailedType == ASSUME TypeOK, StampInv, EndFailed PROVE TypeOK' /\ StampInv' /\ disturbed' = "yes"
<1>1. /\ running # NoTask /\ running' = NoTask /\ disturbed' = "yes"
      /\ UNCHANGED <<order, unused, src, stamp, wanted>>
      /\ batches' = IF running.last THEN batches ELSE Tail(batches)
  BY DEF EndFailed, notebook
<1>2. PICK W \in SUBSET Writes[running.rev] : Ran(running.cell, running.rev, {}, W)
  BY DEF EndFailed
<1>3. running.cell \in Cells /\ running.rev \in Sources
  BY <1>1 DEF TypeOK, Running
<1>4. /\ value' \in [Vars -> Values \cup {Unset}]
      /\ seen' \in [Cells -> [Vars -> Values \cup {Unset}]]
  BY <1>2, <1>3, RanType
<1>5. batches' \in Seq(Seq(Tasks) \ {<<>>})
  <2> DEFINE B == Seq(Tasks) \ {<<>>}
  <2>1. batches \in Seq(B)
    BY DEF TypeOK
  <2> HIDE DEF B
  <2>2. Tail(batches) \in Seq(B)
    <3>1. CASE batches = <<>>
      <4>1. Tail(batches) = <<>>
        BY <2>1, <3>1
      <4> QED BY <4>1, EmptySeq
    <3>2. CASE batches # <<>>
      BY <2>1, <3>2, HeadTailProperties
    <3> QED BY <3>1, <3>2
  <2>3. batches' \in Seq(B)
    BY <1>1, <2>1, <2>2
  <2> QED BY <2>3 DEF B
<1>6. TypeOK'
  BY <1>1, <1>4, <1>5 DEF TypeOK, Present
<1>7. StampInv'
  BY <1>1 DEF StampInv
<1> QED BY <1>1, <1>6, <1>7

LEMMA CancelType == ASSUME TypeOK, StampInv, Cancel PROVE TypeOK' /\ StampInv' /\ disturbed' = "yes"
<1>1. /\ batches' = <<>> /\ disturbed' = "yes"
      /\ running' = IF running = NoTask THEN NoTask ELSE [running EXCEPT !.last = TRUE]
      /\ UNCHANGED <<order, unused, src, stamp, wanted, value, seen>>
  BY DEF Cancel, notebook, kernel
<1>2. running' \in Running \cup {NoTask}
  <2>1. \A r \in Running : [r EXCEPT !.last = TRUE] \in Running
    BY DEF Running
  <2> QED BY <1>1, <2>1 DEF TypeOK
<1>3. batches' \in Seq(Seq(Tasks) \ {<<>>})
  BY <1>1, EmptySeq
<1>4. TypeOK'
  BY <1>1, <1>2, <1>3 DEF TypeOK, Present
<1> QED BY <1>1, <1>4 DEF StampInv

\* A new kernel leaves no stamp.
LEMMA NewKernelType ==
  ASSUME TypeOK, StampInv, NewKernel
  PROVE  /\ TypeOK' /\ StampInv' /\ running' = NoTask /\ batches' = <<>> /\ wanted' = {}
         /\ \A c \in Cells : stamp'[c] = NoStamp
<1>1. /\ running = NoTask /\ batches = <<>> /\ wanted = {} /\ disturbed' = "no"
      /\ UNCHANGED <<order, unused, src, running, batches, wanted>>
      /\ stamp' = [c \in Cells |-> NoStamp] /\ value' = [v \in Vars |-> Unset]
      /\ seen' = [c \in Cells |-> [v \in Vars |-> Unset]]
  BY DEF NewKernel, Busy, notebook, exec
<1>2. TypeOK'
  BY <1>1 DEF TypeOK, Present
<1> QED BY <1>1, <1>2 DEF StampInv

\* The sets of cells that a run tool chooses.
LEMMA RunCallType ==
  ASSUME TypeOK, RunCall
  PROVE  \E S \in SUBSET Present : /\ Want(S)
                                   /\ \/ S = Stale /\ disturbed' = disturbed
                                      \/ disturbed' = "yes"
<1>1. Stale \subseteq Present
  BY StaleIs
<1>2. CASE RunStale
  BY <1>1, <1>2 DEF RunStale
<1>3. CASE \E S \in SUBSET Present, freshDeps \in BOOLEAN : RunCells(S, freshDeps)
  <2>1. PICK S \in SUBSET Present, freshDeps \in BOOLEAN : RunCells(S, freshDeps)
    BY <1>3
  <2> DEFINE T == S \cup (IF freshDeps THEN Ancestors(S) \cap Stale ELSE {})
  <2>2. T \in SUBSET Present
    BY <1>1
  <2>3. Want(T) /\ disturbed' = "yes"
    BY <2>1 DEF RunCells
  <2> HIDE DEF T
  <2> QED BY <2>2, <2>3
<1> QED BY <1>2, <1>3 DEF RunCall

LEMMA StepType == ASSUME TypeOK, StampInv, [Next]_vars PROVE TypeOK' /\ StampInv'
<1>1. CASE EditStep
  BY <1>1, EditType
<1>2. CASE RunCall
  <2>1. PICK S \in SUBSET Present : Want(S) /\ (disturbed' = disturbed \/ disturbed' = "yes")
    BY <1>2, RunCallType
  <2>2. disturbed' \in {"no", "yes"}
    BY <2>1 DEF TypeOK
  <2> QED BY <2>1, <2>2, WantType
<1>3. CASE Begin
  BY <1>3, BeginType
<1>4. CASE EndOk
  BY <1>4, EndOkType
<1>5. CASE EndFailed
  BY <1>5, EndFailedType
<1>6. CASE Cancel
  BY <1>6, CancelType
<1>7. CASE NewKernel
  BY <1>7, NewKernelType
<1>8. CASE UNCHANGED vars
  <2>1. UNCHANGED <<order, unused, src, stamp, running, batches, wanted, value, seen, disturbed>>
    BY <1>8 DEF vars, notebook, exec, kernel
  <2>2. TypeOK'
    BY <2>1 DEF TypeOK, Present
  <2> QED BY <2>1, <2>2 DEF StampInv
<1>9. CASE Submit
  BY <1>9, SubmitType
<1>10. CASE Refuse
  BY <1>10, RefuseType
<1> QED BY <1>1, <1>2, <1>3, <1>4, <1>5, <1>6, <1>7, <1>8, <1>9, <1>10 DEF Next

LEMMA TypeInductive == Spec => [](TypeOK /\ StampInv)
<1>1. Init => TypeOK /\ StampInv
  BY InitType
<1>2. TypeOK /\ StampInv /\ [Next]_vars => (TypeOK /\ StampInv)'
  BY StepType
<1> QED BY <1>1, <1>2, PTL DEF Spec

\* The notebook, the stamps, the queue and the kernel's variables are what
\* they may be, whatever is edited and run (session.py, model.py).
THEOREM TypeCorrect == Spec => []TypeOK
<1>1. TypeOK /\ StampInv => TypeOK
  OBVIOUS
<1> QED BY <1>1, TypeInductive, PTL

----------------------------------------------------------------------------
(* Calm steps: what they make of the queue, and of what cells have read.   *)

\* The graph depends on the notebook alone.
LEMMA GraphKept ==
  ASSUME order' = order, src' = src
  PROVE  /\ Present' = Present
         /\ \A c \in Present : Deps(c)' = Deps(c)
         /\ \A p, c \in Present : Feeds(p, c)' <=> Feeds(p, c)
<1>1. Present' = Present
  BY DEF Present
<1>2. \A c \in Present : Deps(c)' = Deps(c)
  BY DEF Deps, Find, Position
<1> QED BY <1>1, <1>2 DEF Feeds

\* Nobody is served by himself, and who serves is further up.
LEMMA FeedsUp ==
  ASSUME TypeOK, NEW c \in Present, NEW p, Feeds(p, c)
  PROVE  p \in Present /\ p # c /\ Position(p) < Position(c)
<1>1. PICK v \in Vars : <<v, p>> \in Deps(c)
  BY DEF Feeds
<1> DEFINE d == <<v, p>>
<1>2. d \in Deps(c) /\ d[2] = p
  BY <1>1
<1> HIDE DEF d
<1> QED BY <1>2, DepsAre

\* Without tasks there is nothing to say of the queue.
LEMMA IdleQueue == ~Busy /\ wanted = {} => Queued
BY DEF Busy, Queued, TasksInv, FollowInv, LeadInv, RestInv, WantedInv, IsRunning

LEMMA IdleWaits == ~Busy => \A c : ~InQueue(c)
BY DEF Busy, InQueue, IsRunning, Waits

\* An edit between runs leaves the stamps as true as they were: a new cell is
\* in none of them.
LEMMA EditCalm ==
  ASSUME QueueInv, EditStep, disturbed' = "no"
  PROVE  /\ disturbed = "no" /\ ~Busy /\ ~Busy' /\ Queued'
         /\ Tracked => Tracked'
<1>1. /\ Edited /\ stamp' = stamp /\ unused' \subseteq unused /\ Present' \subseteq Present \cup unused
      /\ StampInv
  BY EditType DEF QueueInv
<1>2. /\ disturbed = "no" /\ ~Busy /\ ~Busy' /\ wanted' = {}
      /\ running' = running /\ batches' = batches /\ value' = value /\ seen' = seen
  BY <1>1 DEF Edited, Busy, exec, kernel
<1>3. Queued'
  <2>1. (~Busy /\ wanted = {})'
    BY <1>2
  <2> QED BY <2>1, IdleQueue, PTL
<1>4. ASSUME Tracked PROVE Tracked'
  <2>1. ValueInv'
    BY <1>1, <1>2, <1>4 DEF Tracked, ValueInv
  <2>2. SeenInv'
    <3> SUFFICES ASSUME NEW c \in Present', stamp[c] # NoStamp,
                        NEW d \in stamp[c].deps, d[2] \in Present'
                 PROVE  stamp[d[2]] # NoStamp /\ (Sole(d[1]) => seen[c][d[1]] = Newest(d[2], stamp[d[2]].rev))
      BY <1>1, <1>2 DEF SeenInv
    <3>1. c \in Present /\ d[2] \in Present
      <4>1. c \in Cells
        BY <1>1, PresentIs DEF QueueInv, TypeOK
      <4> QED BY <1>1, <4>1 DEF StampInv
    <3>2. ~InQueue(c)
      BY <1>2, IdleWaits
    <3> QED BY <1>4, <3>1, <3>2 DEF Tracked, SeenInv
  <2> QED BY <2>1, <2>2 DEF Tracked
<1> QED BY <1>2, <1>3, <1>4

\* What a step keeps that leaves all but the chosen cells as it is.
QueueKept ==
  /\ Present' = Present /\ \A c \in Present : Deps(c)' = Deps(c)
  /\ \A p, c \in Present : Feeds(p, c)' <=> Feeds(p, c)
  /\ \A c : IsRunning(c)' <=> IsRunning(c)
  /\ \A c : InQueue(c)' <=> InQueue(c)
  /\ \A c : Computed(c)' <=> Computed(c)
  /\ \A c \in Present : Matches(c)' <=> Matches(c)
  /\ Busy' <=> Busy
  /\ TasksInv => TasksInv'
  /\ FollowInv => FollowInv'
  /\ LeadInv => LeadInv'
  /\ RestInv => RestInv'
  /\ Tracked => Tracked'

LEMMA KeptQueue ==
  ASSUME UNCHANGED <<order, unused, src, stamp, running, batches, value, seen>>
  PROVE  QueueKept
<1>1. /\ Present' = Present /\ \A c \in Present : Deps(c)' = Deps(c)
      /\ \A p, c \in Present : Feeds(p, c)' <=> Feeds(p, c)
  BY GraphKept
<1>2. /\ \A c : IsRunning(c)' <=> IsRunning(c)
      /\ \A c : InQueue(c)' <=> InQueue(c)
      /\ \A c : Computed(c)' <=> Computed(c)
      /\ \A c \in Present : Matches(c)' <=> Matches(c)
      /\ Busy' <=> Busy
  BY <1>1 DEF IsRunning, InQueue, Waits, Computed, Matches, Busy
<1>3. TasksInv => TasksInv'
  BY <1>1 DEF TasksInv
<1>4. FollowInv => FollowInv'
  BY <1>1, <1>2 DEF FollowInv
<1>5. LeadInv => LeadInv'
  BY <1>1, <1>2 DEF LeadInv
<1>6. RestInv => RestInv'
  BY <1>1, <1>2 DEF RestInv
<1>7. Tracked => Tracked'
  BY <1>1, <1>2 DEF Tracked, ValueInv, SeenInv
<1> QED BY <1>1, <1>2, <1>3, <1>4, <1>5, <1>6, <1>7 DEF QueueKept

\* A default run chooses what is stale, with all that uses it.
LEMMA WantCalm ==
  ASSUME QueueInv, disturbed = "no", Queued, Want(Stale), disturbed' = "no"
  PROVE  Queued' /\ (Tracked => Tracked')
<1>1. TypeOK /\ StampInv /\ Stale \subseteq Present /\ disturbed' \in {"no", "yes"}
  BY StaleIs DEF QueueInv
<1>2. UNCHANGED <<order, unused, src, stamp, running, batches, value, seen>> /\ wanted' = Stale
  BY <1>1, WantType
<1>3. QueueKept
  BY <1>2, KeptQueue
<1>4. WantedInv'
  <2>1. \A p, c \in Present : p \in Stale /\ Feeds(p, c) => c \in Stale
    BY <1>1, StaleIs
  <2>2. \A c \in Present : c \notin Stale => Matches(c)
    BY <1>1, StaleIs
  <2>3. \A c \in Present : Matches(c) => Computed(c)
    BY DEF Matches, Computed
  <2> QED BY <1>1, <1>2, <1>3, <2>1, <2>2, <2>3 DEF WantedInv, QueueKept
<1> QED BY <1>3, <1>4 DEF QueueKept, Queued

\* Nothing is submitted.
LEMMA RefuseCalm ==
  ASSUME QueueInv, disturbed = "no", Queued, Refuse
  PROVE  Queued' /\ (Tracked => Tracked')
<1>1. /\ wanted' = {}
      /\ UNCHANGED <<order, unused, src, stamp, running, batches, value, seen>>
  BY RefuseType DEF QueueInv
<1>2. QueueKept
  BY <1>1, KeptQueue
<1>3. WantedInv'
  BY <1>1 DEF WantedInv
<1> QED BY <1>2, <1>3 DEF QueueKept, Queued

\* What was chosen is queued behind what serves it.
LEMMA SubmitCalm ==
  ASSUME QueueInv, disturbed = "no", Queued, Submit
  PROVE  Queued' /\ Busy' /\ (Tracked => Tracked')
<1>1. TypeOK /\ StampInv /\ wanted \subseteq Present
  BY SubmitType DEF QueueInv
<1>2. UNCHANGED <<order, unused, src, stamp, running, value, seen>> /\ wanted # {} /\ wanted' = {}
  BY <1>1, SubmitType
<1>3. PICK names \in Ordered(wanted), b \in Seq(Tasks) \ {<<>>} :
        /\ batches' = Append(batches, b) /\ DOMAIN b = DOMAIN names
        /\ \A i \in DOMAIN names : b[i] = [cell |-> names[i], rev |-> src[names[i]]]
  BY <1>1, SubmitType
<1> DEFINE n == Len(batches) + 1
<1>4. /\ DOMAIN batches' = DOMAIN batches \cup {n} /\ n \notin DOMAIN batches /\ batches'[n] = b
      /\ \A k \in DOMAIN batches : batches'[k] = batches[k]
      /\ batches' # <<>>
  <2>1. batches \in Seq(Seq(Tasks) \ {<<>>}) /\ Len(batches) \in Nat /\ DOMAIN batches = 1..Len(batches)
    BY <1>1, BatchesAre
  <2>2. /\ batches' \in Seq(Seq(Tasks) \ {<<>>}) /\ Len(batches') = n
        /\ \A k \in 1..Len(batches) : batches'[k] = batches[k]
        /\ batches'[n] = b
    BY <1>3, <2>1, AppendProperties
  <2>3. DOMAIN batches' = 1..n
    BY <2>2, LenProperties
  <2>4. batches' # <<>>
    BY <2>1, <2>2, EmptySeq
  <2> QED BY <2>1, <2>2, <2>3, <2>4
<1>5. /\ \A i \in DOMAIN b : b[i].cell \in wanted /\ b[i].rev = src[b[i].cell]
      /\ \A c \in wanted : \E i \in DOMAIN b : b[i].cell = c
      /\ \A i, j \in DOMAIN b : i < j => Position(b[i].cell) < Position(b[j].cell)
      /\ DOMAIN b \subseteq Nat
  <2>1. /\ \A i \in DOMAIN names : names[i] \in wanted
        /\ \A c \in wanted : \E i \in DOMAIN names : names[i] = c
        /\ \A i, j \in DOMAIN names : i < j => Position(names[i]) < Position(names[j])
        /\ DOMAIN names = 1..Len(names) /\ Len(names) \in Nat
    BY <1>1, <1>2, OrderedAre
  <2>2. \A i \in DOMAIN names : b[i].cell = names[i] /\ b[i].rev = src[names[i]]
    BY <1>3
  <2> QED BY <1>3, <2>1, <2>2
<1>6. ASSUME NEW i \in DOMAIN b, NEW j \in DOMAIN b, Feeds(b[i].cell, b[j].cell) PROVE i < j
  <2>1. b[i].cell \in Present /\ b[j].cell \in Present
    BY <1>1, <1>5
  <2>2. Position(b[i].cell) < Position(b[j].cell)
    BY <1>1, <1>6, <2>1, FeedsUp
  <2>3. Position(b[i].cell) \in Nat /\ Position(b[j].cell) \in Nat
    BY <1>1, <2>1, PresentIs
  <2>4. i \in Nat /\ j \in Nat
    BY <1>5
  <2>5. ~(j < i) /\ i # j
    BY <1>5, <2>2, <2>3
  <2> QED BY <2>4, <2>5
<1>7. /\ Present' = Present /\ \A c \in Present : Deps(c)' = Deps(c)
      /\ \A q, c \in Present : Feeds(q, c)' <=> Feeds(q, c)
      /\ \A c \in Present : Matches(c)' <=> Matches(c)
      /\ \A c \in Cells : Computed(c)' <=> Computed(c)
      /\ \A c : IsRunning(c)' <=> IsRunning(c)
  <2>1. /\ Present' = Present /\ \A c \in Present : Deps(c)' = Deps(c)
        /\ \A q, c \in Present : Feeds(q, c)' <=> Feeds(q, c)
    BY <1>2, GraphKept
  <2> QED BY <1>2, <2>1 DEF Matches, Computed, IsRunning
<1>8. \A c : /\ InQueue(c) => InQueue(c)'
             /\ c \in wanted => InQueue(c)'
  <2>1. ASSUME NEW c, Waits(c) PROVE Waits(c)'
    <3>1. PICK k \in DOMAIN batches : \E j \in DOMAIN batches[k] : batches[k][j].cell = c
      BY <2>1 DEF Waits
    <3>2. k \in DOMAIN batches' /\ batches'[k] = batches[k]
      BY <1>4
    <3> QED BY <3>1, <3>2 DEF Waits
  <2>2. ASSUME NEW c \in wanted PROVE Waits(c)'
    <3>1. PICK i \in DOMAIN b : b[i].cell = c
      BY <1>5
    <3> QED BY <1>4, <3>1 DEF Waits
  <2> QED BY <1>7, <2>1, <2>2 DEF InQueue
<1>9. TasksInv'
  <2>1. \A j \in DOMAIN b : b[j].cell \in Present /\ b[j].rev = src[b[j].cell]
    BY <1>1, <1>5
  <2> QED BY <1>2, <1>4, <1>7, <2>1 DEF Queued, TasksInv
<1>10. FollowInv'
  <2>1. ASSUME NEW k \in DOMAIN batches', NEW j \in DOMAIN batches'[k], NEW q \in Present, NEW c \in Present,
               batches'[k][j].cell = q, Feeds(q, c)
        PROVE  \E i \in DOMAIN batches'[k] : i > j /\ batches'[k][i].cell = c
    <3>1. CASE k \in DOMAIN batches
      <4>1. batches'[k] = batches[k]
        BY <1>4, <3>1
      <4> QED BY <2>1, <3>1, <4>1 DEF Queued, FollowInv
    <3>2. CASE k = n
      <4>1. batches'[k] = b /\ j \in DOMAIN b /\ b[j].cell = q /\ q \in wanted
        BY <1>4, <1>5, <2>1, <3>2
      <4>2. c \in wanted
        BY <1>2, <2>1, <4>1 DEF Queued, WantedInv
      <4>3. PICK i \in DOMAIN b : b[i].cell = c
        BY <1>5, <4>2
      <4>4. j < i /\ i \in Nat /\ j \in Nat
        BY <1>5, <1>6, <2>1, <4>1, <4>3
      <4> QED BY <4>1, <4>3, <4>4
    <3> QED BY <1>4, <3>1, <3>2
  <2>2. ASSUME NEW q \in Present, NEW c \in Present, IsRunning(q), Feeds(q, c)
        PROVE  \E i \in DOMAIN batches'[1] : batches'[1][i].cell = c
    <3>1. batches # <<>> /\ \E i \in DOMAIN batches[1] : batches[1][i].cell = c
      BY <2>2 DEF Queued, FollowInv
    <3>2. batches'[1] = batches[1]
      BY <1>1, <1>4, <3>1, BatchesAre
    <3> QED BY <3>1, <3>2
  <2> QED BY <1>4, <1>7, <2>1, <2>2 DEF FollowInv
<1>11. LeadInv'
  <2>1. ASSUME NEW k \in DOMAIN batches', NEW j \in DOMAIN batches'[k], NEW q \in Present, NEW c \in Present,
               batches'[k][j].cell = c, Feeds(q, c)
        PROVE  Computed(q) \/ IsRunning(q) \/ \E i \in DOMAIN batches'[k] : i < j /\ batches'[k][i].cell = q
    <3>1. CASE k \in DOMAIN batches
      <4>1. batches'[k] = batches[k]
        BY <1>4, <3>1
      <4> QED BY <2>1, <3>1, <4>1 DEF Queued, LeadInv
    <3>2. CASE k = n
      <4>1. batches'[k] = b /\ j \in DOMAIN b /\ b[j].cell = c
        BY <1>4, <2>1, <3>2
      <4>2. CASE q \in wanted
        <5>1. PICK i \in DOMAIN b : b[i].cell = q
          BY <1>5, <4>2
        <5>2. i < j
          BY <1>6, <2>1, <4>1, <5>1
        <5> QED BY <4>1, <5>1, <5>2
      <4>3. CASE q \notin wanted
        <5>1. c \in wanted
          BY <1>5, <4>1
        <5> QED BY <1>2, <2>1, <4>3, <5>1 DEF Queued, WantedInv
      <4> QED BY <4>2, <4>3
    <3> QED BY <1>4, <3>1, <3>2
  <2>2. \A c \in Present : c \in Cells
    BY <1>1, PresentIs
  <2> QED BY <1>7, <2>1, <2>2 DEF Queued, LeadInv
<1>12. RestInv'
  <2>1. ASSUME NEW c \in Present, ~InQueue(c)' PROVE Matches(c)'
    <3>1. c \notin wanted /\ ~InQueue(c)
      BY <1>8, <2>1
    <3> QED BY <1>2, <1>7, <3>1 DEF Queued, WantedInv
  <2> QED BY <1>7, <2>1 DEF RestInv
<1>13. ASSUME Tracked PROVE Tracked'
  <2>1. ValueInv'
    BY <1>2, <1>13 DEF Tracked, ValueInv
  <2>2. SeenInv'
    BY <1>2, <1>7, <1>8, <1>13 DEF Tracked, SeenInv
  <2> QED BY <2>1, <2>2 DEF Tracked
<1>14. Busy'
  BY <1>4 DEF Busy
<1>15. WantedInv'
  BY <1>2 DEF WantedInv
<1> QED BY <1>9, <1>10, <1>11, <1>12, <1>13, <1>14, <1>15 DEF Queued

\* The next task begins: nobody that still counts as fresh reads its cell.
LEMMA BeginCalm ==
  ASSUME QueueInv, disturbed = "no", Queued, Begin
  PROVE  Queued' /\ Busy' /\ (Tracked => Tracked')
<1>1. TypeOK /\ running = NoTask /\ batches # <<>> /\ batches' = Rest /\ Busy
  BY DEF QueueInv, Begin, Rest, Busy
<1> DEFINE first == batches[1]
           task == first[1]
           r == task.cell
<1>2. 1 \in DOMAIN batches /\ 1 \in DOMAIN first /\ task \in Tasks
  BY <1>1, BatchesAre
<1>3. r \in Present /\ src[r] = task.rev
  BY <1>2 DEF Queued, TasksInv
<1>4. /\ UNCHANGED <<order, unused, src, wanted, value, seen>>
      /\ running' = [cell |-> r, rev |-> task.rev, last |-> Len(first) = 1]
      /\ stamp' = [stamp EXCEPT ![r] = NoStamp]
  BY <1>1, <1>3, RestIs DEF Begin, notebook, kernel
<1>5. running' # NoTask /\ running'.cell = r /\ running'.rev = src[r]
  <2>1. running' \in Running
    <3> DEFINE l == Len(first) = 1
    <3>1. l \in BOOLEAN
      OBVIOUS
    <3> HIDE DEF l, first
    <3>2. [cell |-> task.cell, rev |-> task.rev, last |-> l] \in Running
      BY <1>2, <3>1 DEF Tasks, Running
    <3> QED BY <1>4, <3>2 DEF l, first
  <2>2. running' # NoTask
    BY <2>1, SpecialValues
  <2>3. running'.cell = r /\ running'.rev = task.rev
    BY <1>4
  <2> HIDE DEF r, task
  <2> QED BY <1>3, <2>2, <2>3
<1>6. /\ stamp'[r] = NoStamp /\ \A c \in Cells : c # r => stamp'[c] = stamp[c]
  <2> HIDE DEF r
  <2>1. r \in Cells
    BY <1>1, <1>3, PresentIs
  <2>2. stamp \in [Cells -> Stamps \cup {NoStamp}]
    BY <1>1 DEF TypeOK
  <2> QED BY <1>4, <2>1, <2>2
<1>7. /\ \A k \in DOMAIN batches' :
           \/ \E l \in DOMAIN batches : l > 1 /\ batches'[k] = batches[l]
           \/ /\ DOMAIN batches'[k] = 1..Len(first) - 1
              /\ \A j \in DOMAIN batches'[k] : j + 1 \in DOMAIN first /\ batches'[k][j] = first[j + 1]
      /\ \A l \in DOMAIN batches : l > 1 => \E k \in DOMAIN batches' : batches'[k] = batches[l]
      /\ Len(first) > 1 => batches' # <<>> /\ \A i \in DOMAIN first :
           i > 1 => i - 1 \in DOMAIN batches'[1] /\ 1 \in DOMAIN batches' /\ batches'[1][i - 1] = first[i]
  BY <1>1, RestIs
<1>8. DOMAIN first = 1..Len(first) /\ Len(first) \in Nat /\ DOMAIN batches = 1..Len(batches) /\ Len(batches) \in Nat
  BY <1>1, <1>2, BatchesAre
<1>9. \A c : IsRunning(c)' <=> c = r
  BY <1>5 DEF IsRunning
<1> HIDE DEF first, task, r
<1>10. /\ Present' = Present /\ \A c \in Present : Deps(c)' = Deps(c)
       /\ \A q, c \in Present : Feeds(q, c)' <=> Feeds(q, c)
       /\ \A c \in Present : c \in Cells
       /\ \A c \in Present : c # r => (Matches(c)' <=> Matches(c))
       /\ \A c \in Present : c # r => (Computed(c)' <=> Computed(c))
  <2>1. /\ Present' = Present /\ \A c \in Present : Deps(c)' = Deps(c)
        /\ \A q, c \in Present : Feeds(q, c)' <=> Feeds(q, c)
    BY <1>4, GraphKept
  <2>2. \A c \in Present : c \in Cells
    BY <1>1, PresentIs
  <2> QED BY <1>4, <1>6, <2>1, <2>2 DEF Matches, Computed
<1>11. \A c : InQueue(c) => InQueue(c)'
  <2> SUFFICES ASSUME NEW c, Waits(c), c # r PROVE Waits(c)'
    BY <1>1, <1>9 DEF InQueue, IsRunning
  <2>1. PICK l \in DOMAIN batches : \E j \in DOMAIN batches[l] : batches[l][j].cell = c
    BY DEF Waits
  <2>2. PICK j \in DOMAIN batches[l] : batches[l][j].cell = c
    BY <2>1
  <2>3. CASE l > 1
    <3>1. PICK k \in DOMAIN batches' : batches'[k] = batches[l]
      BY <1>7, <2>3
    <3> QED BY <2>2, <3>1 DEF Waits
  <2>4. CASE ~(l > 1)
    <3>1. l = 1
      BY <1>8, <2>4
    <3>2. j # 1
      BY <2>2, <3>1 DEF r, task, first
    <3>3. j \in DOMAIN first /\ first[j].cell = c
      BY <2>2, <3>1 DEF first
    <3>4. j > 1 /\ Len(first) > 1
      BY <1>8, <3>2, <3>3
    <3>5. j - 1 \in DOMAIN batches'[1] /\ 1 \in DOMAIN batches' /\ batches'[1][j - 1] = first[j]
      BY <1>7, <3>3, <3>4
    <3> QED BY <3>3, <3>5 DEF Waits
  <2> QED BY <2>3, <2>4
<1>12. TasksInv'
  <2>1. ASSUME NEW k \in DOMAIN batches', NEW j \in DOMAIN batches'[k]
        PROVE  batches'[k][j].cell \in Present /\ batches'[k][j].rev = src[batches'[k][j].cell]
    <3>1. CASE \E l \in DOMAIN batches : l > 1 /\ batches'[k] = batches[l]
      BY <2>1, <3>1 DEF Queued, TasksInv
    <3>2. CASE j + 1 \in DOMAIN first /\ batches'[k][j] = first[j + 1]
      BY <1>2, <3>2 DEF Queued, TasksInv, first
    <3> QED BY <1>7, <2>1, <3>1, <3>2
  <2> QED BY <1>3, <1>4, <1>5, <1>10, <2>1 DEF TasksInv
<1>13. FollowInv'
  <2>1. ASSUME NEW k \in DOMAIN batches', NEW j \in DOMAIN batches'[k], NEW q \in Present, NEW c \in Present,
               batches'[k][j].cell = q, Feeds(q, c)
        PROVE  \E i \in DOMAIN batches'[k] : i > j /\ batches'[k][i].cell = c
    <3>1. CASE \E l \in DOMAIN batches : l > 1 /\ batches'[k] = batches[l]
      BY <2>1, <3>1 DEF Queued, FollowInv
    <3>2. CASE /\ DOMAIN batches'[k] = 1..Len(first) - 1
               /\ \A i \in DOMAIN batches'[k] : i + 1 \in DOMAIN first /\ batches'[k][i] = first[i + 1]
      <4>1. j + 1 \in DOMAIN first /\ first[j + 1].cell = q
        BY <2>1, <3>2
      <4>2. PICK i \in DOMAIN first : i > j + 1 /\ first[i].cell = c
        BY <1>2, <2>1, <4>1 DEF Queued, FollowInv, first
      <4>3. i - 1 \in DOMAIN batches'[k] /\ i - 1 > j /\ i - 1 + 1 = i
        BY <1>8, <2>1, <3>2, <4>2
      <4> QED BY <3>2, <4>2, <4>3
    <3> QED BY <1>7, <3>1, <3>2
  <2>2. ASSUME NEW c \in Present, Feeds(r, c)
        PROVE  batches' # <<>> /\ \E i \in DOMAIN batches'[1] : batches'[1][i].cell = c
    <3>1. PICK i \in DOMAIN first : i > 1 /\ first[i].cell = c
      BY <1>2, <1>3, <2>2 DEF Queued, FollowInv, first, task, r
    <3>2. Len(first) > 1
      BY <1>8, <3>1
    <3>3. batches' # <<>> /\ i - 1 \in DOMAIN batches'[1] /\ batches'[1][i - 1] = first[i]
      BY <1>7, <3>1, <3>2
    <3> QED BY <3>1, <3>3
  <2> QED BY <1>9, <1>10, <2>1, <2>2 DEF FollowInv
<1>14. ASSUME NEW q \in Present, Feeds(q, r) PROVE Computed(q) /\ q # r
  <2>1. q # r
    BY <1>1, <1>3, <1>14, FeedsUp
  <2>2. Computed(q) \/ \E i \in DOMAIN first : i < 1 /\ first[i].cell = q
    BY <1>1, <1>2, <1>3, <1>14 DEF Queued, LeadInv, IsRunning, first, task, r
  <2>3. \A i \in DOMAIN first : ~(i < 1)
    BY <1>8
  <2> QED BY <2>1, <2>2, <2>3
<1>15. LeadInv'
  <2>1. ASSUME NEW k \in DOMAIN batches', NEW j \in DOMAIN batches'[k], NEW q \in Present, NEW c \in Present,
               batches'[k][j].cell = c, Feeds(q, c), q # r
        PROVE  Computed(q) \/ \E i \in DOMAIN batches'[k] : i < j /\ batches'[k][i].cell = q
    <3>1. CASE \E l \in DOMAIN batches : l > 1 /\ batches'[k] = batches[l]
      BY <1>1, <2>1, <3>1 DEF Queued, LeadInv, IsRunning
    <3>2. CASE /\ DOMAIN batches'[k] = 1..Len(first) - 1
               /\ \A i \in DOMAIN batches'[k] : i + 1 \in DOMAIN first /\ batches'[k][i] = first[i + 1]
      <4>1. j + 1 \in DOMAIN first /\ first[j + 1].cell = c
        BY <2>1, <3>2
      <4>2. Computed(q) \/ \E i \in DOMAIN first : i < j + 1 /\ first[i].cell = q
        BY <1>1, <1>2, <2>1, <4>1 DEF Queued, LeadInv, IsRunning, first
      <4>3. ASSUME NEW i \in DOMAIN first, i < j + 1, first[i].cell = q
            PROVE  \E m \in DOMAIN batches'[k] : m < j /\ batches'[k][m].cell = q
        <5>1. i # 1
          BY <2>1, <4>3 DEF r, task
        <5>2. i - 1 \in DOMAIN batches'[k] /\ i - 1 < j /\ i - 1 + 1 = i
          BY <1>8, <2>1, <3>2, <4>3, <5>1
        <5> QED BY <3>2, <4>3, <5>2
      <4> QED BY <4>2, <4>3
    <3> QED BY <1>7, <3>1, <3>2
  <2>2. \A q \in Present : q # r => (Computed(q)' <=> Computed(q))
    BY <1>10
  <2>3. \A q, c \in Present : c = r /\ Feeds(q, c) => Computed(q)'
    BY <1>14, <2>2
  <2> QED BY <1>9, <1>10, <2>1, <2>2, <2>3 DEF LeadInv
<1>16. ASSUME NEW c \in Present, ~InQueue(c)' PROVE c # r /\ ~InQueue(c) /\ Matches(c)
  <2>1. c # r /\ ~InQueue(c)
    BY <1>9, <1>11, <1>16 DEF InQueue
  <2> QED BY <1>1, <2>1 DEF Queued, RestInv
<1>17. RestInv'
  BY <1>10, <1>16 DEF RestInv
<1>18. ASSUME Tracked PROVE Tracked'
  <2>1. ValueInv'
    BY <1>4, <1>6, <1>18 DEF Tracked, ValueInv
  <2>2. SeenInv'
    <3> SUFFICES ASSUME NEW c \in Present, ~InQueue(c)', NEW d \in stamp'[c].deps
                 PROVE  stamp'[d[2]] # NoStamp /\ (Sole(d[1]) => seen[c][d[1]] = Newest(d[2], stamp'[d[2]].rev))
      BY <1>4, <1>10 DEF SeenInv
    <3>1. c # r /\ ~InQueue(c) /\ stamp'[c] = stamp[c] /\ stamp[c] # NoStamp /\ d \in Deps(c) /\ d \in stamp[c].deps
      BY <1>6, <1>10, <1>16 DEF Matches
    <3>2. d[2] \in Present /\ Feeds(d[2], c)
      BY <1>1, <3>1, DepsAre DEF Feeds
    <3>3. d[2] # r
      <4>1. ASSUME d[2] = r PROVE Waits(c)
        <5>1. PICK i \in DOMAIN first : first[i].cell = c
          BY <1>2, <3>2, <4>1 DEF Queued, FollowInv, first, task, r
        <5> QED BY <1>2, <5>1 DEF Waits, first
      <4> QED BY <3>1, <4>1 DEF InQueue
    <3>4. stamp'[d[2]] = stamp[d[2]]
      BY <1>6, <1>10, <3>2, <3>3
    <3> QED BY <1>18, <3>1, <3>2, <3>4 DEF Tracked, SeenInv
  <2> QED BY <2>1, <2>2 DEF Tracked
<1>19. Busy'
  BY <1>5 DEF Busy
<1>20. WantedInv'
  <2> SUFFICES ASSUME wanted # {} PROVE WantedInv'
    BY <1>4 DEF WantedInv
  <2>1. \A q, c \in Present : q \notin wanted /\ c \in wanted /\ Feeds(q, c) => Computed(q) \/ q = r
    BY <1>1 DEF Queued, WantedInv, IsRunning
  <2>2. \A q \in Present : Computed(q) \/ q = r => Computed(q)' \/ IsRunning(q)'
    BY <1>9, <1>10
  <2>3. \A c \in Present : c \in wanted \/ Matches(c) \/ InQueue(c)
    BY DEF Queued, WantedInv
  <2>4. \A c \in Present : Matches(c) \/ InQueue(c) => Matches(c)' \/ InQueue(c)'
    BY <1>9, <1>10, <1>11 DEF InQueue
  <2>5. \A q, c \in Present' : q \in wanted' /\ Feeds(q, c)' => c \in wanted'
    BY <1>4, <1>10 DEF Queued, WantedInv
  <2>6. \A q, c \in Present' : q \notin wanted' /\ c \in wanted' /\ Feeds(q, c)' => Computed(q)' \/ IsRunning(q)'
    BY <1>4, <1>10, <2>1, <2>2
  <2>7. \A c \in Present' : c \in wanted' \/ Matches(c)' \/ InQueue(c)'
    BY <1>4, <1>10, <2>3, <2>4
  <2> QED BY <2>5, <2>6, <2>7 DEF WantedInv
<1> QED BY <1>12, <1>13, <1>15, <1>17, <1>18, <1>19, <1>20 DEF Queued

\* A task that goes through leaves its cell fresh: what served it was computed
\* before, and nobody else writes what it reads.
LEMMA EndOkCalm ==
  ASSUME QueueInv, disturbed = "no", Queued, EndOk
  PROVE  Queued' /\ (~Busy' => \A c \in Present' : Matches(c)') /\ (Tracked => Tracked')
<1> DEFINE r == running.cell
           rev == running.rev
<1>1. /\ TypeOK /\ running # NoTask /\ running' = NoTask /\ Busy
      /\ UNCHANGED <<order, unused, src, batches, wanted, disturbed>>
      /\ \A c \in Cells : c # r => stamp'[c] = stamp[c]
      /\ r \in Present /\ src[r] = rev => stamp'[r] # NoStamp /\ stamp'[r] = [rev |-> rev, deps |-> Deps(r)]
  BY EndOkType DEF QueueInv, Busy
<1>2. r \in Present /\ src[r] = rev
  BY <1>1 DEF Queued, TasksInv
<1>3. stamp'[r] # NoStamp /\ stamp'[r].rev = rev /\ stamp'[r].deps = Deps(r)
  BY <1>1, <1>2
<1>4. Ran(r, rev, Uses[rev], Writes[rev])
  BY DEF EndOk
<1>5. \A c : /\ IsRunning(c) <=> c = r
             /\ ~IsRunning(c)'
             /\ Waits(c)' <=> Waits(c)
  BY <1>1 DEF IsRunning, Waits
<1>6. /\ r \in Cells /\ rev \in Sources /\ Present \subseteq Cells
  BY <1>1, <1>2, PresentIs DEF TypeOK
<1>7. /\ Present' = Present /\ \A c \in Present : Deps(c)' = Deps(c)
      /\ \A q, c \in Present : Feeds(q, c)' <=> Feeds(q, c)
      /\ \A c \in Present : Matches(c) \/ c = r => Matches(c)'
      /\ \A c \in Present : Computed(c) \/ c = r => Computed(c)'
  <2>1. /\ Present' = Present /\ \A c \in Present : Deps(c)' = Deps(c)
        /\ \A q, c \in Present : Feeds(q, c)' <=> Feeds(q, c)
    BY <1>1, GraphKept
  <2> HIDE DEF r, rev
  <2>2. ASSUME NEW c \in Present, c = r PROVE Matches(c)' /\ Computed(c)'
    BY <1>1, <1>2, <1>3, <2>1, <2>2 DEF Matches, Computed
  <2>3. ASSUME NEW c \in Present, c # r
        PROVE  (Matches(c) => Matches(c)') /\ (Computed(c) => Computed(c)')
    <3>1. stamp'[c] = stamp[c]
      BY <1>1, <1>6, <2>3
    <3> QED BY <1>1, <2>1, <3>1 DEF Matches, Computed
  <2> QED BY <2>1, <2>2, <2>3
<1> HIDE DEF r, rev
<1>8. TasksInv'
  BY <1>1, <1>7 DEF Queued, TasksInv
<1>9. FollowInv'
  BY <1>1, <1>5, <1>7 DEF Queued, FollowInv
<1>10. LeadInv'
  BY <1>1, <1>5, <1>7 DEF Queued, LeadInv
<1>11. ASSUME NEW c \in Present, ~InQueue(c)' PROVE c = r \/ (c # r /\ ~InQueue(c) /\ Matches(c))
  BY <1>1, <1>5, <1>11 DEF InQueue, Queued, RestInv
<1>12. RestInv'
  BY <1>7, <1>11 DEF RestInv
<1>13. ASSUME ~Busy' PROVE \A c \in Present' : Matches(c)'
  <2>1. \A c : ~InQueue(c)'
    BY <1>1, <1>13 DEF Busy, InQueue, IsRunning, Waits
  <2> QED BY <1>7, <1>11, <2>1
<1>14. ASSUME Tracked PROVE Tracked'
  <2>1. /\ \A v \in Vars : value'[v] = IF v \in Writes[rev] THEN Newest(r, rev) ELSE AgedBy(r, value[v])
        /\ \A d \in Cells, v \in Vars :
             seen'[d][v] = IF d # r THEN AgedBy(r, seen[d][v])
                           ELSE IF v \in Uses[rev] THEN AgedBy(r, value[v]) ELSE Unset
    BY <1>1, <1>4, <1>6, RanType
  <2>2. \A q, s : q # r => AgedBy(r, Newest(q, s)) = Newest(q, s)
    BY DEF AgedBy, Newest
  <2>3. rev \in SourcesOf[r] /\ \A q \in Cells : stamp[q] # NoStamp => stamp[q].rev \in SourcesOf[q]
    BY <1>1, <1>2, <1>6 DEF QueueInv, StampInv, TypeOK
  <2>4. ValueInv'
    <3> SUFFICES ASSUME NEW q \in Cells, stamp'[q] # NoStamp, NEW v \in Writes[stamp'[q].rev], Sole(v)
                 PROVE  value'[v] = Newest(q, stamp'[q].rev)
      BY DEF ValueInv
    <3>1. CASE q = r
      <4>1. v \in Vars
        BY <1>3, <1>6, <3>1, SourcesAssumption
      <4> QED BY <1>3, <2>1, <3>1, <4>1
    <3>2. CASE q # r
      <4>1. stamp'[q] = stamp[q] /\ stamp[q] # NoStamp /\ stamp[q].rev \in SourcesOf[q]
        BY <1>1, <2>3, <3>2
      <4>2. stamp[q].rev \in Sources
        BY <1>1, <4>1 DEF TypeOK, Stamps
      <4>3. v \in Vars /\ v \notin Writes[rev]
        BY <1>6, <1>14, <2>3, <3>2, <4>1, <4>2, SourcesAssumption DEF Sole
      <4>4. value[v] = Newest(q, stamp[q].rev)
        BY <1>14, <4>1 DEF Tracked, ValueInv
      <4> QED BY <2>1, <2>2, <3>2, <4>1, <4>3, <4>4
    <3> QED BY <3>1, <3>2
  <2>5. SeenInv'
    <3> SUFFICES ASSUME NEW c \in Present, ~InQueue(c)', stamp'[c] # NoStamp, NEW d \in stamp'[c].deps
                 PROVE  stamp'[d[2]] # NoStamp /\ (Sole(d[1]) => seen'[c][d[1]] = Newest(d[2], stamp'[d[2]].rev))
      BY <1>7 DEF SeenInv
    <3>1. d \in Deps(c)
      <4>1. CASE c = r
        BY <1>3, <4>1
      <4>2. CASE c # r
        BY <1>1, <1>6, <1>11, <4>2 DEF Matches
      <4> QED BY <4>1, <4>2
    <3>2. /\ d[1] \in Vars /\ d[1] \in Uses[src[c]] /\ d[2] \in Present /\ d[1] \in Writes[src[d[2]]]
          /\ d[2] # c /\ Feeds(d[2], c) /\ c \in Cells /\ d[2] \in Cells
      BY <1>1, <1>6, <3>1, DepsAre DEF Feeds
    <3>3. CASE c = r
      <4>1. Computed(d[2])
        BY <1>5, <3>2, <3>3 DEF Queued, LeadInv
      <4>2. /\ stamp[d[2]] # NoStamp /\ stamp[d[2]].rev = src[d[2]]
            /\ Sole(d[1]) => value[d[1]] = Newest(d[2], src[d[2]])
        BY <1>14, <3>2, <4>1 DEF Computed, Tracked, ValueInv
      <4>3. stamp'[d[2]] = stamp[d[2]]
        BY <1>1, <3>2, <3>3
      <4> QED BY <1>2, <2>1, <2>2, <3>2, <3>3, <4>2, <4>3
    <3>4. CASE c # r
      <4>1. ~InQueue(c) /\ stamp'[c] = stamp[c]
        BY <1>1, <1>11, <3>2, <3>4
      <4>2. d[2] # r
        <5>1. ASSUME d[2] = r PROVE Waits(c)
          <6>1. batches # <<>> /\ \E i \in DOMAIN batches[1] : batches[1][i].cell = c
            BY <1>5, <3>2, <5>1 DEF Queued, FollowInv
          <6>2. 1 \in DOMAIN batches
            BY <1>1, <6>1, BatchesAre
          <6> QED BY <6>1, <6>2 DEF Waits
        <5> QED BY <4>1, <5>1 DEF InQueue
      <4>3. stamp'[d[2]] = stamp[d[2]]
        BY <1>1, <3>2, <4>2
      <4>4. stamp[d[2]] # NoStamp /\ (Sole(d[1]) => seen[c][d[1]] = Newest(d[2], stamp[d[2]].rev))
        BY <1>14, <3>2, <4>1 DEF Tracked, SeenInv
      <4> QED BY <2>1, <2>2, <3>2, <3>4, <4>2, <4>3, <4>4
    <3> QED BY <3>3, <3>4
  <2> QED BY <2>4, <2>5 DEF Tracked
<1>15. WantedInv'
  <2> SUFFICES ASSUME wanted # {} PROVE WantedInv'
    BY <1>1 DEF WantedInv
  <2>1. \A q, c \in Present : q \notin wanted /\ c \in wanted /\ Feeds(q, c) => Computed(q) \/ q = r
    BY <1>5 DEF Queued, WantedInv
  <2>2. \A c \in Present : c \in wanted \/ Matches(c) \/ InQueue(c)
    BY DEF Queued, WantedInv
  <2>3. \A c \in Present : Matches(c) \/ InQueue(c) => Matches(c)' \/ InQueue(c)'
    BY <1>5, <1>7 DEF InQueue
  <2>4. \A q, c \in Present' : q \in wanted' /\ Feeds(q, c)' => c \in wanted'
    BY <1>1, <1>7 DEF Queued, WantedInv
  <2>5. \A q, c \in Present' : q \notin wanted' /\ c \in wanted' /\ Feeds(q, c)' => Computed(q)' \/ IsRunning(q)'
    BY <1>1, <1>7, <2>1
  <2>6. \A c \in Present' : c \in wanted' \/ Matches(c)' \/ InQueue(c)'
    BY <1>1, <1>7, <2>2, <2>3
  <2> QED BY <2>4, <2>5, <2>6 DEF WantedInv
<1> QED BY <1>7, <1>8, <1>9, <1>10, <1>12, <1>13, <1>14, <1>15 DEF Queued

----------------------------------------------------------------------------
(* The theorems.                                                           *)

\* When a default run of an undisturbed kernel is through, every cell
\* matches, and the kernel has nothing to do any more.
AllMatch == \A c \in Present : Matches(c)
NoneStale == Stale = {}

LEMMA StepQueue ==
  ASSUME QueueInv, [Next]_vars
  PROVE  /\ QueueInv'
         /\ Busy /\ ~Busy' /\ disturbed' = "no" => AllMatch'
         /\ CalmInv => CalmInv'
<1>1. TypeOK' /\ StampInv'
  BY StepType DEF QueueInv
<1>2. CASE disturbed' # "no"
  BY <1>1, <1>2 DEF QueueInv, CalmInv
<1>3. CASE disturbed' = "no" /\ EditStep
  BY <1>1, <1>3, EditCalm DEF QueueInv, CalmInv
<1>4. CASE disturbed' = "no" /\ RunCall
  <2>1. TypeOK
    BY DEF QueueInv
  <2>2. Want(Stale) /\ disturbed = "no" /\ (Busy' <=> Busy)
    BY <1>4, <2>1, RunCallType DEF Want, Busy, exec
  <2> QED BY <1>1, <1>4, <2>2, WantCalm DEF QueueInv, CalmInv
<1>5. CASE disturbed' = "no" /\ Begin
  <2>1. disturbed = "no"
    BY <1>5 DEF Begin
  <2> QED BY <1>1, <1>5, <2>1, BeginCalm DEF QueueInv, CalmInv
<1>6. CASE disturbed' = "no" /\ EndOk
  <2>1. disturbed = "no"
    BY <1>6 DEF EndOk
  <2> QED BY <1>1, <1>6, <2>1, EndOkCalm DEF QueueInv, CalmInv, AllMatch
<1>7. CASE disturbed' = "no" /\ EndFailed
  BY <1>7 DEF EndFailed
<1>8. CASE disturbed' = "no" /\ Cancel
  BY <1>8 DEF Cancel
<1>9. CASE NewKernel
  <2>1. running' = NoTask /\ batches' = <<>> /\ wanted' = {} /\ \A c \in Cells : stamp'[c] = NoStamp
    BY <1>9, NewKernelType DEF QueueInv
  <2>2. ~Busy /\ ~Busy'
    BY <1>9, <2>1 DEF NewKernel, Busy
  <2>3. Queued'
    <3>1. (~Busy /\ wanted = {})'
      BY <2>1, <2>2
    <3> QED BY <3>1, IdleQueue, PTL
  <2>4. Tracked'
    <3>1. Present' \subseteq Cells
      BY <1>9, PresentIs, GraphKept DEF NewKernel, notebook, QueueInv
    <3> QED BY <2>1, <3>1 DEF Tracked, ValueInv, SeenInv
  <2> QED BY <1>1, <2>2, <2>3, <2>4 DEF QueueInv, CalmInv
<1>10. CASE UNCHANGED vars
  <2>1. UNCHANGED <<order, unused, src, stamp, running, batches, wanted, value, seen, disturbed>>
    BY <1>10 DEF vars, notebook, exec, kernel
  <2>2. QueueKept
    BY <2>1, KeptQueue
  <2>3. ASSUME WantedInv PROVE WantedInv'
    <3> SUFFICES ASSUME wanted # {} PROVE WantedInv'
      BY <2>1 DEF WantedInv
    <3>1. \A p, c \in Present : Feeds(p, c)' <=> Feeds(p, c)
      BY <2>2 DEF QueueKept
    <3>2. /\ Present' = Present
          /\ \A c : (IsRunning(c)' <=> IsRunning(c)) /\ (InQueue(c)' <=> InQueue(c))
          /\ \A c : Computed(c)' <=> Computed(c)
          /\ \A c \in Present : Matches(c)' <=> Matches(c)
      BY <2>2 DEF QueueKept
    <3>3. \A p, c \in Present' : p \in wanted' /\ Feeds(p, c)' => c \in wanted'
      BY <2>1, <2>3, <3>1, <3>2 DEF WantedInv
    <3>4. \A p, c \in Present' : p \notin wanted' /\ c \in wanted' /\ Feeds(p, c)' => Computed(p)' \/ IsRunning(p)'
      BY <2>1, <2>3, <3>1, <3>2 DEF WantedInv
    <3>5. \A c \in Present' : c \in wanted' \/ Matches(c)' \/ InQueue(c)'
      BY <2>1, <2>3, <3>2 DEF WantedInv
    <3> QED BY <3>3, <3>4, <3>5 DEF WantedInv
  <2> QED BY <1>1, <2>1, <2>2, <2>3 DEF QueueInv, CalmInv, Queued, QueueKept
<1>11. CASE disturbed' = "no" /\ Submit
  <2>1. disturbed = "no"
    BY <1>11 DEF Submit
  <2> QED BY <1>1, <1>11, <2>1, SubmitCalm DEF QueueInv, CalmInv
<1>12. CASE disturbed' = "no" /\ Refuse
  <2>1. disturbed = "no" /\ (Busy' <=> Busy)
    BY <1>12 DEF Refuse, Busy, exec
  <2> QED BY <1>1, <1>12, <2>1, RefuseCalm DEF QueueInv, CalmInv
<1> QED
  BY <1>2, <1>3, <1>4, <1>5, <1>6, <1>7, <1>8, <1>9, <1>10, <1>11, <1>12 DEF Next

LEMMA InitCalm == Init => CalmInv
<1> SUFFICES ASSUME Init PROVE CalmInv
  OBVIOUS
<1>1. TypeOK /\ StampInv
  BY InitType
<1>2. stamp = [c \in Cells |-> NoStamp] /\ ~Busy /\ wanted = {}
  BY DEF Init, Busy
<1>3. Queued
  BY <1>2, IdleQueue
<1>4. Tracked
  <2>1. Present \subseteq Cells
    BY <1>1, PresentIs
  <2> QED BY <1>2, <2>1 DEF Tracked, ValueInv, SeenInv
<1> QED BY <1>1, <1>3, <1>4 DEF QueueInv, CalmInv

\* A default run (run without cells, run="stale") that goes through on a
\* kernel nobody disturbs leaves nothing stale: it ran all that was stale, in
\* an order in which what a cell uses is computed first, and running a cell
\* makes no other one stale that it does not run after it - also when the
\* worker ended and began tasks while run() was choosing (server.py run,
\* session.py submit_cells and stale_names).
THEOREM RunsFreshen == Spec => RunFreshens
<1>1. Init => QueueInv
  BY InitCalm DEF CalmInv
<1>2. QueueInv /\ [Next]_vars => QueueInv'
  BY StepQueue
<1>3. QueueInv /\ AllMatch => NoneStale
  BY StaleIs DEF QueueInv, AllMatch, NoneStale
<1>4. QueueInv /\ [Next]_vars => (Busy /\ ~Busy' /\ disturbed' = "no" => AllMatch')
  BY StepQueue
<1>5. QueueInv /\ [Next]_vars /\ (QueueInv' /\ AllMatch' => NoneStale')
      => [Busy /\ ~Busy' /\ disturbed' = "no" => Stale' = {}]_vars
  BY <1>2, <1>4 DEF NoneStale
<1> QED BY <1>1, <1>2, <1>3, <1>5, PTL DEF Spec, RunFreshens

\* A cell that does not read as stale has read the latest value of all it uses
\* that one cell alone writes, from the cell that serves it now and as that cell
\* now is, whatever was edited, added, moved and removed between default runs
\* (session.py stale_names and _run_task).
THEOREM FreshIsCurrent == Spec => []CalmInputsCurrent
<1>1. Init => CalmInv
  BY InitCalm
<1>2. CalmInv /\ [Next]_vars => CalmInv'
  BY StepQueue DEF CalmInv
<1>3. CalmInv => CalmInputsCurrent
  <2> SUFFICES ASSUME CalmInv, disturbed = "no", ~Busy,
                      NEW c \in Present \ Stale, NEW d \in Deps(c), Sole(d[1])
               PROVE  seen[c][d[1]] = [cell |-> d[2], rev |-> src[d[2]], latest |-> TRUE]
    BY DEF CalmInputsCurrent
  <2>1. TypeOK /\ SeenInv /\ ~InQueue(c)
    BY IdleWaits DEF CalmInv, QueueInv, Tracked
  <2>2. stamp[c] # NoStamp /\ stamp[c].deps = Deps(c)
    BY <2>1, StaleIs DEF Matches
  <2>3. d[2] \in Present /\ Feeds(d[2], c)
    BY <2>1, DepsAre DEF Feeds
  <2>4. d[2] \notin Stale
    BY <2>1, <2>3, StaleIs
  <2>5. stamp[d[2]].rev = src[d[2]]
    BY <2>1, <2>3, <2>4, StaleIs DEF Matches
  <2> QED BY <2>1, <2>2, <2>3, <2>5 DEF SeenInv, Newest
<1> QED BY <1>1, <1>2, <1>3, PTL DEF Spec
================================================================================
