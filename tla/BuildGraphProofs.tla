------------------------- MODULE BuildGraphProofs -------------------------
(***************************************************************************)
(* The single pass of build_graph finds the graph that NotebookGraph       *)
(* defines, and stale_closure all that is reached in it, for notebooks of  *)
(* any length over any variables.                                          *)
(***************************************************************************)
EXTENDS BuildGraph, FiniteSetTheorems, TLAPS

\* A greatest element is the Latest one.
LEMMA LatestIs ==
  ASSUME NEW J, NEW m \in J, J \subseteq Nat, \A k \in J : k <= m
  PROVE  Latest(J) = m
<1>1. ASSUME NEW j \in J, \A k \in J : k <= j PROVE j = m
  <2>1. j <= m /\ m <= j /\ j \in Nat /\ m \in Nat
    BY <1>1
  <2> QED BY <2>1
<1> QED BY <1>1 DEF Latest

----------------------------------------------------------------------------
(* The inductive invariant: what the pass remembers when it is at cell i.  *)

NotebookOK ==
  /\ uses \in [Cells -> SUBSET Vars] /\ writes \in [Cells -> SUBSET Vars]
  /\ wild \subseteq Cells
  /\ i \in 1..N + 1

\* m is the latest of the cells in J, or 0 if J is empty.
Remembers(m, J) ==
  /\ m \in 0..i - 1
  /\ m = 0 => J = {}
  /\ m # 0 => m \in J /\ \A k \in J : k <= m

WritersKnown ==
  /\ lastWriter = [v \in Vars |-> lastWriter[v]]
  /\ \A v \in Vars : Remembers(lastWriter[v], Writers(writes, i, v))
  /\ Remembers(lastWildcard, Wildcards(wild, i))

EdgesOK ==
  /\ parents = [c \in Cells |-> parents[c]] /\ undefined = [c \in Cells |-> undefined[c]]
  /\ \A c \in Cells : c >= i => parents[c] = {}
  /\ EdgesGoDown

GraphInv == NotebookOK /\ WritersKnown /\ ParentsRight /\ EdgesOK

\* Nothing is known before the first cell.
LEMMA InitGraph == Init => GraphInv
<1> SUFFICES ASSUME Init PROVE GraphInv
  OBVIOUS
<1>1. N \in Nat /\ i = 1 /\ 1..i - 1 = {}
  BY NAssumption DEF Init
<1>2. NotebookOK
  BY <1>1 DEF Init, NotebookOK
<1>3. (\A v \in Vars : Writers(writes, i, v) = {}) /\ Wildcards(wild, i) = {}
  BY <1>1 DEF Writers, Wildcards
<1>4. WritersKnown
  BY <1>1, <1>3 DEF Init, WritersKnown, Remembers
<1>5. ParentsRight
  BY <1>1 DEF ParentsRight
<1>6. EdgesOK
  BY DEF Init, EdgesOK, EdgesGoDown
<1> QED BY <1>2, <1>4, <1>5, <1>6 DEF GraphInv

\* What the pass remembers is the provider that NotebookGraph asks for.
LEMMA ProviderRight ==
  ASSUME GraphInv, i \in Cells, NEW v \in Vars
  PROVE  /\ ProviderNow(v) = 0 <=> Candidates(writes, wild, i, v) = {}
         /\ ProviderNow(v) # 0 =>
              /\ ProviderNow(v) = Latest(Candidates(writes, wild, i, v))
              /\ ProviderNow(v) \in Cells /\ ProviderNow(v) < i
<1> DEFINE J == Candidates(writes, wild, i, v)
<1>1. /\ Writers(writes, i, v) \subseteq Nat /\ Wildcards(wild, i) \subseteq Nat
      /\ i \in Nat /\ N \in Nat /\ Cells = 1..N
  BY NAssumption DEF Writers, Wildcards, Cells
<1>2. /\ Remembers(lastWriter[v], Writers(writes, i, v))
      /\ Remembers(lastWildcard, Wildcards(wild, i))
  BY DEF GraphInv, WritersKnown
<1>3. CASE lastWriter[v] # 0
  <2>1. J = Writers(writes, i, v) /\ J # {} /\ ProviderNow(v) = lastWriter[v]
    BY <1>2, <1>3 DEF Remembers, Candidates, ProviderNow
  <2>2. ProviderNow(v) \in J /\ \A k \in J : k <= ProviderNow(v)
    BY <1>2, <1>3, <2>1 DEF Remembers
  <2>3. Latest(J) = ProviderNow(v)
    BY <1>1, <2>1, <2>2, LatestIs
  <2>4. ProviderNow(v) \in 0..i - 1 /\ ProviderNow(v) # 0
    BY <1>2, <1>3, <2>1 DEF Remembers
  <2>5. ProviderNow(v) \in Cells /\ ProviderNow(v) < i
    BY <1>1, <2>4
  <2> QED BY <2>1, <2>3, <2>4, <2>5
<1>4. CASE lastWriter[v] = 0
  <2>1. J = Wildcards(wild, i) /\ ProviderNow(v) = lastWildcard
    BY <1>2, <1>4 DEF Remembers, Candidates, ProviderNow
  <2>2. CASE lastWildcard = 0
    BY <1>2, <2>1, <2>2 DEF Remembers
  <2>3. CASE lastWildcard # 0
    <3>1. ProviderNow(v) \in J /\ \A k \in J : k <= ProviderNow(v)
      BY <1>2, <2>1, <2>3 DEF Remembers
    <3>2. Latest(J) = ProviderNow(v)
      BY <1>1, <2>1, <3>1, LatestIs
    <3>3. ProviderNow(v) \in 0..i - 1
      BY <1>2, <2>1 DEF Remembers
    <3>4. ProviderNow(v) \in Cells /\ ProviderNow(v) < i
      BY <1>1, <2>1, <2>3, <3>3
    <3> QED BY <2>1, <2>3, <3>1, <3>2, <3>4
  <2> QED BY <2>2, <2>3
<1> QED BY <1>3, <1>4

\* One cell of the pass.
LEMMA VisitGraph ==
  ASSUME GraphInv, VisitCell
  PROVE  GraphInv'
<1> DEFINE edges == {<<v, ProviderNow(v)>> : v \in {u \in uses[i] : Provided(u)}}
<1>1. /\ N \in Nat /\ i \in Nat /\ i \in Cells /\ Cells = 1..N /\ i' = i + 1
      /\ uses' = uses /\ writes' = writes /\ wild' = wild
      /\ uses[i] \subseteq Vars /\ writes[i] \subseteq Vars
  BY NAssumption DEF VisitCell, GraphInv, NotebookOK, Cells, notebook
<1>2. NotebookOK'
  BY <1>1 DEF GraphInv, NotebookOK
<1>3. WritersKnown'
  <2>1. \A v \in Vars : lastWriter'[v] = IF v \in writes[i] THEN i ELSE lastWriter[v]
    BY DEF VisitCell
  <2>2. ASSUME NEW v \in Vars PROVE Remembers(lastWriter[v], Writers(writes, i, v))'
    <3>1. Writers(writes, i + 1, v) =
            Writers(writes, i, v) \cup (IF v \in writes[i] THEN {i} ELSE {})
      BY <1>1 DEF Writers
    <3>2. Remembers(lastWriter[v], Writers(writes, i, v))
      BY DEF GraphInv, WritersKnown
    <3>3. \A k \in Writers(writes, i, v) : k <= i
      BY <1>1 DEF Writers
    <3> QED BY <1>1, <2>1, <3>1, <3>2, <3>3 DEF Remembers
  <2>3. Remembers(lastWildcard, Wildcards(wild, i))'
    <3>1. Wildcards(wild, i + 1) = Wildcards(wild, i) \cup (IF i \in wild THEN {i} ELSE {})
      BY <1>1 DEF Wildcards
    <3>2. Remembers(lastWildcard, Wildcards(wild, i))
      BY DEF GraphInv, WritersKnown
    <3>3. \A k \in Wildcards(wild, i) : k <= i
      BY <1>1 DEF Wildcards
    <3>4. lastWildcard' = IF i \in wild THEN i ELSE lastWildcard
      BY DEF VisitCell
    <3> QED BY <1>1, <3>1, <3>2, <3>3, <3>4 DEF Remembers
  <2>4. (lastWriter = [v \in Vars |-> lastWriter[v]])'
    BY DEF VisitCell
  <2> QED BY <2>2, <2>3, <2>4 DEF WritersKnown
<1>4. edges = ParentsOf(uses, writes, wild, i)
  <2>1. \A v \in uses[i] : /\ ProviderNow(v) # 0 <=> Candidates(writes, wild, i, v) # {}
                           /\ ProviderNow(v) # 0 =>
                                ProviderNow(v) = Latest(Candidates(writes, wild, i, v))
    BY <1>1, ProviderRight
  <2> QED BY <2>1 DEF ParentsOf, Provided
<1>5. \A c \in Cells : /\ parents'[c] = IF c = i THEN edges ELSE parents[c]
                       /\ undefined'[c] = IF c = i THEN {v \in uses[i] : ~Provided(v)}
                                                  ELSE undefined[c]
  BY <1>1 DEF VisitCell, GraphInv, EdgesOK
<1>6. {v \in uses[i] : ~Provided(v)} = UndefinedIn(uses, writes, wild, i)
  BY <1>1, ProviderRight DEF UndefinedIn, Provided
<1>7. ParentsRight'
  <2> SUFFICES ASSUME NEW c \in 1..i
               PROVE  /\ parents'[c] = ParentsOf(uses, writes, wild, c)
                      /\ undefined'[c] = UndefinedIn(uses, writes, wild, c)
    BY <1>1 DEF ParentsRight
  <2>1. c \in Cells /\ (c = i \/ c \in 1..i - 1)
    BY <1>1
  <2> QED BY <1>4, <1>5, <1>6, <2>1 DEF GraphInv, ParentsRight
<1>8. \A e \in edges : e[2] \in Cells /\ e[2] < i
  BY <1>1, ProviderRight DEF Provided
<1>9. EdgesGoDown'
  <2>1. children' = children \cup {<<e[2], i>> : e \in edges}
    BY DEF VisitCell
  <2> QED BY <1>8, <2>1 DEF GraphInv, EdgesOK, EdgesGoDown
<1>10. EdgesOK'
  <2>1. (parents = [c \in Cells |-> parents[c]] /\ undefined = [c \in Cells |-> undefined[c]])'
    BY DEF VisitCell, GraphInv, EdgesOK
  <2>2. ASSUME NEW c \in Cells, c >= i + 1 PROVE parents'[c] = {}
    <3>1. c \in Nat /\ c # i /\ c >= i
      BY <1>1, <2>2
    <3> QED BY <1>5, <3>1 DEF GraphInv, EdgesOK
  <2> QED BY <1>1, <1>9, <2>1, <2>2 DEF EdgesOK
<1> QED BY <1>2, <1>3, <1>7, <1>10 DEF GraphInv

\* The closure search leaves the graph alone.
LEMMA GraphInductive == Spec => []GraphInv
<1>1. ASSUME GraphInv, UNCHANGED <<notebook, graph>> PROVE GraphInv'
  <2>1. /\ uses' = uses /\ writes' = writes /\ wild' = wild /\ i' = i
        /\ lastWriter' = lastWriter /\ lastWildcard' = lastWildcard
        /\ parents' = parents /\ children' = children /\ undefined' = undefined
    BY <1>1 DEF notebook, graph
  <2>2. NotebookOK' /\ EdgesOK'
    BY <1>1, <2>1 DEF GraphInv, NotebookOK, EdgesOK, EdgesGoDown
  <2>3. WritersKnown'
    BY <1>1, <2>1 DEF GraphInv, WritersKnown, Remembers
  <2>4. ParentsRight'
    BY <1>1, <2>1 DEF GraphInv, ParentsRight
  <2> QED BY <2>2, <2>3, <2>4 DEF GraphInv
<1>2. ASSUME GraphInv, [Next]_vars PROVE GraphInv'
  <2>1. VisitCell \/ UNCHANGED <<notebook, graph>>
    BY <1>2 DEF Next, AskClosure, BeginDescendants, Pop, EndDescendants, vars, closure
  <2> QED BY <1>1, <1>2, <2>1, VisitGraph
<1> QED BY InitGraph, <1>2, PTL DEF Spec

\* build_graph is right about every cell it has visited.
THEOREM PassFindsParents == Spec => []ParentsRight
<1>1. GraphInv => ParentsRight
  BY DEF GraphInv
<1> QED BY <1>1, GraphInductive, PTL

\* Every edge of the graph leads from a cell to a later one: the graph has no
\* cycle, and document order is an order in which providers come first.
THEOREM DependenciesGoDown == Spec => []EdgesGoDown
<1>1. GraphInv => EdgesGoDown
  BY DEF GraphInv, EdgesOK
<1> QED BY <1>1, GraphInductive, PTL

----------------------------------------------------------------------------
(* stale_closure: what the search knows.                                   *)

OnStack == {stack[k] : k \in DOMAIN stack}
Found   == out \cup seen \cup OnStack

Closed(T) == changed \subseteq T /\ \A e \in children : e[1] \in T => e[2] \in T

\* Nothing goes on before the graph is finished and a closure is asked for.
NotAsked == changed = {} => todo = {} /\ seen = {} /\ stack = <<>> /\ out = {}

\* What was found is reached: every set that is closed has it.
FoundReached == \A T \in SUBSET Cells : Closed(T) => Found \subseteq T

\* The children of what was found are found, as soon as its own turn is over.
ChildrenFound ==
  \A e \in children :
    /\ e[1] \in seen => e[2] \in seen \cup OnStack
    /\ e[1] \in changed \ todo => e[2] \in Found
    /\ e[1] \in out \ changed => e[2] \in out

SearchInv ==
  /\ TypeOK
  /\ (changed # {} => i = N + 1) /\ NotAsked
  /\ todo \subseteq changed /\ changed \subseteq out
  /\ FoundReached /\ ChildrenFound

\* Q is the least set that contains S and that the edges E do not lead out of.
Least(Q, E, S, All) ==
  /\ S \subseteq Q
  /\ \A e \in E : e[1] \in Q => e[2] \in Q
  /\ \A T \in SUBSET All :
       S \subseteq T /\ (\A e \in E : e[1] \in T => e[2] \in T) => Q \subseteq T

\* Reach is determined by what it is asked to be.
LEMMA ReachIs ==
  ASSUME NEW E, NEW S, NEW All, NEW R \in SUBSET All, Least(R, E, S, All)
  PROVE  Reach(E, S, All) = R
<1>1. Reach(E, S, All) = CHOOSE Q \in SUBSET All : Least(Q, E, S, All)
  BY DEF Reach, Least
<1>2. ASSUME NEW Q \in SUBSET All, Least(Q, E, S, All) PROVE Q = R
  <2>1. Q \subseteq R
    BY <1>2 DEF Least
  <2>2. R \subseteq Q
    BY <1>2 DEF Least
  <2> QED BY <2>1, <2>2
<1> QED BY <1>1, <1>2

\* A closed set has the children of its cells.
LEMMA ChildrenClosed ==
  ASSUME NEW T, Closed(T), NEW c \in T
  PROVE  ChildrenOf(c) \subseteq T
<1> SUFFICES ASSUME NEW d \in Cells, <<c, d>> \in children PROVE d \in T
  BY DEF ChildrenOf
<1>1. <<c, d>>[1] \in T => <<c, d>>[2] \in T
  BY DEF Closed
<1> QED BY <1>1

\* Whatever the order, the children of c are what comes onto the stack.
LEMMA PushedChildren ==
  ASSUME NEW c \in Cells, NEW s \in Seq(Cells), Pushed(c, s)
  PROVE  /\ stack' \in Seq(Cells)
         /\ OnStack' = {s[k] : k \in DOMAIN s} \cup ChildrenOf(c)
<1>0. PICK n \in 0..N : \E p \in [1..n -> ChildrenOf(c)] :
        (\A d \in ChildrenOf(c) : \E j \in 1..n : p[j] = d) /\ stack' = s \o p
  BY DEF Pushed
<1>1. PICK p \in [1..n -> ChildrenOf(c)] :
        (\A d \in ChildrenOf(c) : \E j \in 1..n : p[j] = d) /\ stack' = s \o p
  BY <1>0
<1>2. n \in Nat /\ ChildrenOf(c) \subseteq Cells
  BY NAssumption DEF ChildrenOf
<1>3. p \in Seq(Cells) /\ Len(p) = n /\ DOMAIN p = 1..n
  BY <1>1, <1>2
<1>4. /\ stack' \in Seq(Cells) /\ Len(s) \in Nat
      /\ DOMAIN s = 1..Len(s) /\ DOMAIN stack' = 1..Len(s) + n
      /\ \A k \in 1..Len(s) + n : stack'[k] = IF k <= Len(s) THEN s[k] ELSE p[k - Len(s)]
  BY <1>1, <1>2, <1>3
<1>5. ASSUME NEW k \in DOMAIN stack' PROVE stack'[k] \in {s[j] : j \in DOMAIN s} \cup ChildrenOf(c)
  <2>1. CASE k <= Len(s)
    BY <1>4, <2>1
  <2>2. CASE k > Len(s)
    <3>1. k - Len(s) \in 1..n
      BY <1>2, <1>4, <2>2
    <3> QED BY <1>1, <1>4, <2>2, <3>1
  <2> QED BY <1>4, <2>1, <2>2
<1>6. ASSUME NEW k \in DOMAIN s PROVE s[k] \in OnStack'
  <2>1. k \in DOMAIN stack' /\ stack'[k] = s[k]
    BY <1>2, <1>4
  <2> QED BY <2>1 DEF OnStack
<1>7. ASSUME NEW d \in ChildrenOf(c) PROVE d \in OnStack'
  <2>1. PICK j \in 1..n : p[j] = d
    BY <1>1
  <2>2. Len(s) + j \in 1..Len(s) + n /\ ~(Len(s) + j <= Len(s)) /\ (Len(s) + j) - Len(s) = j
    BY <1>2, <1>4
  <2>3. stack'[Len(s) + j] = d
    BY <1>4, <2>1, <2>2
  <2> QED BY <1>4, <2>2, <2>3 DEF OnStack
<1> QED BY <1>4, <1>5, <1>6, <1>7 DEF OnStack

LEMMA InitSearch == Init => SearchInv
<1> SUFFICES ASSUME Init PROVE SearchInv
  OBVIOUS
<1>1. TypeOK
  BY NAssumption DEF Init, TypeOK
<1>2. OnStack = {}
  BY DEF Init, OnStack
<1> QED BY <1>1, <1>2 DEF Init, SearchInv, NotAsked, FoundReached, ChildrenFound, Found

\* The pass: nothing is searched for yet.
LEMMA VisitSearch == ASSUME GraphInv, GraphInv', SearchInv, VisitCell PROVE SearchInv'
<1>1. /\ N \in Nat /\ i \in Cells /\ i' = i + 1 /\ UNCHANGED <<notebook, closure>>
      /\ uses[i] \subseteq Vars /\ Cells = 1..N
  BY NAssumption DEF VisitCell, GraphInv, NotebookOK, Cells
<1>2. changed = {} /\ todo = {} /\ seen = {} /\ stack = <<>> /\ out = {}
  BY <1>1 DEF SearchInv, NotAsked, Cells
<1>3. ASSUME NEW v \in {u \in uses[i] : Provided(u)} PROVE v \in Vars /\ ProviderNow(v) \in Cells
  BY <1>1, <1>3, ProviderRight DEF Provided
<1>4. parents' \in [Cells -> SUBSET (Vars \X Cells)] /\ children' \subseteq Cells \X Cells
      /\ undefined' \in [Cells -> SUBSET Vars]
  <2> DEFINE edges == {<<v, ProviderNow(v)>> : v \in {u \in uses[i] : Provided(u)}}
  <2>1. edges \subseteq Vars \X Cells
    BY <1>3
  <2>2. parents' = [parents EXCEPT ![i] = edges]
        /\ children' = children \cup {<<e[2], i>> : e \in edges}
        /\ undefined' = [undefined EXCEPT ![i] = {v \in uses[i] : ~Provided(v)}]
    BY DEF VisitCell
  <2>3. {<<e[2], i>> : e \in edges} \subseteq Cells \X Cells
    BY <1>1, <2>1
  <2> QED BY <1>1, <2>1, <2>2, <2>3 DEF SearchInv, TypeOK
<1>5. lastWriter' \in [Vars -> 0..N] /\ lastWildcard' \in 0..N
  BY <1>1 DEF VisitCell, SearchInv, TypeOK
<1>6. TypeOK'
  BY <1>1, <1>4, <1>5 DEF SearchInv, TypeOK, notebook, closure
<1>7. OnStack' = {}
  BY <1>1, <1>2 DEF OnStack, closure
<1> QED BY <1>1, <1>2, <1>6, <1>7
    DEF SearchInv, NotAsked, FoundReached, ChildrenFound, Found, closure

LEMMA AskSearch == ASSUME SearchInv, AskClosure PROVE SearchInv'
<1>1. PICK S \in (SUBSET Cells) \ {{}} : changed' = S /\ todo' = S /\ out' = S
  BY DEF AskClosure
<1>2. /\ i = N + 1 /\ changed = {} /\ UNCHANGED <<notebook, graph, seen, stack>>
      /\ seen = {} /\ stack = <<>>
  BY DEF AskClosure, SearchInv, NotAsked
<1>3. OnStack' = {}
  BY <1>2 DEF OnStack
<1>4. TypeOK'
  BY <1>1, <1>2 DEF SearchInv, TypeOK, notebook, graph
<1> QED BY <1>1, <1>2, <1>3, <1>4
    DEF SearchInv, NotAsked, FoundReached, Closed, ChildrenFound, Found, notebook, graph

LEMMA BeginSearch ==
  ASSUME SearchInv, NEW c \in Cells, BeginDescendants(c) PROVE SearchInv'
<1>1. /\ stack = <<>> /\ seen = {} /\ c \in todo /\ todo' = todo \ {c} /\ Pushed(c, <<>>)
      /\ UNCHANGED <<notebook, graph, changed, seen, out>>
  BY DEF BeginDescendants
<1>2. stack' \in Seq(Cells) /\ OnStack' = ChildrenOf(c) /\ OnStack = {}
  <2>1. <<>> \in Seq(Cells) /\ {<<>>[k] : k \in DOMAIN <<>>} = {}
    OBVIOUS
  <2> QED BY <1>1, <2>1, PushedChildren DEF OnStack
<1>3. \A d : d \in ChildrenOf(c) <=> d \in Cells /\ <<c, d>> \in children
  BY DEF ChildrenOf
<1>4. children \subseteq Cells \X Cells
  BY DEF SearchInv, TypeOK
<1>5. c \in changed /\ changed # {} /\ c \in out
  BY <1>1 DEF SearchInv
<1>6. TypeOK'
  BY <1>1, <1>2 DEF SearchInv, TypeOK, notebook, graph
<1>7. FoundReached'
  <2> SUFFICES ASSUME NEW T \in SUBSET Cells, Closed(T) PROVE Found' \subseteq T
    BY <1>1 DEF FoundReached, Closed, graph
  <2>1. Found \subseteq T /\ c \in T
    BY <1>5 DEF SearchInv, FoundReached, Closed
  <2> QED BY <1>1, <1>2, <2>1, ChildrenClosed DEF Found
<1>8. ChildrenFound'
  <2> SUFFICES ASSUME NEW e \in children, e[1] \in (changed \ todo) \cup {c}
               PROVE  e[2] \in out \cup ChildrenOf(c)
    BY <1>1, <1>2 DEF SearchInv, ChildrenFound, Found, graph
  <2>1. CASE e[1] = c
    BY <1>3, <1>4, <2>1
  <2>2. CASE e[1] # c
    BY <1>1, <1>2, <2>2 DEF SearchInv, ChildrenFound, Found
  <2> QED BY <2>1, <2>2
<1> QED BY <1>1, <1>5, <1>6, <1>7, <1>8 DEF SearchInv, NotAsked, graph

LEMMA PopSearch == ASSUME SearchInv, Pop PROVE SearchInv'
<1> DEFINE c == stack[Len(stack)]
           rest == SubSeq(stack, 1, Len(stack) - 1)
<1>1. /\ stack # <<>> /\ seen' = seen \cup {c}
      /\ IF c \in seen THEN stack' = rest ELSE Pushed(c, rest)
      /\ UNCHANGED <<notebook, graph, changed, todo, out>>
  BY DEF Pop
<1>2. /\ stack \in Seq(Cells) /\ Len(stack) \in Nat \ {0} /\ DOMAIN stack = 1..Len(stack)
      /\ c \in Cells /\ c \in OnStack
  BY <1>1 DEF SearchInv, TypeOK, OnStack
<1>3. /\ rest \in Seq(Cells) /\ DOMAIN rest = 1..Len(stack) - 1
      /\ \A k \in 1..Len(stack) - 1 : rest[k] = stack[k]
  BY <1>2
<1>4. OnStack = {rest[k] : k \in DOMAIN rest} \cup {c}
  <2>1. DOMAIN stack = DOMAIN rest \cup {Len(stack)}
    BY <1>2, <1>3
  <2> QED BY <1>3, <2>1 DEF OnStack
<1> HIDE DEF c, rest
<1>5. /\ stack' \in Seq(Cells)
      /\ OnStack' = {rest[k] : k \in DOMAIN rest} \cup (IF c \in seen THEN {} ELSE ChildrenOf(c))
  <2>1. CASE c \in seen
    BY <1>1, <1>3, <2>1 DEF OnStack
  <2>2. CASE c \notin seen
    BY <1>1, <1>2, <1>3, <2>2, PushedChildren
  <2> QED BY <2>1, <2>2
<1>6. \A d : d \in ChildrenOf(c) <=> d \in Cells /\ <<c, d>> \in children
  BY DEF ChildrenOf
<1>7. children \subseteq Cells \X Cells
  BY DEF SearchInv, TypeOK
<1>8. changed # {}
  BY <1>1 DEF SearchInv, NotAsked
<1>9. TypeOK'
  BY <1>1, <1>2, <1>5 DEF SearchInv, TypeOK, notebook, graph
<1>10. FoundReached'
  <2> SUFFICES ASSUME NEW T \in SUBSET Cells, Closed(T) PROVE Found' \subseteq T
    BY <1>1 DEF FoundReached, Closed, graph
  <2>1. Found \subseteq T /\ c \in T
    BY <1>2 DEF SearchInv, FoundReached, Found
  <2>2. ChildrenOf(c) \subseteq T
    BY <2>1, ChildrenClosed
  <2> QED BY <1>1, <1>4, <1>5, <2>1, <2>2 DEF Found
<1>11. seen \cup OnStack \subseteq seen' \cup OnStack' /\ Found \subseteq Found'
  BY <1>1, <1>4, <1>5 DEF Found
<1>12. ChildrenFound'
  <2> SUFFICES ASSUME NEW e \in children
               PROVE  /\ e[1] \in seen \cup {c} => e[2] \in seen' \cup OnStack'
                      /\ e[1] \in changed \ todo => e[2] \in Found'
                      /\ e[1] \in out \ changed => e[2] \in out
    BY <1>1 DEF ChildrenFound, graph
  <2>1. CASE e[1] \in seen
    BY <1>11, <2>1 DEF SearchInv, ChildrenFound
  <2>2. CASE e[1] = c /\ c \notin seen
    BY <1>5, <1>6, <1>7, <1>11, <2>2 DEF SearchInv, ChildrenFound
  <2>3. CASE e[1] \notin seen \cup {c}
    BY <1>11, <2>3 DEF SearchInv, ChildrenFound
  <2> QED BY <2>1, <2>2, <2>3
<1> QED BY <1>1, <1>8, <1>9, <1>10, <1>12 DEF SearchInv, NotAsked, graph

LEMMA EndSearch == ASSUME SearchInv, EndDescendants PROVE SearchInv'
<1>1. /\ stack = <<>> /\ seen # {} /\ out' = out \cup seen /\ seen' = {}
      /\ UNCHANGED <<notebook, graph, changed, todo, stack>>
  BY DEF EndDescendants
<1>2. OnStack = {} /\ OnStack' = {}
  BY <1>1 DEF OnStack
<1>3. Found' = Found
  BY <1>1, <1>2 DEF Found
<1>4. TypeOK'
  BY <1>1 DEF SearchInv, TypeOK, notebook, graph
<1>5. FoundReached'
  BY <1>1, <1>3 DEF SearchInv, FoundReached, Closed, graph
<1>6. ChildrenFound'
  BY <1>1, <1>2, <1>3 DEF SearchInv, ChildrenFound, Found, graph
<1> QED BY <1>1, <1>4, <1>5, <1>6 DEF SearchInv, NotAsked, graph

LEMMA SearchInductive == Spec => [](GraphInv /\ SearchInv)
<1>1. ASSUME GraphInv, GraphInv', SearchInv, [Next]_vars PROVE SearchInv'
  <2>1. CASE VisitCell
    BY <1>1, <2>1, VisitSearch
  <2>2. CASE AskClosure
    BY <1>1, <2>2, AskSearch
  <2>3. CASE \E c \in Cells : BeginDescendants(c)
    BY <1>1, <2>3, BeginSearch
  <2>4. CASE Pop
    BY <1>1, <2>4, PopSearch
  <2>5. CASE EndDescendants
    BY <1>1, <2>5, EndSearch
  <2>6. CASE UNCHANGED vars
    BY <1>1, <2>6 DEF vars, notebook, graph, closure, SearchInv, TypeOK, NotAsked, FoundReached,
       Closed, ChildrenFound, Found, OnStack
  <2> QED BY <1>1, <2>1, <2>2, <2>3, <2>4, <2>5, <2>6 DEF Next
<1> QED BY InitSearch, <1>1, GraphInductive, PTL DEF Spec

\* Types: what the pass remembers and what the search holds are cells of this
\* notebook.
THEOREM TypeCorrect == Spec => []TypeOK
<1>1. SearchInv => TypeOK
  BY DEF SearchInv
<1> QED BY <1>1, SearchInductive, PTL

\* stale_closure() returns what is reached from the changed cells, whatever the
\* order in which the stack takes them, through chains, diamonds and cells
\* that were changed themselves.
THEOREM ClosureIsReach == Spec => []ClosureRight
<1>1. SearchInv => ClosureRight
  <2> SUFFICES ASSUME SearchInv, changed # {}, todo = {}, stack = <<>>, seen = {}
               PROVE  out = Reach(children, changed, Cells)
    BY DEF ClosureRight
  <2>1. OnStack = {} /\ Found = out
    BY DEF OnStack, Found
  <2>2. changed \subseteq out /\ out \in SUBSET Cells
    BY DEF SearchInv, TypeOK
  <2>3. \A e \in children : e[1] \in out => e[2] \in out
    BY <2>1 DEF SearchInv, ChildrenFound
  <2>4. \A T \in SUBSET Cells :
          changed \subseteq T /\ (\A e \in children : e[1] \in T => e[2] \in T) => out \subseteq T
    BY <2>1 DEF SearchInv, FoundReached, Closed
  <2>5. Least(out, children, changed, Cells)
    BY <2>2, <2>3, <2>4 DEF Least
  <2> QED BY <2>2, <2>5, ReachIs
<1> QED BY <1>1, SearchInductive, PTL

----------------------------------------------------------------------------
(* The search ends.                                                        *)

\* What stale_closure has before it at most: for the cell whose descendants it
\* is at, the cells not seen yet, each of which may push all cells, and what
\* is on the stack; the same again for each cell it has not begun with.
Idle       == stack = <<>> /\ seen = {}
CellLeft   == (N - Cardinality(seen)) * (N + 1) + Len(stack) + 1
SearchLeft == Cardinality(todo) * ((N + 1) * (N + 1) + 1) + IF Idle THEN 0 ELSE CellLeft

Search == (\E c \in Cells : BeginDescendants(c)) \/ Pop \/ EndDescendants

\* Every step of the search brings its end nearer, whatever the edges, also
\* when a cell is pushed once for each of its parents.
SearchShrinks == [][Search => SearchLeft' \in Nat /\ SearchLeft' < SearchLeft]_vars

\* Pushing the children of a cell adds no more than there are cells.
LEMMA PushedFew ==
  ASSUME NEW c \in Cells, NEW s \in Seq(Cells), Pushed(c, s)
  PROVE  Len(stack') \in Nat /\ Len(stack') <= Len(s) + N
<1>1. PICK n \in 0..N : \E p \in [1..n -> ChildrenOf(c)] : stack' = s \o p
  BY DEF Pushed
<1>2. PICK p \in [1..n -> ChildrenOf(c)] : stack' = s \o p
  BY <1>1
<1>3. n \in Nat /\ n <= N /\ N \in Nat /\ ChildrenOf(c) \subseteq Cells
  BY NAssumption DEF ChildrenOf
<1>4. p \in Seq(Cells) /\ Len(p) = n
  BY <1>2, <1>3
<1>5. Len(s) \in Nat /\ Len(stack') = Len(s) + n
  BY <1>2, <1>4
<1> QED BY <1>3, <1>5

\* Popping the last cell.
LEMMA PopOne ==
  ASSUME NEW s \in Seq(Cells), s # <<>>
  PROVE  /\ Len(s) > 0 /\ s[Len(s)] \in Cells
         /\ SubSeq(s, 1, Len(s) - 1) \in Seq(Cells)
         /\ Len(SubSeq(s, 1, Len(s) - 1)) = Len(s) - 1
<1>1. Len(s) \in Nat \ {0} /\ DOMAIN s = 1..Len(s) /\ s[Len(s)] \in Cells
  OBVIOUS
<1>2. /\ SubSeq(s, 1, Len(s) - 1) \in Seq(Cells)
      /\ DOMAIN SubSeq(s, 1, Len(s) - 1) = 1..Len(s) - 1
  BY <1>1
<1>3. Len(SubSeq(s, 1, Len(s) - 1)) = Len(s) - 1
  BY <1>1, <1>2
<1> QED BY <1>1, <1>2, <1>3

\* There are no more than N cells in a set of them.
LEMMA CellsCounted ==
  ASSUME NEW S \in SUBSET Cells
  PROVE  IsFiniteSet(S) /\ Cardinality(S) \in 0..N
<1>1. IsFiniteSet(Cells) /\ Cardinality(Cells) = N
  <2>1. IsFiniteSet(1..N) /\ Cardinality(1..N) = IF 1 > N THEN 0 ELSE N - 1 + 1
    BY NAssumption, FS_Interval
  <2> QED BY <2>1, NAssumption DEF Cells
<1>2. IsFiniteSet(S) /\ Cardinality(S) <= Cardinality(Cells)
  BY <1>1, FS_Subset
<1>3. Cardinality(S) \in Nat
  BY <1>2, FS_CardinalityType
<1> QED BY <1>1, <1>2, <1>3, NAssumption

\* The numbers: one cell seen pays for all that it may push, and one cell of
\* todo for all of a search.
LEMMA Payments ==
  ASSUME NEW n \in Nat, NEW k \in Nat, NEW w \in Nat, NEW r \in Nat, r < w
  PROVE  /\ k * n \in Nat /\ k * w \in Nat
         /\ k > 0 => (k - 1) * n + n = k * n /\ (k - 1) * n \in Nat
         /\ k > 0 => (k - 1) * w \in Nat /\ (k - 1) * w + r < k * w
<1>1. k * n \in Nat /\ k * w \in Nat
  OBVIOUS
<1>2. (k - 1) * n = k * n - n /\ (k - 1) * w = k * w - w
  OBVIOUS
<1>3. k > 0 => (k - 1) * n \in Nat /\ (k - 1) * w \in Nat
  OBVIOUS
<1> QED BY <1>1, <1>2, <1>3

\* The while loop of _closure ends for each changed cell, and with it
\* stale_closure, on any graph, cycles included.
THEOREM SearchEnds == Spec => SearchShrinks
<1>1. ASSUME TypeOK, TypeOK', Search
      PROVE  SearchLeft' \in Nat /\ SearchLeft' < SearchLeft
  <2> DEFINE M == N + 1
             W == (N + 1) * (N + 1) + 1
             T == Cardinality(todo)
             K == N - Cardinality(seen)
  <2>0. /\ N \in Nat /\ M \in Nat /\ M * M \in Nat /\ N * M \in Nat /\ W \in Nat
        /\ N * M + M = M * M /\ W = M * M + 1 /\ M = N + 1
    BY NAssumption
  <2>1. /\ stack \in Seq(Cells) /\ Len(stack) \in Nat /\ seen \subseteq Cells /\ todo \subseteq Cells
        /\ stack' \in Seq(Cells) /\ Len(stack') \in Nat
    BY <1>1 DEF TypeOK
  <2>2. T \in Nat /\ K \in Nat /\ Cardinality(seen) \in Nat /\ IsFiniteSet(seen) /\ IsFiniteSet(todo)
    BY <2>0, <2>1, CellsCounted
  <2>3. T * W \in Nat /\ K * M \in Nat
    BY <2>0, <2>1, <2>2
  <2>4. ASSUME NEW c \in Cells, BeginDescendants(c)
        PROVE  SearchLeft' \in Nat /\ SearchLeft' < SearchLeft
    <3>1. c \in todo /\ todo' = todo \ {c} /\ Idle /\ Pushed(c, <<>>) /\ seen' = {}
      BY <2>4 DEF BeginDescendants, Idle
    <3>2. Cardinality(todo') = T - 1 /\ T > 0
      <4>1. Cardinality(todo') = T - 1
        BY <2>2, <3>1, FS_RemoveElement
      <4>2. T # 0
        BY <2>2, <3>1, FS_EmptySet
      <4> QED BY <2>2, <4>1, <4>2
    <3>3. Len(stack') <= N
      <4>1. <<>> \in Seq(Cells) /\ Len(<<>>) = 0
        OBVIOUS
      <4>2. Len(stack') <= Len(<<>>) + N
        BY <3>1, <4>1, PushedFew
      <4> QED BY <2>0, <4>1, <4>2
    <3>4. CellLeft' = N * M + Len(stack') + 1
      <4>1. Cardinality(seen') = 0
        BY <3>1, FS_EmptySet
      <4> QED BY <2>0, <4>1 DEF CellLeft
    <3>5. CellLeft' \in Nat /\ CellLeft' < W
      <4> HIDE DEF M, W
      <4> QED BY <2>0, <2>1, <3>3, <3>4
    <3>6. (T - 1) * W \in Nat /\ (T - 1) * W + CellLeft' < T * W /\ (T - 1) * W + 0 < T * W
      <4> HIDE DEF W, T
      <4>1. 0 \in Nat /\ 0 < W /\ W \in Nat /\ T \in Nat
        BY <2>0, <2>2, <3>5
      <4>2. (T - 1) * W \in Nat /\ (T - 1) * W + 0 < T * W
        BY <3>2, <4>1, Payments
      <4>3. (T - 1) * W + CellLeft' < T * W
        BY <3>2, <3>5, <4>1, Payments
      <4> QED BY <4>2, <4>3
    <3>7. SearchLeft = T * W
      BY <2>3, <3>1 DEF SearchLeft
    <3>8. SearchLeft' = (T - 1) * W + IF Idle' THEN 0 ELSE CellLeft'
      BY <3>2 DEF SearchLeft
    <3> HIDE DEF W, T
    <3> QED BY <3>5, <3>6, <3>7, <3>8
  <2>5. ASSUME Pop PROVE SearchLeft' \in Nat /\ SearchLeft' < SearchLeft
    <3> DEFINE c == stack[Len(stack)]
               rest == SubSeq(stack, 1, Len(stack) - 1)
    <3>1. /\ stack # <<>> /\ seen' = seen \cup {c} /\ todo' = todo
          /\ IF c \in seen THEN stack' = rest ELSE Pushed(c, rest)
      BY <2>5 DEF Pop
    <3>2. Len(stack) > 0 /\ c \in Cells /\ rest \in Seq(Cells) /\ Len(rest) = Len(stack) - 1
      BY <2>1, <3>1, PopOne
    <3>3. ~Idle /\ ~Idle'
      BY <3>1 DEF Idle
    <3>4. SearchLeft = T * W + CellLeft /\ SearchLeft' = T * W + CellLeft'
      BY <3>1, <3>3 DEF SearchLeft
    <3>5. CellLeft = K * M + Len(stack) + 1
      BY DEF CellLeft
    <3> HIDE DEF c, rest, W
    <3>6. CellLeft' \in Nat /\ CellLeft' < CellLeft
      <4>1. CASE c \in seen
        <5>1. seen' = seen /\ Len(stack') = Len(stack) - 1
          BY <3>1, <3>2, <4>1
        <5>2. CellLeft' = K * M + Len(stack) - 1 + 1
          BY <2>0, <2>1, <2>2, <2>3, <5>1 DEF CellLeft
        <5> QED BY <2>1, <2>3, <3>2, <3>5, <5>2
      <4>2. CASE c \notin seen
        <5>1. Cardinality(seen') = Cardinality(seen) + 1
          BY <2>2, <3>1, <4>2, FS_AddElement
        <5>2. K > 0
          <6>1. seen' \subseteq Cells
            BY <2>1, <3>1, <3>2
          <6>2. Cardinality(seen') <= N
            BY <2>1, <6>1, CellsCounted
          <6> QED BY <2>0, <2>2, <5>1, <6>2
        <5>3. Len(stack') <= Len(stack) - 1 + N
          BY <3>1, <3>2, <4>2, PushedFew
        <5>4. (K - 1) * M + M = K * M /\ (K - 1) * M \in Nat
          <6> HIDE DEF K, M
          <6> 0 < 1 /\ 0 \in Nat /\ 1 \in Nat
            OBVIOUS
          <6> QED BY <2>0, <2>2, <5>2, Payments
        <5>5. CellLeft' = (K - 1) * M + Len(stack') + 1
          <6>1. N - Cardinality(seen') = K - 1
            BY <2>0, <2>2, <5>1
          <6> QED BY <6>1 DEF CellLeft
        <5>6. N \in Nat /\ M = N + 1
          BY <2>0
        <5> HIDE DEF K, M
        <5>7. CellLeft' + M = K * M + Len(stack') + 1
          BY <2>1, <2>3, <5>4, <5>5, <5>6
        <5>8. CellLeft' \in Nat
          BY <2>1, <5>4, <5>5
        <5> QED BY <2>1, <2>3, <3>2, <3>5, <5>3, <5>6, <5>7, <5>8
      <4> QED BY <4>1, <4>2
    <3>7. CellLeft \in Nat
      BY <2>1, <2>3, <3>5
    <3> HIDE DEF K, M, T
    <3> QED BY <2>3, <3>4, <3>6, <3>7
  <2>6. ASSUME EndDescendants PROVE SearchLeft' \in Nat /\ SearchLeft' < SearchLeft
    <3>1. ~Idle /\ Idle' /\ todo' = todo /\ stack = <<>>
      BY <2>6 DEF EndDescendants, Idle
    <3>2. SearchLeft = T * W + CellLeft /\ SearchLeft' = T * W + 0
      BY <3>1 DEF SearchLeft
    <3>3. CellLeft = K * M + Len(stack) + 1
      BY DEF CellLeft
    <3> HIDE DEF K, M, T, W
    <3> QED BY <2>1, <2>3, <3>2, <3>3
  <2> QED BY <1>1, <2>4, <2>5, <2>6 DEF Search
<1>2. TypeOK /\ TypeOK' /\ [Next]_vars
        => [Search => SearchLeft' \in Nat /\ SearchLeft' < SearchLeft]_vars
  BY <1>1
<1> QED BY <1>2, TypeCorrect, PTL DEF Spec, SearchShrinks
============================================================================
