----------------------------- MODULE BuildGraph -----------------------------
(***************************************************************************)
(* build_graph and NotebookGraph.stale_closure (dag.py) as the loops they  *)
(* are: one pass over the cells that remembers the last writer of every    *)
(* variable, then a search with an explicit stack from every changed cell. *)
(* NotebookGraph says what they should find.                               *)
(***************************************************************************)
EXTENDS NotebookGraph, Sequences

CONSTANTS
  N,         \* cells in the notebook
  Vars       \* variable names

ASSUME NAssumption == N \in Nat

VARIABLES
  uses, writes, wild,   \* the notebook, cell by cell
  i,                    \* the cell the pass is at
  lastWriter,           \* last_writer: 0 for "none yet"
  lastWildcard,         \* last_wildcard: 0 for None
  parents,              \* parents: edges into each cell
  children,             \* children: edges <<parent, child>>
  undefined,            \* undefined: names nobody provides
  changed,              \* the argument of stale_closure
  todo,                 \* the changed cells whose descendants are missing yet
  seen, stack,          \* the local variables of _closure
  out                   \* the result of stale_closure

notebook == <<uses, writes, wild>>
graph    == <<i, lastWriter, lastWildcard, parents, children, undefined>>
closure  == <<changed, todo, seen, stack, out>>
vars     == <<notebook, graph, closure>>

Cells == 1..N

Init ==
  /\ uses \in [Cells -> SUBSET Vars]
  /\ writes \in [Cells -> SUBSET Vars]
  /\ wild \in SUBSET Cells
  /\ i = 1
  /\ lastWriter = [v \in Vars |-> 0] /\ lastWildcard = 0
  /\ parents = [c \in Cells |-> {}] /\ children = {}
  /\ undefined = [c \in Cells |-> {}]
  /\ changed = {} /\ todo = {} /\ seen = {} /\ stack = <<>> /\ out = {}

----------------------------------------------------------------------------
\* Mutant: the fallback to the wildcard import also beats a known writer.
WildcardFirst(v) == IF lastWildcard # 0 THEN lastWildcard ELSE lastWriter[v]

\* Mutant: a cell's own writes are recorded before its uses are resolved.
OwnWritesFirst(v) ==
  IF v \in writes[i] THEN i ELSE IF lastWriter[v] # 0 THEN lastWriter[v] ELSE lastWildcard

\* Who provides v at this point of the pass; 0 if nobody does.
ProviderNow(v) == IF lastWriter[v] # 0 THEN lastWriter[v] ELSE lastWildcard

\* Mutant: an edge is added for a provider of None too.
AnyProvider(v) == v \in Vars

Provided(v) == ProviderNow(v) # 0

\* The body of build_graph's loop.  A cell's own writes count only after its
\* uses have been resolved.
VisitCell ==
  /\ i <= N
  /\ LET edges == {<<v, ProviderNow(v)>> : v \in {u \in uses[i] : Provided(u)}}
     IN  /\ parents' = [parents EXCEPT ![i] = edges]
         /\ children' = children \cup {<<e[2], i>> : e \in edges}
  /\ undefined' = [undefined EXCEPT ![i] = {v \in uses[i] : ~Provided(v)}]
  /\ lastWriter' = [v \in Vars |-> IF v \in writes[i] THEN i ELSE lastWriter[v]]
  /\ lastWildcard' = IF i \in wild THEN i ELSE lastWildcard
  /\ i' = i + 1
  /\ UNCHANGED <<notebook, closure>>

\* stale_closure(changed) on the finished graph.
AskClosure ==
  /\ i = N + 1
  /\ changed = {}
  /\ \E S \in (SUBSET Cells) \ {{}} : changed' = S /\ todo' = S /\ out' = S
  /\ UNCHANGED <<notebook, graph, seen, stack>>

\* edges.get(n, {}), pushed in some order.
ChildrenOf(c) == {d \in Cells : <<c, d>> \in children}

Pushed(c, s) ==
  \E n \in 0..N : \E p \in [1..n -> ChildrenOf(c)] :
    /\ \A j, k \in 1..n : p[j] = p[k] => j = k
    /\ \A d \in ChildrenOf(c) : \E j \in 1..n : p[j] = d
    /\ stack' = s \o p

\* descendants(name) starts with the children of name ...
BeginDescendants(c) ==
  /\ stack = <<>> /\ seen = {}
  /\ c \in todo
  /\ todo' = todo \ {c}
  /\ Pushed(c, <<>>)
  /\ UNCHANGED <<notebook, graph, changed, seen, out>>

\* Mutant: the children of a cell found on the way are not pushed.
ChildrenOnly ==
  /\ stack # <<>>
  /\ seen' = seen \cup {stack[Len(stack)]}
  /\ stack' = SubSeq(stack, 1, Len(stack) - 1)
  /\ UNCHANGED <<notebook, graph, changed, todo, out>>

\* ... and pops until the stack is empty; a cell seen before adds nothing.
Pop ==
  /\ stack # <<>>
  /\ LET c    == stack[Len(stack)]
         rest == SubSeq(stack, 1, Len(stack) - 1)
     IN  /\ seen' = seen \cup {c}
         /\ IF c \in seen THEN stack' = rest ELSE Pushed(c, rest)
  /\ UNCHANGED <<notebook, graph, changed, todo, out>>

EndDescendants ==
  /\ stack = <<>> /\ seen # {}
  /\ out' = out \cup seen
  /\ seen' = {}
  /\ UNCHANGED <<notebook, graph, changed, todo, stack>>

Next == VisitCell \/ AskClosure \/ (\E c \in Cells : BeginDescendants(c)) \/ Pop \/ EndDescendants

Spec == Init /\ [][Next]_vars

----------------------------------------------------------------------------
(* Properties.                                                             *)

TypeOK ==
  /\ uses \in [Cells -> SUBSET Vars] /\ writes \in [Cells -> SUBSET Vars]
  /\ wild \subseteq Cells
  /\ i \in 1..N + 1
  /\ lastWriter \in [Vars -> 0..N] /\ lastWildcard \in 0..N
  /\ parents \in [Cells -> SUBSET (Vars \X Cells)]
  /\ children \subseteq Cells \X Cells
  /\ undefined \in [Cells -> SUBSET Vars]
  /\ changed \subseteq Cells /\ todo \subseteq Cells /\ seen \subseteq Cells
  /\ out \subseteq Cells
  /\ stack \in Seq(Cells)

\* The single pass finds for every cell visited the providers that reading the
\* notebook from the top defines: the latest earlier writer, else the latest
\* earlier wildcard import, never the cell itself.
ParentsRight ==
  \A c \in 1..i - 1 :
    /\ parents[c] = ParentsOf(uses, writes, wild, c)
    /\ undefined[c] = UndefinedIn(uses, writes, wild, c)

\* Edges lead down the notebook: running cells in document order runs every
\* provider before the cells it serves.
EdgesGoDown == \A e \in children : e[1] < e[2]

\* stale_closure returns the changed cells and all that depend on them,
\* through any number of cells in between, and nothing else.
ClosureRight ==
  changed # {} /\ todo = {} /\ stack = <<>> /\ seen = {} =>
    out = Reach(children, changed, Cells)
============================================================================
