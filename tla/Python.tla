------------------------------- MODULE Python -------------------------------
(***************************************************************************)
(* What running the code of a cell does to names: the part of Python that  *)
(* the dependency analysis (dag.py) is about.  A piece of code is a tree   *)
(* of nodes: kind k, the name n it binds, changes or reads, the name arg   *)
(* of its parameter, the expressions it begins with, the body after that.  *)
(***************************************************************************)
EXTENDS Naturals, SequencesExt

CONSTANTS
  Builtins,  \* names Python has without a cell that binds them
  NoName

Node(k, n, arg, exprs, body) == [k |-> k, n |-> n, arg |-> arg, exprs |-> exprs, body |-> body]

\* One kind per rule of the analysis.  "item" is x[...] = ..., "mutator" a call
\* like x.append(...), "walrus" is (x := ...), "star" is from ... import *;
\* an "except" node is the last in the body of a "try".
Name(n)              == Node("name", n, NoName, <<>>, <<>>)
Binds                == {"assign", "walrus", "for", "with", "import"}
Scopes               == {"def", "lambda", "class"}
ArgsOf(x)            == {x.arg} \ {NoName}
NamesOf(x)           == {x.n} \ {NoName}

RECURSIVE Nodes(_)
Nodes(x) == {x} \cup UNION {Nodes(y) : y \in ToSet(x.exprs \o x.body)}

NodesOf(xs) == UNION {Nodes(x) : x \in ToSet(xs)}

----------------------------------------------------------------------------
(* Scopes: a name assigned anywhere in a function is local in all of it; a *)
(* comprehension keeps its variable to itself, a nested function all.      *)

RECURSIVE LocalsBy(_)
LocalsIn(xs) == UNION {LocalsBy(x) : x \in ToSet(xs)}
LocalsBy(x) ==
  (IF x.k \in Binds \cup {"aug", "del", "except", "def", "class"} THEN NamesOf(x) ELSE {})
  \cup LocalsIn(IF x.k \in Scopes THEN x.exprs ELSE x.exprs \o x.body)

RECURSIVE GlobalsBy(_, _)
GlobalsIn(xs, local) == UNION {GlobalsBy(x, local) : x \in ToSet(xs)}

\* What x reads of the cell's own scope, inside functions with those locals.
GlobalsBy(x, local) ==
  LET within == IF x.k = "comp" THEN local \cup {x.n}
                ELSE IF x.k \in {"def", "lambda"} THEN local \cup ArgsOf(x) \cup LocalsIn(x.body)
                ELSE local
  IN  (IF x.k \in {"name", "aug", "item", "mutator", "del"} THEN {x.n} \ local ELSE {})
      \cup GlobalsIn(x.exprs, local) \cup GlobalsIn(x.body, within)

----------------------------------------------------------------------------
(* Runs: what the cell has bound so far, what it read that it had not, and *)
(* the objects it changed; functions are called when the cell is over.     *)

Run0 == [bound |-> {}, reads |-> {}, changed |-> {},
         gone |-> {},     \* what it unbound: reading that is an error
         called |-> {},   \* what the functions it made read of the cell's scope
         comp |-> {},     \* the variables of the comprehensions it is in
         skipped |-> {}]  \* the names that code it left out binds or unbinds

Served(r)    == r.bound \cup r.gone \cup Builtins
Bind(r, S)   == [r EXCEPT !.bound = @ \cup S, !.gone = @ \ S]
Unbind(r, S) == [r EXCEPT !.bound = @ \ S, !.gone = @ \cup S]
Read(r, n)   == IF n \in Served(r) THEN r ELSE [r EXCEPT !.reads = @ \cup {n}]
Change(r, n) == [r EXCEPT !.changed = @ \cup ({n} \ r.comp)]
Skip(R, xs)  == {[r EXCEPT !.skipped = @ \cup LocalsIn(xs)] : r \in R}

RECURSIVE RunsOf(_, _)

\* All ways to run the nodes xs one after the other, from the runs R.
RunsOn(xs, R) == FoldLeft(LAMBDA S, x : UNION {RunsOf(x, r) : r \in S}, R, xs)

\* The name is bound, then the body runs.
Round(x, R) == RunsOn(x.body, {Bind(r, NamesOf(x)) : r \in R})

\* A comprehension's variable is bound while it runs, and then what it was.
Comprehended(x, r) ==
  LET restored(now, before) == (now \ {x.n}) \cup (before \cap {x.n})
  IN  {[q EXCEPT !.bound = restored(@, r.bound), !.gone = restored(@, r.gone), !.comp = r.comp] :
         q \in RunsOn(x.body, {[Bind(r, {x.n}) EXCEPT !.comp = @ \cup {x.n}]})}

\* An exception after the first i statements of x, a "try": the handler runs,
\* and its name is unbound.
Handled(x, i, R) ==
  LET h == Last(x.body)
      raised == Skip(RunsOn(SubSeq(x.body, 1, i), R), SubSeq(x.body, i + 1, Len(x.body) - 1))
  IN  {Unbind(r, NamesOf(h)) : r \in Round(h, RunsOn(h.exprs, raised))}

\* The names a class body binds are the class's own.
ClassRuns(x, r) == {Bind([q EXCEPT !.bound = r.bound], {x.n}) : q \in RunsOn(x.body, {r})}

\* Functions run with their parameters and locals, in the scopes they are in.
MakeFunction(x, r) ==
  [Bind(r, NamesOf(x)) EXCEPT !.called = @ \cup GlobalsIn(x.body, r.comp \cup ArgsOf(x) \cup LocalsIn(x.body))]

RunsOf(x, r) ==
  LET begun == RunsOn(x.exprs, {r})
  IN  CASE x.k = "name" -> {Read(r, x.n)}
        [] x.k \in {"assign", "walrus", "with", "import"} -> Round(x, begun)
        [] x.k = "if"  -> RunsOn(x.body, begun) \cup Skip(begun, x.body)
        [] x.k = "for" -> Round(x, begun) \cup Round(x, Round(x, begun)) \cup Skip(begun, <<x>>)
        [] x.k = "try" ->
             Skip(RunsOn(Front(x.body), begun), <<Last(x.body)>>)
             \cup UNION {Handled(x, i, begun) : i \in 0..(Len(x.body) - 1)}
        [] x.k = "aug"     -> {Bind(q, {x.n}) : q \in RunsOn(x.exprs, {Read(r, x.n)})}
        [] x.k = "item"    -> {Change(Read(q, x.n), x.n) : q \in begun}
        [] x.k = "mutator" -> {Change(q, x.n) : q \in RunsOn(x.exprs, {Read(r, x.n)})}
        [] x.k = "del"     -> {Unbind(Read(r, x.n), {x.n})}
        [] x.k = "star"    -> {r}
        [] x.k = "comp"    -> UNION {Comprehended(x, q) : q \in begun} \cup Skip(begun, x.body)
        [] x.k = "class"   -> UNION {ClassRuns(x, q) : q \in begun}
        [] x.k \in {"def", "lambda"} -> {MakeFunction(x, q) : q \in begun}

Runs(cell) == RunsOn(cell, {Run0})

\* What a run needs from elsewhere, and what it leaves to others.
Needs(r)  == r.reads \cup (r.called \ Served(r))
Leaves(r) == r.bound \cup r.changed
=============================================================================
