---------------------------- MODULE SourceAnalysis ----------------------------
(***************************************************************************)
(* analyze_source (dag.py): the visitor that finds, without running it,    *)
(* which names a cell needs and which it provides, against what running    *)
(* the cell does (Python).                                                 *)
(***************************************************************************)
EXTENDS Python

CONSTANTS
  Statements, \* length -> statements: the cells of that length are made of them
  NotYet

VARIABLES cell, deps

vars == <<cell, deps>>

----------------------------------------------------------------------------
(* _free_names().                                                          *)

RECURSIVE LoadedBy(_), BoundBy(_)
LoadedIn(xs) == UNION {LoadedBy(x) : x \in ToSet(xs)}
BoundIn(xs)  == UNION {BoundBy(x) : x \in ToSet(xs)}

FreeOrParameter(x) == LoadedIn(x.body) \ (BoundIn(x.body) \cup Builtins) \* mutant: parameters count
Free(x) == LoadedIn(x.body) \ (BoundIn(x.body) \cup ArgsOf(x) \cup Builtins)

\* Inner.visit_*: loaded and bound.  The name of an exception handler is a
\* string and no Name node; defaults of nested functions are not visited.
LoadedBy(x) ==
  IF x.k \in {"def", "lambda"} THEN Free(x)
  ELSE (IF x.k \in {"name", "item", "mutator"} THEN {x.n} ELSE {}) \cup LoadedIn(x.exprs \o x.body)

BoundBy(x) ==
  (IF x.k \in Binds \cup {"aug", "del", "comp", "def", "class"} THEN NamesOf(x) ELSE {})
  \cup (IF x.k \in {"def", "lambda"} THEN ArgsOf(x) ELSE BoundIn(x.exprs \o x.body))

----------------------------------------------------------------------------
(* _ScopeVisitor.                                                          *)

Visitor0 == [defined |-> {}, uses |-> {}, mutates |-> {}, deferred |-> {}, wildcard |-> FALSE]

Use(v, n) == IF n \in v.defined \cup Builtins THEN v ELSE [v EXCEPT !.uses = @ \cup {n}]
Define(v, S)  == [v EXCEPT !.defined = @ \cup S]
Mutate(v, n)  == [Use(v, n) EXCEPT !.mutates = @ \cup {n}]

RECURSIVE Visit(_, _)
VisitAll(xs, v) == FoldLeft(LAMBDA u, x : Visit(x, u), v, xs)

\* Mutant: the targets are bound before the value is visited.
BindFirst(x, v) == VisitAll(x.exprs \o x.body, Define(v, NamesOf(x)))
BindLast(x, v)  == VisitAll(x.body, Define(VisitAll(x.exprs, v), NamesOf(x)))

\* The variable of a comprehension counts as bound inside, and no longer after
\* unless it was before.
Comprehend(x, v) ==
  LET before == VisitAll(x.exprs, v).defined
  IN  [BindLast(x, v) EXCEPT !.defined = @ \ ({x.n} \ before)]

\* _handle_function() and visit_ClassDef().
Defer(x, v) ==
  Define([VisitAll(x.exprs, v) EXCEPT !.deferred = @ \cup Free(x)],
         IF x.k = "lambda" THEN {} ELSE {x.n})

Delete(x, v) == [Use(v, x.n) EXCEPT !.defined = @ \ {x.n}]

Visit(x, v) ==
  CASE x.k = "name"          -> Use(v, x.n)
    [] x.k \in {"if", "try"} -> VisitAll(x.exprs \o x.body, v)
    [] x.k \in Binds         -> BindLast(x, v)
    [] x.k = "except"        -> VisitAll(x.body, Define(v, NamesOf(x)))
    [] x.k = "aug"           -> Define(Use(VisitAll(x.exprs, v), x.n), {x.n})
    [] x.k = "item"          -> Mutate(VisitAll(x.exprs, v), x.n)
    [] x.k = "mutator"       -> VisitAll(x.exprs, Mutate(v, x.n))
    [] x.k = "del"           -> Delete(x, v)
    [] x.k = "star"          -> [v EXCEPT !.wildcard = TRUE]
    [] x.k = "comp"          -> Comprehend(x, v)
    [] x.k \in Scopes        -> Defer(x, v)

\* analyze_source(), for a cell that is Python and parses.
Analysis(code) ==
  LET v == VisitAll(code, Visitor0)
  IN  [defines |-> v.defined, uses |-> v.uses \cup (v.deferred \ v.defined),
       mutates |-> v.mutates, wildcard |-> v.wildcard]

Writes(d) == d.defines \cup d.mutates

Init ==
  /\ \E n \in DOMAIN Statements : cell \in [1..n -> Statements[n]]
  /\ deps = NotYet

AnalyzeSource ==
  /\ deps = NotYet
  /\ deps' = Analysis(cell)
  /\ UNCHANGED cell

Next == AnalyzeSource

Spec == Init /\ [][Next]_vars

----------------------------------------------------------------------------
(* What the analysis gets wrong, as the names it may be wrong about.       *)

Kind(K)   == {x \in NodesOf(cell) : x.k \in K}
Inside(K) == UNION {NodesOf(x.body) : x \in Kind(K)}

\* What a scope inside a function binds counts as bound in all of the function.
InnerNames == UNION {BoundIn(x.body) \ LocalsIn(x.body) : x \in Kind(Scopes)}

\* The type of a handler and the defaults of inner functions are not visited.
Unvisited ==
  UNION {LoadedIn(x.exprs) : x \in Kind({"except"}) \cup {y \in Inside(Scopes) : y.k \in {"def", "lambda"}}}

\* A class body runs at once, but counts as if it ran later, like a function.
ClassNames == UNION {LoadedIn(x.body) \cup BoundIn(x.body) : x \in Kind({"class"})}

\* The name of a handler is unbound when that ends, and the variable of a
\* comprehension is nobody else's; both may count as the cell's.
HiddenNames == UNION {NamesOf(x) : x \in Kind({"except", "comp"})}

\* After "del" a name is looked for in other cells, which cannot serve it.
Deleted == UNION {NamesOf(x) : x \in Kind({"del"})}

----------------------------------------------------------------------------
(* Properties.                                                             *)

\* The graph misses no edge: whatever a run of the cell needs from other cells
\* is among its uses, and whatever it leaves to them among its writes, but for
\* names bound only in a block the run did not enter (the docstring of dag.py
\* promises "order-aware resolution" and conservative blind spots) and for three
\* kinds of names the visitor is blind to.
Complete ==
  deps # NotYet =>
    \A r \in Runs(cell) :
      /\ Needs(r) \subseteq deps.uses \cup r.skipped \cup InnerNames \cup Unvisited \cup ClassNames
      /\ Leaves(r) \subseteq Writes(deps) \cup r.skipped \cup ClassNames

\* The graph invents no edge: each use is needed, and each write left, by some
\* run of the cell, but for names that are local or unbound at that point.
Exact ==
  deps # NotYet =>
    /\ \A n \in deps.uses \ (HiddenNames \cup ClassNames \cup Deleted) :
         \E r \in Runs(cell) : n \in Needs(r)
    /\ \A n \in Writes(deps) \ HiddenNames : \E r \in Runs(cell) : n \in Leaves(r)
=============================================================================
