-------------------------- MODULE MCSourceAnalysis --------------------------
EXTENDS SourceAnalysis

\* Two names, and one of Python's own.
Vars == {"x", "y"}
MCBuiltins == {"len"}

Atoms == {Name(n) : n \in Vars}
Simple == Atoms \cup {Name("len")}

\* (An assignment expression cannot bind the comprehension's variable.)
Comps(elts) == UNION {{Node("comp", n, NoName, <<i>>, <<e>>) : e \in {f \in elts : n \notin LocalsBy(f)}} :
                 n \in Vars, i \in Atoms}
Lambdas(bodies) == {Node("lambda", NoName, "x", <<d>>, <<b>>) : d \in Atoms, b \in bodies}
Calls(args) == {Node("mutator", n, NoName, <<a>>, <<>>) : n \in Vars, a \in args}
Walrus(vals) == {Node("walrus", n, NoName, <<v>>, <<>>) : n \in Vars, v \in vals}

\* Expressions, up to two deep.
Flat == Simple \cup Comps(Atoms) \cup Lambdas(Atoms) \cup Calls(Atoms) \cup Walrus(Simple)
Deep == Comps(Flat \ Simple) \cup Lambdas(Flat \ Simple)

Assigns(vals) == {Node("assign", n, NoName, <<v>>, <<>>) : n \in Vars, v \in vals}
Plain ==
  Atoms \cup Assigns(Simple)
  \cup {Node("aug", n, NoName, <<v>>, <<>>) : n \in Vars, v \in Atoms}
  \cup {Node("item", n, NoName, <<v>>, <<>>) : n \in Vars, v \in Atoms}
  \cup {Node("del", n, NoName, <<>>, <<>>) : n \in Vars}
  \cup {Node("import", "x", NoName, <<>>, <<>>), Node("star", NoName, NoName, <<>>, <<>>)}

Inner == Atoms \cup Assigns({Name("len")}) \cup {Node("del", "x", NoName, <<>>, <<>>)} \cup Comps({Name("x")})

Defs(k, bodies) ==
  {Node(k, "x", IF k = "class" THEN NoName ELSE "y", <<d>>, <<b>>) : d \in Atoms, b \in bodies}
Defs2(k, first, second) ==
  {Node(k, "x", NoName, <<>>, <<b, c>>) : b \in first, c \in second}
Loops(bodies) == {Node("for", n, NoName, <<i>>, <<b>>) : n \in Vars, i \in Atoms, b \in bodies}
Ifs(bodies)   == {Node("if", NoName, NoName, <<i>>, <<b>>) : i \in Atoms, b \in bodies}
Tries(bodies) ==
  {Node("try", NoName, NoName, <<>>, <<b, Node("except", "x", NoName, <<Name(t)>>, <<h>>)>>) :
     b \in bodies, t \in {"y", "len"}, h \in Atoms}
Withs(bodies) == {Node("with", n, NoName, <<i>>, <<b>>) : n \in Vars, i \in Atoms, b \in bodies}

Blocks == Loops(Inner) \cup Ifs(Inner) \cup Tries(Inner) \cup Withs(Inner)
          \cup Defs("def", Inner) \cup Defs("class", Inner)
Nested == Defs("def", Lambdas(Atoms)) \cup Defs("class", Defs("def", Atoms)) \cup Defs("def", Tries(Atoms))
          \cup Loops(Ifs(Inner)) \cup Defs("def", Defs("def", Inner))
          \cup Defs2("def", Comps(Atoms) \cup Lambdas(Atoms) \cup Plain, Atoms)
          \cup Defs2("class", Plain \cup Defs("def", Atoms), Atoms)

Lines == Plain \cup Assigns(Flat \ Simple) \cup Flat
MCStatements == <<Lines \cup Blocks \cup Nested \cup Deep, Lines \cup Blocks>>
=============================================================================
