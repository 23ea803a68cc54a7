--------------------------- MODULE NotebookGraph ---------------------------
(***************************************************************************)
(* The dependency graph of a notebook (dag.py), declaratively: which cell  *)
(* provides each variable a cell uses, and what depends on what.  A        *)
(* notebook is given by position: uses[i] and writes[i] are what           *)
(* analyze_source finds in the i-th cell (nothing in a markdown cell), and *)
(* i is in wild if it has a wildcard import.                               *)
(***************************************************************************)
EXTENDS Naturals, FiniteSets

Latest(J) == CHOOSE j \in J : \A k \in J : k <= j

Writers(writes, i, v) == {j \in 1..i - 1 : v \in writes[j]}
Wildcards(wild, i)    == {j \in 1..i - 1 : j \in wild}

\* The cells a use of v in cell i may be served by: its earlier writers, or,
\* if there is none, the earlier wildcard imports.  The latest one serves it.
Candidates(writes, wild, i, v) ==
  IF Writers(writes, i, v) # {} THEN Writers(writes, i, v) ELSE Wildcards(wild, i)

\* The edges into cell i, as pairs <<variable, providing cell>>.
ParentsOf(uses, writes, wild, i) ==
  {<<v, Latest(Candidates(writes, wild, i, v))>> :
     v \in {u \in uses[i] : Candidates(writes, wild, i, u) # {}}}

UndefinedIn(uses, writes, wild, i) ==
  {v \in uses[i] : Candidates(writes, wild, i, v) = {}}

\* All cells that S reaches along the edges E, S itself included: the least
\* set that contains S and is closed under E.
Reach(E, S, All) ==
  CHOOSE R \in SUBSET All :
    /\ S \subseteq R
    /\ \A e \in E : e[1] \in R => e[2] \in R
    /\ \A T \in SUBSET All :
         S \subseteq T /\ (\A e \in E : e[1] \in T => e[2] \in T) => R \subseteq T
============================================================================
