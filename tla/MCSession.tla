----------------------------- MODULE MCSession -----------------------------
(* Session on one cell with two sources.                                   *)
EXTENDS Session, TLC

CONSTANTS a, s1, s2

OneCell  == {<<a>>}

\* Nothing in Session tells one source from another.
SourceSymmetry == Permutations(Sources)
============================================================================
