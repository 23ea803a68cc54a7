--------------------------- MODULE MCBuildGraph ---------------------------
(* Every notebook of three cells over two variables.                       *)
EXTENDS BuildGraph, TLC

CONSTANTS x, y

VarSymmetry == Permutations(Vars)
============================================================================
