------------------------------ MODULE MCRegistry -----------------------------
(* Two notebooks, three sessions.                                           *)
EXTENDS Registry, TLC

CONSTANTS p, q

PathSymmetry == Permutations(Paths)
============================================================================
