---------------------------- MODULE MCSummaries ----------------------------
(* Two cells with two sources and two possible outputs.                    *)
EXTENDS Summaries, TLC

CONSTANTS a, b, s1, s2, o1, o2

ValueSymmetry == Permutations(Sources) \cup Permutations(Outputs)
============================================================================
