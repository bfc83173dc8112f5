----------------------------- MODULE MCControl -----------------------------
(* Two commands at a time, and two values of each setting.                    *)
EXTENDS Control, TLC

Symmetry == Permutations(Ports) \cup Permutations(Options) \cup Permutations(RuleSets)
                \cup Permutations(Tasks)
=============================================================================
