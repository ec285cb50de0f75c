---------------------------- MODULE MCSubagents ----------------------------
(* Small instances of Subagents for TLC. *)
EXTENDS Subagents, TLC

CONSTANTS root, p1, p2, o1, o2, m1, m2

Symmetry == Permutations(Prompts) \cup Permutations(Spawns)
            \cup Permutations(Sends)
=============================================================================
