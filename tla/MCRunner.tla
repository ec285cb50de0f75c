------------------------------ MODULE MCRunner ------------------------------
(* Small instances of Runner for TLC. *)
EXTENDS Runner, TLC

CONSTANTS s1, r1, r2, i1, i2, m1

(* One session, two runs one after the other. *)
OneHome == [x \in Runs \cup Messages |-> s1]

Symmetry == Permutations(Runs) \cup Permutations(Steers)
=============================================================================
