--------------------------- MODULE MCController -----------------------------
(* Controller for TLC: two tasks, so that one command can overlap another.  *)
EXTENDS Controller, TLC

Symmetry == Permutations(Tasks) \cup Permutations(Modes)
=============================================================================
