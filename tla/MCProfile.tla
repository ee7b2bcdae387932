----------------------------- MODULE MCProfile ------------------------------
(* Profile for TLC: three enterprises, so that one can be replaced by the   *)
(* next and that one by a third, or by the first again.                     *)
EXTENDS Profile, TLC

Symmetry == Permutations(Ids)
=============================================================================
