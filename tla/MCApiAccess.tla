---------------------------- MODULE MCApiAccess -----------------------------
(* ApiAccess with two requests at a time and limits of one and two.          *)
EXTENDS ApiAccess, TLC
Symmetry == Permutations(Requests)
=============================================================================
