---------------------------- MODULE MCSseLeases ----------------------------
(* Model-checking instance of SseLeases.                                   *)
EXTENDS SseLeases, TLC

\* Requests are interchangeable.
Symmetry == Permutations(Conns)
=============================================================================
