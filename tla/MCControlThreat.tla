-------------------------- MODULE MCControlThreat --------------------------
(* Model-checking instance of ControlThreat.  The gaps between the levels   *)
(* 1, 2 and 4 lie below, on and above the threshold 1.                      *)
EXTENDS ControlThreat, TLC

\* Factions are interchangeable.
Symmetry == Permutations(Factions)
=============================================================================
