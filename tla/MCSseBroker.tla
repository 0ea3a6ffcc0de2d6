---------------------------- MODULE MCSseBroker ----------------------------
(* Model-checking instance of SseBroker: one connection listens to both     *)
(* channels, the other to one of them.                                      *)
EXTENDS SseBroker, TLC
CONSTANTS c1, c2, k1, k2
MCRoutes == c1 :> {k1, k2} @@ c2 :> {k1}
=============================================================================
