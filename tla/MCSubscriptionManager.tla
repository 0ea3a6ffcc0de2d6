----------------------- MODULE MCSubscriptionManager -----------------------
(* Model-checking instance of SubscriptionManager.                         *)
EXTENDS SubscriptionManager
=============================================================================
