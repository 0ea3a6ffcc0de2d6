--------------------------- MODULE MCOutboxRelay ---------------------------
(* Model-checking instance of OutboxRelay: one transaction writes a faction *)
(* and a powerplay row, the other a faction row and a row to discard.       *)
EXTENDS OutboxRelay, TLC
CONSTANTS t1, t2, e1, e2, e3, e4
MCTxOf == e1 :> t1 @@ e2 :> t1 @@ e3 :> t2 @@ e4 :> t2
MCKind == e1 :> "faction" @@ e2 :> "powerplay" @@ e3 :> "faction" @@ e4 :> "invalid"
=============================================================================
