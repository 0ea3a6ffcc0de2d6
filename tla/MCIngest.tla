------------------------------ MODULE MCIngest ------------------------------
(* Ingest with two slots, two messages, three attempts and a fault.         *)
EXTENDS Ingest
=============================================================================
