---------------------------- MODULE MCEvmListener ----------------------------
(* An instance of EvmListener for TLC: deposits of 1 and of 2.             *)
EXTENDS EvmListener

CONSTANTS d1, d2

MCAmount == [d \in Deposits |-> IF d = d1 THEN 1 ELSE 2]
=============================================================================
