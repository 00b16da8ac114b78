----------------------------- MODULE MCWithdrawal -----------------------------
(* An instance of Withdrawal for TLC: two requests, of which the balance   *)
(* covers either one but not both.                                         *)
EXTENDS Withdrawal

CONSTANTS small, large

MCAmount == [r \in Requests |-> IF r = small THEN 1 ELSE 2]
=============================================================================
