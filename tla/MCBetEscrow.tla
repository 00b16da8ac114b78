----------------------------- MODULE MCBetEscrow -----------------------------
(* Instances of BetEscrow for TLC.                                         *)
EXTENDS BetEscrow, TLC

Symmetric == Permutations(Bets) \cup Permutations(Workers)
=============================================================================
