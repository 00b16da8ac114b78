--------------------------- MODULE MCLedgerConsumer ---------------------------
(* An instance of LedgerConsumer for TLC: a bet that wins, one that pays   *)
(* its wager back, and one that loses and a withdrawal, either of which    *)
(* takes the opening balance, the winnings and the deposit.                *)
EXTENDS LedgerConsumer

CONSTANTS win, loss, even, deposit, withdrawal

MCCredit == [e \in Events |-> CASE e = win -> 2 [] e \in {even, deposit} -> 1
                                [] OTHER -> 0]
MCDebit == [e \in Events |-> CASE e \in {win, even} -> 1
                               [] e \in {loss, withdrawal} -> 3 [] OTHER -> 0]
=============================================================================
