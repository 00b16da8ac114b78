----------------------------- MODULE WagerAccount -----------------------------
(***************************************************************************)
(* What a player may expect of the wallet, with no Redis, no retries and   *)
(* no crashes: each wager is set aside once, in one step, only if the      *)
(* available balance covers it, and later leaves the held amount at most   *)
(* once, either paid out or refunded in full.                              *)
(***************************************************************************)
EXTENDS Integers

CONSTANTS Bets, Wagers, Payouts, Deposit

VARIABLES
  available,  \* what the player can still wager
  held,       \* what open bets hold
  stake,      \* the wager each open bet holds, 0 for a bet that is not open
  fate        \* "none", "open", "paid" or "refunded", for each bet

account == <<available, held, stake, fate>>

Init ==
  /\ available = Deposit
  /\ held = 0
  /\ stake = [b \in Bets |-> 0]
  /\ fate = [b \in Bets |-> "none"]

Reserve(b, wager) ==
  /\ fate[b] = "none" /\ available >= wager
  /\ available' = available - wager
  /\ held' = held + wager
  /\ stake' = [stake EXCEPT ![b] = wager]
  /\ fate' = [fate EXCEPT ![b] = "open"]

Close(b, end) ==
  /\ fate[b] = "open"
  /\ held' = held - stake[b]
  /\ stake' = [stake EXCEPT ![b] = 0]
  /\ fate' = [fate EXCEPT ![b] = end]

Pay(b, payout) == Close(b, "paid") /\ available' = available + payout

Refund(b) == Close(b, "refunded") /\ available' = available + stake[b]

Next == \E b \in Bets : \/ \E w \in Wagers : Reserve(b, w)
                        \/ \E p \in Payouts : Pay(b, p)
                        \/ Refund(b)

Spec == Init /\ [][Next]_account
=============================================================================
