----------------------------- MODULE RedisWallet -----------------------------
(***************************************************************************)
(* One player's hot wallet in Redis, for one chain and currency: the keys  *)
(* user:{id}:balance, user:{id}:escrowed and user:{id}:nonce.  Every       *)
(* change to them is one Lua script, which Redis runs without interruption,*)
(* so each script is one operator here: from the wallet before to the      *)
(* wallet after.  Amounts are whole atomic units (the code's strings have  *)
(* eight decimals); a key that Redis does not hold reads as 0.             *)
(***************************************************************************)
EXTENDS Integers

Wallet == [balance : Nat, escrow : Nat, nonce : Nat]

(* math.max(0, escrowed - wager) in the settle and release scripts.        *)
NotBelowZero(n) == IF n < 0 THEN 0 ELSE n

-----------------------------------------------------------------------------
(* escrow-bet.lua refuses a wager the available balance does not cover and *)
(* then writes nothing; otherwise it moves the wager and takes a nonce.    *)

CanEscrow(w, wager) == w.balance >= wager

\* Mutation: the INCR of the nonce is forgotten.
EscrowBetSameNonce(w, wager) ==
  [w EXCEPT !.balance = @ - wager, !.escrow = @ + wager]

EscrowBet(w, wager) ==
  [balance |-> w.balance - wager,
   escrow  |-> w.escrow + wager,
   nonce   |-> w.nonce + 1]

-----------------------------------------------------------------------------
(* settle-bet.lua: the wager leaves escrow, the payout (0 on a loss)       *)
(* reaches the balance.                                                    *)

\* Mutation: escrow is decremented without the clamp at zero.
SettleBetUnclamped(w, wager, payout) ==
  [w EXCEPT !.balance = @ + payout, !.escrow = @ - wager]

\* Mutation: the payout is taken out of escrow instead of the wager.
SettleBetPayoutFromEscrow(w, wager, payout) ==
  [w EXCEPT !.balance = @ + payout, !.escrow = NotBelowZero(@ - payout)]

SettleBet(w, wager, payout) ==
  [w EXCEPT !.balance = @ + payout, !.escrow = NotBelowZero(@ - wager)]

(* release-escrow.lua: the wager goes back from escrow to the balance.     *)

\* Mutation: the wager is credited and left in escrow as well.
ReleaseEscrowKeepsHold(w, wager) == [w EXCEPT !.balance = @ + wager]

ReleaseEscrow(w, wager) ==
  [w EXCEPT !.balance = @ + wager, !.escrow = NotBelowZero(@ - wager)]
=============================================================================
