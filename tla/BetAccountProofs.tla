--------------------------- MODULE BetAccountProofs ---------------------------
(***************************************************************************)
(* Proofs that the handlers implement the account of WagerAccount as long  *)
(* as no reply of Redis is lost, and that every lost reply makes the       *)
(* wallet wrong by one amount at most.                                     *)
(***************************************************************************)
EXTENDS BetEscrowProofs

-----------------------------------------------------------------------------
(* Steps that no script takes part in.                                     *)

(* A step that leaves the wallet and the history alone, and the amounts of *)
(* every bet that they speak of.                                           *)
Still ==
  /\ wallet' = wallet /\ runs' = runs
  /\ \A c \in Bets : local'[c].wager = local[c].wager \/ runs[c].escrow = 0
  /\ \A c \in Bets : local'[c].payout = local[c].payout \/ runs[c].settle = 0

(* Every step is one run of a script, or leaves the wallet alone.          *)
LEMMA ScriptOrStill ==
  Control /\ [Next]_vars =>
    \/ \E b \in Bets : \/ RunEscrow(b) /\ CanEscrow(wallet, local[b].wager)
                       \/ RunSettle(b) \/ RunRelease(b)
    \/ Still
<1> SUFFICES ASSUME Control, [Next]_vars,
                    ~ \E b \in Bets : \/ RunEscrow(b) /\ CanEscrow(wallet, local[b].wager)
                                      \/ RunSettle(b) \/ RunRelease(b)
             PROVE  Still
  OBVIOUS
<1>1. /\ local \in [Bets -> Local] /\ \A c \in Bets : local[c] \in Local
      /\ \A c \in Bets : pc[c] = "idle" => runs[c].escrow = 0
      /\ \A c \in Bets : pc[c] = "compute" => runs[c].settle = 0
  BY DEF Control, TypeOK, StageInv, RunsMatchStage
<1>2. ASSUME NEW b \in Bets, Player(b) PROVE Still
  <2>1. CASE TurnAway(b)
    BY <2>1 DEF TurnAway, Still
  <2>2. ASSUME NEW w \in Wagers, NEW h \in Workers, Admit(b, w, h) PROVE Still
    BY <1>1, <2>2 DEF Admit, Local, Still
  <2>3. QED
    BY <1>2, <2>1, <2>2 DEF Player
<1>3. ASSUME NEW b \in Bets, Server(b) PROVE Still
  <2>1. RunEscrow(b) /\ ~CanEscrow(wallet, local[b].wager)
    BY <1>3 DEF Server
  <2>2. local' = [local EXCEPT ![b].granted = FALSE, ![b].nonce = wallet.nonce]
        /\ wallet' = wallet /\ runs' = runs
    BY <2>1 DEF RunEscrow
  <2>3. QED
    BY <1>1, <2>2 DEF Local, Still
<1>4. ASSUME NEW b \in Bets, SeedReply(b) \/ Faults(b) PROVE Still
  BY <1>4 DEF SeedReply, Faults, LoseReply, RejectCall, Still
<1>5. ASSUME NEW b \in Bets, Handler(b) PROVE Still
  <2>1. ASSUME NEW p \in Payouts, Resolve(b, p) PROVE Still
    BY <1>1, <2>1 DEF Resolve, Local, Still
  <2>2. CASE SeedMissing(b) \/ ComputeFails(b) \/ Retry(b)
    BY <1>1, <2>2 DEF SeedMissing, ComputeFails, Retry, Local, Still
  <2>3. CASE SetupFails(b) \/ Refuse(b) \/ StartCompute(b) \/ Done(b)
               \/ SettleGivesUp(b) \/ ReleaseGivesUp(b)
    BY <2>3 DEF SetupFails, Refuse, StartCompute, Done, SettleGivesUp, ReleaseGivesUp, Still
  <2>4. QED
    BY <1>5, <2>1, <2>2, <2>3 DEF Handler
<1>6. ASSUME NEW m \in Messages, Deliver(m) \/ ProduceFails(m) PROVE Still
  BY <1>6 DEF Deliver, ProduceFails, Still
<1>7. ASSUME NEW h \in Workers, Crash(h) PROVE Still
  BY <1>7 DEF Crash, Still
<1>8. CASE UNCHANGED vars
  BY <1>8 DEF vars, Still
<1>9. QED
  BY <1>2, <1>3, <1>4, <1>5, <1>6, <1>7, <1>8 DEF Next

(* Such a step leaves the sums alone as well.                              *)
LEMMA StillSums ==
  ASSUME Control, Still
  PROVE  /\ HeldWager' = HeldWager
         /\ SettledWager' = SettledWager /\ SettledPay' = SettledPay
         /\ \A c \in Bets : Held(c)' <=> Held(c)
<1>1. \A c \in Bets : Held(c)' <=> Held(c)
  BY DEF Held, Still
<1>2. \A c \in Bets : Held(c) => runs[c].escrow # 0
  BY DEF Held, Control, TypeOK, Runs
<1>3. \A c \in Bets : runs[c].settle > 0 => runs[c].escrow # 0 /\ runs[c].settle # 0
  BY DEF Control, StageInv, GrantMatchesRuns, TypeOK, Runs
<1>4. HeldWager' = HeldWager
  BY <1>1, <1>2 DEF HeldWager, Still
<1>5. SettledWager' = SettledWager /\ SettledPay' = SettledPay
  BY <1>3 DEF SettledWager, SettledPay, Still
<1>6. QED
  BY <1>1, <1>4, <1>5

(* The amounts a handler works with are those of a bet.                    *)
PlacedInv ==
  \A b \in Bets : /\ pc[b] \in Busy \/ call[b] # "none" => local[b].wager \in Wagers
                  /\ pc[b] = "settle" => local[b].payout \in Payouts

(* Every step keeps them so.                                               *)
LEMMA PlacedStep == Control /\ PlacedInv /\ [Next]_vars => PlacedInv'
<1> SUFFICES ASSUME Control, PlacedInv, [Next]_vars PROVE PlacedInv'
  OBVIOUS
<1>1. /\ pc \in [Bets -> Stage] /\ call \in [Bets -> CallState]
      /\ local \in [Bets -> Local] /\ \A c \in Bets : local[c] \in Local
  BY DEF Control, TypeOK
<1>2. \A c \in Bets : pc[c] = "idle" => call[c] = "none"
  BY DEF Control, StageInv, CallMatchesStage
<1>3. ASSUME NEW b \in Bets, Player(b) PROVE PlacedInv'
  <2>1. CASE TurnAway(b)
    BY <1>1, <2>1 DEF TurnAway, PlacedInv, Busy
  <2>2. ASSUME NEW w \in Wagers, NEW h \in Workers, Admit(b, w, h) PROVE PlacedInv'
    BY <1>1, <2>2 DEF Admit, PlacedInv, Local
  <2>3. QED
    BY <1>3, <2>1, <2>2 DEF Player
<1>4. ASSUME NEW b \in Bets, Server(b) PROVE PlacedInv'
  <2>1. /\ pc' = pc /\ call[b] = "sent" /\ \A c \in Bets \ {b} : call'[c] = call[c]
        /\ \A c \in Bets : /\ local'[c].wager = local[c].wager
                           /\ local'[c].payout = local[c].payout
    <3>1. CASE RunEscrow(b)
      BY <1>1, <3>1 DEF RunEscrow, Local
    <3>2. CASE RunSettle(b) \/ RunRelease(b)
      BY <1>1, <3>2 DEF RunSettle, RunRelease
    <3>3. QED
      BY <1>4, <3>1, <3>2 DEF Server
  <2>2. QED
    BY <2>1 DEF PlacedInv
<1>5. ASSUME NEW b \in Bets, SeedReply(b) \/ Faults(b) PROVE PlacedInv'
  BY <1>1, <1>5 DEF SeedReply, Faults, LoseReply, RejectCall, PlacedInv
<1>6. ASSUME NEW b \in Bets, Handler(b) PROVE PlacedInv'
  <2>1. ASSUME NEW p \in Payouts, Resolve(b, p) PROVE PlacedInv'
    BY <1>1, <2>1 DEF Resolve, StartLoop, Local, PlacedInv, Busy
  <2>2. CASE SeedMissing(b)
    BY <1>1, <2>2 DEF SeedMissing, SetupAnswered, StartLoop, Local, PlacedInv, Busy
  <2>3. CASE ComputeFails(b)
    BY <1>1, <2>3 DEF ComputeFails, StartLoop, Local, PlacedInv, Busy
  <2>4. CASE Retry(b)
    BY <1>1, <2>4 DEF Retry, Local, PlacedInv
  <2>5. CASE SetupFails(b) \/ Refuse(b) \/ StartCompute(b)
    BY <1>1, <2>5 DEF SetupFails, Refuse, StartCompute, SetupAnswered, PlacedInv, Busy
  <2>6. CASE Done(b) \/ SettleGivesUp(b) \/ ReleaseGivesUp(b)
    BY <1>1, <2>6 DEF Done, SettleGivesUp, ReleaseGivesUp, Exhausted, PlacedInv, Busy
  <2>7. QED
    BY <1>6, <2>1, <2>2, <2>3, <2>4, <2>5, <2>6 DEF Handler
<1>7. ASSUME NEW m \in Messages, Deliver(m) \/ ProduceFails(m) PROVE PlacedInv'
  BY <1>7 DEF Deliver, ProduceFails, PlacedInv
<1>8. ASSUME NEW h \in Workers, Crash(h) PROVE PlacedInv'
  BY <1>1, <1>8 DEF Crash, PlacedInv, Busy
<1>9. CASE UNCHANGED vars
  BY <1>9 DEF vars, PlacedInv
<1>10. QED
  BY <1>3, <1>4, <1>5, <1>6, <1>7, <1>8, <1>9 DEF Next

-----------------------------------------------------------------------------
(* The refinement of WagerAccount.                                         *)

(* What the account sees: two amounts, and of each bet the stake and fate. *)
Fates == [b \in Bets |-> Fate(b)]

(* The fate of a bet by the scripts that ran for it, before and after.     *)
LEMMA FateOf ==
  \A c \in Bets :
     /\ runs[c].settle > 0 /\ ~(runs[c].release > 0) /\ ~Held(c)
          => Fate(c) = "paid"
     /\ ~(runs[c].settle > 0) /\ runs[c].release > 0 /\ ~Held(c)
          => Fate(c) = "refunded"
     /\ ~(runs[c].settle > 0) /\ ~(runs[c].release > 0) /\ Held(c)
          => Fate(c) = "open"
     /\ ~(runs[c].settle > 0) /\ ~(runs[c].release > 0) /\ ~Held(c)
          => Fate(c) = "none"
     /\ runs'[c].settle > 0 /\ ~(runs'[c].release > 0) /\ ~Held(c)'
          => Fate(c)' = "paid"
     /\ ~(runs'[c].settle > 0) /\ runs'[c].release > 0 /\ ~Held(c)'
          => Fate(c)' = "refunded"
     /\ ~(runs'[c].settle > 0) /\ ~(runs'[c].release > 0) /\ Held(c)'
          => Fate(c)' = "open"
     /\ ~(runs'[c].settle > 0) /\ ~(runs'[c].release > 0) /\ ~Held(c)'
          => Fate(c)' = "none"
BY Zenon DEF Fate

(* A script that runs for one bet leaves stake and fate of the others.     *)
LEMMA OthersKeep ==
  ASSUME NEW b \in Bets, \A c \in Bets \ {b} : runs'[c] = runs[c],
         \A c \in Bets : local'[c].wager = local[c].wager,
         NEW w, HeldWager'[b] = w, NEW f, Fate(b)' = f
  PROVE  HeldWager' = [HeldWager EXCEPT ![b] = w] /\ Fates' = [Fates EXCEPT ![b] = f]
<1>1. \A c \in Bets \ {b} : Held(c)' <=> Held(c)
  BY DEF Held
<1>2. \A c \in Bets \ {b} : HeldWager'[c] = HeldWager[c]
  BY <1>1 DEF HeldWager
<1>3. HeldWager' = [HeldWager EXCEPT ![b] = w]
  BY <1>2 DEF HeldWager
<1>4. \A c \in Bets \ {b} : Fate(c)' = Fate(c)
  BY <1>1 DEF Fate
<1>5. Fates' = [c \in Bets |-> Fate(c)']
  BY DEF Fates
<1>6. Fates' = [Fates EXCEPT ![b] = f]
  BY <1>4, <1>5 DEF Fates
<1>7. QED
  BY <1>3, <1>6

(* The script that takes a wager is a reservation of the account.          *)
LEMMA EscrowReserves ==
  ASSUME Control, PlacedInv, lost = 0,
         NEW b \in Bets, RunEscrow(b), CanEscrow(wallet, local[b].wager)
  PROVE  Account!Reserve(b, local[b].wager) /\ local[b].wager \in Wagers
<1>1. /\ pc[b] \in {"setup", "rejected"} /\ call[b] = "sent"
      /\ runs' = [runs EXCEPT ![b].escrow = @ + 1]
      /\ wallet' = EscrowBet(wallet, local[b].wager)
      /\ local' = [local EXCEPT ![b].granted = TRUE, ![b].nonce = wallet'.nonce]
  BY DEF RunEscrow, Script, Stage, Busy, Ends, Control, StageInv, CallMatchesStage, TypeOK
<1>2. /\ runs[b].escrow = 0 /\ runs[b].settle = 0 /\ runs[b].release = 0
      /\ runs[b] \in Runs /\ runs \in [Bets -> Runs]
  BY <1>1 DEF Control, FreshInv, StageInv, RunsMatchStage, TypeOK
<1>3. /\ runs'[b].escrow = 1 /\ runs'[b].settle = 0 /\ runs'[b].release = 0
      /\ \A c \in Bets \ {b} : runs'[c] = runs[c]
  BY <1>1, <1>2 DEF Runs
<1>4. \A c \in Bets : local'[c].wager = local[c].wager
  <2>1. local \in [Bets -> Local] /\ local[b] \in Local
    BY DEF Control, TypeOK
  <2>2. QED
    BY <1>1, <2>1 DEF Local
<1>5. Held(b)' /\ HeldWager'[b] = local[b].wager
  BY <1>3, <1>4 DEF HeldWager, Held
<1>6. /\ Fates[b] = "none" /\ Fates' = [Fates EXCEPT ![b] = "open"]
      /\ HeldWager' = [HeldWager EXCEPT ![b] = local[b].wager]
  <2>1. ~Held(b) /\ ~(runs[b].settle > 0) /\ ~(runs[b].release > 0)
    BY <1>2 DEF Held
  <2>2. ~(runs'[b].settle > 0) /\ ~(runs'[b].release > 0)
    BY <1>3
  <2>3. Fate(b) = "none" /\ Fate(b)' = "open"
    BY <1>5, <2>1, <2>2, FateOf, Zenon
  <2>4. QED
    BY <1>3, <1>4, <1>5, <2>3, OthersKeep DEF Fates
<1>7. /\ wallet.balance >= local[b].wager
      /\ wallet'.balance = wallet.balance - local[b].wager
      /\ wallet'.escrow = wallet.escrow + local[b].wager
  BY <1>1 DEF CanEscrow, EscrowBet
<1>8. local[b].wager \in Wagers
  BY <1>1 DEF PlacedInv
<1>9. QED
  BY <1>5, <1>6, <1>7, <1>8 DEF Account!Reserve, Fates

(* The settle script pays the bet out.                                     *)
LEMMA SettlePays ==
  ASSUME Control, PlacedInv, EscrowBacked, lost = 0, NEW b \in Bets, RunSettle(b)
  PROVE  Account!Pay(b, local[b].payout) /\ local[b].payout \in Payouts
<1>1. /\ pc[b] = "settle" /\ call[b] = "sent" /\ local' = local
      /\ runs' = [runs EXCEPT ![b].settle = @ + 1]
      /\ wallet' = SettleBet(wallet, local[b].wager, local[b].payout)
  BY DEF RunSettle, Script
<1>2. /\ runs[b].escrow > 0 /\ runs[b].settle = 0 /\ runs[b].release = 0
      /\ runs[b] \in Runs /\ runs \in [Bets -> Runs]
  BY <1>1 DEF Control, FreshInv, StageInv, RunsMatchStage, GrantMatchesRuns, Rolled, TypeOK
<1>3. /\ runs'[b].settle = 1 /\ runs'[b].release = 0
      /\ \A c \in Bets \ {b} : runs'[c] = runs[c]
  BY <1>1, <1>2 DEF Runs
<1>4. TypeOK /\ Held(b) /\ wallet \in Wallet
  BY <1>2 DEF Held, Control, TypeOK
<1>5. ~Held(b)' /\ HeldWager[b] = local[b].wager /\ HeldWager'[b] = 0
  BY <1>1, <1>3, <1>4 DEF HeldWager, Held
<1>6. /\ Fates[b] = "open" /\ Fates' = [Fates EXCEPT ![b] = "paid"]
      /\ HeldWager' = [HeldWager EXCEPT ![b] = 0]
  <2>1. ~(runs[b].settle > 0) /\ ~(runs[b].release > 0)
    BY <1>2
  <2>2. (runs'[b].settle > 0) /\ ~(runs'[b].release > 0)
    BY <1>2, <1>3
  <2>3. Fate(b) = "open" /\ Fate(b)' = "paid"
    BY <1>4, <1>5, <2>1, <2>2, FateOf, Zenon
  <2>4. QED
    BY <1>1, <1>3, <1>5, <2>3, OthersKeep DEF Fates
<1>7. /\ wallet'.balance = wallet.balance + local[b].payout
      /\ wallet'.escrow = wallet.escrow - local[b].wager
  BY <1>1, <1>4, NoClamp DEF SettleBet, Wallet
<1>8. local[b].payout \in Payouts
  BY <1>1 DEF PlacedInv
<1>9. QED
  BY <1>5, <1>6, <1>7, <1>8 DEF Account!Pay, Account!Close, Fates

(* The release script refunds it.                                          *)
LEMMA ReleaseRefunds ==
  ASSUME Control, EscrowBacked, lost = 0, NEW b \in Bets, RunRelease(b)
  PROVE  Account!Refund(b)
<1>1. /\ pc[b] = "release" /\ call[b] = "sent" /\ local' = local
      /\ runs' = [runs EXCEPT ![b].release = @ + 1]
      /\ wallet' = ReleaseEscrow(wallet, local[b].wager)
  BY DEF RunRelease, Script
<1>2. /\ runs[b].escrow > 0 /\ runs[b].settle = 0 /\ runs[b].release = 0
      /\ runs[b] \in Runs /\ runs \in [Bets -> Runs]
  BY <1>1 DEF Control, FreshInv, StageInv, RunsMatchStage, GrantMatchesRuns, Rolled, TypeOK
<1>3. /\ runs'[b].settle = 0 /\ runs'[b].release = 1
      /\ \A c \in Bets \ {b} : runs'[c] = runs[c]
  BY <1>1, <1>2 DEF Runs
<1>4. TypeOK /\ Held(b) /\ wallet \in Wallet
  BY <1>2 DEF Held, Control, TypeOK
<1>5. ~Held(b)' /\ HeldWager[b] = local[b].wager /\ HeldWager'[b] = 0
  BY <1>1, <1>3, <1>4 DEF HeldWager, Held
<1>6. /\ Fates[b] = "open" /\ Fates' = [Fates EXCEPT ![b] = "refunded"]
      /\ HeldWager' = [HeldWager EXCEPT ![b] = 0]
  <2>1. ~(runs[b].settle > 0) /\ ~(runs[b].release > 0)
    BY <1>2
  <2>2. ~(runs'[b].settle > 0) /\ runs'[b].release > 0
    BY <1>3
  <2>3. Fate(b) = "open" /\ Fate(b)' = "refunded"
    BY <1>4, <1>5, <2>1, <2>2, FateOf, Zenon
  <2>4. QED
    BY <1>1, <1>3, <1>5, <2>3, OthersKeep DEF Fates
<1>7. /\ wallet'.balance = wallet.balance + local[b].wager
      /\ wallet'.escrow = wallet.escrow - local[b].wager
  BY <1>1, <1>4, NoClamp DEF ReleaseEscrow, Wallet
<1>8. QED
  BY <1>5, <1>6, <1>7 DEF Account!Refund, Account!Close, Fates

(* Every step without a lost reply is a step of the account, or none.      *)
LEMMA AccountStep ==
  Inv /\ PlacedInv /\ lost = 0 /\ [Next]_vars => [Account!Next]_(Account!account)
<1> SUFFICES ASSUME Inv, PlacedInv, lost = 0, [Next]_vars
             PROVE  Account!Next \/ UNCHANGED Account!account
  OBVIOUS
<1>1. Control /\ EscrowBacked
  BY DEF Inv
<1>2. ASSUME NEW b \in Bets, RunEscrow(b), CanEscrow(wallet, local[b].wager)
      PROVE  Account!Next
  BY <1>1, <1>2, EscrowReserves DEF Account!Next
<1>3. ASSUME NEW b \in Bets, RunSettle(b) PROVE Account!Next
  BY <1>1, <1>3, SettlePays DEF Account!Next
<1>4. ASSUME NEW b \in Bets, RunRelease(b) PROVE Account!Next
  BY <1>1, <1>4, ReleaseRefunds DEF Account!Next
<1>5. CASE Still
  <2>1. HeldWager' = HeldWager /\ Fates' = Fates
    BY <1>1, <1>5, StillSums DEF Fates, Fate, Still
  <2>2. wallet' = wallet
    BY <1>5 DEF Still
  <2>3. QED
    BY <2>1, <2>2 DEF Account!account, Fates
<1>6. QED
  BY <1>1, <1>2, <1>3, <1>4, <1>5, ScriptOrStill

(* Before the first bet the account is that of the deposit.                *)
LEMMA AccountInit == Init => Account!Init
<1> SUFFICES ASSUME Init PROVE Account!Init
  OBVIOUS
<1>1. \A b \in Bets : HeldWager[b] = 0 /\ Fates[b] = "none"
  BY DEF Init, HeldWager, Held, Fates, Fate
<1>2. HeldWager = [b \in Bets |-> 0] /\ Fates = [b \in Bets |-> "none"]
  BY <1>1 DEF HeldWager, Fates
<1>3. QED
  BY <1>2 DEF Init, Account!Init, Fates

(* As long as no reply of Redis is lost the handlers, with their retries   *)
(* and crashes, implement the account: each wager is set aside in one step *)
(* that the balance covers, and paid out or refunded in one step at most.  *)
THEOREM Refinement == Spec /\ [](lost = 0) => ImplementsAccount
<1>1. Init => PlacedInv
  BY DEF Init, PlacedInv, Busy
<1>2. Inv /\ PlacedInv /\ [Next]_vars => PlacedInv'
  BY PlacedStep DEF Inv
<1>3. Spec => []PlacedInv
  BY <1>1, <1>2, Invariance, PTL DEF Spec
<1>4. QED
  BY <1>3, Invariance, AccountInit, AccountStep, PTL DEF Spec, ImplementsAccount, Account!Spec

(* Where the bound allows no reply to be lost, they do.                    *)
COROLLARY ReliableRefinement ==
  ASSUME MaxLostReplies = 0
  PROVE  Spec => ImplementsAccount
<1>1. TypeOK => lost = 0
  BY DEF TypeOK
<1>2. QED
  BY <1>1, TypeCorrect, Refinement, PTL
-----------------------------------------------------------------------------
(* What lost replies cost.                                                 *)

(* The script of b's outstanding call has already taken effect: the reply  *)
(* was lost, and the next run moves the money again.                       *)
Repeated(b) ==
  /\ call[b] \in {"sent", "failed"}
  /\ \/ pc[b] \in {"setup", "rejected"} /\ runs[b].escrow > 0
     \/ pc[b] = "settle" /\ runs[b].settle > 0
     \/ pc[b] = "release" /\ runs[b].release > 0

Repeats == {b \in Bets : Repeated(b)}

(* The lost replies whose second run is behind us, or never comes.         *)
Due == lost - Cardinality(Repeats)

(* What the escrow key lacks of the wagers that are held: the clamp at     *)
(* zero will create as much, when they are paid out.                       *)
Shortfall == NotBelowZero(SumOver(HeldWager) - wallet.escrow)

(* Each of those lost replies made the wallet wrong by limit at most, and  *)
(* the shortfall is part of the error.                                     *)
DriftInv(limit) ==
  -(Due * limit) <= Drift /\ Drift + Shortfall <= Due * limit

(* How the lost replies that count change with the calls that repeat.      *)
LEMMA DueChange ==
  ASSUME lost \in Nat
  PROVE  /\ Due \in Int /\ Due <= lost
         /\ lost' = lost /\ Repeats' \subseteq Repeats => Due' \in Int /\ Due' >= Due
         /\ \A b \in Repeats : lost' = lost /\ Repeats' \subseteq Repeats \ {b}
              => Due' \in Int /\ Due' >= Due + 1
         /\ \A b \in Bets : lost' = lost + 1 /\ Repeats' \subseteq Repeats \cup {b}
              => Due' \in Int /\ Due' >= Due
<1>1. IsFiniteSet(Repeats) /\ Cardinality(Repeats) \in Nat
  BY BetsAssumption, FS_Subset, FS_CardinalityType DEF Repeats
<1>2. ASSUME NEW T, IsFiniteSet(T), Repeats' \subseteq T
      PROVE  /\ Cardinality(Repeats') \in Nat /\ Cardinality(T) \in Nat
             /\ Cardinality(Repeats') <= Cardinality(T)
  BY <1>2, FS_Subset, FS_CardinalityType
<1>3. Due \in Int /\ Due <= lost
  BY <1>1 DEF Due
<1>4. ASSUME lost' = lost, Repeats' \subseteq Repeats
      PROVE  Due' \in Int /\ Due' >= Due
  BY <1>1, <1>2, <1>4 DEF Due
<1>5. ASSUME NEW b \in Repeats, lost' = lost, Repeats' \subseteq Repeats \ {b}
      PROVE  Due' \in Int /\ Due' >= Due + 1
  <2>1. IsFiniteSet(Repeats \ {b}) /\ Cardinality(Repeats \ {b}) = Cardinality(Repeats) - 1
    BY <1>1, FS_RemoveElement
  <2>2. Cardinality(Repeats') \in Nat /\ Cardinality(Repeats') <= Cardinality(Repeats) - 1
    BY <1>2, <1>5, <2>1
  <2>3. QED
    BY <1>1, <1>5, <2>2 DEF Due
<1>6. ASSUME NEW b \in Bets, lost' = lost + 1, Repeats' \subseteq Repeats \cup {b}
      PROVE  Due' \in Int /\ Due' >= Due
  <2>1. /\ IsFiniteSet(Repeats \cup {b})
        /\ Cardinality(Repeats \cup {b}) <= Cardinality(Repeats) + 1
    <3>1. /\ IsFiniteSet(Repeats \cup {b})
          /\ Cardinality(Repeats \cup {b})
               = IF b \in Repeats THEN Cardinality(Repeats) ELSE Cardinality(Repeats) + 1
      BY <1>1, FS_AddElement
    <3>2. QED
      BY <1>1, <3>1
  <2>2. Cardinality(Repeats') \in Nat /\ Cardinality(Repeats') <= Cardinality(Repeats) + 1
    BY <1>1, <1>2, <1>6, <2>1
  <2>3. QED
    BY <1>1, <1>6, <2>2 DEF Due
<1>7. QED
  BY <1>3, <1>4, <1>5, <1>6

(* A script that runs takes its call from those that repeat.               *)
LEMMA RepeatsAfterScript ==
  ASSUME Control, NEW b \in Bets, RunEscrow(b) \/ RunSettle(b) \/ RunRelease(b)
  PROVE  lost' = lost /\ Repeats' \subseteq Repeats \ {b}
<1>1. /\ pc' = pc /\ lost' = lost /\ call \in [Bets -> CallState]
      /\ runs \in [Bets -> Runs] /\ call' = [call EXCEPT ![b] = "answered"]
  BY DEF RunEscrow, RunSettle, RunRelease, Control, TypeOK
<1>2. \A c \in Bets \ {b} : runs'[c] = runs[c]
  BY <1>1 DEF RunEscrow, RunSettle, RunRelease
<1>3. ~Repeated(b)'
  BY <1>1 DEF Repeated
<1>4. \A c \in Bets \ {b} : Repeated(c)' => Repeated(c)
  BY <1>1, <1>2 DEF Repeated
<1>5. QED
  BY <1>1, <1>3, <1>4 DEF Repeats

(* Without a script a call begins to repeat when its reply is lost, and    *)
(* only then.                                                              *)
LEMMA RepeatsStep ==
  ASSUME Control, [Next]_vars
  PROVE  \/ \E b \in Bets : RunEscrow(b) \/ RunSettle(b) \/ RunRelease(b)
         \/ lost' = lost /\ Repeats' \subseteq Repeats
         \/ lost' = lost + 1 /\ \E b \in Bets : Repeats' \subseteq Repeats \cup {b}
<1> DEFINE Quiet == lost' = lost /\ \A c \in Bets : Repeated(c)' => Repeated(c)
<1>1. /\ pc \in [Bets -> Stage] /\ call \in [Bets -> CallState]
      /\ runs \in [Bets -> Runs] /\ \A c \in Bets : runs[c] \in Runs
  BY DEF Control, TypeOK
<1>2. \A c \in Bets : /\ pc[c] = "idle" => call[c] = "none" /\ runs[c].escrow = 0
                      /\ pc[c] \in {"idle", "setup", "compute", "rejected"}
                           => runs[c].settle = 0 /\ runs[c].release = 0
  BY DEF Control, StageInv, CallMatchesStage, RunsMatchStage
<1>3. ASSUME NEW b \in Bets, Player(b) PROVE Quiet
  <2>1. CASE TurnAway(b)
    BY <1>1, <1>2, <2>1 DEF TurnAway, Repeated
  <2>2. ASSUME NEW w \in Wagers, NEW h \in Workers, Admit(b, w, h) PROVE Quiet
    <3>1. /\ pc' = [pc EXCEPT ![b] = "setup"] /\ call' = [call EXCEPT ![b] = "sent"]
          /\ runs' = runs /\ lost' = lost /\ runs[b].escrow = 0
      BY <1>2, <2>2 DEF Admit
    <3>2. ~Repeated(b)' /\ \A c \in Bets \ {b} : Repeated(c)' => Repeated(c)
      BY <1>1, <3>1 DEF Repeated
    <3>3. QED
      BY <3>1, <3>2
  <2>3. QED
    BY <1>3, <2>1, <2>2 DEF Player
<1>4. ASSUME NEW b \in Bets, SeedReply(b) \/ RejectCall(b) PROVE Quiet
  BY <1>1, <1>4 DEF SeedReply, RejectCall, Repeated
<1>5. ASSUME NEW b \in Bets, LoseReply(b)
      PROVE  lost' = lost + 1 /\ \A c \in Bets \ {b} : Repeated(c)' => Repeated(c)
  BY <1>1, <1>5 DEF LoseReply, Repeated
<1>6. ASSUME NEW b \in Bets, Handler(b) PROVE Quiet
  <2>1. CASE SetupFails(b) \/ Refuse(b) \/ StartCompute(b)
    BY <1>1, <2>1 DEF SetupFails, Refuse, StartCompute, SetupAnswered, Repeated
  <2>2. CASE SeedMissing(b) \/ ComputeFails(b) \/ \E p \in Payouts : Resolve(b, p)
    BY <1>1, <1>2, <2>2
       DEF SeedMissing, ComputeFails, Resolve, SetupAnswered, StartLoop, Repeated, Runs
  <2>3. CASE Done(b) \/ Retry(b)
    BY <1>1, <2>3 DEF Done, Retry, InLoop, Repeated
  <2>4. CASE SettleGivesUp(b) \/ ReleaseGivesUp(b)
    BY <1>1, <2>4 DEF SettleGivesUp, ReleaseGivesUp, Exhausted, Repeated
  <2>5. QED
    BY <1>6, <2>1, <2>2, <2>3, <2>4 DEF Handler
<1>7. ASSUME NEW m \in Messages, Deliver(m) \/ ProduceFails(m) PROVE Quiet
  BY <1>7 DEF Deliver, ProduceFails, Repeated
<1>8. ASSUME NEW h \in Workers, Crash(h) PROVE Quiet
  BY <1>1, <1>8 DEF Crash, Repeated, Busy
<1>9. ASSUME UNCHANGED vars PROVE Quiet
  BY <1>9 DEF vars, Repeated
<1>10. Quiet => lost' = lost /\ Repeats' \subseteq Repeats
  BY DEF Repeats
<1>11. ASSUME NEW b \in Bets, LoseReply(b)
       PROVE  lost' = lost + 1 /\ Repeats' \subseteq Repeats \cup {b}
  BY <1>5, <1>11 DEF Repeats
<1> HIDE DEF Quiet
<1>12. QED
  BY <1>3, <1>4, <1>6, <1>7, <1>8, <1>9, <1>10, <1>11 DEF Next, Server, Faults

(* Products with a limit grow with the count.                              *)
LEMMA LimitGrows ==
  ASSUME NEW limit \in Nat, NEW k \in Int, NEW m \in Int, k <= m
  PROVE  k * limit \in Int /\ m * limit \in Int /\ k * limit <= m * limit
<1>1. (m - k) * limit >= 0
  OBVIOUS
<1>2. (m - k) * limit = m * limit - k * limit
  OBVIOUS
<1>3. k * limit \in Int /\ m * limit \in Int
  OBVIOUS
<1>4. QED
  BY <1>1, <1>2, <1>3

(* An error within its bounds stays there when it does not grow, and when  *)
(* error and count grow together.                                          *)
LEMMA ErrorStaysBounded ==
  ASSUME NEW limit \in Nat, NEW due \in Int, NEW err \in Int, NEW short \in Int,
         NEW due1 \in Int, NEW err1 \in Int, NEW short1 \in Int,
         NEW low \in Nat, NEW high \in Nat, low <= limit, high <= limit,
         -(due * limit) <= err, err + short <= due * limit,
         \/ due1 >= due /\ err1 >= err /\ err1 + short1 <= err + short
         \/ /\ due1 >= due + 1 /\ err1 >= err - low
            /\ err1 + short1 <= err + short + high
  PROVE  -(due1 * limit) <= err1 /\ err1 + short1 <= due1 * limit
<1> DEFINE a == due * limit
           z == due1 * limit
<1>1. a \in Int /\ z \in Int /\ -a <= err /\ err + short <= a
  OBVIOUS
<1>2. CASE due1 >= due /\ err1 >= err /\ err1 + short1 <= err + short
  <2>1. a <= z
    BY <1>2, LimitGrows
  <2> HIDE DEF a, z
  <2>2. -z <= err1 /\ err1 + short1 <= z
    BY <1>1, <1>2, <2>1
  <2>3. QED
    BY <2>2 DEF z
<1>3. CASE /\ due1 >= due + 1 /\ err1 >= err - low
           /\ err1 + short1 <= err + short + high
  <2>1. (due + 1) * limit <= z
    BY <1>3, LimitGrows
  <2>2. (due + 1) * limit = a + limit
    OBVIOUS
  <2>3. a + limit <= z
    BY <2>1, <2>2
  <2> HIDE DEF a, z
  <2>4. -z <= err1 /\ err1 + short1 <= z
    BY <1>1, <1>3, <2>3
  <2>5. QED
    BY <2>4 DEF z
<1>4. QED
  BY <1>2, <1>3

(* Sums of what does not grow.                                             *)
LEMMA SumDoesNotGrow ==
  ASSUME NEW err \in Int, NEW short \in Int, NEW short1 \in Int, short1 <= short
  PROVE  err >= err /\ err + short1 <= err + short
OBVIOUS

(* A step that does not add to the error, and one that adds two amounts at *)
(* most and is the second run of a lost reply's script.                    *)
LEMMA DriftKept ==
  ASSUME NEW limit \in Nat, DriftInv(limit),
         NEW low \in Nat, NEW high \in Nat, low <= limit, high <= limit,
         Drift \in Int, Shortfall \in Int, Due \in Int,
         Drift' \in Int, Shortfall' \in Int, Due' \in Int,
         \/ /\ Due' >= Due /\ Drift' >= Drift
            /\ Drift' + Shortfall' <= Drift + Shortfall
         \/ /\ Due' >= Due + 1 /\ Drift' >= Drift - low
            /\ Drift' + Shortfall' <= Drift + Shortfall + high
  PROVE  DriftInv(limit)'
BY ErrorStaysBounded DEF DriftInv

(* The numbers the invariant speaks of.                                    *)
LEMMA DriftType ==
  TypeOK => /\ SumOver(HeldWager) \in Nat /\ Drift \in Int /\ Shortfall \in Nat
            /\ wallet.balance \in Nat /\ wallet.escrow \in Nat /\ lost \in Nat
<1> SUFFICES ASSUME TypeOK PROVE
        /\ SumOver(HeldWager) \in Nat /\ Drift \in Int /\ Shortfall \in Nat
        /\ wallet.balance \in Nat /\ wallet.escrow \in Nat /\ lost \in Nat
  OBVIOUS
<1>1. /\ SumOver(HeldWager) \in Nat
      /\ SumOver(SettledWager) \in Nat /\ SumOver(SettledPay) \in Nat
  BY SumsType, BetsAssumption, SumOverType
<1>2. /\ wallet.balance \in Nat /\ wallet.escrow \in Nat /\ lost \in Nat /\ Deposit \in Nat
  BY AmountsAssumption, BoundsAssumption DEF TypeOK, Wallet
<1>3. Drift \in Int
  BY <1>1, <1>2 DEF Drift
<1>4. \A n \in Int : NotBelowZero(n) \in Nat
  BY DEF NotBelowZero
<1>5. Shortfall \in Nat
  BY <1>1, <1>2, <1>4 DEF Shortfall
<1>6. QED
  BY <1>1, <1>2, <1>3, <1>5

(* They are the same after a step.                                         *)
LEMMA DriftTypeNext ==
  TypeOK' => (/\ SumOver(HeldWager) \in Nat /\ Drift \in Int /\ Shortfall \in Nat
              /\ wallet.balance \in Nat /\ wallet.escrow \in Nat /\ lost \in Nat)'
BY DriftType, PTL

(* What the script of one bet adds to the error and to the held wagers.    *)
LEMMA DriftOfScript ==
  ASSUME TypeOK, TypeOK', NEW b \in Bets,
         \A c \in Bets : /\ local'[c].wager = local[c].wager
                         /\ local'[c].payout = local[c].payout,
         \A c \in Bets \ {b} : runs'[c] = runs[c]
  PROVE  /\ SumOver(HeldWager') = SumOver(HeldWager) - HeldWager[b] + HeldWager'[b]
         /\ HeldWager[b] <= SumOver(HeldWager)
         /\ Drift' = Drift + (wallet'.balance - wallet.balance)
                           + (wallet'.escrow - wallet.escrow)
                           + (SettledWager'[b] - SettledWager[b])
                           - (SettledPay'[b] - SettledPay[b])
<1>1. /\ HeldWager \in [Bets -> Nat] /\ HeldWager' \in [Bets -> Nat]
      /\ SettledWager \in [Bets -> Nat] /\ SettledWager' \in [Bets -> Nat]
      /\ SettledPay \in [Bets -> Nat] /\ SettledPay' \in [Bets -> Nat]
  BY SumsType, SumsTypeNext
<1>2. \A c \in Bets \ {b} : /\ HeldWager'[c] = HeldWager[c]
                            /\ SettledWager'[c] = SettledWager[c]
                            /\ SettledPay'[c] = SettledPay[c]
  BY DEF HeldWager, SettledWager, SettledPay, Held
<1>3. /\ SumOver(HeldWager') = SumOver(HeldWager) - HeldWager[b] + HeldWager'[b]
      /\ SumOver(SettledWager')
           = SumOver(SettledWager) - SettledWager[b] + SettledWager'[b]
      /\ SumOver(SettledPay') = SumOver(SettledPay) - SettledPay[b] + SettledPay'[b]
  BY <1>1, <1>2, BetsAssumption, SumOverChange
<1>4. /\ SumOver(SettledWager) \in Nat /\ SumOver(SettledPay) \in Nat
      /\ SettledWager[b] \in Nat /\ SettledWager'[b] \in Nat
      /\ SettledPay[b] \in Nat /\ SettledPay'[b] \in Nat
      /\ HeldWager[b] <= SumOver(HeldWager)
  BY <1>1, BetsAssumption, SumOverType, SumOverAtLeast
<1>5. /\ wallet.balance \in Nat /\ wallet.escrow \in Nat
      /\ wallet'.balance \in Nat /\ wallet'.escrow \in Nat /\ Deposit \in Nat
  BY AmountsAssumption DEF TypeOK, Wallet
<1>6. Drift' = (wallet'.balance + wallet'.escrow + SumOver(SettledWager'))
                 - (Deposit + SumOver(SettledPay'))
  BY DEF Drift
<1>7. QED
  <2> DEFINE sw == SumOver(SettledWager)
             sp == SumOver(SettledPay)
             sw1 == SumOver(SettledWager')
             sp1 == SumOver(SettledPay')
             own == SettledWager[b]
             own1 == SettledWager'[b]
             pay == SettledPay[b]
             pay1 == SettledPay'[b]
             bal == wallet.balance
             esc == wallet.escrow
             bal1 == wallet'.balance
             esc1 == wallet'.escrow
  <2>1. /\ sw \in Int /\ sp \in Int /\ own \in Int /\ own1 \in Int
        /\ pay \in Int /\ pay1 \in Int /\ bal \in Int /\ esc \in Int
        /\ bal1 \in Int /\ esc1 \in Int /\ Deposit \in Int
        /\ sw1 = sw - own + own1 /\ sp1 = sp - pay + pay1
        /\ Drift = (bal + esc + sw) - (Deposit + sp)
        /\ Drift' = (bal1 + esc1 + sw1) - (Deposit + sp1)
    BY <1>3, <1>4, <1>5, <1>6 DEF Drift
  <2>2. Drift' = Drift + (bal1 - bal) + (esc1 - esc) + (own1 - own) - (pay1 - pay)
    <3> HIDE DEF sw, sp, sw1, sp1, own, own1, pay, pay1, bal, esc, bal1, esc1
    <3> QED BY <2>1
  <2>3. QED
    BY <1>3, <1>4, <2>2

(* The clamp at zero, on a wager that leaves escrow: what the first run    *)
(* creates was the shortfall, and the second takes a wager at most.        *)
LEMMA Clamp ==
  \A held, escrow, wager \in Nat :
    LET after == NotBelowZero(escrow - wager) IN
    /\ after \in Nat /\ after <= escrow /\ escrow - wager <= after
    /\ wager <= held =>
         wager - (escrow - after) + NotBelowZero(held - wager - after)
           = NotBelowZero(held - escrow)
    /\ NotBelowZero(held - after) <= NotBelowZero(held - escrow) + (escrow - after)
BY DEF NotBelowZero

(* The escrow script moves a wager within the wallet, each time it runs.   *)
LEMMA EscrowDrift ==
  ASSUME Control, TypeOK', NEW b \in Bets, RunEscrow(b), CanEscrow(wallet, local[b].wager)
  PROVE  Drift' >= Drift /\ Drift' + Shortfall' <= Drift + Shortfall
<1>1. /\ pc[b] \in {"setup", "rejected"} /\ call[b] = "sent"
      /\ runs' = [runs EXCEPT ![b].escrow = @ + 1]
      /\ wallet' = EscrowBet(wallet, local[b].wager)
      /\ local' = [local EXCEPT ![b].granted = TRUE, ![b].nonce = wallet'.nonce]
  BY DEF RunEscrow, Script, Stage, Busy, Ends, Control, StageInv, CallMatchesStage, TypeOK
<1>2. /\ runs[b].settle = 0 /\ runs[b].release = 0
      /\ runs[b] \in Runs /\ runs \in [Bets -> Runs]
  BY <1>1 DEF Control, StageInv, RunsMatchStage, TypeOK
<1>3. /\ runs'[b].escrow > 0 /\ runs'[b].settle = 0 /\ runs'[b].release = 0
      /\ \A c \in Bets \ {b} : runs'[c] = runs[c]
  BY <1>1, <1>2 DEF Runs
<1>4. \A c \in Bets : /\ local'[c].wager = local[c].wager
                      /\ local'[c].payout = local[c].payout
  <2>1. local \in [Bets -> Local] /\ local[b] \in Local
    BY DEF Control, TypeOK
  <2>2. QED
    BY <1>1, <2>1 DEF Local
<1>5. TypeOK /\ local[b].wager \in Nat
  BY AmountsAreNat DEF Control
<1>6. /\ HeldWager[b] \in {0, local[b].wager} /\ HeldWager'[b] = local[b].wager
      /\ SettledWager[b] = 0 /\ SettledPay[b] = 0
      /\ SettledWager'[b] = 0 /\ SettledPay'[b] = 0
  BY <1>2, <1>3, <1>4 DEF HeldWager, Held, SettledWager, SettledPay
<1>7. /\ wallet'.balance = wallet.balance - local[b].wager
      /\ wallet'.escrow = wallet.escrow + local[b].wager
  BY <1>1 DEF EscrowBet
<1>8. /\ SumOver(HeldWager) \in Nat /\ Drift \in Int
      /\ wallet.balance \in Nat /\ wallet.escrow \in Nat
  BY <1>5, DriftType
<1>9. /\ SumOver(HeldWager') = SumOver(HeldWager) - HeldWager[b] + HeldWager'[b]
      /\ Drift' = Drift + (wallet'.balance - wallet.balance)
                        + (wallet'.escrow - wallet.escrow)
                        + (SettledWager'[b] - SettledWager[b])
                        - (SettledPay'[b] - SettledPay[b])
  BY <1>3, <1>4, <1>5, DriftOfScript
<1>10. Drift' = Drift
  BY <1>5, <1>6, <1>7, <1>8, <1>9
<1>11. /\ SumOver(HeldWager') - wallet'.escrow \in Int
       /\ SumOver(HeldWager') - wallet'.escrow <= SumOver(HeldWager) - wallet.escrow
  BY <1>5, <1>6, <1>7, <1>8, <1>9
<1>12. \A m, n \in Int : m <= n => NotBelowZero(m) <= NotBelowZero(n)
  BY DEF NotBelowZero
<1>13. Shortfall' = NotBelowZero(SumOver(HeldWager') - wallet'.escrow)
  BY DEF Shortfall
<1>14. \A n \in Int : NotBelowZero(n) \in Int
  BY DEF NotBelowZero
<1>15. Shortfall' \in Int /\ Shortfall \in Int /\ Shortfall' <= Shortfall
  BY <1>8, <1>11, <1>12, <1>13, <1>14 DEF Shortfall
<1>16. QED
  BY <1>8, <1>10, <1>15, SumDoesNotGrow

(* The settle script: right the first time, too much paid and too much     *)
(* taken from escrow the second time.                                      *)
LEMMA SettleDrift ==
  ASSUME Control, TypeOK', NEW b \in Bets, RunSettle(b)
  PROVE  \/ /\ runs[b].settle = 0 /\ Drift' >= Drift
            /\ Drift' + Shortfall' <= Drift + Shortfall
         \/ /\ Repeated(b) /\ Drift' >= Drift - local[b].wager
            /\ Drift' + Shortfall' <= Drift + Shortfall + local[b].payout
<1> DEFINE w == local[b].wager
           p == local[b].payout
           H == SumOver(HeldWager)
           e == wallet.escrow
           e1 == NotBelowZero(e - w)
<1>1. /\ pc[b] = "settle" /\ call[b] = "sent" /\ local' = local
      /\ runs' = [runs EXCEPT ![b].settle = @ + 1]
      /\ wallet' = SettleBet(wallet, w, p)
  BY DEF RunSettle, Script
<1>2. /\ runs[b].escrow > 0 /\ runs[b].release = 0
      /\ runs[b] \in Runs /\ runs \in [Bets -> Runs]
  BY <1>1 DEF Control, StageInv, RunsMatchStage, GrantMatchesRuns, Rolled, TypeOK
<1>3. /\ runs'[b].settle > 0 /\ \A c \in Bets \ {b} : runs'[c] = runs[c]
  BY <1>1, <1>2 DEF Runs
<1>4. TypeOK /\ w \in Nat /\ p \in Nat /\ wallet \in Wallet
  BY AmountsAreNat DEF Control, TypeOK
<1>5. /\ H \in Nat /\ Drift \in Int /\ wallet.balance \in Nat /\ e \in Nat
  BY <1>4, DriftType
<1>6. wallet'.balance = wallet.balance + p /\ wallet'.escrow = e1
  BY <1>1, <1>4 DEF SettleBet, Wallet
<1>7. /\ SumOver(HeldWager') = H - HeldWager[b] + HeldWager'[b]
      /\ HeldWager[b] <= H
      /\ Drift' = Drift + (wallet'.balance - wallet.balance) + (wallet'.escrow - e)
                        + (SettledWager'[b] - SettledWager[b])
                        - (SettledPay'[b] - SettledPay[b])
  BY <1>1, <1>3, <1>4, DriftOfScript
<1>8. /\ HeldWager'[b] = 0 /\ SettledWager'[b] = w /\ SettledPay'[b] = p
  BY <1>1, <1>3 DEF HeldWager, Held, SettledWager, SettledPay
<1>9. /\ Shortfall = NotBelowZero(H - e)
      /\ Shortfall' = NotBelowZero(SumOver(HeldWager') - e1)
      /\ Shortfall \in Nat
  BY <1>4, <1>6, DriftType DEF Shortfall
<1>10. /\ e1 \in Nat /\ e1 <= e /\ e - w <= e1
       /\ w <= H => w - (e - e1) + NotBelowZero(H - w - e1) = NotBelowZero(H - e)
       /\ NotBelowZero(H - e1) <= NotBelowZero(H - e) + (e - e1)
  BY <1>4, <1>5, Clamp
<1>11. CASE runs[b].settle = 0
  <2>1. HeldWager[b] = w /\ SettledWager[b] = 0 /\ SettledPay[b] = 0
    BY <1>2, <1>11 DEF HeldWager, Held, SettledWager, SettledPay
  <2>2. Drift' = Drift + (w - (e - e1)) /\ SumOver(HeldWager') = H - w /\ w <= H
    <3> HIDE DEF w, p, H, e, e1
    <3> QED BY <1>4, <1>5, <1>6, <1>7, <1>8, <1>10, <2>1
  <2>3. w - (e - e1) + Shortfall' = Shortfall /\ w - (e - e1) \in Nat /\ Shortfall' \in Int
    <3>1. NotBelowZero(H - w - e1) \in Int
      BY <1>4, <1>5, <1>10 DEF NotBelowZero
    <3>2. Shortfall' = NotBelowZero(H - w - e1)
      BY <1>9, <2>2
    <3>3. w - (e - e1) \in Nat
      <4> HIDE DEF w, e, e1
      <4> QED BY <1>4, <1>5, <1>10
    <3>4. QED
      BY <1>9, <1>10, <2>2, <3>1, <3>2, <3>3
  <2>4. Drift' >= Drift /\ Drift' + Shortfall' <= Drift + Shortfall
    <3> DEFINE d == w - (e - e1)
    <3>1. /\ d \in Nat /\ Drift' = Drift + d /\ d + Shortfall' = Shortfall
          /\ Shortfall' \in Int
      BY <2>2, <2>3
    <3> HIDE DEF d
    <3>2. QED
      BY <1>5, <1>9, <3>1
  <2>5. QED
    BY <1>11, <2>4
<1>12. CASE runs[b].settle > 0
  <2>1. Repeated(b)
    BY <1>1, <1>12 DEF Repeated
  <2>2. HeldWager[b] = 0 /\ SettledWager[b] = w /\ SettledPay[b] = p
    BY <1>2, <1>12 DEF HeldWager, Held, SettledWager, SettledPay, Runs
  <2>3. Drift' = Drift + p - (e - e1) /\ SumOver(HeldWager') = H
    <3> HIDE DEF w, p, H, e, e1
    <3> QED BY <1>4, <1>5, <1>6, <1>7, <1>8, <1>10, <2>2
  <2>4. Shortfall' \in Int /\ Shortfall' <= Shortfall + (e - e1)
    <3>1. NotBelowZero(H - e1) \in Int
      BY <1>5, <1>10 DEF NotBelowZero
    <3>2. QED
      BY <1>9, <1>10, <2>3, <3>1
  <2>5. Drift' >= Drift - w /\ Drift' + Shortfall' <= Drift + Shortfall + p
    <3> HIDE DEF w, p, H, e, e1
    <3> QED BY <1>4, <1>5, <1>9, <1>10, <2>3, <2>4
  <2>6. QED
    BY <2>1, <2>5
<1>13. QED
  BY <1>2, <1>11, <1>12 DEF Runs

(* The release script: right the first time, too much given back the       *)
(* second time.                                                            *)
LEMMA ReleaseDrift ==
  ASSUME Control, TypeOK', NEW b \in Bets, RunRelease(b)
  PROVE  \/ /\ runs[b].release = 0 /\ Drift' >= Drift
            /\ Drift' + Shortfall' <= Drift + Shortfall
         \/ /\ Repeated(b) /\ Drift' >= Drift - local[b].wager
            /\ Drift' + Shortfall' <= Drift + Shortfall + local[b].wager
<1> DEFINE w == local[b].wager
           H == SumOver(HeldWager)
           e == wallet.escrow
           e1 == NotBelowZero(e - w)
<1>1. /\ pc[b] = "release" /\ call[b] = "sent" /\ local' = local
      /\ runs' = [runs EXCEPT ![b].release = @ + 1]
      /\ wallet' = ReleaseEscrow(wallet, w)
  BY DEF RunRelease, Script
<1>2. /\ runs[b].escrow > 0 /\ runs[b].settle = 0
      /\ runs[b] \in Runs /\ runs \in [Bets -> Runs]
  BY <1>1 DEF Control, StageInv, RunsMatchStage, GrantMatchesRuns, Rolled, TypeOK
<1>3. /\ runs'[b].release > 0 /\ runs'[b].settle = 0
      /\ \A c \in Bets \ {b} : runs'[c] = runs[c]
  BY <1>1, <1>2 DEF Runs
<1>4. TypeOK /\ w \in Nat /\ wallet \in Wallet
  BY AmountsAreNat DEF Control, TypeOK
<1>5. /\ H \in Nat /\ Drift \in Int /\ wallet.balance \in Nat /\ e \in Nat
  BY <1>4, DriftType
<1>6. wallet'.balance = wallet.balance + w /\ wallet'.escrow = e1
  BY <1>1, <1>4 DEF ReleaseEscrow, Wallet
<1>7. /\ SumOver(HeldWager') = H - HeldWager[b] + HeldWager'[b]
      /\ HeldWager[b] <= H
      /\ Drift' = Drift + (wallet'.balance - wallet.balance) + (wallet'.escrow - e)
                        + (SettledWager'[b] - SettledWager[b])
                        - (SettledPay'[b] - SettledPay[b])
  BY <1>1, <1>3, <1>4, DriftOfScript
<1>8. /\ HeldWager'[b] = 0 /\ SettledWager'[b] = 0 /\ SettledPay'[b] = 0
  BY <1>1, <1>3 DEF HeldWager, Held, SettledWager, SettledPay
<1>9. /\ Shortfall = NotBelowZero(H - e)
      /\ Shortfall' = NotBelowZero(SumOver(HeldWager') - e1)
      /\ Shortfall \in Nat
  BY <1>4, <1>6, DriftType DEF Shortfall
<1>10. /\ e1 \in Nat /\ e1 <= e /\ e - w <= e1
       /\ w <= H => w - (e - e1) + NotBelowZero(H - w - e1) = NotBelowZero(H - e)
       /\ NotBelowZero(H - e1) <= NotBelowZero(H - e) + (e - e1)
  BY <1>4, <1>5, Clamp
<1>11. CASE runs[b].release = 0
  <2>1. HeldWager[b] = w /\ SettledWager[b] = 0 /\ SettledPay[b] = 0
    BY <1>2, <1>11 DEF HeldWager, Held, SettledWager, SettledPay
  <2>2. Drift' = Drift + (w - (e - e1)) /\ SumOver(HeldWager') = H - w /\ w <= H
    <3> HIDE DEF w, H, e, e1
    <3> QED BY <1>4, <1>5, <1>6, <1>7, <1>8, <1>10, <2>1
  <2>3. w - (e - e1) + Shortfall' = Shortfall /\ w - (e - e1) \in Nat /\ Shortfall' \in Int
    <3>1. NotBelowZero(H - w - e1) \in Int
      BY <1>4, <1>5, <1>10 DEF NotBelowZero
    <3>2. Shortfall' = NotBelowZero(H - w - e1)
      BY <1>9, <2>2
    <3>3. w - (e - e1) \in Nat
      <4> HIDE DEF w, e, e1
      <4> QED BY <1>4, <1>5, <1>10
    <3>4. QED
      BY <1>9, <1>10, <2>2, <3>1, <3>2, <3>3
  <2>4. Drift' >= Drift /\ Drift' + Shortfall' <= Drift + Shortfall
    <3> DEFINE d == w - (e - e1)
    <3>1. /\ d \in Nat /\ Drift' = Drift + d /\ d + Shortfall' = Shortfall
          /\ Shortfall' \in Int
      BY <2>2, <2>3
    <3> HIDE DEF d
    <3>2. QED
      BY <1>5, <1>9, <3>1
  <2>5. QED
    BY <1>11, <2>4
<1>12. CASE runs[b].release > 0
  <2>1. Repeated(b)
    BY <1>1, <1>12 DEF Repeated
  <2>2. HeldWager[b] = 0 /\ SettledWager[b] = 0 /\ SettledPay[b] = 0
    BY <1>2, <1>12 DEF HeldWager, Held, SettledWager, SettledPay, Runs
  <2>3. Drift' = Drift + w - (e - e1) /\ SumOver(HeldWager') = H
    <3> HIDE DEF w, H, e, e1
    <3> QED BY <1>4, <1>5, <1>6, <1>7, <1>8, <1>10, <2>2
  <2>4. Shortfall' \in Int /\ Shortfall' <= Shortfall + (e - e1)
    <3>1. NotBelowZero(H - e1) \in Int
      BY <1>5, <1>10 DEF NotBelowZero
    <3>2. QED
      BY <1>9, <1>10, <2>3, <3>1
  <2>5. Drift' >= Drift - w /\ Drift' + Shortfall' <= Drift + Shortfall + w
    <3> HIDE DEF w, H, e, e1
    <3> QED BY <1>4, <1>5, <1>9, <1>10, <2>3, <2>4
  <2>6. QED
    BY <2>1, <2>5
<1>13. QED
  BY <1>2, <1>11, <1>12 DEF Runs

(* Every step keeps the invariant.                                         *)
LEMMA DriftStep ==
  ASSUME NEW limit \in Nat, \A n \in Amounts : n <= limit,
         Control, TypeOK', DriftInv(limit), [Next]_vars
  PROVE  DriftInv(limit)'
<1>1. /\ TypeOK /\ lost \in Nat /\ Drift \in Int /\ Shortfall \in Int /\ Due \in Int
  BY DriftType, DueChange DEF Control
<1>2. Drift' \in Int /\ Shortfall' \in Int
  BY DriftTypeNext
<1>3. ASSUME NEW b \in Bets
      PROVE  /\ local[b].wager \in Nat /\ local[b].payout \in Nat
             /\ local[b].wager <= limit /\ local[b].payout <= limit
  <2>1. local[b].wager \in Amounts /\ local[b].payout \in Amounts
    BY <1>1 DEF TypeOK, Local, Amounts
  <2>2. QED
    BY <1>1, <2>1, AmountsAreNat
<1>4. ASSUME NEW b \in Bets, RunEscrow(b) \/ RunSettle(b) \/ RunRelease(b)
      PROVE  /\ Due' \in Int /\ Due' >= Due
             /\ Repeated(b) => Due' >= Due + 1
  <2>1. lost' = lost /\ Repeats' \subseteq Repeats \ {b} /\ Repeats' \subseteq Repeats
    BY <1>4, RepeatsAfterScript
  <2>2. Repeated(b) => b \in Repeats
    BY DEF Repeats
  <2>3. QED
    BY <1>1, <2>1, <2>2, DueChange
<1>5. ASSUME NEW b \in Bets, RunEscrow(b), CanEscrow(wallet, local[b].wager)
      PROVE  DriftInv(limit)'
  <2>1. Drift' >= Drift /\ Drift' + Shortfall' <= Drift + Shortfall
    BY <1>5, EscrowDrift
  <2>2. Due' \in Int /\ Due' >= Due
    BY <1>4, <1>5
  <2>3. QED
    BY <1>1, <1>2, <1>3, <2>1, <2>2, DriftKept
<1>6. ASSUME NEW b \in Bets, RunSettle(b) PROVE DriftInv(limit)'
  <2>1. \/ /\ Drift' >= Drift /\ Drift' + Shortfall' <= Drift + Shortfall
        \/ /\ Repeated(b) /\ Drift' >= Drift - local[b].wager
           /\ Drift' + Shortfall' <= Drift + Shortfall + local[b].payout
    BY <1>1, <1>6, SettleDrift DEF Control
  <2>2. Due' \in Int /\ Due' >= Due /\ (Repeated(b) => Due' >= Due + 1)
    BY <1>4, <1>6
  <2>3. QED
    BY <1>1, <1>2, <1>3, <2>1, <2>2, DriftKept
<1>7. ASSUME NEW b \in Bets, RunRelease(b) PROVE DriftInv(limit)'
  <2>1. \/ /\ Drift' >= Drift /\ Drift' + Shortfall' <= Drift + Shortfall
        \/ /\ Repeated(b) /\ Drift' >= Drift - local[b].wager
           /\ Drift' + Shortfall' <= Drift + Shortfall + local[b].wager
    BY <1>1, <1>7, ReleaseDrift DEF Control
  <2>2. Due' \in Int /\ Due' >= Due /\ (Repeated(b) => Due' >= Due + 1)
    BY <1>4, <1>7
  <2>3. QED
    BY <1>1, <1>2, <1>3, <2>1, <2>2, DriftKept
<1>8. CASE Still
  <2>1. Drift' >= Drift /\ Drift' + Shortfall' <= Drift + Shortfall
    <3>1. Drift' = Drift /\ Shortfall' = Shortfall
      BY <1>8, StillSums DEF Drift, Shortfall, Still
    <3>2. QED
      BY <1>1, <3>1
  <2>2. Due' \in Int /\ Due' >= Due
    <3>1. ASSUME NEW b \in Bets, Repeats' \subseteq Repeats \cup {b}, lost' = lost + 1
          PROVE  Due' \in Int /\ Due' >= Due
      BY <1>1, <3>1, DueChange
    <3>2. lost' = lost /\ Repeats' \subseteq Repeats => Due' \in Int /\ Due' >= Due
      BY <1>1, DueChange
    <3>3. QED
      BY <1>4, <3>1, <3>2, RepeatsStep
  <2>3. QED
    BY <1>1, <1>2, <2>1, <2>2, 0 <= limit, DriftKept
<1>9. QED
  BY <1>5, <1>6, <1>7, <1>8, ScriptOrStill

(* Before the first bet there is no error.                                 *)
LEMMA DriftInit == ASSUME NEW limit \in Nat, Init PROVE DriftInv(limit)
<1>1. \A b \in Bets : HeldWager[b] = 0 /\ SettledWager[b] = 0 /\ SettledPay[b] = 0
  BY DEF Init, HeldWager, SettledWager, SettledPay, Held
<1>2. SumOver(HeldWager) = 0 /\ SumOver(SettledWager) = 0 /\ SumOver(SettledPay) = 0
  BY <1>1, InitType, SumsType, BetsAssumption, SumOverZero
<1>3. wallet.balance = Deposit /\ wallet.escrow = 0 /\ Deposit \in Nat /\ lost = 0
  BY AmountsAssumption DEF Init
<1>4. Drift = 0 /\ Shortfall = 0
  BY <1>2, <1>3 DEF Drift, Shortfall, NotBelowZero
<1>5. Due = 0
  <2>1. Repeats = {}
    BY DEF Init, Repeats, Repeated
  <2>2. QED
    BY <1>3, <2>1, FS_EmptySet DEF Due
<1>6. QED
  BY <1>4, <1>5 DEF DriftInv

(* Amounts that have a limit have a largest one.                           *)
LEMMA LargestAmount ==
  ASSUME NEW limit \in Nat, \A n \in Amounts : n <= limit
  PROVE  Largest \in Nat /\ \A n \in Amounts : n <= Largest
<1>1. Amounts \subseteq Nat /\ 0 \in Amounts
  BY AmountsAssumption DEF Amounts
<1>2. \E n \in Amounts : \A m \in Amounts : m <= n
  BY <1>1, Greatest
<1>3. QED
  BY <1>1, <1>2 DEF Largest

(* Each lost reply makes the wallet wrong by at most one wager or payout,  *)
(* if there is a limit to what a bet may carry or pay.                     *)
THEOREM DriftIsBounded ==
  ASSUME NEW limit \in Nat, \A n \in Amounts : n <= limit
  PROVE  Spec => []DriftBounded
<1>1. Largest \in Nat /\ \A n \in Amounts : n <= Largest
  BY LargestAmount
<1>2. Init => DriftInv(Largest)
  BY <1>1, DriftInit
<1>3. Control /\ Control' /\ DriftInv(Largest) /\ [Next]_vars => DriftInv(Largest)'
  BY <1>1, DriftStep DEF Control
<1>4. Control /\ DriftInv(Largest) => DriftBounded
  <2> SUFFICES ASSUME Control, DriftInv(Largest) PROVE DriftBounded
    OBVIOUS
  <2>1. /\ lost \in Nat /\ Drift \in Int /\ Shortfall \in Nat
        /\ Due \in Int /\ Due <= lost
    BY DriftType, DueChange DEF Control
  <2>2. Due * Largest <= lost * Largest
    BY <1>1, <2>1, LimitGrows
  <2> DEFINE a == Due * Largest
             z == lost * Largest
  <2>3. a \in Int /\ z \in Int /\ a <= z /\ -a <= Drift /\ Drift + Shortfall <= a
    BY <1>1, <2>1, <2>2 DEF DriftInv
  <2>4. -z <= Drift /\ Drift <= z
    <3> HIDE DEF a, z
    <3> QED BY <2>1, <2>3
  <2>5. QED
    BY <2>4 DEF DriftBounded
<1>5. QED
  BY <1>2, <1>3, <1>4, ControlInvariant, PTL DEF Spec
=============================================================================
