--------------------------- MODULE BetEscrowProofs ---------------------------
(***************************************************************************)
(* Proofs about BetEscrow, for any number of bets, workers, attempts and   *)
(* lost replies, and any wagers and payouts.                               *)
(***************************************************************************)
EXTENDS BetEscrow, UnitSumsProofs

-----------------------------------------------------------------------------
(* The inductive invariant.                                                *)

(* What the place of a handler says about its call and about the scripts   *)
(* that ran for its bet.                                                   *)
CallMatchesStage(b) ==
  /\ pc[b] \in {"idle", "compute", "settled", "refunded", "crashed"} => call[b] = "none"
  /\ pc[b] \in {"stuck", "abandoned"} => call[b] \in {"none", "failed"}

RunsMatchStage(b) ==
  /\ pc[b] = "idle" => runs[b].escrow = 0
  /\ pc[b] \in {"idle", "setup", "compute", "rejected"}
       => runs[b].settle = 0 /\ runs[b].release = 0
  /\ pc[b] \in {"settle", "settled", "stuck"} => runs[b].release = 0
  /\ pc[b] \in {"release", "refunded", "abandoned"} => runs[b].settle = 0
  /\ runs[b].settle = 0 \/ runs[b].release = 0

GrantMatchesRuns(b) ==
  /\ Rolled(b) => local[b].granted
  /\ local[b].granted => runs[b].escrow > 0
  /\ runs[b].settle > 0 \/ runs[b].release > 0 => runs[b].escrow > 0

StageInv == \A b \in Bets : CallMatchesStage(b) /\ RunsMatchStage(b) /\ GrantMatchesRuns(b)

(* Granted bets hold different nonces, all of them drawn already.          *)
NonceInv ==
  /\ \A b \in Bets : local[b].granted => local[b].nonce <= wallet.nonce
  /\ \A a, b \in Bets : a # b /\ local[a].granted /\ local[b].granted
                          => local[a].nonce # local[b].nonce

(* Messages speak of bets at the right place.                              *)
MessageInv ==
  \A b \in Bets :
    /\ <<"BetResolved", b>> \in outbox \cup topic
         => /\ pc[b] \in {"settle", "settled", "stuck", "crashed"}
            /\ runs[b].escrow > 0 /\ runs[b].release = 0
    /\ <<"EscrowStuck", b>> \in outbox \cup topic => pc[b] = "stuck"

(* Without lost replies a script that is outstanding or has failed did not *)
(* run yet.                                                                *)
FreshInv ==
  lost = 0 => \A b \in Bets :
    /\ pc[b] \in {"setup", "rejected"} /\ call[b] \in {"sent", "failed"}
         => runs[b].escrow = 0
    /\ pc[b] = "settle" /\ call[b] \in {"sent", "failed"} => runs[b].settle = 0
    /\ pc[b] = "release" /\ call[b] \in {"sent", "failed"} => runs[b].release = 0
    /\ pc[b] = "stuck" => runs[b].settle = 0

Control == TypeOK /\ StageInv /\ NonceInv /\ MessageInv /\ FreshInv

Inv == Control /\ EscrowBacked /\ Conservation

-----------------------------------------------------------------------------
(* Type correctness.                                                       *)

(* The scripts keep the wallet's keys natural numbers.                     *)
LEMMA ScriptsKeepWallet ==
  ASSUME NEW w \in Wallet, NEW wager \in Nat, NEW payout \in Nat
  PROVE  /\ CanEscrow(w, wager) => EscrowBet(w, wager) \in Wallet
         /\ SettleBet(w, wager, payout) \in Wallet
         /\ ReleaseEscrow(w, wager) \in Wallet
<1>1. CanEscrow(w, wager) => EscrowBet(w, wager) \in Wallet
  BY DEF Wallet, CanEscrow, EscrowBet
<1>2. \A n, m \in Nat : NotBelowZero(n - m) \in Nat
  BY DEF NotBelowZero
<1>3. \A n, m \in Nat : [w EXCEPT !.balance = n, !.escrow = m] \in Wallet
  BY DEF Wallet
<1>4. w.balance \in Nat /\ w.escrow \in Nat
  BY DEF Wallet
<1>5. w.balance + wager \in Nat /\ w.balance + payout \in Nat
  BY <1>4
<1>6. SettleBet(w, wager, payout) \in Wallet
  BY <1>2, <1>3, <1>4, <1>5 DEF SettleBet
<1>7. ReleaseEscrow(w, wager) \in Wallet
  BY <1>2, <1>3, <1>4, <1>5 DEF ReleaseEscrow
<1>8. QED
  BY <1>1, <1>6, <1>7

(* The amounts of a handler are natural numbers.                           *)
LEMMA AmountsAreNat ==
  ASSUME TypeOK, NEW b \in Bets
  PROVE  local[b].wager \in Nat /\ local[b].payout \in Nat
<1>1. local[b] \in Local
  BY DEF TypeOK
<1>2. local[b].wager \in {0} \cup Wagers /\ local[b].payout \in {0} \cup Payouts
  BY <1>1 DEF Local
<1>3. {0} \cup Wagers \subseteq Nat /\ {0} \cup Payouts \subseteq Nat
  BY AmountsAssumption
<1>4. QED
  BY <1>2, <1>3

(* Assignments to the fields of a handler's data keep their shape.         *)
LEMMA LocalUpdates ==
  ASSUME NEW l \in Local
  PROVE  /\ \A g \in BOOLEAN, n \in Nat :
              [l EXCEPT !.granted = g, !.nonce = n] \in Local
         /\ \A k \in 0..MaxAttempts : [l EXCEPT !.attempt = k] \in Local
         /\ \A k \in 0..MaxAttempts, p \in Payouts :
              [l EXCEPT !.attempt = k, !.payout = p] \in Local
         /\ \A w \in Wagers, h \in Workers :
              [l EXCEPT !.wager = w, !.host = h] \in Local
         /\ 1 \in 0..MaxAttempts
         /\ l.attempt < MaxAttempts => l.attempt + 1 \in 0..MaxAttempts
<1>1. l.attempt \in 0..MaxAttempts /\ MaxAttempts \in Nat \ {0}
  BY BoundsAssumption DEF Local
<1>2. 1 \in 0..MaxAttempts
  BY <1>1
<1>3. l.attempt < MaxAttempts => l.attempt + 1 \in 0..MaxAttempts
  BY <1>1
<1>4. \A g \in BOOLEAN, n \in Nat : [l EXCEPT !.granted = g, !.nonce = n] \in Local
  BY DEF Local
<1>5. \A k \in 0..MaxAttempts : [l EXCEPT !.attempt = k] \in Local
  BY DEF Local
<1>6. \A k \in 0..MaxAttempts, p \in Payouts :
        [l EXCEPT !.attempt = k, !.payout = p] \in Local
  BY DEF Local
<1>7. \A w \in Wagers, h \in Workers : [l EXCEPT !.wager = w, !.host = h] \in Local
  BY DEF Local
<1>8. QED
  BY <1>2, <1>3, <1>4, <1>5, <1>6, <1>7, Zenon

(* Before the first bet every variable is of its type.                     *)
LEMMA InitType == Init => TypeOK
<1> SUFFICES ASSUME Init PROVE TypeOK
  OBVIOUS
<1>1. wallet \in Wallet
  BY AmountsAssumption DEF Init, Wallet
<1>2. local \in [Bets -> Local]
  BY BoundsAssumption DEF Init, Local
<1>3. runs \in [Bets -> Runs]
  BY DEF Init, Runs
<1>4. lost \in 0..MaxLostReplies
  BY BoundsAssumption DEF Init
<1>5. QED
  BY <1>1, <1>2, <1>3, <1>4 DEF Init, TypeOK, Stage, CallState, SeedState

(* No step of a handler, the server, the client or a crash leaves the types*)
LEMMA NextType == TypeOK /\ [Next]_vars => TypeOK'
<1> SUFFICES ASSUME TypeOK, [Next]_vars
             PROVE  TypeOK'
  OBVIOUS
<1> USE DEF TypeOK
<1>1. ASSUME NEW b \in Bets, Player(b)
      PROVE  TypeOK'
  <2>1. CASE TurnAway(b)
    BY <2>1 DEF TurnAway, Stage, Ends
  <2>2. ASSUME NEW w \in Wagers, NEW h \in Workers, Admit(b, w, h)
        PROVE  TypeOK'
    <3>1. local' \in [Bets -> Local]
      <4>1. local' = [local EXCEPT ![b] = [local[b] EXCEPT !.wager = w, !.host = h]]
        BY <2>2 DEF Admit, Local
      <4>2. [local[b] EXCEPT !.wager = w, !.host = h] \in Local
        BY <2>2 DEF Local
      <4>3. QED
        BY <4>1, <4>2
    <3>2. QED
      BY <2>2, <3>1 DEF Admit, Stage, Busy, CallState, SeedState
  <2>3. QED
    BY <1>1, <2>1, <2>2 DEF Player
<1>2. ASSUME NEW b \in Bets, Server(b)
      PROVE  TypeOK'
  <2> local[b].wager \in Nat /\ local[b].payout \in Nat
    BY AmountsAreNat
  <2>1. CASE RunEscrow(b)
    <3>1. wallet' \in Wallet
      BY <2>1, ScriptsKeepWallet DEF RunEscrow
    <3>2. local' \in [Bets -> Local]
      <4>1. local[b] \in Local /\ wallet.nonce \in Nat /\ wallet'.nonce \in Nat
        BY <3>1 DEF Wallet
      <4>2. CASE CanEscrow(wallet, local[b].wager)
        <5>1. local' = [local EXCEPT ![b] =
                         [local[b] EXCEPT !.granted = TRUE, !.nonce = wallet'.nonce]]
          BY <2>1, <4>2 DEF RunEscrow
        <5>2. QED
          BY <4>1, <5>1, LocalUpdates
      <4>3. CASE ~CanEscrow(wallet, local[b].wager)
        <5>1. local' = [local EXCEPT ![b] =
                         [local[b] EXCEPT !.granted = FALSE, !.nonce = wallet.nonce]]
          BY <2>1, <4>3 DEF RunEscrow
        <5>2. QED
          BY <4>1, <5>1, LocalUpdates
      <4>4. QED
        BY <4>2, <4>3
    <3>3. runs' \in [Bets -> Runs]
      BY <2>1 DEF RunEscrow, Runs
    <3>4. QED
      BY <2>1, <3>1, <3>2, <3>3 DEF RunEscrow, CallState
  <2>2. CASE RunSettle(b)
    <3>1. wallet' \in Wallet
      BY <2>2, ScriptsKeepWallet DEF RunSettle
    <3>2. runs' \in [Bets -> Runs]
      BY <2>2 DEF RunSettle, Runs
    <3>3. QED
      BY <2>2, <3>1, <3>2 DEF RunSettle, CallState
  <2>3. CASE RunRelease(b)
    <3>1. wallet' \in Wallet
      BY <2>3, ScriptsKeepWallet DEF RunRelease
    <3>2. runs' \in [Bets -> Runs]
      BY <2>3 DEF RunRelease, Runs
    <3>3. QED
      BY <2>3, <3>1, <3>2 DEF RunRelease, CallState
  <2>4. QED
    BY <1>2, <2>1, <2>2, <2>3 DEF Server
<1>3. ASSUME NEW b \in Bets, SeedReply(b) \/ Faults(b)
      PROVE  TypeOK'
  BY <1>3, BoundsAssumption
     DEF SeedReply, Faults, LoseReply, RejectCall, SeedState, CallState
<1>4. ASSUME NEW b \in Bets, Handler(b)
      PROVE  TypeOK'
  <2>1. CASE SetupFails(b) \/ Refuse(b) \/ StartCompute(b)
    BY <2>1 DEF SetupFails, Refuse, StartCompute, Stage, Busy, Ends, CallState
  <2>2. CASE SeedMissing(b) \/ ComputeFails(b)
    <3>1. local' \in [Bets -> Local]
      <4>1. local[b] \in Local
        OBVIOUS
      <4>2. local' = [local EXCEPT ![b] = [local[b] EXCEPT !.attempt = 1]]
        BY <2>2 DEF SeedMissing, ComputeFails
      <4>3. QED
        BY <4>1, <4>2, LocalUpdates
    <3>2. QED
      BY <2>2, <3>1 DEF SeedMissing, ComputeFails, StartLoop, Stage, Busy, CallState
  <2>3. ASSUME NEW p \in Payouts, Resolve(b, p)
        PROVE  TypeOK'
    <3>1. local' \in [Bets -> Local]
      <4>1. local[b] \in Local
        OBVIOUS
      <4>2. local' = [local EXCEPT ![b] =
                       [local[b] EXCEPT !.attempt = 1, !.payout = p]]
        BY <2>3 DEF Resolve
      <4>3. QED
        BY <4>1, <4>2, LocalUpdates
    <3>2. QED
      BY <2>3, <3>1 DEF Resolve, StartLoop, Stage, Busy, CallState, Messages
  <2>4. CASE Done(b)
    BY <2>4 DEF Done, Stage, Ends, CallState
  <2>5. CASE Retry(b)
    <3>1. local' \in [Bets -> Local]
      <4>1. local[b] \in Local
        OBVIOUS
      <4>2. local' = [local EXCEPT ![b] =
                       [local[b] EXCEPT !.attempt = local[b].attempt + 1]]
        BY <2>5 DEF Retry
      <4>3. local[b].attempt < MaxAttempts
        BY <2>5 DEF Retry
      <4>4. QED
        BY <4>1, <4>2, <4>3, LocalUpdates
    <3>2. QED
      BY <2>5, <3>1 DEF Retry, CallState
  <2>6. CASE SettleGivesUp(b)
    BY <2>6 DEF SettleGivesUp, Stage, Ends, Messages
  <2>7. CASE ReleaseGivesUp(b)
    BY <2>7 DEF ReleaseGivesUp, Stage, Ends
  <2>8. QED
    BY <1>4, <2>1, <2>2, <2>3, <2>4, <2>5, <2>6, <2>7 DEF Handler
<1>5. ASSUME NEW m \in Messages, Deliver(m) \/ ProduceFails(m)
      PROVE  TypeOK'
  BY <1>5 DEF Deliver, ProduceFails
<1>6. ASSUME NEW h \in Workers, Crash(h)
      PROVE  TypeOK'
  BY <1>6 DEF Crash, Stage, Ends, CallState
<1>7. CASE UNCHANGED vars
  BY <1>7 DEF vars
<1>8. QED
  BY <1>1, <1>2, <1>3, <1>4, <1>5, <1>6, <1>7 DEF Next

(* The wallet's keys never go below zero and every handler keeps the shape *)
(* of its data.                                                            *)
THEOREM TypeCorrect == Spec => []TypeOK
<1>1. Init => TypeOK
  BY InitType
<1>2. TypeOK /\ [Next]_vars => TypeOK'
  BY NextType
<1>3. QED
  BY <1>1, <1>2, PTL DEF Spec

-----------------------------------------------------------------------------
(* The place of a handler, its call and the history of its scripts.        *)

(* Before the first bet no call is outstanding and no script has run.      *)
LEMMA InitStage == Init => StageInv
BY DEF Init, StageInv, CallMatchesStage, RunsMatchStage, GrantMatchesRuns, Rolled

(* Each step keeps calls, script runs and handler stages in agreement.     *)
LEMMA NextStage == TypeOK /\ StageInv /\ [Next]_vars => StageInv'
<1> SUFFICES ASSUME TypeOK, StageInv, [Next]_vars, NEW c \in Bets
             PROVE  (CallMatchesStage(c) /\ RunsMatchStage(c) /\ GrantMatchesRuns(c))'
  BY DEF StageInv
<1> DEFINE Goal == (CallMatchesStage(c) /\ RunsMatchStage(c) /\ GrantMatchesRuns(c))'
<1>1. /\ pc \in [Bets -> Stage] /\ call \in [Bets -> CallState]
      /\ local \in [Bets -> Local] /\ runs \in [Bets -> Runs]
  BY DEF TypeOK
<1>2. CallMatchesStage(c) /\ RunsMatchStage(c) /\ GrantMatchesRuns(c)
  BY DEF StageInv
<1>3. runs[c] \in Runs /\ local[c] \in Local
  BY <1>1
<1> USE <1>1, <1>2, <1>3
    DEF CallMatchesStage, RunsMatchStage, GrantMatchesRuns, Rolled
<1>4. ASSUME NEW b \in Bets, Player(b) PROVE Goal
  <2>1. CASE TurnAway(b)
    BY <2>1 DEF TurnAway
  <2>2. ASSUME NEW w \in Wagers, NEW h \in Workers, Admit(b, w, h) PROVE Goal
    BY <2>2 DEF Admit
  <2>3. QED
    BY <1>4, <2>1, <2>2 DEF Player
<1>5. ASSUME NEW b \in Bets, Server(b) PROVE Goal
  <2>1. CASE RunEscrow(b)
    <3>1. pc[b] \in {"setup", "rejected"} /\ pc' = pc /\ call[b] = "sent"
          /\ call' = [call EXCEPT ![b] = "answered"]
      BY <2>1 DEF RunEscrow, Script, Stage, Busy, Ends, StageInv
    <3>2. CASE CanEscrow(wallet, local[b].wager)
      <4>1. /\ runs' = [runs EXCEPT ![b].escrow = @ + 1]
            /\ local' = [local EXCEPT ![b].granted = TRUE,
                                      ![b].nonce = wallet'.nonce]
        BY <2>1, <3>2 DEF RunEscrow
      <4>2. QED
        BY <3>1, <4>1 DEF Runs
    <3>3. CASE ~CanEscrow(wallet, local[b].wager)
      <4>1. /\ runs' = runs
            /\ local' = [local EXCEPT ![b].granted = FALSE,
                                      ![b].nonce = wallet.nonce]
        BY <2>1, <3>3 DEF RunEscrow
      <4>2. QED
        BY <3>1, <4>1
    <3>4. QED
      BY <3>2, <3>3
  <2>2. CASE RunSettle(b)
    BY <2>2 DEF RunSettle, Script, Runs
  <2>3. CASE RunRelease(b)
    BY <2>3 DEF RunRelease, Script, Runs
  <2>4. QED
    BY <1>5, <2>1, <2>2, <2>3 DEF Server
<1>6. ASSUME NEW b \in Bets, SeedReply(b) \/ Faults(b) PROVE Goal
  BY <1>6 DEF SeedReply, Faults, LoseReply, RejectCall
<1>7. ASSUME NEW b \in Bets, Handler(b) PROVE Goal
  <2>1. CASE SetupFails(b)
    BY <2>1 DEF SetupFails
  <2>2. CASE Refuse(b)
    BY <2>2 DEF Refuse, SetupAnswered
  <2>3. CASE StartCompute(b)
    BY <2>3 DEF StartCompute, SetupAnswered
  <2>4. CASE SeedMissing(b)
    BY <2>4 DEF SeedMissing, SetupAnswered, StartLoop
  <2>5. CASE ComputeFails(b)
    BY <2>5 DEF ComputeFails, StartLoop
  <2>6. ASSUME NEW p \in Payouts, Resolve(b, p) PROVE Goal
    BY <2>6 DEF Resolve, StartLoop
  <2>7. CASE Done(b)
    BY <2>7 DEF Done, InLoop
  <2>8. CASE Retry(b)
    BY <2>8 DEF Retry, InLoop
  <2>9. CASE SettleGivesUp(b) \/ ReleaseGivesUp(b)
    BY <2>9 DEF SettleGivesUp, ReleaseGivesUp, Exhausted
  <2>10. QED
    BY <1>7, <2>1, <2>2, <2>3, <2>4, <2>5, <2>6, <2>7, <2>8, <2>9 DEF Handler
<1>8. ASSUME NEW m \in Messages, Deliver(m) \/ ProduceFails(m) PROVE Goal
  BY <1>8 DEF Deliver, ProduceFails
<1>9. ASSUME NEW h \in Workers, Crash(h) PROVE Goal
  BY <1>9 DEF Crash, Busy
<1>10. CASE UNCHANGED vars
  BY <1>10 DEF vars
<1>11. QED
  BY <1>4, <1>5, <1>6, <1>7, <1>8, <1>9, <1>10 DEF Next

(* Each bet is paid out or given back, never both, and neither unless its  *)
(* wager was taken, however many replies are lost.                         *)
THEOREM OneOutcomeHolds == Spec => []OneOutcome
<1>1. TypeOK /\ StageInv => OneOutcome
  <2> SUFFICES ASSUME TypeOK, StageInv, NEW b \in Bets
               PROVE  /\ runs[b].settle > 0 => runs[b].release = 0
                      /\ runs[b].settle + runs[b].release > 0 => runs[b].escrow > 0
    BY DEF OneOutcome
  <2>1. RunsMatchStage(b) /\ GrantMatchesRuns(b)
    BY DEF StageInv
  <2>2. runs[b] \in Runs
    BY DEF TypeOK
  <2>3. QED
    BY <2>1, <2>2 DEF RunsMatchStage, GrantMatchesRuns, Runs
<1>2. QED
  BY <1>1, InitType, NextType, InitStage, NextStage, PTL DEF Spec

-----------------------------------------------------------------------------
(* The nonces.                                                             *)

(* Before the first bet no nonce is drawn.                                 *)
LEMMA InitNonce == Init => NonceInv
BY DEF Init, NonceInv

(* The settle and release scripts leave the nonce alone, and a handler     *)
(* writes granted and nonce only when the escrow script answers.           *)
LEMMA NonceFrame ==
  ASSUME NonceInv, wallet'.nonce = wallet.nonce,
         \A b \in Bets : /\ local'[b].granted = local[b].granted
                         /\ local'[b].nonce = local[b].nonce
  PROVE  NonceInv'
BY DEF NonceInv

(* Only the escrow script draws a nonce, and it draws a new one.           *)
LEMMA NextNonce == TypeOK /\ NonceInv /\ [Next]_vars => NonceInv'
<1> SUFFICES ASSUME TypeOK, NonceInv, [Next]_vars
             PROVE  NonceInv'
  OBVIOUS
<1> DEFINE SameNonces == \A b \in Bets : /\ local'[b].granted = local[b].granted
                                         /\ local'[b].nonce = local[b].nonce
<1>1. local \in [Bets -> Local] /\ wallet \in Wallet
  BY DEF TypeOK
<1>2. \A b \in Bets : local[b] \in Local /\ local[b].nonce \in Nat
  BY <1>1 DEF Local
<1>3. ASSUME NEW b \in Bets, RunEscrow(b) PROVE NonceInv'
  <2>1. CASE CanEscrow(wallet, local[b].wager)
    <3>1. /\ wallet'.nonce = wallet.nonce + 1 /\ wallet.nonce \in Nat
          /\ local' = [local EXCEPT ![b] =
                        [local[b] EXCEPT !.granted = TRUE, !.nonce = wallet'.nonce]]
      <4>1. /\ wallet' = EscrowBet(wallet, local[b].wager)
            /\ local' = [local EXCEPT ![b].granted = TRUE,
                                      ![b].nonce = wallet'.nonce]
        BY <1>3, <2>1 DEF RunEscrow
      <4>2. wallet'.nonce = wallet.nonce + 1 /\ wallet.nonce \in Nat
        BY <1>1, <4>1 DEF EscrowBet, Wallet
      <4>3. QED
        BY <4>1, <4>2
    <3>2. /\ local'[b].granted /\ local'[b].nonce = wallet.nonce + 1
          /\ \A a \in Bets \ {b} : local'[a] = local[a]
      BY <1>1, <1>2, <3>1 DEF Local
    <3>3. \A a \in Bets : local[a].granted => local[a].nonce < wallet.nonce + 1
      BY <1>2, <3>1 DEF NonceInv
    <3>4. QED
      BY <1>2, <3>1, <3>2, <3>3 DEF NonceInv
  <2>2. CASE ~CanEscrow(wallet, local[b].wager)
    <3>1. /\ wallet' = wallet
          /\ local' = [local EXCEPT ![b] =
                        [local[b] EXCEPT !.granted = FALSE, !.nonce = wallet.nonce]]
      BY <1>3, <2>2 DEF RunEscrow
    <3>2. ~local'[b].granted /\ \A a \in Bets \ {b} : local'[a] = local[a]
      BY <1>1, <1>2, <3>1 DEF Local
    <3>3. QED
      BY <3>1, <3>2 DEF NonceInv
  <2>3. QED
    BY <2>1, <2>2
<1>4. ASSUME NEW b \in Bets, RunSettle(b) \/ RunRelease(b) PROVE NonceInv'
  <2>1. wallet'.nonce = wallet.nonce /\ local' = local
    BY <1>1, <1>4 DEF RunSettle, RunRelease, SettleBet, ReleaseEscrow, Wallet
  <2>2. QED
    BY <2>1, NonceFrame
<1>5. ASSUME NEW b \in Bets, Player(b) \/ Handler(b) \/ SeedReply(b) \/ Faults(b)
      PROVE  NonceInv'
  <2>1. wallet' = wallet
    BY <1>5 DEF Player, TurnAway, Admit, Handler, SetupFails, Refuse, StartCompute,
                SeedMissing, ComputeFails, Resolve, Done, Retry, SettleGivesUp,
                ReleaseGivesUp, SeedReply, Faults, LoseReply, RejectCall
  <2>2. CASE Player(b)
    <3>1. CASE TurnAway(b)
      BY <2>1, <3>1, NonceFrame DEF TurnAway
    <3>2. ASSUME NEW w \in Wagers, NEW h \in Workers, Admit(b, w, h)
          PROVE  NonceInv'
      <4>1. SameNonces
        BY <1>1, <1>2, <3>2 DEF Admit, Local
      <4>2. QED
        BY <2>1, <4>1, NonceFrame
    <3>3. QED
      BY <2>2, <3>1, <3>2 DEF Player
  <2>3. CASE Handler(b)
    <3>1. CASE \E p \in Payouts : Resolve(b, p)
      BY <1>1, <1>2, <2>1, <3>1, NonceFrame DEF Resolve, Local
    <3>2. CASE SeedMissing(b) \/ ComputeFails(b) \/ Retry(b)
      BY <1>1, <1>2, <2>1, <3>2, NonceFrame DEF SeedMissing, ComputeFails, Retry, Local
    <3>3. CASE local' = local
      BY <2>1, <3>3, NonceFrame
    <3>4. QED
      BY <2>3, <3>1, <3>2, <3>3
         DEF Handler, SetupFails, Refuse, StartCompute, Done, SettleGivesUp, ReleaseGivesUp
  <2>4. CASE SeedReply(b) \/ Faults(b)
    BY <2>1, <2>4, NonceFrame DEF SeedReply, Faults, LoseReply, RejectCall
  <2>5. QED
    BY <1>5, <2>2, <2>3, <2>4
<1>6. ASSUME NEW m \in Messages, Deliver(m) \/ ProduceFails(m) PROVE NonceInv'
  BY <1>6, NonceFrame DEF Deliver, ProduceFails
<1>7. ASSUME NEW h \in Workers, Crash(h) PROVE NonceInv'
  BY <1>7, NonceFrame DEF Crash
<1>8. CASE UNCHANGED vars
  BY <1>8, NonceFrame DEF vars
<1>9. QED
  BY <1>3, <1>4, <1>5, <1>6, <1>7, <1>8 DEF Next, Server

(* Rolls of two bets never use the same nonce, however many replies are    *)
(* lost.                                                                   *)
THEOREM NoncesNeverReused == Spec => []NonceNeverReused
<1>1. StageInv /\ NonceInv => NonceNeverReused
  BY DEF StageInv, GrantMatchesRuns, NonceInv, NonceNeverReused
<1>2. QED
  BY <1>1, InitType, NextType, InitStage, NextStage, InitNonce, NextNonce, PTL DEF Spec

-----------------------------------------------------------------------------
(* The messages, and the scripts that have not run yet.                    *)

(* Before the first bet nothing is published and no script outstanding.    *)
LEMMA InitMessages == Init => MessageInv /\ FreshInv
BY DEF Init, MessageInv, FreshInv

(* A message is published from the right stage, and the stage then stays.  *)
LEMMA NextMessages == TypeOK /\ StageInv /\ MessageInv /\ [Next]_vars => MessageInv'
<1> SUFFICES ASSUME TypeOK, StageInv, MessageInv, [Next]_vars, NEW c \in Bets
             PROVE  (/\ <<"BetResolved", c>> \in outbox \cup topic
                          => /\ pc[c] \in {"settle", "settled", "stuck", "crashed"}
                             /\ runs[c].escrow > 0 /\ runs[c].release = 0
                     /\ <<"EscrowStuck", c>> \in outbox \cup topic => pc[c] = "stuck")'
  BY DEF MessageInv
<1> DEFINE Here == /\ <<"BetResolved", c>> \in outbox \cup topic
                        => /\ pc[c] \in {"settle", "settled", "stuck", "crashed"}
                           /\ runs[c].escrow > 0 /\ runs[c].release = 0
                   /\ <<"EscrowStuck", c>> \in outbox \cup topic => pc[c] = "stuck"
           Goal == Here'
<1>1. pc \in [Bets -> Stage] /\ runs \in [Bets -> Runs]
  BY DEF TypeOK
<1>2. Here /\ RunsMatchStage(c) /\ GrantMatchesRuns(c) /\ CallMatchesStage(c)
  BY DEF MessageInv, StageInv
<1>3. runs[c] \in Runs
  BY <1>1
<1> USE <1>1, <1>2, <1>3
<1>4. ASSUME NEW b \in Bets, Player(b) \/ SeedReply(b) \/ Faults(b) PROVE Goal
  BY <1>4 DEF Player, TurnAway, Admit, SeedReply, Faults, LoseReply, RejectCall
<1>5. ASSUME NEW b \in Bets, Server(b) PROVE Goal
  <2>1. CASE RunEscrow(b)
    <3>1. /\ pc' = pc /\ outbox' = outbox /\ topic' = topic
          /\ runs' = runs \/ runs' = [runs EXCEPT ![b].escrow = @ + 1]
      BY <2>1 DEF RunEscrow
    <3>2. QED
      BY <3>1 DEF Runs
  <2>2. CASE RunSettle(b)
    BY <2>2 DEF RunSettle, Runs
  <2>3. CASE RunRelease(b)
    BY <2>3 DEF RunRelease, Script, Runs
  <2>4. QED
    BY <1>5, <2>1, <2>2, <2>3 DEF Server
<1>6. ASSUME NEW b \in Bets, Handler(b) PROVE Goal
  <2>1. CASE \E p \in Payouts : Resolve(b, p)
    BY <2>1 DEF Resolve, StartLoop, GrantMatchesRuns, RunsMatchStage, Rolled
  <2>2. CASE SettleGivesUp(b)
    BY <2>2 DEF SettleGivesUp
  <2>3. CASE Retry(b) \/ Done(b) \/ ReleaseGivesUp(b)
    BY <2>3 DEF Retry, Done, InLoop, ReleaseGivesUp, RunsMatchStage
  <2>4. CASE SetupFails(b) \/ Refuse(b) \/ StartCompute(b) \/ SeedMissing(b) \/ ComputeFails(b)
    BY <2>4 DEF SetupFails, Refuse, StartCompute, SeedMissing, ComputeFails,
                SetupAnswered, StartLoop
  <2>5. QED
    BY <1>6, <2>1, <2>2, <2>3, <2>4 DEF Handler
<1>7. ASSUME NEW m \in Messages, Deliver(m) \/ ProduceFails(m) PROVE Goal
  BY <1>7 DEF Deliver, ProduceFails
<1>8. ASSUME NEW h \in Workers, Crash(h) PROVE Goal
  BY <1>8 DEF Crash, Busy
<1>9. CASE UNCHANGED vars
  BY <1>9 DEF vars
<1>10. QED
  BY <1>4, <1>5, <1>6, <1>7, <1>8, <1>9 DEF Next

(* Without lost replies a call is not sent again once the script ran.      *)
LEMMA NextFresh == TypeOK /\ StageInv /\ FreshInv /\ [Next]_vars => FreshInv'
<1> DEFINE Fresh(c) ==
      /\ pc[c] \in {"setup", "rejected"} /\ call[c] \in {"sent", "failed"}
           => runs[c].escrow = 0
      /\ pc[c] = "settle" /\ call[c] \in {"sent", "failed"} => runs[c].settle = 0
      /\ pc[c] = "release" /\ call[c] \in {"sent", "failed"} => runs[c].release = 0
      /\ pc[c] = "stuck" => runs[c].settle = 0
<1> SUFFICES ASSUME TypeOK, StageInv, FreshInv, [Next]_vars, lost' = 0, NEW c \in Bets
             PROVE  Fresh(c)'
  BY DEF FreshInv
<1> DEFINE Goal == Fresh(c)'
<1>1. /\ pc \in [Bets -> Stage] /\ call \in [Bets -> CallState]
      /\ runs \in [Bets -> Runs] /\ lost \in Nat
  BY BoundsAssumption DEF TypeOK
<1>2. RunsMatchStage(c) /\ CallMatchesStage(c) /\ runs[c] \in Runs
  BY <1>1 DEF StageInv
<1>3. ASSUME lost = 0 PROVE Fresh(c)
  BY <1>3 DEF FreshInv
<1> USE <1>1, <1>2, <1>3
<1>4. ASSUME NEW b \in Bets, Player(b) PROVE Goal
  BY <1>4 DEF Player, TurnAway, Admit, CallMatchesStage, RunsMatchStage
<1>5. ASSUME NEW b \in Bets, Server(b) PROVE Goal
  <2>1. CASE RunEscrow(b)
    <3>1. /\ pc' = pc /\ call' = [call EXCEPT ![b] = "answered"] /\ lost' = lost
          /\ runs' = runs \/ runs' = [runs EXCEPT ![b].escrow = @ + 1]
          /\ pc[b] \in {"setup", "rejected"}
      BY <2>1 DEF RunEscrow, Script, Stage, Busy, Ends, StageInv, CallMatchesStage
    <3>2. QED
      BY <3>1 DEF Runs
  <2>2. CASE RunSettle(b)
    BY <2>2 DEF RunSettle, Script, Runs
  <2>3. CASE RunRelease(b)
    BY <2>3 DEF RunRelease, Script, Runs
  <2>4. QED
    BY <1>5, <2>1, <2>2, <2>3 DEF Server
<1>6. ASSUME NEW b \in Bets, SeedReply(b) \/ Faults(b) PROVE Goal
  BY <1>6 DEF SeedReply, Faults, LoseReply, RejectCall
<1>7. ASSUME NEW b \in Bets, Handler(b) PROVE Goal
  <2>1. CASE SetupFails(b) \/ Refuse(b) \/ StartCompute(b)
    BY <2>1 DEF SetupFails, Refuse, StartCompute, SetupAnswered
  <2>2. CASE SeedMissing(b) \/ ComputeFails(b) \/ \E p \in Payouts : Resolve(b, p)
    BY <2>2 DEF SeedMissing, ComputeFails, Resolve, SetupAnswered, StartLoop, RunsMatchStage
  <2>3. CASE Done(b) \/ Retry(b)
    BY <2>3 DEF Done, Retry, InLoop
  <2>4. CASE SettleGivesUp(b) \/ ReleaseGivesUp(b)
    BY <2>4 DEF SettleGivesUp, ReleaseGivesUp, Exhausted
  <2>5. QED
    BY <1>7, <2>1, <2>2, <2>3, <2>4 DEF Handler
<1>8. ASSUME NEW m \in Messages, Deliver(m) \/ ProduceFails(m) PROVE Goal
  BY <1>8 DEF Deliver, ProduceFails
<1>9. ASSUME NEW h \in Workers, Crash(h) PROVE Goal
  BY <1>9 DEF Crash
<1>10. CASE UNCHANGED vars
  BY <1>10 DEF vars
<1>11. QED
  BY <1>4, <1>5, <1>6, <1>7, <1>8, <1>9, <1>10 DEF Next

(* The control part of the invariant, for every behaviour.                 *)
THEOREM ControlInvariant == Spec => []Control
<1>1. Init => Control
  BY InitType, InitStage, InitNonce, InitMessages DEF Control
<1>2. Control /\ [Next]_vars => Control'
  BY NextType, NextStage, NextNonce, NextMessages, NextFresh DEF Control
<1>3. QED
  BY <1>1, <1>2, PTL DEF Spec

(* The ledger is told of bets whose wager was taken and not given back.    *)
THEOREM PublishedBetsCounted == Spec => []PublishedBetsCount
<1>1. Control => PublishedBetsCount
  BY DEF Control, MessageInv, PublishedBetsCount
<1>2. QED
  BY <1>1, ControlInvariant, PTL

(* While no reply was lost, a wager that the dead-letter topic reports is  *)
(* still in escrow.                                                        *)
THEOREM DeadLettersHeld == Spec => []DeadLettersAreHeld
<1>1. Control => DeadLettersAreHeld
  <2> SUFFICES ASSUME Control, lost = 0, NEW b \in Bets,
                      <<"EscrowStuck", b>> \in topic
               PROVE  Held(b)
    BY DEF DeadLettersAreHeld
  <2>1. pc[b] = "stuck"
    BY DEF Control, MessageInv
  <2>2. runs[b].settle = 0
    BY <2>1 DEF Control, FreshInv
  <2>3. runs[b].release = 0 /\ runs[b].escrow > 0
    BY <2>1 DEF Control, StageInv, RunsMatchStage, GrantMatchesRuns, Rolled
  <2>4. QED
    BY <2>2, <2>3 DEF Held
<1>2. QED
  BY <1>1, ControlInvariant, PTL

-----------------------------------------------------------------------------
(* The sums.                                                               *)

(* The amounts the sums run over are natural numbers ...                   *)
LEMMA SumsType ==
  TypeOK => /\ HeldWager \in [Bets -> Nat]
            /\ SettledWager \in [Bets -> Nat]
            /\ SettledPay \in [Bets -> Nat]
BY AmountsAreNat DEF HeldWager, SettledWager, SettledPay

(* ... and so they are after a step.                                       *)
LEMMA SumsTypeNext ==
  TypeOK' => (/\ HeldWager \in [Bets -> Nat]
              /\ SettledWager \in [Bets -> Nat]
              /\ SettledPay \in [Bets -> Nat])'
BY SumsType, PTL

(* Before the first bet nothing is held and the wallet is the deposit.     *)
LEMMA InitSums == Init => EscrowBacked /\ Conservation
<1> SUFFICES ASSUME Init PROVE EscrowBacked /\ Conservation
  OBVIOUS
<1>1. /\ HeldWager \in [Bets -> Nat]
      /\ SettledWager \in [Bets -> Nat]
      /\ SettledPay \in [Bets -> Nat]
  BY InitType, SumsType
<1>2. \A b \in Bets : HeldWager[b] = 0 /\ SettledWager[b] = 0 /\ SettledPay[b] = 0
  BY DEF Init, HeldWager, SettledWager, SettledPay, Held
<1>3. SumOver(HeldWager) = 0 /\ SumOver(SettledWager) = 0 /\ SumOver(SettledPay) = 0
  BY <1>1, <1>2, BetsAssumption, SumOverZero
<1>4. wallet.balance = Deposit /\ wallet.escrow = 0 /\ Deposit \in Nat
  BY AmountsAssumption DEF Init
<1>5. QED
  BY <1>3, <1>4 DEF EscrowBacked, Conservation, Drift

(* A step that leaves the wallet and the history alone, and the amounts of *)
(* every bet that they speak of.                                           *)
LEMMA QuietStep ==
  ASSUME EscrowBacked, Conservation, Control,
         lost' = lost, wallet' = wallet, runs' = runs,
         \A c \in Bets : local'[c].wager = local[c].wager \/ runs[c].escrow = 0,
         \A c \in Bets : local'[c].payout = local[c].payout \/ runs[c].settle = 0
  PROVE  EscrowBacked' /\ Conservation'
<1>1. \A c \in Bets : Held(c)' <=> Held(c)
  BY DEF Held
<1>2. \A c \in Bets : Held(c) => runs[c].escrow # 0
  BY DEF Held, Control, TypeOK, Runs
<1>3. \A c \in Bets : runs[c].settle > 0 => runs[c].escrow # 0 /\ runs[c].settle # 0
  BY DEF Control, StageInv, GrantMatchesRuns, TypeOK, Runs
<1>4. HeldWager' = HeldWager
  BY <1>1, <1>2 DEF HeldWager
<1>5. SettledWager' = SettledWager /\ SettledPay' = SettledPay
  BY <1>3 DEF SettledWager, SettledPay
<1>6. QED
  BY <1>4, <1>5 DEF EscrowBacked, Conservation, Drift

(* A script takes effect for bet b alone, moving the sums by as much as it *)
(* moves the wallet.                                                       *)
LEMMA ScriptStep ==
  ASSUME TypeOK, TypeOK', EscrowBacked, Conservation, lost = 0, lost' = 0,
         NEW b \in Bets, local' = local \/ \A c \in Bets :
           /\ local'[c].wager = local[c].wager
           /\ local'[c].payout = local[c].payout,
         \A c \in Bets \ {b} : runs'[c] = runs[c],
         wallet'.escrow - wallet.escrow = HeldWager'[b] - HeldWager[b],
         wallet'.balance + wallet'.escrow + SettledWager'[b] - SettledPay'[b]
           = wallet.balance + wallet.escrow + SettledWager[b] - SettledPay[b]
  PROVE  EscrowBacked' /\ Conservation'
<1>1. /\ HeldWager \in [Bets -> Nat] /\ HeldWager' \in [Bets -> Nat]
      /\ SettledWager \in [Bets -> Nat] /\ SettledWager' \in [Bets -> Nat]
      /\ SettledPay \in [Bets -> Nat] /\ SettledPay' \in [Bets -> Nat]
  BY SumsType, SumsTypeNext
<1>2. \A c \in Bets \ {b} : /\ HeldWager'[c] = HeldWager[c]
                            /\ SettledWager'[c] = SettledWager[c]
                            /\ SettledPay'[c] = SettledPay[c]
  BY DEF HeldWager, SettledWager, SettledPay, Held
<1>3. /\ SumOver(HeldWager') = SumOver(HeldWager) - HeldWager[b] + HeldWager'[b]
      /\ SumOver(SettledWager')
           = SumOver(SettledWager) - SettledWager[b] + SettledWager'[b]
      /\ SumOver(SettledPay') = SumOver(SettledPay) - SettledPay[b] + SettledPay'[b]
  BY <1>1, <1>2, BetsAssumption, SumOverChange
<1>4. /\ SumOver(HeldWager) \in Nat /\ SumOver(SettledWager) \in Nat
      /\ SumOver(SettledPay) \in Nat
      /\ HeldWager[b] \in Nat /\ HeldWager'[b] \in Nat
      /\ SettledWager[b] \in Nat /\ SettledWager'[b] \in Nat
      /\ SettledPay[b] \in Nat /\ SettledPay'[b] \in Nat
  BY <1>1, BetsAssumption, SumOverType
<1>5. /\ wallet.balance \in Nat /\ wallet.escrow \in Nat
      /\ wallet'.balance \in Nat /\ wallet'.escrow \in Nat /\ Deposit \in Nat
  BY AmountsAssumption DEF TypeOK, Wallet
<1>6. wallet.escrow = SumOver(HeldWager)
  BY DEF EscrowBacked
<1>7. wallet'.escrow = SumOver(HeldWager')
  BY <1>3, <1>4, <1>5, <1>6
<1>8. wallet.balance + wallet.escrow + SumOver(SettledWager)
        = Deposit + SumOver(SettledPay)
  <2>1. (wallet.balance + wallet.escrow + SumOver(SettledWager))
          - (Deposit + SumOver(SettledPay)) = 0
    BY DEF Conservation, Drift
  <2> DEFINE before == wallet.balance + wallet.escrow + SumOver(SettledWager)
             after == Deposit + SumOver(SettledPay)
  <2>2. before \in Int /\ after \in Int /\ before - after = 0
    BY <1>4, <1>5, <2>1
  <2>3. before = after
    <3> HIDE DEF before, after
    <3> QED BY <2>2
  <2>4. QED
    BY <2>3
<1>9. wallet'.balance + wallet'.escrow + SumOver(SettledWager')
        = Deposit + SumOver(SettledPay')
  <2> DEFINE sw == SumOver(SettledWager)
             sp == SumOver(SettledPay)
             sw1 == SumOver(SettledWager')
             sp1 == SumOver(SettledPay')
             x == wallet.balance + wallet.escrow
             x1 == wallet'.balance + wallet'.escrow
             own == SettledWager[b]
             own1 == SettledWager'[b]
             pay == SettledPay[b]
             pay1 == SettledPay'[b]
  <2>1. /\ sw \in Int /\ sp \in Int /\ x \in Int /\ x1 \in Int /\ Deposit \in Int
        /\ own \in Int /\ own1 \in Int /\ pay \in Int /\ pay1 \in Int
        /\ x + sw = Deposit + sp
        /\ x1 + own1 - pay1 = x + own - pay
        /\ sw1 = sw - own + own1
        /\ sp1 = sp - pay + pay1
    BY <1>3, <1>4, <1>5, <1>8
  <2>2. x1 + sw1 = Deposit + sp1
    <3> HIDE DEF sw, sp, sw1, sp1, x, x1, own, own1, pay, pay1
    <3> QED BY <2>1
  <2>3. QED
    BY <2>2
<1>10. EscrowBacked'
  BY <1>7 DEF EscrowBacked
<1>11. Drift' = 0
  <2>1. SumOver(SettledWager') \in Nat /\ SumOver(SettledPay') \in Nat
    BY <1>3, <1>1, BetsAssumption, SumOverType
  <2>2. QED
    BY <1>5, <1>9, <2>1 DEF Drift
<1>12. QED
  BY <1>10, <1>11 DEF Conservation

(* The escrow script: the bet held nothing, and now holds its wager.       *)
LEMMA EscrowStep ==
  ASSUME Control, TypeOK', EscrowBacked, Conservation, lost' = 0,
         NEW b \in Bets, RunEscrow(b), CanEscrow(wallet, local[b].wager)
  PROVE  EscrowBacked' /\ Conservation'
<1>1. /\ lost = 0 /\ pc[b] \in {"setup", "rejected"} /\ call[b] = "sent"
      /\ runs' = [runs EXCEPT ![b].escrow = @ + 1]
      /\ wallet' = EscrowBet(wallet, local[b].wager)
      /\ local' = [local EXCEPT ![b].granted = TRUE, ![b].nonce = wallet'.nonce]
  BY DEF RunEscrow, Script, Stage, Busy, Ends, Control, StageInv, CallMatchesStage, TypeOK
<1>2. /\ runs[b].escrow = 0 /\ runs[b].settle = 0 /\ runs[b].release = 0
      /\ runs[b] \in Runs /\ runs \in [Bets -> Runs]
  BY <1>1 DEF Control, FreshInv, StageInv, RunsMatchStage, TypeOK
<1>3. /\ runs'[b].escrow = 1 /\ runs'[b].settle = 0 /\ runs'[b].release = 0
      /\ \A c \in Bets \ {b} : runs'[c] = runs[c]
  BY <1>1, <1>2 DEF Runs
<1>4. \A c \in Bets : /\ local'[c].wager = local[c].wager
                      /\ local'[c].payout = local[c].payout
  <2>1. local \in [Bets -> Local] /\ local[b] \in Local
    BY DEF Control, TypeOK
  <2>2. QED
    BY <1>1, <2>1 DEF Local
<1>5. HeldWager[b] = 0 /\ HeldWager'[b] = local[b].wager
  BY <1>2, <1>3, <1>4 DEF HeldWager, Held
<1>6. /\ SettledWager[b] = 0 /\ SettledPay[b] = 0
      /\ SettledWager'[b] = 0 /\ SettledPay'[b] = 0
  BY <1>2, <1>3 DEF SettledWager, SettledPay
<1>7. /\ wallet.balance \in Nat /\ wallet.escrow \in Nat /\ local[b].wager \in Nat
      /\ wallet'.balance = wallet.balance - local[b].wager
      /\ wallet'.escrow = wallet.escrow + local[b].wager
  <2>1. TypeOK /\ wallet \in Wallet
    BY DEF Control, TypeOK
  <2>2. QED
    BY <1>1, <2>1, AmountsAreNat DEF EscrowBet, Wallet
<1>8. TypeOK
  BY DEF Control
<1>9. wallet'.escrow - wallet.escrow = HeldWager'[b] - HeldWager[b]
  BY <1>5, <1>7
<1>10. wallet'.balance + wallet'.escrow + SettledWager'[b] - SettledPay'[b]
         = wallet.balance + wallet.escrow + SettledWager[b] - SettledPay[b]
  BY <1>6, <1>7
<1>11. QED
  BY <1>1, <1>3, <1>4, <1>8, <1>9, <1>10, ScriptStep

(* The wager that a script takes out of escrow is there: the clamp of the  *)
(* scripts at zero never acts.                                             *)
LEMMA NoClamp ==
  ASSUME TypeOK, EscrowBacked, lost = 0, NEW b \in Bets, Held(b)
  PROVE  /\ HeldWager[b] = local[b].wager /\ local[b].wager \in Nat
         /\ NotBelowZero(wallet.escrow - local[b].wager)
              = wallet.escrow - local[b].wager
<1>1. HeldWager[b] = local[b].wager
  BY DEF HeldWager
<1>2. HeldWager \in [Bets -> Nat]
  BY SumsType
<1>3. HeldWager[b] <= SumOver(HeldWager) /\ SumOver(HeldWager) \in Nat
  BY <1>2, BetsAssumption, SumOverAtLeast, SumOverType
<1>4. wallet.escrow = SumOver(HeldWager)
  BY DEF EscrowBacked
<1>5. local[b].wager \in Nat
  BY AmountsAreNat
<1>6. local[b].wager <= wallet.escrow /\ wallet.escrow \in Nat
  BY <1>1, <1>3, <1>4
<1>7. ~(wallet.escrow - local[b].wager < 0)
  BY <1>5, <1>6
<1>8. QED
  BY <1>1, <1>5, <1>7 DEF NotBelowZero

(* The settle script: the bet's wager leaves escrow, its payout arrives.   *)
LEMMA SettleStep ==
  ASSUME Control, TypeOK', EscrowBacked, Conservation, lost' = 0,
         NEW b \in Bets, RunSettle(b)
  PROVE  EscrowBacked' /\ Conservation'
<1>1. /\ lost = 0 /\ pc[b] = "settle" /\ call[b] = "sent" /\ local' = local
      /\ runs' = [runs EXCEPT ![b].settle = @ + 1]
      /\ wallet' = SettleBet(wallet, local[b].wager, local[b].payout)
  BY DEF RunSettle, Script
<1>2. /\ runs[b].escrow > 0 /\ runs[b].settle = 0 /\ runs[b].release = 0
      /\ runs[b] \in Runs /\ runs \in [Bets -> Runs]
  BY <1>1 DEF Control, FreshInv, StageInv, RunsMatchStage, GrantMatchesRuns, Rolled, TypeOK
<1>3. /\ runs'[b].settle = 1 /\ \A c \in Bets \ {b} : runs'[c] = runs[c]
  BY <1>1, <1>2 DEF Runs
<1>4. TypeOK /\ Held(b)
  BY <1>2 DEF Held, Control
<1>5. HeldWager[b] = local[b].wager /\ HeldWager'[b] = 0
  BY <1>1, <1>3, <1>4, NoClamp DEF HeldWager, Held
<1>6. /\ SettledWager[b] = 0 /\ SettledPay[b] = 0
      /\ SettledWager'[b] = local[b].wager /\ SettledPay'[b] = local[b].payout
  BY <1>1, <1>2, <1>3 DEF SettledWager, SettledPay
<1>7. /\ wallet.balance \in Nat /\ wallet.escrow \in Nat
      /\ local[b].wager \in Nat /\ local[b].payout \in Nat
      /\ wallet'.balance = wallet.balance + local[b].payout
      /\ wallet'.escrow = wallet.escrow - local[b].wager
  <2>1. wallet \in Wallet
    BY <1>4 DEF TypeOK
  <2>2. /\ wallet'.balance = wallet.balance + local[b].payout
        /\ wallet'.escrow = NotBelowZero(wallet.escrow - local[b].wager)
    BY <1>1, <2>1 DEF SettleBet, Wallet
  <2>3. QED
    BY <1>1, <1>4, <2>1, <2>2, AmountsAreNat, NoClamp DEF Wallet
<1>8. wallet'.escrow - wallet.escrow = HeldWager'[b] - HeldWager[b]
  BY <1>5, <1>7
<1>9. wallet'.balance + wallet'.escrow + SettledWager'[b] - SettledPay'[b]
        = wallet.balance + wallet.escrow + SettledWager[b] - SettledPay[b]
  BY <1>6, <1>7
<1>10. QED
  BY <1>1, <1>3, <1>4, <1>8, <1>9, ScriptStep

(* The release script: the bet's wager goes back.                          *)
LEMMA ReleaseStep ==
  ASSUME Control, TypeOK', EscrowBacked, Conservation, lost' = 0,
         NEW b \in Bets, RunRelease(b)
  PROVE  EscrowBacked' /\ Conservation'
<1>1. /\ lost = 0 /\ pc[b] = "release" /\ call[b] = "sent" /\ local' = local
      /\ runs' = [runs EXCEPT ![b].release = @ + 1]
      /\ wallet' = ReleaseEscrow(wallet, local[b].wager)
  BY DEF RunRelease, Script
<1>2. /\ runs[b].escrow > 0 /\ runs[b].settle = 0 /\ runs[b].release = 0
      /\ runs[b] \in Runs /\ runs \in [Bets -> Runs]
  BY <1>1 DEF Control, FreshInv, StageInv, RunsMatchStage, GrantMatchesRuns, Rolled, TypeOK
<1>3. /\ runs'[b].settle = 0 /\ runs'[b].release = 1
      /\ \A c \in Bets \ {b} : runs'[c] = runs[c]
  BY <1>1, <1>2 DEF Runs
<1>4. TypeOK /\ Held(b)
  BY <1>2 DEF Held, Control
<1>5. HeldWager[b] = local[b].wager /\ HeldWager'[b] = 0
  BY <1>1, <1>3, <1>4, NoClamp DEF HeldWager, Held
<1>6. /\ SettledWager[b] = 0 /\ SettledPay[b] = 0
      /\ SettledWager'[b] = 0 /\ SettledPay'[b] = 0
  BY <1>2, <1>3 DEF SettledWager, SettledPay
<1>7. /\ wallet.balance \in Nat /\ wallet.escrow \in Nat /\ local[b].wager \in Nat
      /\ wallet'.balance = wallet.balance + local[b].wager
      /\ wallet'.escrow = wallet.escrow - local[b].wager
  <2>1. wallet \in Wallet
    BY <1>4 DEF TypeOK
  <2>2. /\ wallet'.balance = wallet.balance + local[b].wager
        /\ wallet'.escrow = NotBelowZero(wallet.escrow - local[b].wager)
    BY <1>1, <2>1 DEF ReleaseEscrow, Wallet
  <2>3. QED
    BY <1>1, <1>4, <2>1, <2>2, AmountsAreNat, NoClamp DEF Wallet
<1>8. wallet'.escrow - wallet.escrow = HeldWager'[b] - HeldWager[b]
  BY <1>5, <1>7
<1>9. wallet'.balance + wallet'.escrow + SettledWager'[b] - SettledPay'[b]
        = wallet.balance + wallet.escrow + SettledWager[b] - SettledPay[b]
  BY <1>6, <1>7
<1>10. QED
  BY <1>1, <1>3, <1>4, <1>8, <1>9, ScriptStep

(* Every step keeps the escrow key the sum of the holds, and the money.    *)
LEMMA NextSums == Inv /\ [Next]_vars => (EscrowBacked /\ Conservation)'
<1> SUFFICES ASSUME Inv, [Next]_vars, lost' = 0
             PROVE  EscrowBacked' /\ Conservation'
  BY DEF EscrowBacked, Conservation
<1> DEFINE Goal == EscrowBacked' /\ Conservation'
<1>1. Control /\ EscrowBacked /\ Conservation /\ TypeOK
  BY DEF Inv, Control
<1>2. TypeOK'
  BY <1>1, NextType
<1>3. /\ local \in [Bets -> Local] /\ lost \in Nat
      /\ \A c \in Bets : local[c] \in Local
  BY <1>1, BoundsAssumption DEF TypeOK
<1>4. \A c \in Bets : pc[c] = "idle" => runs[c].escrow = 0
  BY <1>1 DEF Control, StageInv, RunsMatchStage
<1>5. ASSUME NEW b \in Bets, Player(b) PROVE Goal
  <2>1. CASE TurnAway(b)
    BY <1>1, <2>1, QuietStep DEF TurnAway
  <2>2. ASSUME NEW w \in Wagers, NEW h \in Workers, Admit(b, w, h) PROVE Goal
    <3>1. \A c \in Bets : /\ local'[c].wager = local[c].wager \/ runs[c].escrow = 0
                          /\ local'[c].payout = local[c].payout
      BY <1>3, <1>4, <2>2 DEF Admit, Local
    <3>2. QED
      BY <1>1, <2>2, <3>1, QuietStep DEF Admit
  <2>3. QED
    BY <1>5, <2>1, <2>2 DEF Player
<1>6. ASSUME NEW b \in Bets, Server(b) PROVE Goal
  <2>1. CASE RunEscrow(b)
    <3>1. CASE CanEscrow(wallet, local[b].wager)
      BY <1>1, <1>2, <2>1, <3>1, EscrowStep
    <3>2. CASE ~CanEscrow(wallet, local[b].wager)
      <4>1. local' = [local EXCEPT ![b].granted = FALSE, ![b].nonce = wallet.nonce]
        BY <2>1, <3>2 DEF RunEscrow
      <4>2. \A c \in Bets : /\ local'[c].wager = local[c].wager
                            /\ local'[c].payout = local[c].payout
        BY <1>3, <4>1 DEF Local
      <4>3. QED
        BY <1>1, <2>1, <3>2, <4>2, QuietStep DEF RunEscrow
    <3>3. QED
      BY <3>1, <3>2
  <2>2. CASE RunSettle(b)
    BY <1>1, <1>2, <2>2, SettleStep
  <2>3. CASE RunRelease(b)
    BY <1>1, <1>2, <2>3, ReleaseStep
  <2>4. QED
    BY <1>6, <2>1, <2>2, <2>3 DEF Server
<1>7. ASSUME NEW b \in Bets, SeedReply(b) \/ Faults(b) PROVE Goal
  <2>1. CASE LoseReply(b)
    BY <1>3, <2>1 DEF LoseReply
  <2>2. CASE SeedReply(b) \/ RejectCall(b)
    BY <1>1, <2>2, QuietStep DEF SeedReply, RejectCall
  <2>3. QED
    BY <1>7, <2>1, <2>2 DEF Faults
<1>8. ASSUME NEW b \in Bets, Handler(b) PROVE Goal
  <2>1. CASE \E p \in Payouts : Resolve(b, p)
    <3>1. PICK p \in Payouts : Resolve(b, p)
      BY <2>1
    <3>2. \A c \in Bets : local'[c].wager = local[c].wager
      BY <1>3, <3>1 DEF Resolve, Local
    <3>3. runs' = runs /\ wallet' = wallet /\ lost' = lost
      BY <3>1 DEF Resolve
    <3>4. \A c \in Bets \ {b} : local'[c].payout = local[c].payout
      BY <1>3, <3>1 DEF Resolve
    <3>5. runs[b].settle = 0
      BY <1>1, <3>1 DEF Resolve, Control, StageInv, RunsMatchStage
    <3>6. QED
      BY <1>1, <3>2, <3>3, <3>4, <3>5, QuietStep
  <2>2. CASE SeedMissing(b) \/ ComputeFails(b) \/ Retry(b)
    <3>1. \A c \in Bets : /\ local'[c].wager = local[c].wager
                          /\ local'[c].payout = local[c].payout
      BY <1>3, <2>2 DEF SeedMissing, ComputeFails, Retry, Local
    <3>2. runs' = runs /\ wallet' = wallet /\ lost' = lost
      BY <2>2 DEF SeedMissing, ComputeFails, Retry
    <3>3. QED
      BY <1>1, <3>1, <3>2, QuietStep
  <2>3. CASE SetupFails(b) \/ Refuse(b) \/ StartCompute(b) \/ Done(b)
               \/ SettleGivesUp(b) \/ ReleaseGivesUp(b)
    <3>1. local' = local /\ runs' = runs /\ wallet' = wallet /\ lost' = lost
      BY <2>3 DEF SetupFails, Refuse, StartCompute, Done, SettleGivesUp, ReleaseGivesUp
    <3>2. QED
      BY <1>1, <3>1, QuietStep
  <2>4. QED
    BY <1>8, <2>1, <2>2, <2>3 DEF Handler
<1>9. ASSUME NEW m \in Messages, Deliver(m) \/ ProduceFails(m) PROVE Goal
  BY <1>1, <1>9, QuietStep DEF Deliver, ProduceFails
<1>10. ASSUME NEW h \in Workers, Crash(h) PROVE Goal
  BY <1>1, <1>10, QuietStep DEF Crash
<1>11. CASE UNCHANGED vars
  BY <1>1, <1>11, QuietStep DEF vars
<1>12. QED
  BY <1>5, <1>6, <1>7, <1>8, <1>9, <1>10, <1>11 DEF Inv, Next

(* The inductive invariant.                                                *)
THEOREM Invariance == Spec => []Inv
<1>1. Init => Inv
  BY InitType, InitStage, InitNonce, InitMessages, InitSums DEF Inv, Control
<1>2. Inv /\ [Next]_vars => Inv'
  BY NextType, NextStage, NextNonce, NextMessages, NextFresh, NextSums DEF Inv, Control
<1>3. QED
  BY <1>1, <1>2, PTL DEF Spec

(* While no reply of Redis was lost, the escrow key is exactly the sum of  *)
(* the wagers that were taken and neither settled nor released.            *)
THEOREM EscrowAlwaysBacked == Spec => []EscrowBacked
<1>1. Inv => EscrowBacked
  BY DEF Inv
<1>2. QED
  BY <1>1, Invariance, PTL

(* While no reply of Redis was lost, balance and escrow together are the   *)
(* deposit plus what settled bets won and lost.                            *)
THEOREM MoneyConserved == Spec => []Conservation
<1>1. Inv => Conservation
  BY DEF Inv
<1>2. QED
  BY <1>1, Invariance, PTL
=============================================================================
