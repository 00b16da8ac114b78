------------------------------ MODULE BetEscrow ------------------------------
(***************************************************************************)
(* The life of a bet in the API gateway (handleBet in ws.handler.ts): the  *)
(* wager is taken into escrow by one Redis script, the roll is computed by *)
(* the provably-fair service, and a fire-and-forget retry loop settles the *)
(* escrow or, when the roll fails, releases it.                            *)
(*                                                                         *)
(* The handlers of several bets of ONE player and currency run at the same *)
(* time, on any of the cluster's workers: every `await` is a point where   *)
(* another handler, another worker or a crash comes between.  A Redis call *)
(* is three steps: sent, run by the server, answered.  The client gives up *)
(* on a call (it rejects) once its retries are spent, and it sends again a *)
(* call whose reply was lost with the connection; the server may then run  *)
(* the script a second time.                                               *)
(*                                                                         *)
(* Simplifications: amounts are small integers; a win pays any amount of   *)
(* Payouts; waiting between two attempts is not a step of its own.         *)
(***************************************************************************)
EXTENDS RedisWallet, UnitSums

CONSTANTS
  Bets,            \* the bets the player sends
  Workers,         \* the processes of the gateway's cluster
  Wagers,          \* the wagers a bet may carry
  Payouts,         \* what a resolved bet may pay, 0 on a loss
  Deposit,         \* the player's balance before the first bet
  MaxAttempts,     \* config.creditMaxAttempts
  MaxLostReplies   \* bound: how many replies of Redis may be lost

ASSUME BetsAssumption == IsFiniteSet(Bets)
ASSUME AmountsAssumption ==
  /\ Wagers \subseteq Nat \ {0}
  /\ Payouts \subseteq Nat
  /\ Deposit \in Nat
ASSUME BoundsAssumption ==
  /\ MaxAttempts \in Nat \ {0}
  /\ MaxLostReplies \in Nat

VARIABLES
  wallet,     \* the player's keys in Redis
  pc,         \* where each bet's handler stands
  local,      \* the handler's local data, and its worker
  call,       \* the handler's Redis script call in flight
  seed,       \* its GET of the server seed
  outbox,     \* Kafka messages being produced, <<topic, bet>>
  topic,      \* Kafka messages the brokers have accepted
  runs,       \* history: how often each script took effect for a bet
  lost        \* history: how many replies of Redis were lost

vars == <<wallet, pc, local, call, seed, outbox, topic, runs, lost>>

-----------------------------------------------------------------------------
(* Where a handler stands.  The last six are ends: it takes no more steps. *)

Ends == {"rejected", "settled", "refunded", "stuck", "abandoned", "crashed"}
Busy == {"setup", "compute", "settle", "release"}
Stage == {"idle"} \cup Busy \cup Ends

CallState == {"none", "sent", "answered", "failed"}
SeedState == {"none", "waiting", "found", "missing", "failed"}

Amounts == {0} \cup Wagers \cup Payouts
NoWorker == "none"

(* wager, payout: the amounts of the bet; granted, nonce: the reply of the *)
(* escrow script; attempt: the counter of the retry loop; host: the worker *)
(* that runs the handler.                                                  *)
Local == [wager : {0} \cup Wagers, payout : {0} \cup Payouts, granted : BOOLEAN,
          nonce : Nat, attempt : 0..MaxAttempts, host : Workers \cup {NoWorker}]

Runs == [escrow : Nat, settle : Nat, release : Nat]

Messages == {"BetResolved", "EscrowStuck"} \X Bets

(* The script a bet's outstanding call runs, by where the handler stands.  *)
(* A handler that rejected early may have left its escrow call behind.     *)
Script(b) == CASE pc[b] = "settle"  -> "settle"
               [] pc[b] = "release" -> "release"
               [] OTHER             -> "escrow"

(* The wager of b was taken and neither paid out nor given back.           *)
Held(b) == runs[b].escrow > 0 /\ runs[b].settle = 0 /\ runs[b].release = 0

Init ==
  /\ wallet = [balance |-> Deposit, escrow |-> 0, nonce |-> 0]
  /\ pc = [b \in Bets |-> "idle"]
  /\ local = [b \in Bets |-> [wager |-> 0, payout |-> 0, granted |-> FALSE,
                              nonce |-> 0, attempt |-> 0, host |-> NoWorker]]
  /\ call = [b \in Bets |-> "none"]
  /\ seed = [b \in Bets |-> "none"]
  /\ outbox = {}
  /\ topic = {}
  /\ runs = [b \in Bets |-> [escrow |-> 0, settle |-> 0, release |-> 0]]
  /\ lost = 0

-----------------------------------------------------------------------------
(* Redis and the client that talks to it.                                  *)

(* The server runs the escrow script of bet b.  The reply carries whether  *)
(* the balance covered the wager, and the nonce.                           *)
RunEscrow(b) ==
  /\ call[b] = "sent" /\ Script(b) = "escrow"
  /\ call' = [call EXCEPT ![b] = "answered"]
  /\ IF CanEscrow(wallet, local[b].wager)
       THEN /\ wallet' = EscrowBet(wallet, local[b].wager)
            /\ runs' = [runs EXCEPT ![b].escrow = @ + 1]
            /\ local' = [local EXCEPT ![b].granted = TRUE,
                                      ![b].nonce = wallet'.nonce]
       ELSE /\ local' = [local EXCEPT ![b].granted = FALSE,
                                      ![b].nonce = wallet.nonce]
            /\ UNCHANGED <<wallet, runs>>
  /\ UNCHANGED <<pc, seed, outbox, topic, lost>>

RunSettle(b) ==
  /\ call[b] = "sent" /\ Script(b) = "settle"
  /\ call' = [call EXCEPT ![b] = "answered"]
  /\ wallet' = SettleBet(wallet, local[b].wager, local[b].payout)
  /\ runs' = [runs EXCEPT ![b].settle = @ + 1]
  /\ UNCHANGED <<pc, local, seed, outbox, topic, lost>>

RunRelease(b) ==
  /\ call[b] = "sent" /\ Script(b) = "release"
  /\ call' = [call EXCEPT ![b] = "answered"]
  /\ wallet' = ReleaseEscrow(wallet, local[b].wager)
  /\ runs' = [runs EXCEPT ![b].release = @ + 1]
  /\ UNCHANGED <<pc, local, seed, outbox, topic, lost>>

(* The connection drops before the reply arrives: the client puts the      *)
(* command back in its queue and sends it again.                           *)
LoseReply(b) ==
  /\ call[b] = "answered" /\ lost < MaxLostReplies
  /\ call' = [call EXCEPT ![b] = "sent"]
  /\ lost' = lost + 1
  /\ UNCHANGED <<wallet, pc, local, seed, outbox, topic, runs>>

(* maxRetriesPerRequest is spent: the promise of the call rejects.         *)
RejectCall(b) ==
  /\ call[b] = "sent"
  /\ call' = [call EXCEPT ![b] = "failed"]
  /\ UNCHANGED <<wallet, pc, local, seed, outbox, topic, runs, lost>>

(* The GET of the server seed answers or rejects.                          *)
SeedReply(b) ==
  /\ pc[b] = "setup" /\ seed[b] = "waiting"
  /\ \E s \in {"found", "missing", "failed"} : seed' = [seed EXCEPT ![b] = s]
  /\ UNCHANGED <<wallet, pc, local, call, outbox, topic, runs, lost>>

-----------------------------------------------------------------------------
(* handleBet, up to the fork into settlement or release.                   *)

(* The rate limiter refuses the bet, or its own Redis call fails: the      *)
(* handler answers with an error before it touches any balance.            *)
TurnAway(b) ==
  /\ pc[b] = "idle"
  /\ pc' = [pc EXCEPT ![b] = "rejected"]
  /\ UNCHANGED <<wallet, local, call, seed, outbox, topic, runs, lost>>

(* The limiter admits the bet on worker h: the escrow script and the GET   *)
(* of the seed are sent together (Promise.all).                            *)
Admit(b, wager, h) ==
  /\ pc[b] = "idle"
  /\ pc' = [pc EXCEPT ![b] = "setup"]
  /\ local' = [local EXCEPT ![b].wager = wager, ![b].host = h]
  /\ call' = [call EXCEPT ![b] = "sent"]
  /\ seed' = [seed EXCEPT ![b] = "waiting"]
  /\ UNCHANGED <<wallet, outbox, topic, runs, lost>>

(* Promise.all rejects with the first of its two calls that does, and the  *)
(* handler returns.  What became of the other call is not looked at: the   *)
(* escrow script may have run, or may still run.                           *)
SetupFails(b) ==
  /\ pc[b] = "setup"
  /\ call[b] = "failed" \/ seed[b] = "failed"
  /\ pc' = [pc EXCEPT ![b] = "rejected"]
  /\ UNCHANGED <<wallet, local, call, seed, outbox, topic, runs, lost>>

SetupAnswered(b) ==
  pc[b] = "setup" /\ call[b] = "answered" /\ seed[b] \in {"found", "missing"}

(* The script did not grant the wager: INSUFFICIENT_BALANCE, or the answer *)
(* that the seed is missing, and nothing to give back.                     *)
Refuse(b) ==
  /\ SetupAnswered(b) /\ ~local[b].granted
  /\ pc' = [pc EXCEPT ![b] = "rejected"]
  /\ call' = [call EXCEPT ![b] = "none"]
  /\ UNCHANGED <<wallet, local, seed, outbox, topic, runs, lost>>

\* Mutation: the roll starts without a look at escrowResult.success.
StartComputeUngranted(b) ==
  /\ SetupAnswered(b) /\ seed[b] = "found"
  /\ pc' = [pc EXCEPT ![b] = "compute"]
  /\ call' = [call EXCEPT ![b] = "none"]
  /\ UNCHANGED <<wallet, local, seed, outbox, topic, runs, lost>>

(* Wager granted and seed found: the provably-fair service is asked.       *)
StartCompute(b) ==
  /\ SetupAnswered(b) /\ local[b].granted /\ seed[b] = "found"
  /\ pc' = [pc EXCEPT ![b] = "compute"]
  /\ call' = [call EXCEPT ![b] = "none"]
  /\ UNCHANGED <<wallet, local, seed, outbox, topic, runs, lost>>

(* Entering a retry loop: its first attempt sends the script.              *)
StartLoop(b, stage) ==
  /\ pc' = [pc EXCEPT ![b] = stage]
  /\ call' = [call EXCEPT ![b] = "sent"]

\* Mutation: the wager of a bet is released whether or not it was granted.
SeedMissingUngranted(b) ==
  /\ SetupAnswered(b) /\ seed[b] = "missing"
  /\ StartLoop(b, "release")
  /\ local' = [local EXCEPT ![b].attempt = 1]
  /\ UNCHANGED <<wallet, seed, outbox, topic, runs, lost>>

(* The player has no server seed in Redis: a granted wager is released.    *)
SeedMissing(b) ==
  /\ SetupAnswered(b) /\ local[b].granted /\ seed[b] = "missing"
  /\ StartLoop(b, "release")
  /\ local' = [local EXCEPT ![b].attempt = 1]
  /\ UNCHANGED <<wallet, seed, outbox, topic, runs, lost>>

(* The provably-fair service fails or times out: the wager is released.    *)
ComputeFails(b) ==
  /\ pc[b] = "compute"
  /\ StartLoop(b, "release")
  /\ local' = [local EXCEPT ![b].attempt = 1]
  /\ UNCHANGED <<wallet, seed, outbox, topic, runs, lost>>

(* The roll is known: settleBetAsync and produceBetResolved both start,    *)
(* neither awaited, and the player is shown the result.                    *)
Resolve(b, payout) ==
  /\ pc[b] = "compute"
  /\ StartLoop(b, "settle")
  /\ local' = [local EXCEPT ![b].attempt = 1, ![b].payout = payout]
  /\ outbox' = outbox \cup {<<"BetResolved", b>>}
  /\ UNCHANGED <<wallet, seed, topic, runs, lost>>

-----------------------------------------------------------------------------
(* settleBetAsync and releaseEscrowWithRetry: the same loop over two       *)
(* scripts, which differ in what they do when the attempts are spent.      *)

InLoop(b) == pc[b] \in {"settle", "release"}

(* The script answered: the loop returns.                                  *)
Done(b) ==
  /\ InLoop(b) /\ call[b] = "answered"
  /\ pc' = [pc EXCEPT ![b] = IF @ = "settle" THEN "settled" ELSE "refunded"]
  /\ call' = [call EXCEPT ![b] = "none"]
  /\ UNCHANGED <<wallet, local, seed, outbox, topic, runs, lost>>

\* Mutation: the back-off ends without sending the script again.
RetryWithoutCall(b) ==
  /\ InLoop(b) /\ call[b] = "failed" /\ local[b].attempt < MaxAttempts
  /\ local' = [local EXCEPT ![b].attempt = @ + 1]
  /\ call' = [call EXCEPT ![b] = "none"]
  /\ UNCHANGED <<wallet, pc, seed, outbox, topic, runs, lost>>

\* Mutation: a failed settlement is retried as a release of the wager.
RetryAsRelease(b) ==
  /\ InLoop(b) /\ call[b] = "failed" /\ local[b].attempt < MaxAttempts
  /\ local' = [local EXCEPT ![b].attempt = @ + 1]
  /\ call' = [call EXCEPT ![b] = "sent"]
  /\ pc' = [pc EXCEPT ![b] = "release"]
  /\ UNCHANGED <<wallet, seed, outbox, topic, runs, lost>>

\* Mutation: every failed attempt is dead-lettered, not the last alone.
RetryWithDeadLetter(b) ==
  /\ InLoop(b) /\ call[b] = "failed" /\ local[b].attempt < MaxAttempts
  /\ local' = [local EXCEPT ![b].attempt = @ + 1]
  /\ call' = [call EXCEPT ![b] = "sent"]
  /\ outbox' = outbox \cup {<<"EscrowStuck", b>>}
  /\ UNCHANGED <<wallet, pc, seed, topic, runs, lost>>

(* The script failed and attempts are left: it is sent again.              *)
Retry(b) ==
  /\ InLoop(b) /\ call[b] = "failed" /\ local[b].attempt < MaxAttempts
  /\ local' = [local EXCEPT ![b].attempt = @ + 1]
  /\ call' = [call EXCEPT ![b] = "sent"]
  /\ UNCHANGED <<wallet, pc, seed, outbox, topic, runs, lost>>

Exhausted(b) == call[b] = "failed" /\ local[b].attempt = MaxAttempts

(* Attempts spent while settling: the stranded wager is dead-lettered.     *)
SettleGivesUp(b) ==
  /\ pc[b] = "settle" /\ Exhausted(b)
  /\ pc' = [pc EXCEPT ![b] = "stuck"]
  /\ outbox' = outbox \cup {<<"EscrowStuck", b>>}
  /\ UNCHANGED <<wallet, local, call, seed, topic, runs, lost>>

(* Attempts spent while releasing: an error is logged, and that is all.    *)
ReleaseGivesUp(b) ==
  /\ pc[b] = "release" /\ Exhausted(b)
  /\ pc' = [pc EXCEPT ![b] = "abandoned"]
  /\ UNCHANGED <<wallet, local, call, seed, outbox, topic, runs, lost>>

-----------------------------------------------------------------------------
(* The producer's sends, which nobody awaits, and the death of a worker.   *)

Deliver(m) ==
  /\ m \in outbox
  /\ outbox' = outbox \ {m}
  /\ topic' = topic \cup {m}
  /\ UNCHANGED <<wallet, pc, local, call, seed, runs, lost>>

(* The send rejects: .catch logs it.                                       *)
ProduceFails(m) ==
  /\ m \in outbox
  /\ outbox' = outbox \ {m}
  /\ UNCHANGED <<wallet, pc, local, call, seed, topic, runs, lost>>

(* Worker h exits (the primary forks another): its handlers, their Redis   *)
(* calls that the server has not run and their pending sends are gone.     *)
Crash(h) ==
  LET here == {b \in Bets : local[b].host = h}
      dies == {b \in here : pc[b] \in Busy}
  IN /\ dies # {}
     /\ pc' = [b \in Bets |-> IF b \in dies THEN "crashed" ELSE pc[b]]
     /\ call' = [b \in Bets |-> IF b \in here THEN "none" ELSE call[b]]
     /\ outbox' = {m \in outbox : m[2] \notin here}
     /\ UNCHANGED <<wallet, local, seed, topic, runs, lost>>

-----------------------------------------------------------------------------
Server(b) == RunEscrow(b) \/ RunSettle(b) \/ RunRelease(b)

Handler(b) ==
  \/ SetupFails(b) \/ Refuse(b) \/ StartCompute(b) \/ SeedMissing(b)
  \/ ComputeFails(b) \/ \E p \in Payouts : Resolve(b, p)
  \/ Done(b) \/ Retry(b) \/ SettleGivesUp(b) \/ ReleaseGivesUp(b)

Player(b) == TurnAway(b) \/ \E w \in Wagers, h \in Workers : Admit(b, w, h)

Faults(b) == LoseReply(b) \/ RejectCall(b)

Next ==
  \/ \E b \in Bets : Player(b) \/ Handler(b) \/ Server(b) \/ SeedReply(b) \/ Faults(b)
  \/ \E m \in Messages : Deliver(m) \/ ProduceFails(m)
  \/ \E h \in Workers : Crash(h)

Spec == Init /\ [][Next]_vars

(* A live worker runs its handlers, the client answers or rejects every    *)
(* call, the producer every send.  Nothing makes a player bet or a worker  *)
(* crash.                                                                  *)
Fairness ==
  /\ \A b \in Bets : /\ WF_vars(Handler(b))
                     /\ WF_vars(Server(b) \/ RejectCall(b))
                     /\ WF_vars(SeedReply(b))
  /\ \A m \in Messages : WF_vars(Deliver(m) \/ ProduceFails(m))

FairSpec == Spec /\ Fairness

-----------------------------------------------------------------------------
(* What the bets of the player add up to.                                  *)

HeldWager    == [b \in Bets |-> IF Held(b) THEN local[b].wager ELSE 0]
SettledWager == [b \in Bets |-> IF runs[b].settle > 0 THEN local[b].wager ELSE 0]
SettledPay   == [b \in Bets |-> IF runs[b].settle > 0 THEN local[b].payout ELSE 0]

(* What the wallet holds beyond the deposit and the settled bets' profit.  *)
Drift == (wallet.balance + wallet.escrow + SumOver(SettledWager))
           - (Deposit + SumOver(SettledPay))

-----------------------------------------------------------------------------
(* The wallet never goes below zero (the unit each script keeps) and every *)
(* handler's data are of the shape handleBet gives them.                   *)
TypeOK ==
  /\ wallet \in Wallet
  /\ pc \in [Bets -> Stage]
  /\ local \in [Bets -> Local]
  /\ call \in [Bets -> CallState]
  /\ seed \in [Bets -> SeedState]
  /\ outbox \subseteq Messages
  /\ topic \subseteq Messages
  /\ runs \in [Bets -> Runs]
  /\ lost \in 0..MaxLostReplies

(* As long as no reply of Redis was lost, the escrow key is exactly the    *)
(* sum of the wagers that were taken and neither settled nor released,     *)
(* whatever the interleaving of handlers, retries and crashes: no script   *)
(* of one bet consumes the hold of another.                                *)
EscrowBacked == lost = 0 => wallet.escrow = SumOver(HeldWager)

(* As long as no reply was lost, money is neither created nor destroyed:   *)
(* balance and escrow together are the deposit plus what settled bets won  *)
(* and lost.                                                               *)
Conservation == lost = 0 => Drift = 0

Largest == CHOOSE n \in Amounts : \A m \in Amounts : m <= n

(* The scripts are not idempotent, so a call whose reply was lost and that *)
(* is sent again moves money twice.  Each lost reply makes the wallet wrong*)
(* by at most one wager or payout.                                         *)
DriftBounded == -(lost * Largest) <= Drift /\ Drift <= lost * Largest

(* Rolls of two bets never use the same nonce, lost replies or not: the    *)
(* hash of a roll is a function of seed and nonce.                         *)
Rolled(b) == pc[b] \in {"compute", "settle", "release", "settled", "refunded",
                        "stuck", "abandoned"}
NonceNeverReused ==
  \A a, b \in Bets : /\ a # b /\ Rolled(a) /\ Rolled(b)
                     => local[a].nonce # local[b].nonce

(* A bet is paid out or given back, never both, and neither unless its     *)
(* wager was taken: lost replies, retries and crashes included.            *)
OneOutcome ==
  \A b \in Bets :
    /\ runs[b].settle > 0 => runs[b].release = 0
    /\ runs[b].settle + runs[b].release > 0 => runs[b].escrow > 0

(* The ledger is told of a bet only if its wager was taken, and never of a *)
(* bet whose wager went back to the player.                                *)
PublishedBetsCount ==
  \A b \in Bets : <<"BetResolved", b>> \in topic =>
    runs[b].escrow > 0 /\ runs[b].release = 0

(* What the dead-letter topic says is so: while no reply was lost, each    *)
(* wager reported as stuck is still in escrow, and an operator who settles *)
(* it by hand does not pay twice.                                          *)
DeadLettersAreHeld ==
  lost = 0 => \A b \in Bets : <<"EscrowStuck", b>> \in topic => Held(b)

(* README.md:60: "Wagers in escrow get released back to available balance  *)
(* on error.  If that release itself fails (say Redis is down), the event  *)
(* routes to a dead-letter queue for manual reconciliation.  No funds      *)
(* vanish silently."  A wager that is held although its bet was rejected,  *)
(* or its release given up, is being reported, or was.                     *)
NoFundsVanish ==
  \A b \in Bets : pc[b] \in {"rejected", "abandoned"} /\ Held(b)
                    => <<"EscrowStuck", b>> \in outbox \cup topic

(* A bet whose wager was granted and that reached the roll ends with its   *)
(* wager out of escrow, unless every attempt failed or its worker died.    *)
RolledBetsEnd ==
  \A b \in Bets : pc[b] = "compute" ~>
    \/ pc[b] \in {"settled", "refunded", "crashed"}
    \/ local[b].attempt = MaxAttempts /\ pc[b] \in {"stuck", "abandoned"}

-----------------------------------------------------------------------------
(* The refinement: a bet's fate is read off the scripts that ran for it.   *)
Fate(b) == CASE runs[b].settle > 0  -> "paid"
             [] runs[b].release > 0 -> "refunded"
             [] Held(b)             -> "open"
             [] OTHER -> "none"

Account == INSTANCE WagerAccount WITH
  available <- wallet.balance,
  held      <- wallet.escrow,
  stake     <- HeldWager,
  fate      <- [b \in Bets |-> Fate(b)]

(* Where replies are not lost, the handlers with their retries and crashes *)
(* implement the account: every wager is set aside once, and paid out or   *)
(* refunded at most once.                                                  *)
ImplementsAccount == Account!Spec
=============================================================================
