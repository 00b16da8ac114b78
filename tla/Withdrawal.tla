------------------------------ MODULE Withdrawal ------------------------------
(***************************************************************************)
(* A withdrawal, from the route of the API gateway (withdraw.routes.ts) to *)
(* the payout worker (evm-payout-worker).  The route takes the amount from *)
(* the player's balance in Redis and publishes the request; when the send  *)
(* is rejected it credits the amount back.  The worker takes one request   *)
(* after another from the topic, has the treasury pay it on chain, and     *)
(* publishes that it is completed.                                         *)
(*                                                                         *)
(* One player and currency, so one partition of the topic; one worker,     *)
(* whose consumer group has committed offsets before.  Redis calls are     *)
(* those of BetEscrow: sent, run, answered.  The bets' share of the balance*)
(* is left out.  A transaction is named by its place among those submitted,*)
(* and the chain mines them in that order, as the wallet's nonce demands.  *)
(***************************************************************************)
EXTENDS Integers, Sequences, FiniteSets

CONSTANTS
  Requests,    \* the withdrawals the player asks for
  Amount,      \* what each of them asks for
  Hosts,       \* the processes of the gateway's cluster
  Opening,     \* the player's balance before the first of them
  MaxRetries,  \* config.payoutMaxRetries
  MaxFaults    \* bound: lost replies, restarts and rejoins of the worker

ASSUME RequestsAssumption == IsFiniteSet(Requests)
ASSUME AmountAssumption == Amount \in [Requests -> Nat \ {0}] /\ Opening \in Nat
ASSUME BoundsAssumption == MaxRetries \in Nat /\ MaxFaults \in Nat

VARIABLES
  balance,    \* the player's balance in Redis
  stage,      \* where each request's route handler stands
  call,       \* its Redis script call in flight
  host,       \* the process that serves each request
  wire,       \* requests whose message is on its way to the brokers
  requested,  \* the topic WithdrawalRequested
  position,   \* the worker's next offset, in its memory
  committed,  \* its next offset at the brokers
  paidHere,   \* completedThisRun
  worker,     \* where the worker's handler stands
  txs,        \* the payout transactions that reached the chain
  reported,   \* the transactions on the topic WithdrawalCompleted
  runs,       \* history: how often each script took effect for a request
  deliveries, \* history: how often the worker began with each request
  marred,     \* history: requests whose handling threw or was cut off
  runStart,   \* history: the number of transactions when the worker started
  faults      \* history: how many faults there were

route == <<balance, stage, call, host, wire, runs>>
group == <<position, committed>>
chain == <<txs, reported>>
history == <<deliveries, marred, runStart>>
payouts == <<group, paidHere, worker, chain, history>>
vars == <<route, requested, payouts, faults>>

-----------------------------------------------------------------------------
Running == {"deduct", "produce", "credit"}

(* "accepted": answered with 202; "over": ended otherwise, by an error     *)
(* answer or with its process.                                             *)
Stage == {"new", "accepted", "over"} \cup Running

(* A call that was answered holds what the script replied.                 *)
Reply == {"done", "insufficient"}
CallState == {"none", "sent", "failed"} \cup Reply
NoHost == "none"

Idle == [step |-> "idle", attempt |-> 0, tx |-> 0]

Fault == faults < MaxFaults /\ faults' = faults + 1

Init ==
  /\ balance = Opening
  /\ stage = [r \in Requests |-> "new"]
  /\ call = [r \in Requests |-> "none"]
  /\ host = [r \in Requests |-> NoHost]
  /\ wire = {}
  /\ requested = <<>>
  /\ position = 0
  /\ committed = 0
  /\ paidHere = {}
  /\ worker = Idle
  /\ txs = <<>>
  /\ reported = {}
  /\ runs = [r \in Requests |-> [deduct |-> 0, credit |-> 0]]
  /\ deliveries = [r \in Requests |-> 0]
  /\ marred = {}
  /\ runStart = 0
  /\ faults = 0

-----------------------------------------------------------------------------
(* Redis: withdraw-deduct.lua and withdraw-credit.lua.                     *)

\* Mutation: the script does not compare the amount with the balance.
CoversAny(r) == TRUE

Covers(r) == balance >= Amount[r]

RunDeduct(r) ==
  /\ call[r] = "sent" /\ stage[r] = "deduct"
  /\ IF Covers(r)
       THEN /\ call' = [call EXCEPT ![r] = "done"]
            /\ balance' = balance - Amount[r]
            /\ runs' = [runs EXCEPT ![r].deduct = @ + 1]
       ELSE /\ call' = [call EXCEPT ![r] = "insufficient"]
            /\ UNCHANGED <<balance, runs>>
  /\ UNCHANGED <<stage, host, wire, requested, payouts, faults>>

RunCredit(r) ==
  /\ call[r] = "sent" /\ stage[r] = "credit"
  /\ call' = [call EXCEPT ![r] = "done"]
  /\ balance' = balance + Amount[r]
  /\ runs' = [runs EXCEPT ![r].credit = @ + 1]
  /\ UNCHANGED <<stage, host, wire, requested, payouts, faults>>

(* The connection drops before the reply arrives: the client sends again.  *)
LoseReply(r) ==
  /\ call[r] \in Reply /\ Fault
  /\ call' = [call EXCEPT ![r] = "sent"]
  /\ UNCHANGED <<balance, stage, host, wire, runs, requested, payouts>>

(* maxRetriesPerRequest is spent: the promise of the call rejects.         *)
RejectCall(r) ==
  /\ call[r] = "sent"
  /\ call' = [call EXCEPT ![r] = "failed"]
  /\ UNCHANGED <<balance, stage, host, wire, runs, requested, payouts, faults>>

-----------------------------------------------------------------------------
(* POST /api/v1/withdraw.                                                  *)

(* Session, rate limit, schema and wallet address are checked before any   *)
(* balance is touched; a request that fails one of them changes nothing.   *)
Admit(r, h) ==
  /\ stage[r] = "new"
  /\ stage' = [stage EXCEPT ![r] = "deduct"]
  /\ call' = [call EXCEPT ![r] = "sent"]
  /\ host' = [host EXCEPT ![r] = h]
  /\ UNCHANGED <<balance, wire, runs, requested, payouts, faults>>

(* The handler ends without accepting the request.                         *)
End(r) ==
  /\ stage' = [stage EXCEPT ![r] = "over"]
  /\ call' = [call EXCEPT ![r] = "none"]
  /\ UNCHANGED <<balance, host, wire, runs, requested, payouts, faults>>

(* INSUFFICIENT_BALANCE.                                                   *)
Refuse(r) ==
  /\ stage[r] = "deduct" /\ call[r] = "insufficient"
  /\ End(r)

(* The deduction rejects: 500, whether or not the script ran.              *)
DeductFails(r) ==
  /\ stage[r] = "deduct" /\ call[r] = "failed"
  /\ End(r)

\* Mutation: deductResult.success is not looked at.
ProduceUngranted(r) ==
  /\ stage[r] = "deduct" /\ call[r] \in Reply
  /\ stage' = [stage EXCEPT ![r] = "produce"]
  /\ call' = [call EXCEPT ![r] = "none"]
  /\ wire' = wire \cup {r}
  /\ UNCHANGED <<balance, host, runs, requested, payouts, faults>>

(* Granted: the request is sent to the brokers, and the handler waits.     *)
Produce(r) ==
  /\ stage[r] = "deduct" /\ call[r] = "done"
  /\ stage' = [stage EXCEPT ![r] = "produce"]
  /\ call' = [call EXCEPT ![r] = "none"]
  /\ wire' = wire \cup {r}
  /\ UNCHANGED <<balance, host, runs, requested, payouts, faults>>

(* The brokers store the message, once (the producer is idempotent), or    *)
(* never get it.                                                           *)
Store(r) ==
  /\ r \in wire
  /\ wire' = wire \ {r}
  /\ requested' = Append(requested, r)
  /\ UNCHANGED <<balance, stage, call, host, runs, payouts, faults>>

DropMessage(r) ==
  /\ r \in wire
  /\ wire' = wire \ {r}
  /\ UNCHANGED <<balance, stage, call, host, runs, requested, payouts, faults>>

Stored(r) == \E i \in DOMAIN requested : requested[i] = r

\* Mutation: the send is not awaited.
AcceptUnsent(r) ==
  /\ stage[r] = "produce"
  /\ stage' = [stage EXCEPT ![r] = "accepted"]
  /\ UNCHANGED <<balance, call, host, wire, runs, requested, payouts, faults>>

(* All replicas acknowledged the message: 202, PENDING.                    *)
Accept(r) ==
  /\ stage[r] = "produce" /\ Stored(r)
  /\ stage' = [stage EXCEPT ![r] = "accepted"]
  /\ UNCHANGED <<balance, call, host, wire, runs, requested, payouts, faults>>

(* The send rejects: the amount is credited back, not awaited.  Kafka being*)
(* unreachable and a lost acknowledgement look the same: the message may   *)
(* have been stored, or may be stored yet.                                 *)
ProduceRejects(r) ==
  /\ stage[r] = "produce"
  /\ stage' = [stage EXCEPT ![r] = "credit"]
  /\ call' = [call EXCEPT ![r] = "sent"]
  /\ UNCHANGED <<balance, host, wire, runs, requested, payouts, faults>>

(* The credit answers, or rejects and an error is logged.                  *)
CreditEnds(r) ==
  /\ stage[r] = "credit" /\ call[r] \in {"done", "failed"}
  /\ End(r)

(* Process h of the gateway exits, and with it its handlers, their calls   *)
(* the server has not run and their messages the brokers have not got.     *)
Crash(h) ==
  LET dies == {r \in Requests : host[r] = h /\ stage[r] \in Running}
  IN /\ dies # {}
     /\ stage' = [r \in Requests |-> IF r \in dies THEN "over" ELSE stage[r]]
     /\ call' = [r \in Requests |-> IF r \in dies THEN "none" ELSE call[r]]
     /\ wire' = wire \ {r \in Requests : host[r] = h}
     /\ UNCHANGED <<balance, host, runs, requested, payouts, faults>>

-----------------------------------------------------------------------------
(* The payout worker: eachMessage, one message at a time.                  *)

At(step) == worker.step = step
Request == requested[position + 1]
Waiting == At("idle") /\ position < Len(requested)

(* The handler returns, after an error too, which it catches: the client   *)
(* resolves the offset of the message.                                     *)
Return == worker' = Idle /\ position' = position + 1

Swallow ==
  /\ Return
  /\ marred' = marred \cup {Request}

(* In-session idempotency: completedThisRun has the request.               *)
Skip ==
  /\ Waiting /\ Request \in paidHere
  /\ Return
  /\ UNCHANGED <<route, requested, committed, paidHere, chain, history, faults>>

Begin ==
  /\ Waiting /\ Request \notin paidHere
  /\ worker' = [Idle EXCEPT !.step = "submit"]
  /\ deliveries' = [deliveries EXCEPT ![Request] = @ + 1]
  /\ UNCHANGED <<route, requested, group, paidHere, chain, marred, runStart, faults>>

Send == txs' = Append(txs, [of |-> Request, state |-> "pending"])

(* contract.payout reaches the chain, and answers with the transaction.    *)
Submit ==
  /\ At("submit")
  /\ Send
  /\ worker' = [worker EXCEPT !.step = "wait", !.tx = Len(txs) + 1]
  /\ UNCHANGED <<route, requested, group, paidHere, reported, history, faults>>

(* It reaches the chain, and the call throws all the same.                 *)
SubmitUnanswered ==
  /\ At("submit")
  /\ Send /\ Swallow
  /\ UNCHANGED <<route, requested, committed, paidHere, reported, deliveries, runStart,
                 faults>>

(* NONCE_EXPIRED: the chain did not take the transaction; with retries     *)
(* left it is built anew.                                                  *)
NonceExpired ==
  /\ At("submit") /\ worker.attempt < MaxRetries
  /\ worker' = [worker EXCEPT !.attempt = @ + 1]
  /\ UNCHANGED <<route, requested, group, paidHere, chain, history, faults>>

(* Any other error, or no retries left: no transaction was made.           *)
SubmitFails ==
  /\ At("submit")
  /\ Swallow
  /\ UNCHANGED <<route, requested, committed, paidHere, chain, deliveries, runStart,
                 faults>>

Tx == txs[worker.tx]

\* Mutation: the transaction's hash is reported without waiting for it.
MinedUnseen ==
  /\ At("wait")
  /\ worker' = [worker EXCEPT !.step = "report"]
  /\ UNCHANGED <<route, requested, group, paidHere, chain, history, faults>>

(* tx.wait: the receipt of a transaction that was mined.                   *)
Mined ==
  /\ At("wait") /\ Tx.state = "paid"
  /\ worker' = [worker EXCEPT !.step = "report"]
  /\ UNCHANGED <<route, requested, group, paidHere, chain, history, faults>>

\* Mutation: every error is retried, not NONCE_EXPIRED alone.
WaitRetries ==
  /\ At("wait") /\ worker.attempt < MaxRetries
  /\ worker' = [worker EXCEPT !.step = "submit", !.attempt = @ + 1]
  /\ UNCHANGED <<route, requested, group, paidHere, chain, history, faults>>

(* tx.wait throws: the transaction reverted, or the node cannot be reached *)
(* while the transaction is pending or was mined.                          *)
WaitFails ==
  /\ At("wait")
  /\ Swallow
  /\ UNCHANGED <<route, requested, committed, paidHere, chain, deliveries, runStart,
                 faults>>

\* Mutation: completedThisRun is not told.
ReportForgets ==
  /\ At("report")
  /\ reported' = reported \cup {worker.tx}
  /\ Return
  /\ UNCHANGED <<route, requested, committed, paidHere, txs, history, faults>>

(* WithdrawalCompleted is stored and acknowledged.                         *)
Report ==
  /\ At("report")
  /\ reported' = reported \cup {worker.tx}
  /\ paidHere' = paidHere \cup {Request}
  /\ Return
  /\ UNCHANGED <<route, requested, committed, txs, history, faults>>

(* Its send throws, whether or not the brokers stored it.                  *)
ReportFails ==
  /\ At("report")
  /\ \E stored \in BOOLEAN :
       reported' = IF stored THEN reported \cup {worker.tx} ELSE reported
  /\ Swallow
  /\ UNCHANGED <<route, requested, committed, paidHere, txs, deliveries, runStart, faults>>

-----------------------------------------------------------------------------
(* The worker's Kafka client, the process and the chain.                   *)

(* autoCommit: resolved offsets are committed between two messages.        *)
Commit ==
  /\ At("idle") /\ committed # position
  /\ committed' = position
  /\ UNCHANGED <<route, requested, position, paidHere, worker, chain, history, faults>>

(* The group rebalances before the commit: the same process is given what  *)
(* it had not committed once more.                                         *)
Rejoin ==
  /\ At("idle") /\ committed # position /\ Fault
  /\ position' = committed
  /\ UNCHANGED <<route, requested, committed, paidHere, worker, chain, history>>

(* The worker exits and is started again.                                  *)
Restart ==
  /\ Fault
  /\ position' = committed
  /\ paidHere' = {}
  /\ worker' = Idle
  /\ marred' = IF At("idle") THEN marred ELSE marred \cup {Request}
  /\ runStart' = Len(txs)
  /\ UNCHANGED <<route, requested, committed, chain, deliveries>>

(* The chain mines the first transaction that is pending: the treasury     *)
(* pays, or the payout reverts.                                            *)
Mine ==
  \E i \in DOMAIN txs :
    /\ txs[i].state = "pending"
    /\ \A j \in 1..i - 1 : txs[j].state # "pending"
    /\ \E end \in {"paid", "reverted"} : txs' = [txs EXCEPT ![i].state = end]
    /\ UNCHANGED <<route, requested, group, paidHere, worker, reported, history, faults>>

-----------------------------------------------------------------------------
Player(r) == \E h \in Hosts : Admit(r, h)

Handler(r) ==
  \/ Refuse(r) \/ DeductFails(r) \/ Produce(r) \/ Accept(r)
  \/ ProduceRejects(r) \/ CreditEnds(r)

Redis(r) == RunDeduct(r) \/ RunCredit(r) \/ RejectCall(r)
Brokers(r) == Store(r) \/ DropMessage(r)

Worker ==
  \/ Skip \/ Begin \/ Submit \/ SubmitUnanswered \/ NonceExpired \/ SubmitFails
  \/ Mined \/ WaitFails \/ Report \/ ReportFails

Next ==
  \/ \E r \in Requests : Player(r) \/ Handler(r) \/ Redis(r) \/ Brokers(r) \/ LoseReply(r)
  \/ \E h \in Hosts : Crash(h)
  \/ Worker \/ Commit \/ Rejoin \/ Restart \/ Mine

Spec == Init /\ [][Next]_vars

(* The worker goes on, and the chain mines, while there is something to do.*)
Fairness == WF_vars(Worker) /\ WF_vars(Mine)

FairSpec == Spec /\ Fairness

-----------------------------------------------------------------------------
TxsOf(r) == {i \in DOMAIN txs : txs[i].of = r}
Live(r) == {i \in TxsOf(r) : txs[i].state # "reverted"}
Paid(r) == \E i \in TxsOf(r) : txs[i].state = "paid"

(* The balance never goes below zero, and all else has its shape.          *)
TypeOK ==
  /\ balance \in Nat
  /\ stage \in [Requests -> Stage]
  /\ call \in [Requests -> CallState]
  /\ host \in [Requests -> Hosts \cup {NoHost}]
  /\ wire \subseteq Requests
  /\ requested \in Seq(Requests)
  /\ position \in 0..Len(requested)
  /\ committed \in 0..position
  /\ paidHere \subseteq Requests
  /\ worker \in [step : {"idle", "submit", "wait", "report"},
                 attempt : 0..MaxRetries, tx : 0..Len(txs)]
  /\ txs \in Seq([of : Requests, state : {"pending", "paid", "reverted"}])
  /\ reported \subseteq DOMAIN txs
  /\ runs \in [Requests -> [deduct : Nat, credit : Nat]]
  /\ deliveries \in [Requests -> Nat]
  /\ marred \subseteq Requests
  /\ runStart \in 0..Len(txs)
  /\ faults \in 0..MaxFaults

(* Nothing is paid on chain that was not taken from the balance first, by  *)
(* whatever way the request came to the worker.                            *)
PaidWasTaken == \A r \in Requests : Live(r) # {} => runs[r].deduct > 0

(* Each delivery of a request to the worker makes at most one transaction  *)
(* that pays: no retry inside a delivery pays twice, only a redelivery can.*)
PaidOncePerDelivery == \A r \in Requests : Cardinality(Live(r)) <= deliveries[r]

(* Within one run of the worker a request is paid twice only if it threw   *)
(* the first time: completedThisRun stops every other redelivery.          *)
PaidOncePerRun ==
  \A r \in Requests \ marred : Cardinality({i \in Live(r) : i > runStart}) <= 1

(* The ledger hears of a withdrawal only by a transaction that was mined   *)
(* and paid.                                                               *)
ReportsArePaid == \A i \in reported : txs[i].state = "paid"

(* A payout is reported, or about to be, unless the handling of its request*)
(* threw or was cut off.                                                   *)
PaidIsReported ==
  \A i \in DOMAIN txs : txs[i].state = "paid" =>
    i \in reported \/ worker.tx = i \/ txs[i].of \in marred

(* A withdrawal that was answered with 202 is paid in the end, unless its  *)
(* handling threw: a restart of the worker before it began loses none.     *)
AcceptedArePaid ==
  \A r \in Requests : stage[r] = "accepted" ~> Paid(r) \/ r \in marred

(* withdraw.routes.ts:96: a failed publish is credited back since "the     *)
(* withdrawal never reached the payout worker".                            *)
RefundedNeverPaid == \A r \in Requests : runs[r].credit > 0 => ~Paid(r)
=============================================================================
