--------------------------- MODULE WithdrawalProofs ---------------------------
(***************************************************************************)
(* Proofs about Withdrawal, for any finite set of requests, any amounts,   *)
(* processes, retries and faults.                                          *)
(***************************************************************************)
EXTENDS Withdrawal, FiniteSetTheorems, SequenceTheorems, TLAPS

-----------------------------------------------------------------------------
(* The inductive invariant.                                                *)

WorkerSet == [step : {"idle", "submit", "wait", "report"},
              attempt : 0..MaxRetries, tx : 0..Len(txs)]
TxSet == [of : Requests, state : {"pending", "paid", "reverted"}]

(* The two halves of the type invariant: of the route, and of the worker.  *)
RouteType ==
  /\ balance \in Nat
  /\ stage \in [Requests -> Stage]
  /\ call \in [Requests -> CallState]
  /\ host \in [Requests -> Hosts \cup {NoHost}]
  /\ wire \subseteq Requests
  /\ runs \in [Requests -> [deduct : Nat, credit : Nat]]
WorkerType ==
  /\ requested \in Seq(Requests)
  /\ position \in 0..Len(requested)
  /\ committed \in 0..position
  /\ paidHere \subseteq Requests
  /\ worker \in WorkerSet
  /\ txs \in Seq(TxSet)
  /\ reported \subseteq DOMAIN txs
  /\ deliveries \in [Requests -> Nat]
  /\ marred \subseteq Requests
  /\ runStart \in 0..Len(txs)
  /\ faults \in 0..MaxFaults

(* The amount was taken of every request that is past its deduction.       *)
Taken(r) == runs[r].deduct > 0
Granted(r) == \/ stage[r] = "deduct" /\ call[r] = "done"
              \/ stage[r] \in {"produce", "accepted", "credit"}
              \/ r \in wire
GrantedTaken == \A r \in Requests : Granted(r) => Taken(r)
TakenInv ==
  /\ GrantedTaken
  /\ \A i \in DOMAIN requested : Taken(requested[i])
  /\ \A i \in DOMAIN txs : Taken(txs[i].of)

(* The transaction the worker's handler waits for or reports.              *)
InHand(i) == worker.step \in {"wait", "report"} /\ worker.tx = i

(* A handler under way has a request; the transaction it waits for was sent*)
(* for that request, and the one it reports was paid, as all reported are. *)
HandlerInv ==
  /\ worker.step # "idle" => position < Len(requested)
  /\ worker.step = "idle" => worker.tx = 0
  /\ worker.step \in {"wait", "report"} => worker.tx \in DOMAIN txs
                                          /\ txs[worker.tx].of = Request
  /\ worker.step = "report" => txs[worker.tx].state = "paid"
  /\ ReportsArePaid

(* A transaction is in hand until it is reported and known to this run of  *)
(* the worker, unless its request is marred.  So the run that submits one  *)
(* for a request that is not marred has not submitted one before.          *)
OnceInv ==
  /\ \A i \in DOMAIN txs : i \in reported \/ InHand(i) \/ txs[i].of \in marred
  /\ \A i \in DOMAIN txs :
       i > runStart => InHand(i) \/ txs[i].of \in paidHere \cup marred
  /\ \A i, j \in DOMAIN txs :
       /\ i > runStart /\ j > runStart /\ txs[i].of = txs[j].of
       => i = j \/ txs[i].of \in marred
  /\ worker.step = "submit" => Request \notin paidHere

(* A delivery that has not yet submitted has a transaction to its credit.  *)
DeliveryInv ==
  \A r \in Requests :
    /\ Cardinality(TxsOf(r)) <= deliveries[r]
    /\ worker.step = "submit" /\ Request = r => Cardinality(TxsOf(r)) < deliveries[r]

Inv == RouteType /\ WorkerType /\ TakenInv /\ HandlerInv /\ OnceInv /\ DeliveryInv

-----------------------------------------------------------------------------
(* The type invariant is its two halves.                                   *)
LEMMA TypeHalves == TypeOK <=> RouteType /\ WorkerType
BY DEF TypeOK, RouteType, WorkerType, WorkerSet, TxSet

(* A handler under way has a request of the topic in hand.                 *)
LEMMA RequestType ==
  ASSUME WorkerType, position < Len(requested)
  PROVE  Request \in Requests /\ position + 1 \in DOMAIN requested
BY DEF WorkerType, Request

(* Storing a message does not change the earlier ones.                     *)
LEMMA StoredMessages ==
  ASSUME WorkerType, NEW r \in Requests, requested' = Append(requested, r)
  PROVE  /\ requested' \in Seq(Requests) /\ Len(requested') = Len(requested) + 1
         /\ DOMAIN requested' = DOMAIN requested \cup {Len(requested) + 1}
         /\ \A i \in DOMAIN requested : requested'[i] = requested[i]
         /\ requested'[Len(requested) + 1] = r
BY AppendProperties DEF WorkerType

(* A payout that reaches the chain is one more transaction, of the request.*)
LEMMA SentTransactions ==
  ASSUME WorkerType, position < Len(requested), Send
  PROVE  /\ txs' \in Seq(TxSet) /\ Len(txs') = Len(txs) + 1
         /\ DOMAIN txs = 1..Len(txs) /\ DOMAIN txs' = DOMAIN txs \cup {Len(txs) + 1}
         /\ Len(txs) \in Nat /\ Len(txs) + 1 \notin DOMAIN txs
         /\ \A i \in DOMAIN txs : txs'[i] = txs[i]
         /\ txs'[Len(txs) + 1].of = Request
<1> DEFINE new == [of |-> Request, state |-> "pending"]
<1>1. new \in TxSet
  BY RequestType DEF TxSet
<1>2. txs \in Seq(TxSet)
  BY DEF WorkerType
<1> HIDE DEF new
<1>3. /\ Append(txs, new) \in Seq(TxSet) /\ Len(Append(txs, new)) = Len(txs) + 1
      /\ \A i \in 1..Len(txs) : Append(txs, new)[i] = txs[i]
      /\ Append(txs, new)[Len(txs) + 1] = new
  BY <1>1, <1>2, AppendProperties
<1>4. txs' = Append(txs, new)
  BY DEF Send, new
<1>5. Len(txs) \in Nat /\ DOMAIN txs = 1..Len(txs) /\ DOMAIN txs' = 1..Len(txs')
  BY <1>2, <1>3, <1>4, LenProperties
<1>6. new.of = Request
  BY DEF new
<1>7. QED
  BY <1>3, <1>4, <1>5, <1>6

(* The chain settles a pending transaction, and touches no other.          *)
LEMMA MinedTransactions ==
  ASSUME WorkerType, Mine
  PROVE  /\ txs' \in Seq(TxSet) /\ DOMAIN txs' = DOMAIN txs /\ Len(txs') = Len(txs)
         /\ \A i \in DOMAIN txs :
              /\ txs'[i].of = txs[i].of
              /\ txs[i].state = "paid" => txs'[i].state = "paid"
<1>1. PICK i \in DOMAIN txs, end \in {"paid", "reverted"} :
        txs[i].state = "pending" /\ txs' = [txs EXCEPT ![i].state = end]
  BY DEF Mine
<1>2. txs \in Seq(TxSet) /\ txs[i] \in TxSet
  BY <1>1 DEF WorkerType
<1>3. [txs[i] EXCEPT !.state = end] \in TxSet
  BY <1>1, <1>2 DEF TxSet
<1>4. txs' = [txs EXCEPT ![i] = [txs[i] EXCEPT !.state = end]]
  BY <1>1, <1>2
<1>5. txs' \in Seq(TxSet) /\ Len(txs') = Len(txs) /\ DOMAIN txs' = DOMAIN txs
  BY <1>1, <1>2, <1>3, <1>4, ExceptSeq
<1>6. \A j \in DOMAIN txs : txs[j] \in TxSet
  BY <1>2
<1>7. QED
  BY <1>1, <1>2, <1>4, <1>5, <1>6 DEF TxSet

(* The transactions of a request are finitely many.                        *)
LEMMA TxsFinite ==
  ASSUME WorkerType, NEW r \in Requests
  PROVE  IsFiniteSet(TxsOf(r)) /\ Cardinality(TxsOf(r)) \in Nat
<1>1. DOMAIN txs = 1..Len(txs) /\ Len(txs) \in Nat
  BY LenProperties DEF WorkerType
<1>2. TxsOf(r) \subseteq 1..Len(txs)
  BY <1>1 DEF TxsOf
<1>3. IsFiniteSet(1..Len(txs))
  BY <1>1, FS_Interval
<1>4. IsFiniteSet(TxsOf(r))
  BY <1>2, <1>3, FS_Subset
<1>5. QED
  BY <1>4, FS_CardinalityType

(* A payout is one transaction more for its request, and none for others.  *)
LEMMA SentCounts ==
  ASSUME WorkerType, position < Len(requested), Send, NEW r \in Requests
  PROVE  Cardinality(TxsOf(r)') = Cardinality(TxsOf(r)) + (IF Request = r THEN 1 ELSE 0)
<1> DEFINE new == Len(txs) + 1
<1>1. /\ DOMAIN txs' = DOMAIN txs \cup {new} /\ new \notin DOMAIN txs
      /\ \A i \in DOMAIN txs : txs'[i] = txs[i]
      /\ txs'[new].of = Request
  BY SentTransactions
<1> HIDE DEF new
<1>2. CASE Request = r
  <2>1. TxsOf(r)' = TxsOf(r) \cup {new} /\ new \notin TxsOf(r)
    BY <1>1, <1>2 DEF TxsOf
  <2>2. QED
    BY <1>2, <2>1, TxsFinite, FS_AddElement
<1>3. CASE Request # r
  <2>1. TxsOf(r)' = TxsOf(r)
    BY <1>1, <1>3 DEF TxsOf
  <2>2. QED
    BY <1>3, <2>1, TxsFinite
<1>4. QED
  BY <1>2, <1>3

-----------------------------------------------------------------------------
(* Nothing is asked for, taken or paid at first.                           *)
LEMMA InitInv == Init => Inv
<1> SUFFICES ASSUME Init PROVE Inv
  OBVIOUS
<1>1. RouteType
  BY AmountAssumption DEF Init, RouteType, Stage, CallState, NoHost
<1>2. WorkerType
  BY BoundsAssumption DEF Init, WorkerType, WorkerSet, Idle
<1>3. TakenInv /\ HandlerInv /\ OnceInv
  BY DEF Init, TakenInv, GrantedTaken, Granted, HandlerInv, ReportsArePaid, OnceInv, Idle
<1>4. DeliveryInv
  <2>1. \A r \in Requests : TxsOf(r) = {}
    BY DEF Init, TxsOf
  <2>2. worker.step = "idle" /\ \A r \in Requests : deliveries[r] = 0
    BY DEF Init, Idle
  <2>3. QED
    BY <2>1, <2>2, FS_EmptySet DEF DeliveryInv
<1>5. QED
  BY <1>1, <1>2, <1>3, <1>4 DEF Inv

(* A step is the route's, which leaves the worker and the chain alone and  *)
(* at most stores a message, or the worker's, its client's or the chain's, *)
(* which leave the route and the topic alone.                              *)
WorkerStep ==
  \/ Skip \/ Begin \/ Submit \/ SubmitUnanswered \/ NonceExpired \/ SubmitFails
  \/ Mined \/ WaitFails \/ Report \/ ReportFails \/ Commit \/ Rejoin \/ Restart \/ Mine
RouteStep ==
  /\ UNCHANGED payouts
  /\ faults' \in 0..MaxFaults
  /\ \/ UNCHANGED requested
     \/ \E r \in wire : requested' = Append(requested, r)

(* Every step of the system is one of these, or changes nothing.           *)
LEMMA StepKinds ==
  ASSUME WorkerType, [Next]_vars PROVE WorkerStep \/ RouteStep
<1> USE DEF RouteStep, WorkerType, route, Fault
<1>1. ASSUME NEW r \in Requests, NEW h \in Hosts, Admit(r, h) PROVE RouteStep
  BY <1>1, BoundsAssumption DEF Admit, End
<1>2. ASSUME NEW r \in Requests, Refuse(r) PROVE RouteStep
  BY <1>2, BoundsAssumption DEF Refuse, End
<1>3. ASSUME NEW r \in Requests, DeductFails(r) PROVE RouteStep
  BY <1>3, BoundsAssumption DEF DeductFails, End
<1>4. ASSUME NEW r \in Requests, Produce(r) PROVE RouteStep
  BY <1>4, BoundsAssumption DEF Produce, End
<1>5. ASSUME NEW r \in Requests, Accept(r) PROVE RouteStep
  BY <1>5, BoundsAssumption DEF Accept, End
<1>6. ASSUME NEW r \in Requests, ProduceRejects(r) PROVE RouteStep
  BY <1>6, BoundsAssumption DEF ProduceRejects, End
<1>7. ASSUME NEW r \in Requests, CreditEnds(r) PROVE RouteStep
  BY <1>7, BoundsAssumption DEF CreditEnds, End
<1>8. ASSUME NEW r \in Requests, RunDeduct(r) PROVE RouteStep
  BY <1>8, BoundsAssumption DEF RunDeduct, End
<1>9. ASSUME NEW r \in Requests, RunCredit(r) PROVE RouteStep
  BY <1>9, BoundsAssumption DEF RunCredit, End
<1>10. ASSUME NEW r \in Requests, RejectCall(r) PROVE RouteStep
  BY <1>10, BoundsAssumption DEF RejectCall, End
<1>11. ASSUME NEW r \in Requests, Store(r) PROVE RouteStep
  BY <1>11, BoundsAssumption DEF Store, End
<1>12. ASSUME NEW r \in Requests, DropMessage(r) PROVE RouteStep
  BY <1>12, BoundsAssumption DEF DropMessage, End
<1>13. ASSUME NEW r \in Requests, LoseReply(r) PROVE RouteStep
  BY <1>13, BoundsAssumption DEF LoseReply, End
<1>14. ASSUME NEW h \in Hosts, Crash(h) PROVE RouteStep
  BY <1>14, BoundsAssumption DEF Crash, End
<1>15. ASSUME UNCHANGED vars PROVE RouteStep
  BY <1>15 DEF vars
<1>16. QED
  BY <1>1, <1>2, <1>3, <1>4, <1>5, <1>6, <1>7, <1>8, <1>9, <1>10, <1>11, <1>12, <1>13,
     <1>14, <1>15
     DEF Next, Player, Handler, Redis, Brokers, Worker, WorkerStep

(* The worker, its client and the chain leave the route and the topic      *)
(* alone.                                                                  *)
LEMMA WorkerFrame ==
  ASSUME WorkerStep PROVE UNCHANGED <<balance, stage, call, host, wire, runs, requested>>
BY DEF WorkerStep, route, Skip, Begin, Submit, SubmitUnanswered, NonceExpired, SubmitFails,
       Mined, WaitFails, Report, ReportFails, Commit, Rejoin, Restart, Mine

(* After a step of the route the worker's handler has the request it had,  *)
(* and its position is one of the topic.                                   *)
LEMMA RouteFrame ==
  ASSUME RouteType, WorkerType, RouteStep
  PROVE  /\ UNCHANGED <<position, committed, paidHere, worker, txs, reported, deliveries,
                        marred, runStart>>
         /\ requested' \in Seq(Requests) /\ Len(requested') >= Len(requested)
         /\ position < Len(requested) => Request' = Request
<1>1. UNCHANGED <<position, committed, paidHere, worker, txs, reported, deliveries,
                 marred, runStart>>
  BY DEF RouteStep, payouts, group, chain, history
<1>2. CASE UNCHANGED requested
  BY <1>1, <1>2 DEF WorkerType, Request
<1>3. ASSUME NEW r \in wire, requested' = Append(requested, r)
      PROVE  /\ requested' \in Seq(Requests) /\ Len(requested') = Len(requested) + 1
             /\ position < Len(requested) => Request' = Request
  <2>1. r \in Requests
    BY DEF RouteType
  <2>2. position < Len(requested) => position + 1 \in DOMAIN requested
    BY DEF WorkerType
  <2>3. QED
    BY <1>1, <1>3, <2>1, <2>2, StoredMessages DEF Request
<1>4. Len(requested) \in Nat
  BY DEF WorkerType
<1>5. QED
  BY <1>1, <1>2, <1>3, <1>4 DEF RouteStep

(* The route keeps its shapes: the script takes no more than the balance   *)
(* covers.                                                                 *)
LEMMA NextRouteType ==
  ASSUME RouteType, WorkerType, [Next]_vars PROVE RouteType'
<1> USE AmountAssumption DEF RouteType, Stage, Running, CallState, Reply, NoHost, End
<1>1. ASSUME NEW r \in Requests, NEW h \in Hosts, Admit(r, h) PROVE RouteType'
  BY <1>1 DEF Admit
<1>2. ASSUME NEW r \in Requests, Refuse(r) PROVE RouteType'
  BY <1>2 DEF Refuse
<1>3. ASSUME NEW r \in Requests, DeductFails(r) PROVE RouteType'
  BY <1>3 DEF DeductFails
<1>4. ASSUME NEW r \in Requests, Produce(r) PROVE RouteType'
  BY <1>4 DEF Produce
<1>5. ASSUME NEW r \in Requests, Accept(r) PROVE RouteType'
  BY <1>5 DEF Accept
<1>6. ASSUME NEW r \in Requests, ProduceRejects(r) PROVE RouteType'
  BY <1>6 DEF ProduceRejects
<1>7. ASSUME NEW r \in Requests, CreditEnds(r) PROVE RouteType'
  BY <1>7 DEF CreditEnds
<1>8. ASSUME NEW r \in Requests, RunDeduct(r) PROVE RouteType'
  BY <1>8 DEF RunDeduct, Covers
<1>9. ASSUME NEW r \in Requests, RunCredit(r) PROVE RouteType'
  BY <1>9 DEF RunCredit
<1>10. ASSUME NEW r \in Requests, RejectCall(r) PROVE RouteType'
  BY <1>10 DEF RejectCall
<1>11. ASSUME NEW r \in Requests, Store(r) PROVE RouteType'
  BY <1>11 DEF Store
<1>12. ASSUME NEW r \in Requests, DropMessage(r) PROVE RouteType'
  BY <1>12 DEF DropMessage
<1>13. ASSUME NEW r \in Requests, LoseReply(r) PROVE RouteType'
  BY <1>13 DEF LoseReply
<1>14. ASSUME NEW h \in Hosts, Crash(h) PROVE RouteType'
  BY <1>14 DEF Crash
<1>15. ASSUME WorkerStep PROVE RouteType'
  BY <1>15, WorkerFrame
<1>16. CASE UNCHANGED vars
  BY <1>16 DEF vars, route
<1>17. QED
  BY <1>1, <1>2, <1>3, <1>4, <1>5, <1>6, <1>7, <1>8, <1>9, <1>10, <1>11, <1>12, <1>13,
     <1>14, <1>15, <1>16
     DEF Next, Player, Handler, Redis, Brokers, Worker, WorkerStep

(* The worker keeps its shapes: its position stays within the topic.       *)
LEMMA NextWorkerType ==
  ASSUME RouteType, WorkerType, HandlerInv, [Next]_vars PROVE WorkerType'
<1> USE BoundsAssumption
<1> USE DEF WorkerType, WorkerSet, HandlerInv, At, Waiting, Return, Swallow, Idle,
            Fault, group, chain, history, route
<1>1. ASSUME Skip PROVE WorkerType'
  <2>1. /\ position < Len(requested) /\ position' = position + 1
        /\ worker' = [step |-> "idle", attempt |-> 0, tx |-> 0]
        /\ UNCHANGED <<requested, committed, paidHere, txs, reported, deliveries,
                         runStart, faults>>
        /\ marred' = marred
    BY <1>1, RequestType DEF Skip
  <2>2. /\ Len(requested) \in Nat /\ position \in Nat /\ Len(txs) \in Nat
        /\ committed \in 0..position
    BY LenProperties
  <2>3. position' \in 0..Len(requested) /\ committed \in 0..position'
    BY <2>1, <2>2
  <2>4. worker' \in WorkerSet'
    BY <2>1, <2>2, BoundsAssumption
  <2>5. QED
    BY <2>1, <2>3, <2>4
<1>2. ASSUME Begin PROVE WorkerType'
  <2>1. Request \in Requests /\ txs' = txs
    BY <1>2, RequestType DEF Begin
  <2>2. worker' \in WorkerSet'
    <3>1. worker' = [step |-> "submit", attempt |-> 0, tx |-> 0]
      BY <1>2 DEF Begin
    <3>2. Len(txs) \in Nat
      BY LenProperties
    <3>3. QED
      BY <2>1, <3>1, <3>2
  <2>3. deliveries' \in [Requests -> Nat]
    BY <1>2, <2>1 DEF Begin
  <2>4. QED
    BY <1>2, <2>1, <2>2, <2>3 DEF Begin
<1>3. ASSUME Submit PROVE WorkerType'
  <2>1. position < Len(requested)
    BY <1>3 DEF Submit
  <2>2. Send
    BY <1>3 DEF Submit
  <2>3. txs' \in Seq(TxSet) /\ Len(txs') = Len(txs) + 1 /\ DOMAIN txs \subseteq DOMAIN txs'
    BY <2>1, <2>2, SentTransactions
  <2>4. Request \in Requests
    BY <2>1, RequestType
  <2>5. worker' = [step |-> "wait", attempt |-> worker.attempt, tx |-> Len(txs) + 1]
    BY <1>3 DEF Submit
  <2>6. worker' \in WorkerSet'
    <3>1. worker.attempt \in 0..MaxRetries /\ Len(txs) \in Nat
      BY LenProperties
    <3>2. Len(txs) + 1 \in 0..Len(txs')
      BY <2>3, <3>1
    <3>3. QED
      BY <2>5, <3>1, <3>2
  <2>7. UNCHANGED <<requested, position, committed, paidHere, reported, deliveries,
                   marred, runStart, faults>>
    BY <1>3 DEF Submit
  <2>8. txs \in Seq(TxSet) /\ Len(txs) \in Nat
    BY LenProperties
  <2>9. runStart \in 0..Len(txs') /\ reported \subseteq DOMAIN txs'
    BY <2>3, <2>8
  <2>10. QED
    BY <2>3, <2>6, <2>7, <2>9
<1>4. ASSUME SubmitUnanswered PROVE WorkerType'
  <2>1. position < Len(requested)
    BY <1>4 DEF SubmitUnanswered
  <2>2. Send
    BY <1>4 DEF SubmitUnanswered
  <2>3. txs' \in Seq(TxSet) /\ Len(txs') = Len(txs) + 1 /\ DOMAIN txs \subseteq DOMAIN txs'
    BY <2>1, <2>2, SentTransactions
  <2>4. Request \in Requests
    BY <2>1, RequestType
  <2>5. QED
    BY <1>4, <2>1, <2>3, <2>4 DEF SubmitUnanswered
<1>5. ASSUME NonceExpired PROVE WorkerType'
  <2>1. txs' = txs /\ worker.attempt + 1 \in 0..MaxRetries
    BY <1>5 DEF NonceExpired
  <2>2. worker' = [worker EXCEPT !.attempt = worker.attempt + 1]
    BY <1>5 DEF NonceExpired
  <2>3. worker' \in WorkerSet'
    BY <2>1, <2>2
  <2>4. QED
    BY <1>5, <2>1, <2>3 DEF NonceExpired
<1>6. ASSUME SubmitFails PROVE WorkerType'
  BY <1>6, RequestType DEF SubmitFails
<1>7. ASSUME Mined PROVE WorkerType'
  BY <1>7, RequestType DEF Mined
<1>8. ASSUME WaitFails PROVE WorkerType'
  <2>1. /\ position < Len(requested) /\ position' = position + 1
        /\ worker' = [step |-> "idle", attempt |-> 0, tx |-> 0]
        /\ UNCHANGED <<requested, committed, paidHere, txs, reported, deliveries,
                         runStart, faults>>
        /\ marred' \subseteq Requests
    BY <1>8, RequestType DEF WaitFails
  <2>2. /\ Len(requested) \in Nat /\ position \in Nat /\ Len(txs) \in Nat
        /\ committed \in 0..position
    BY LenProperties
  <2>3. position' \in 0..Len(requested) /\ committed \in 0..position'
    BY <2>1, <2>2
  <2>4. worker' \in WorkerSet'
    BY <2>1, <2>2, BoundsAssumption
  <2>5. QED
    BY <2>1, <2>3, <2>4
<1>9. ASSUME Report PROVE WorkerType'
  BY <1>9, RequestType DEF Report
<1>10. ASSUME ReportFails PROVE WorkerType'
  BY <1>10, RequestType DEF ReportFails
<1>11. ASSUME Commit PROVE WorkerType'
  <2>1. /\ committed' = position
        /\ UNCHANGED <<requested, position, paidHere, worker, txs, reported, deliveries,
                         marred, runStart, faults>>
    BY <1>11 DEF Commit
  <2>2. committed' \in 0..position
    BY <2>1, LenProperties
  <2>3. QED
    BY <2>1, <2>2
<1>12. ASSUME Rejoin PROVE WorkerType'
  <2>1. /\ position' = committed /\ faults' = faults + 1 /\ faults < MaxFaults
        /\ UNCHANGED <<requested, committed, paidHere, worker, txs, reported, deliveries,
                         marred, runStart>>
    BY <1>12 DEF Rejoin
  <2>2. /\ Len(requested) \in Nat /\ position \in 0..Len(requested)
        /\ committed \in 0..position
    BY LenProperties
  <2>3. position' \in 0..Len(requested) /\ committed \in 0..position'
    BY <2>1, <2>2
  <2>4. faults' \in 0..MaxFaults
    BY <2>1
  <2>5. QED
    BY <2>1, <2>3, <2>4
<1>13. ASSUME Restart PROVE WorkerType'
  <2>1. /\ position' = committed /\ faults' = faults + 1 /\ faults < MaxFaults
        /\ paidHere' = {} /\ runStart' = Len(txs)
        /\ worker' = [step |-> "idle", attempt |-> 0, tx |-> 0]
        /\ UNCHANGED <<requested, committed, txs, reported, deliveries>>
        /\ marred' \subseteq Requests
    BY <1>13, RequestType DEF Restart
  <2>2. /\ Len(requested) \in Nat /\ position \in 0..Len(requested)
        /\ committed \in 0..position /\ Len(txs) \in Nat
    BY LenProperties
  <2>3. /\ position' \in 0..Len(requested) /\ committed \in 0..position'
        /\ runStart' \in 0..Len(txs)
    BY <2>1, <2>2
  <2>4. faults' \in 0..MaxFaults /\ worker' \in WorkerSet'
    BY <2>1, <2>2
  <2>5. QED
    BY <2>1, <2>3, <2>4
<1>14. ASSUME Mine PROVE WorkerType'
  <2>1. txs' \in Seq(TxSet) /\ DOMAIN txs' = DOMAIN txs /\ Len(txs') = Len(txs)
    BY <1>14, MinedTransactions
  <2>2. QED
    BY <1>14, <2>1 DEF Mine
<1>15. ASSUME RouteStep PROVE WorkerType'
  <2>1. /\ UNCHANGED <<position, committed, paidHere, worker, txs, reported, deliveries,
                      marred, runStart>>
        /\ requested' \in Seq(Requests) /\ Len(requested') >= Len(requested)
    BY <1>15, RouteFrame
  <2>2. Len(requested) \in Nat /\ Len(requested') \in Nat /\ faults' \in 0..MaxFaults
    BY <1>15, <2>1, LenProperties DEF RouteStep
  <2>3. QED
    BY <2>1, <2>2
<1>16. QED
  BY <1>1, <1>2, <1>3, <1>4, <1>5, <1>6, <1>7, <1>8, <1>9, <1>10, <1>11, <1>12, <1>13,
     <1>14, <1>15, StepKinds
     DEF WorkerStep

(* What was taken stays counted, and only a deduction that took effect is  *)
(* granted.                                                                *)
LEMMA NextGranted ==
  ASSUME RouteType, WorkerType, GrantedTaken, [Next]_vars
  PROVE  GrantedTaken' /\ \A q \in Requests : Taken(q) => Taken(q)'
<1> DEFINE Goal == GrantedTaken' /\ \A q \in Requests : Taken(q) => Taken(q)'
<1> USE DEF RouteType, GrantedTaken, Granted, Stage, Running, CallState, Reply, End, Taken
<1>1. ASSUME NEW r \in Requests, NEW h \in Hosts, Admit(r, h) PROVE Goal
  BY <1>1 DEF Admit
<1>2. ASSUME NEW r \in Requests, Refuse(r) PROVE Goal
  BY <1>2 DEF Refuse
<1>3. ASSUME NEW r \in Requests, DeductFails(r) PROVE Goal
  BY <1>3 DEF DeductFails
<1>4. ASSUME NEW r \in Requests, Produce(r) PROVE Goal
  BY <1>4 DEF Produce
<1>5. ASSUME NEW r \in Requests, Accept(r) PROVE Goal
  BY <1>5 DEF Accept
<1>6. ASSUME NEW r \in Requests, ProduceRejects(r) PROVE Goal
  BY <1>6 DEF ProduceRejects
<1>7. ASSUME NEW r \in Requests, CreditEnds(r) PROVE Goal
  BY <1>7 DEF CreditEnds
<1>8. ASSUME NEW r \in Requests, RunDeduct(r) PROVE Goal
  <2>1. /\ UNCHANGED <<stage, wire>> /\ \A q \in Requests \ {r} : call'[q] = call[q]
        /\ \A q \in Requests \ {r} : runs'[q] = runs[q]
    BY <1>8 DEF RunDeduct
  <2>2. /\ \/ runs'[r].deduct = runs[r].deduct + 1
           \/ call'[r] = "insufficient" /\ runs' = runs
        /\ runs[r].deduct \in Nat /\ stage[r] = "deduct"
    <3>1. /\ runs \in [Requests -> [deduct : Nat, credit : Nat]]
          /\ call \in [Requests -> CallState] /\ stage[r] = "deduct"
      BY <1>8 DEF RunDeduct
    <3>2. CASE Covers(r)
      <4>1. runs' = [runs EXCEPT ![r].deduct = runs[r].deduct + 1]
        BY <1>8, <3>2 DEF RunDeduct
      <4>2. QED
        BY <3>1, <4>1
    <3>3. CASE ~Covers(r)
      <4>1. call' = [call EXCEPT ![r] = "insufficient"] /\ runs' = runs
        BY <1>8, <3>3 DEF RunDeduct
      <4>2. QED
        BY <3>1, <4>1
    <3>4. QED
      BY <3>2, <3>3
  <2>3. \A q \in Requests : Taken(q) => Taken(q)'
    BY <2>1, <2>2
  <2>4. ASSUME NEW q \in Requests, Granted(q)' PROVE Taken(q)'
    <3>1. CASE q = r
      BY <2>1, <2>2, <2>3, <2>4, <3>1
    <3>2. CASE q # r
      BY <2>1, <2>3, <2>4, <3>2
    <3>3. QED
      BY <3>1, <3>2
  <2>5. QED
    BY <2>3, <2>4
<1>9. ASSUME NEW r \in Requests, RunCredit(r) PROVE Goal
  BY <1>9 DEF RunCredit
<1>10. ASSUME NEW r \in Requests, RejectCall(r) PROVE Goal
  BY <1>10 DEF RejectCall
<1>11. ASSUME NEW r \in Requests, Store(r) PROVE Goal
  BY <1>11 DEF Store
<1>12. ASSUME NEW r \in Requests, DropMessage(r) PROVE Goal
  BY <1>12 DEF DropMessage
<1>13. ASSUME NEW r \in Requests, LoseReply(r) PROVE Goal
  BY <1>13 DEF LoseReply
<1>14. ASSUME NEW h \in Hosts, Crash(h) PROVE Goal
  BY <1>14 DEF Crash
<1>15. ASSUME WorkerStep PROVE Goal
  BY <1>15, WorkerFrame
<1>16. ASSUME UNCHANGED vars PROVE Goal
  BY <1>16 DEF vars, route
<1> HIDE DEF Goal
<1>17. Goal
  BY <1>1, <1>2, <1>3, <1>4, <1>5, <1>6, <1>7, <1>8, <1>9, <1>10, <1>11, <1>12, <1>13,
       <1>14, <1>15, <1>16
       DEF Next, Player, Handler, Redis, Brokers, Worker, WorkerStep
<1>18. QED
  BY <1>17 DEF Goal

(* Only a message of a granted request reaches the topic, and only a       *)
(* request of the topic the chain.                                         *)
LEMMA NextTaken ==
  ASSUME RouteType, WorkerType, HandlerInv, TakenInv, [Next]_vars PROVE TakenInv'
<1>1. GrantedTaken' /\ \A r \in Requests : Taken(r) => Taken(r)'
  BY NextGranted DEF TakenInv
<1>2. \A i \in DOMAIN requested : requested[i] \in Requests /\ Taken(requested[i])
  BY DEF WorkerType, TakenInv
<1>3. \A i \in DOMAIN txs : txs[i].of \in Requests /\ Taken(txs[i].of)
  <2>1. \A i \in DOMAIN txs : txs[i] \in TxSet
    BY DEF WorkerType
  <2>2. QED
    BY <2>1 DEF TxSet, TakenInv
<1>4. \A i \in DOMAIN requested' : Taken(requested[i])'
  <2>1. ASSUME requested' = requested PROVE \A i \in DOMAIN requested' : Taken(requested[i])'
    BY <1>1, <1>2, <2>1
  <2>2. ASSUME NEW r \in wire, requested' = Append(requested, r)
        PROVE  \A i \in DOMAIN requested' : Taken(requested[i])'
    <3>1. r \in Requests /\ Taken(r)
      BY DEF RouteType, TakenInv, GrantedTaken, Granted
    <3>2. /\ DOMAIN requested' = DOMAIN requested \cup {Len(requested) + 1}
          /\ \A i \in DOMAIN requested : requested'[i] = requested[i]
          /\ requested'[Len(requested) + 1] = r
      BY <2>2, <3>1, StoredMessages
    <3>3. QED
      BY <1>1, <1>2, <3>1, <3>2
  <2>3. QED
    BY <2>1, <2>2, StepKinds, WorkerFrame DEF RouteStep
<1>5. \A i \in DOMAIN txs' : Taken(txs[i].of)'
  <2>1. ASSUME position < Len(requested), Send
        PROVE  \A i \in DOMAIN txs' : Taken(txs[i].of)'
    <3>1. Request \in Requests /\ Taken(Request)
      BY <1>2, <2>1, RequestType DEF Request
    <3>2. QED
      BY <1>1, <1>3, <2>1, <3>1, SentTransactions
  <2>2. ASSUME Mine PROVE \A i \in DOMAIN txs' : Taken(txs[i].of)'
    BY <1>1, <1>3, <2>2, MinedTransactions
  <2>3. ASSUME txs' = txs PROVE \A i \in DOMAIN txs' : Taken(txs[i].of)'
    BY <1>1, <1>3, <2>3
  <2>4. Submit \/ SubmitUnanswered => position < Len(requested) /\ Send
    BY DEF Submit, SubmitUnanswered, At, HandlerInv
  <2>5. txs' = txs \/ Mine \/ Submit \/ SubmitUnanswered
    BY StepKinds, RouteFrame DEF WorkerStep, Skip, Begin, NonceExpired, SubmitFails, Mined,
       WaitFails, Report, ReportFails, Commit, Rejoin, Restart, chain
  <2>6. QED
    BY <2>1, <2>2, <2>3, <2>4, <2>5
<1>6. QED
  BY <1>1, <1>4, <1>5 DEF TakenInv

(* The worker waits for the transaction it sent, and reports it when it    *)
(* was paid; what was paid stays so.                                       *)
LEMMA NextHandler ==
  ASSUME RouteType, WorkerType, HandlerInv, [Next]_vars PROVE HandlerInv'
<1> USE DEF HandlerInv, ReportsArePaid, Request, At, Waiting, Return, Swallow, Idle,
            Fault, group, chain, history, route, WorkerType, WorkerSet, Tx
<1>1. ASSUME Skip PROVE HandlerInv'
  BY <1>1 DEF Skip
<1>2. ASSUME Begin PROVE HandlerInv'
  BY <1>2 DEF Begin
<1>3. ASSUME Submit PROVE HandlerInv'
  <2>1. position < Len(requested) /\ Send
    BY <1>3 DEF Submit
  <2>2. /\ DOMAIN txs' = DOMAIN txs \cup {Len(txs) + 1} /\ DOMAIN txs = 1..Len(txs)
        /\ Len(txs) \in Nat /\ Len(txs) + 1 \notin DOMAIN txs
        /\ \A i \in DOMAIN txs : txs'[i] = txs[i]
        /\ txs'[Len(txs) + 1].of = Request
    BY <2>1, SentTransactions
  <2>3. QED
    BY <1>3, <2>1, <2>2 DEF Submit
<1>4. ASSUME SubmitUnanswered PROVE HandlerInv'
  <2>1. position < Len(requested) /\ Send
    BY <1>4 DEF SubmitUnanswered
  <2>2. /\ DOMAIN txs' = DOMAIN txs \cup {Len(txs) + 1} /\ DOMAIN txs = 1..Len(txs)
        /\ Len(txs) \in Nat /\ Len(txs) + 1 \notin DOMAIN txs
        /\ \A i \in DOMAIN txs : txs'[i] = txs[i]
        /\ txs'[Len(txs) + 1].of = Request
    BY <2>1, SentTransactions
  <2>3. QED
    BY <1>4, <2>1, <2>2 DEF SubmitUnanswered
<1>5. ASSUME NonceExpired PROVE HandlerInv'
  BY <1>5 DEF NonceExpired
<1>6. ASSUME SubmitFails PROVE HandlerInv'
  BY <1>6 DEF SubmitFails
<1>7. ASSUME Mined PROVE HandlerInv'
  BY <1>7 DEF Mined
<1>8. ASSUME WaitFails PROVE HandlerInv'
  BY <1>8 DEF WaitFails
<1>9. ASSUME Report PROVE HandlerInv'
  BY <1>9 DEF Report
<1>10. ASSUME ReportFails PROVE HandlerInv'
  BY <1>10 DEF ReportFails
<1>11. ASSUME Commit PROVE HandlerInv'
  BY <1>11 DEF Commit
<1>12. ASSUME Rejoin PROVE HandlerInv'
  BY <1>12 DEF Rejoin
<1>13. ASSUME Restart PROVE HandlerInv'
  BY <1>13 DEF Restart
<1>14. ASSUME Mine PROVE HandlerInv'
  <2>1. /\ DOMAIN txs' = DOMAIN txs
        /\ \A i \in DOMAIN txs :
             /\ txs'[i].of = txs[i].of
             /\ txs[i].state = "paid" => txs'[i].state = "paid"
    BY <1>14, MinedTransactions
  <2>2. QED
    BY <1>14, <2>1 DEF Mine
<1>15. ASSUME RouteStep PROVE HandlerInv'
  <2> HIDE DEF Request
  <2>1. /\ UNCHANGED <<worker, txs, reported, position>>
        /\ position < Len(requested) => Request' = Request
        /\ requested' \in Seq(Requests) /\ Len(requested') >= Len(requested)
    BY <1>15, RouteFrame
  <2>2. position < Len(requested) => position < Len(requested')
    BY <2>1, LenProperties
  <2> HIDE DEF WorkerType, WorkerSet
  <2>3. QED
    BY <2>1, <2>2
<1>16. QED
  BY <1>1, <1>2, <1>3, <1>4, <1>5, <1>6, <1>7, <1>8, <1>9, <1>10, <1>11, <1>12, <1>13,
     <1>14, <1>15, StepKinds
     DEF WorkerStep

(* A transaction leaves the worker's hand reported and known to its run,   *)
(* or with a request that is marred.                                       *)
LEMMA NextOnce ==
  ASSUME RouteType, WorkerType, HandlerInv, OnceInv, [Next]_vars PROVE OnceInv'
<1> USE DEF OnceInv, InHand, HandlerInv, ReportsArePaid, Request, At, Waiting,
            Return, Swallow, Idle, Fault, group, chain, history, route, WorkerType,
            WorkerSet, Tx
<1>1. ASSUME Skip PROVE OnceInv'
  BY <1>1 DEF Skip
<1>2. ASSUME Begin PROVE OnceInv'
  BY <1>2 DEF Begin
<1>3. ASSUME Submit PROVE OnceInv'
  <2>1. position < Len(requested) /\ Send
    BY <1>3 DEF Submit
  <2>2. /\ DOMAIN txs' = DOMAIN txs \cup {Len(txs) + 1} /\ DOMAIN txs = 1..Len(txs)
        /\ Len(txs) \in Nat /\ Len(txs) + 1 \notin DOMAIN txs
        /\ \A i \in DOMAIN txs : txs'[i] = txs[i]
        /\ txs'[Len(txs) + 1].of = Request
    BY <2>1, SentTransactions
  <2> DEFINE new == Len(txs) + 1
  <2>3. /\ worker'.step = "wait" /\ worker'.tx = new /\ worker.step = "submit"
        /\ UNCHANGED <<reported, paidHere, marred, runStart>>
    BY <1>3 DEF Submit
  <2>4. /\ \A i \in DOMAIN txs : i \in reported \/ txs[i].of \in marred
        /\ \A i \in DOMAIN txs : i > runStart => txs[i].of \in paidHere \cup marred
        /\ Request \notin paidHere
    BY <2>3
  <2> HIDE DEF new
  <2>5. \A i, j \in DOMAIN txs' :
          /\ i > runStart /\ j > runStart /\ txs'[i].of = txs'[j].of
          => i = j \/ txs'[i].of \in marred
    <3>1. \A i \in DOMAIN txs :
            i > runStart /\ txs[i].of = Request => Request \in marred
      BY <2>4
    <3>2. QED
      BY <2>2, <3>1 DEF new
  <2>6. \A i \in DOMAIN txs' : i = new \/ i \in reported \/ txs'[i].of \in marred
    BY <2>2, <2>4 DEF new
  <2>7. \A i \in DOMAIN txs' :
          i > runStart => i = new \/ txs'[i].of \in paidHere \cup marred
    BY <2>2, <2>4 DEF new
  <2>8. QED
    BY <2>3, <2>5, <2>6, <2>7
<1>4. ASSUME SubmitUnanswered PROVE OnceInv'
  <2>1. position < Len(requested) /\ Send
    BY <1>4 DEF SubmitUnanswered
  <2>2. /\ DOMAIN txs' = DOMAIN txs \cup {Len(txs) + 1} /\ DOMAIN txs = 1..Len(txs)
        /\ Len(txs) \in Nat /\ Len(txs) + 1 \notin DOMAIN txs
        /\ \A i \in DOMAIN txs : txs'[i] = txs[i]
        /\ txs'[Len(txs) + 1].of = Request
    BY <2>1, SentTransactions
  <2>3. QED
    BY <1>4, <2>1, <2>2 DEF SubmitUnanswered
<1>5. ASSUME NonceExpired PROVE OnceInv'
  BY <1>5 DEF NonceExpired
<1>6. ASSUME SubmitFails PROVE OnceInv'
  BY <1>6 DEF SubmitFails
<1>7. ASSUME Mined PROVE OnceInv'
  BY <1>7 DEF Mined
<1>8. ASSUME WaitFails PROVE OnceInv'
  BY <1>8 DEF WaitFails
<1>9. ASSUME Report PROVE OnceInv'
  BY <1>9 DEF Report
<1>10. ASSUME ReportFails PROVE OnceInv'
  BY <1>10 DEF ReportFails
<1>11. ASSUME Commit PROVE OnceInv'
  BY <1>11 DEF Commit
<1>12. ASSUME Rejoin PROVE OnceInv'
  BY <1>12 DEF Rejoin
<1>13. ASSUME Restart PROVE OnceInv'
  BY <1>13 DEF Restart
<1>14. ASSUME Mine PROVE OnceInv'
  <2>1. /\ DOMAIN txs' = DOMAIN txs
        /\ \A i \in DOMAIN txs :
             /\ txs'[i].of = txs[i].of
             /\ txs[i].state = "paid" => txs'[i].state = "paid"
    BY <1>14, MinedTransactions
  <2>2. QED
    BY <1>14, <2>1 DEF Mine
<1>15. ASSUME RouteStep PROVE OnceInv'
  <2> HIDE DEF Request
  <2>1. /\ UNCHANGED <<worker, txs, reported, paidHere, marred, runStart>>
        /\ position < Len(requested) => Request' = Request
    BY <1>15, RouteFrame
  <2>2. QED
    BY <2>1
<1>16. QED
  BY <1>1, <1>2, <1>3, <1>4, <1>5, <1>6, <1>7, <1>8, <1>9, <1>10, <1>11, <1>12, <1>13,
     <1>14, <1>15, StepKinds
     DEF WorkerStep

(* A delivery begins with a transaction to its credit, which it spends     *)
(* when it submits.                                                        *)
LEMMA NextDelivery ==
  ASSUME RouteType, WorkerType, HandlerInv, DeliveryInv, [Next]_vars PROVE DeliveryInv'
<1>1. ASSUME Skip PROVE DeliveryInv'
  <2>1. /\ txs' = txs /\ deliveries' = deliveries
        /\ worker'.step = "submit" => worker.step = "submit" /\ Request' = Request
    BY <1>1 DEF Skip, Return, Swallow, Idle, At, Request, WorkerType, WorkerSet,
             group, chain, history, Fault
  <2>2. QED
    BY <2>1 DEF DeliveryInv, TxsOf
<1>2. ASSUME Begin PROVE DeliveryInv'
  <2>1. /\ Request \in Requests /\ Request' = Request /\ txs' = txs
        /\ deliveries' = [deliveries EXCEPT ![Request] = deliveries[Request] + 1]
    BY <1>2, RequestType DEF Begin, Waiting, Request, group, chain
  <2>2. \A r \in Requests : Cardinality(TxsOf(r)) \in Nat /\ TxsOf(r)' = TxsOf(r)
    BY <2>1, TxsFinite DEF TxsOf
  <2>3. deliveries \in [Requests -> Nat]
    BY DEF WorkerType
  <2>4. QED
    BY <2>1, <2>2, <2>3 DEF DeliveryInv
<1>3. ASSUME Submit PROVE DeliveryInv'
  <2>1. position < Len(requested) /\ Send /\ worker.step = "submit"
    BY <1>3 DEF Submit, At, HandlerInv
  <2>2. \A r \in Requests : Cardinality(TxsOf(r)') = Cardinality(TxsOf(r))
                                                     + (IF Request = r THEN 1 ELSE 0)
    BY <2>1, SentCounts
  <2>3. worker'.step # "submit" /\ deliveries' = deliveries
    BY <1>3 DEF Submit, Swallow, Return, Idle, history, WorkerType, WorkerSet
  <2>4. \A r \in Requests : Cardinality(TxsOf(r)) \in Nat /\ deliveries[r] \in Nat
    BY TxsFinite DEF WorkerType
  <2>5. QED
    BY <2>1, <2>2, <2>3, <2>4 DEF DeliveryInv
<1>4. ASSUME SubmitUnanswered PROVE DeliveryInv'
  <2>1. position < Len(requested) /\ Send /\ worker.step = "submit"
    BY <1>4 DEF SubmitUnanswered, At, HandlerInv
  <2>2. \A r \in Requests : Cardinality(TxsOf(r)') = Cardinality(TxsOf(r))
                                                     + (IF Request = r THEN 1 ELSE 0)
    BY <2>1, SentCounts
  <2>3. worker'.step # "submit" /\ deliveries' = deliveries
    BY <1>4 DEF SubmitUnanswered, Swallow, Return, Idle, history, WorkerType, WorkerSet
  <2>4. \A r \in Requests : Cardinality(TxsOf(r)) \in Nat /\ deliveries[r] \in Nat
    BY TxsFinite DEF WorkerType
  <2>5. QED
    BY <2>1, <2>2, <2>3, <2>4 DEF DeliveryInv
<1>5. ASSUME NonceExpired PROVE DeliveryInv'
  <2>1. /\ txs' = txs /\ deliveries' = deliveries
        /\ worker'.step = "submit" => worker.step = "submit" /\ Request' = Request
    BY <1>5 DEF NonceExpired, Return, Swallow, Idle, At, Request, WorkerType, WorkerSet,
             group, chain, history, Fault
  <2>2. QED
    BY <2>1 DEF DeliveryInv, TxsOf
<1>6. ASSUME SubmitFails PROVE DeliveryInv'
  <2>1. /\ txs' = txs /\ deliveries' = deliveries
        /\ worker'.step = "submit" => worker.step = "submit" /\ Request' = Request
    BY <1>6 DEF SubmitFails, Return, Swallow, Idle, At, Request, WorkerType, WorkerSet,
             group, chain, history, Fault
  <2>2. QED
    BY <2>1 DEF DeliveryInv, TxsOf
<1>7. ASSUME Mined PROVE DeliveryInv'
  <2>1. /\ txs' = txs /\ deliveries' = deliveries
        /\ worker'.step = "submit" => worker.step = "submit" /\ Request' = Request
    BY <1>7 DEF Mined, Return, Swallow, Idle, At, Request, WorkerType, WorkerSet,
             group, chain, history, Fault
  <2>2. QED
    BY <2>1 DEF DeliveryInv, TxsOf
<1>8. ASSUME WaitFails PROVE DeliveryInv'
  <2>1. /\ txs' = txs /\ deliveries' = deliveries
        /\ worker'.step = "submit" => worker.step = "submit" /\ Request' = Request
    BY <1>8 DEF WaitFails, Return, Swallow, Idle, At, Request, WorkerType, WorkerSet,
             group, chain, history, Fault
  <2>2. QED
    BY <2>1 DEF DeliveryInv, TxsOf
<1>9. ASSUME Report PROVE DeliveryInv'
  <2>1. /\ txs' = txs /\ deliveries' = deliveries
        /\ worker'.step = "submit" => worker.step = "submit" /\ Request' = Request
    BY <1>9 DEF Report, Return, Swallow, Idle, At, Request, WorkerType, WorkerSet,
             group, chain, history, Fault
  <2>2. QED
    BY <2>1 DEF DeliveryInv, TxsOf
<1>10. ASSUME ReportFails PROVE DeliveryInv'
  <2>1. /\ txs' = txs /\ deliveries' = deliveries
        /\ worker'.step = "submit" => worker.step = "submit" /\ Request' = Request
    BY <1>10 DEF ReportFails, Return, Swallow, Idle, At, Request, WorkerType, WorkerSet,
             group, chain, history, Fault
  <2>2. QED
    BY <2>1 DEF DeliveryInv, TxsOf
<1>11. ASSUME Commit PROVE DeliveryInv'
  <2>1. /\ txs' = txs /\ deliveries' = deliveries
        /\ worker'.step = "submit" => worker.step = "submit" /\ Request' = Request
    BY <1>11 DEF Commit, Return, Swallow, Idle, At, Request, WorkerType, WorkerSet,
             group, chain, history, Fault
  <2>2. QED
    BY <2>1 DEF DeliveryInv, TxsOf
<1>12. ASSUME Rejoin PROVE DeliveryInv'
  <2>1. /\ txs' = txs /\ deliveries' = deliveries
        /\ worker'.step = "submit" => worker.step = "submit" /\ Request' = Request
    BY <1>12 DEF Rejoin, Return, Swallow, Idle, At, Request, WorkerType, WorkerSet,
             group, chain, history, Fault
  <2>2. QED
    BY <2>1 DEF DeliveryInv, TxsOf
<1>13. ASSUME Restart PROVE DeliveryInv'
  <2>1. /\ txs' = txs /\ deliveries' = deliveries
        /\ worker'.step = "submit" => worker.step = "submit" /\ Request' = Request
    BY <1>13 DEF Restart, Return, Swallow, Idle, At, Request, WorkerType, WorkerSet,
             group, chain, history, Fault
  <2>2. QED
    BY <2>1 DEF DeliveryInv, TxsOf
<1>14. ASSUME Mine PROVE DeliveryInv'
  <2>1. \A r \in Requests : TxsOf(r)' = TxsOf(r)
    BY <1>14, MinedTransactions DEF TxsOf
  <2>2. UNCHANGED <<deliveries, worker, requested, position>>
    BY <1>14 DEF Mine, history, group
  <2>3. QED
    BY <2>1, <2>2 DEF DeliveryInv, Request
<1>15. ASSUME RouteStep PROVE DeliveryInv'
  <2>1. /\ UNCHANGED <<worker, txs, deliveries>>
        /\ position < Len(requested) => Request' = Request
    BY <1>15, RouteFrame
  <2>2. QED
    BY <2>1 DEF DeliveryInv, HandlerInv, TxsOf
<1>16. QED
  BY <1>1, <1>2, <1>3, <1>4, <1>5, <1>6, <1>7, <1>8, <1>9, <1>10, <1>11, <1>12, <1>13,
     <1>14, <1>15, StepKinds
     DEF WorkerStep

-----------------------------------------------------------------------------
(* The inductive invariant holds in every reachable state.                 *)
THEOREM Invariance == Spec => []Inv
<1>1. Inv /\ [Next]_vars => Inv'
  BY NextRouteType, NextWorkerType, NextTaken, NextHandler, NextOnce, NextDelivery DEF Inv
<1>2. QED
  BY <1>1, InitInv, PTL DEF Spec

(* The balance never goes below zero, and handlers and messages keep their *)
(* shapes.                                                                 *)
THEOREM PayoutTypesCorrect == Spec => []TypeOK
<1>1. Inv => TypeOK
  BY TypeHalves DEF Inv
<1>2. QED
  BY <1>1, Invariance, PTL

(* Nothing is paid on chain that was not taken from the balance first.     *)
THEOREM PayoutsWereTaken == Spec => []PaidWasTaken
<1>1. Inv => PaidWasTaken
  BY DEF Inv, TakenInv, Taken, PaidWasTaken, Live, TxsOf
<1>2. QED
  BY <1>1, Invariance, PTL

(* Each delivery of a request makes at most one transaction that pays.     *)
THEOREM DeliveriesPayOnce == Spec => []PaidOncePerDelivery
<1>1. ASSUME Inv, NEW r \in Requests PROVE Cardinality(Live(r)) <= deliveries[r]
  <2>1. Live(r) \subseteq TxsOf(r)
    BY DEF Live
  <2>2. IsFiniteSet(TxsOf(r)) /\ Cardinality(TxsOf(r)) \in Nat
    BY <1>1, TxsFinite DEF Inv
  <2>3. Cardinality(Live(r)) <= Cardinality(TxsOf(r)) /\ Cardinality(Live(r)) \in Nat
    BY <2>1, <2>2, FS_Subset, FS_CardinalityType
  <2>4. deliveries[r] \in Nat /\ Cardinality(TxsOf(r)) <= deliveries[r]
    BY <1>1 DEF Inv, WorkerType, DeliveryInv
  <2>5. QED
    BY <2>2, <2>3, <2>4
<1>2. Inv => PaidOncePerDelivery
  BY <1>1 DEF PaidOncePerDelivery
<1>3. QED
  BY <1>2, Invariance, PTL

(* One run of the worker pays a request once, unless its handling threw or *)
(* was cut off.                                                            *)
THEOREM RunsPayOnce == Spec => []PaidOncePerRun
<1>1. ASSUME Inv, NEW r \in Requests \ marred
      PROVE  Cardinality({i \in Live(r) : i > runStart}) <= 1
  <2> DEFINE here == {i \in Live(r) : i > runStart}
  <2>1. \A i, j \in here : i = j
    BY <1>1 DEF Inv, OnceInv, Live, TxsOf
  <2>2. CASE here = {}
    BY <2>2, FS_EmptySet
  <2>3. ASSUME NEW i \in here PROVE Cardinality(here) <= 1
    <3>1. here = {i}
      BY <2>1
    <3>2. QED
      BY <3>1, FS_Singleton
  <2>4. QED
    BY <2>2, <2>3
<1>2. Inv => PaidOncePerRun
  BY <1>1 DEF PaidOncePerRun
<1>3. QED
  BY <1>2, Invariance, PTL

(* The ledger hears only of transactions that were mined and paid.         *)
THEOREM ReportsWerePaid == Spec => []ReportsArePaid
<1>1. Inv => ReportsArePaid
  BY DEF Inv, HandlerInv
<1>2. QED
  BY <1>1, Invariance, PTL

(* A payout is reported, or about to be, unless the handling of its request*)
(* threw or was cut off.                                                   *)
THEOREM PayoutsAreReported == Spec => []PaidIsReported
<1>1. Inv => PaidIsReported
  BY DEF Inv, OnceInv, InHand, PaidIsReported
<1>2. QED
  BY <1>1, Invariance, PTL
=============================================================================
