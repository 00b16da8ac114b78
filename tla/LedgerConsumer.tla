---------------------------- MODULE LedgerConsumer ----------------------------
(***************************************************************************)
(* The ledger consumer (services/ledger-consumer): it reads the topics of  *)
(* resolved bets, received deposits and completed withdrawals, and writes  *)
(* them to PostgreSQL, where a row per event and a unique key make each    *)
(* count once.  A deposit is then credited to the player's balance in      *)
(* Redis as well.  A login restores that balance from PostgreSQL when      *)
(* Redis has lost it (upsertUserSessionByWallet, init-user-safe.lua).      *)
(*                                                                         *)
(* The services that publish the events have their own modules; here they  *)
(* are their Redis scripts and their messages.  A script runs once: what a *)
(* lost reply does is in BetEscrow and Withdrawal.                         *)
(*                                                                         *)
(* One player and currency, so one partition of each topic, and one        *)
(* consumer.  It works off one fetched batch after another; the offset it  *)
(* has resolved is in memory, the offset it has committed survives it.     *)
(* The group has committed offsets before, and no message is malformed     *)
(* (both are how the system runs once it is up).                           *)
(***************************************************************************)
EXTENDS Sequences, UnitSums

CONSTANTS
  Bets, Deposits, Withdrawals,  \* the events, each by its unique key
  Credit, Debit,   \* what each event adds to and takes from the balance
  Opening,         \* the player's balance at first, in both stores
  BetBatchSize,    \* config.betBatchSize
  MaxPublished,    \* bound: how often the listener reports one deposit
  MaxLogins,       \* bound: how often the player logs in again
  MaxFaults        \* bound: failures of Postgres, Redis, Kafka, the process

Events == Bets \cup Deposits \cup Withdrawals
Topics == {"BetResolved", "DepositReceived", "WithdrawalCompleted"}

ASSUME EventsAssumption ==
  /\ IsFiniteSet(Events)
  /\ Bets \cap Deposits = {} /\ Bets \cap Withdrawals = {}
  /\ Deposits \cap Withdrawals = {}
ASSUME AmountsAssumption ==
  /\ Credit \in [Events -> Nat] /\ Debit \in [Events -> Nat]
  /\ \A b \in Bets : Debit[b] > 0
  /\ \A d \in Deposits : Credit[d] > 0 /\ Debit[d] = 0
  /\ \A w \in Withdrawals : Credit[w] = 0 /\ Debit[w] > 0
ASSUME BoundsAssumption ==
  /\ Opening \in Nat /\ BetBatchSize \in Nat \ {0}
  /\ MaxPublished \in Nat /\ MaxLogins \in Nat /\ MaxFaults \in Nat

VARIABLES
  taken,      \* bets escrowed and withdrawals deducted in Redis
  settled,    \* bets settled in Redis
  returned,   \* bets released and withdrawals credited back in Redis
  log,        \* what each topic holds, in order
  position,   \* the next offset of each topic, in the consumer's memory
  committed,  \* the next offset of each topic, at the brokers
  batch,      \* the batch the consumer works off
  rows,       \* the events that have a row in PostgreSQL
  balance,    \* wallets.balance in PostgreSQL
  hot,        \* the balance in Redis, without the open bets' wagers; 0 if absent
  cached,     \* whether Redis holds it
  login,      \* the login in progress, with the balance it has read
  credits,    \* history: how often each deposit was added to it
  marred,     \* history: events whose handling failed or was cut off
  resent,     \* history: deposits whose credit was sent to Redis again
  stale,      \* history: Redis got a balance back that was not in step
  faults      \* history: failures so far

moves == <<taken, settled, returned>>
cache == <<cached, login, stale>>
vars == <<moves, log, position, committed, batch, rows, balance, hot, credits, marred,
          resent, cache, faults>>
kafka == <<log, position, committed>>
stores == <<rows, balance, hot, credits>>
consumer == <<position, committed, batch, rows, balance, credits, marred, resent,
              cache, faults>>

-----------------------------------------------------------------------------
TopicOf(e) == CASE e \in Bets     -> "BetResolved"
                [] e \in Deposits -> "DepositReceived"
                [] OTHER          -> "WithdrawalCompleted"

(* A batch: the messages from next up to end; "commit" follows each one    *)
(* handled (each slice of bets).                                           *)
Step == {"handle", "credit", "publish", "commit"}
NoBatch == [topic |-> "none", next |-> 0, end |-> 0, step |-> "handle"]
Idle == batch.topic = "none"

At(step) == ~Idle /\ batch.next < batch.end /\ batch.step = step
Message == log[batch.topic][batch.next + 1]

(* The message is done with: the consumer goes on to commit.               *)
Onward == batch' = [batch EXCEPT !.next = @ + 1, !.step = "commit"]
Goto(step) == batch' = [batch EXCEPT !.step = step]
Resolve(offset) == position' = [position EXCEPT ![batch.topic] = offset]

Fault == faults < MaxFaults /\ faults' = faults + 1
Mar(E) == marred' = marred \cup E

Total(f, E) == SumOver([e \in E |-> f[e]])

(* What a set of events adds up to.                                        *)
Net(E) == Total(Credit, E) - Total(Debit, E)

Init ==
  /\ taken = {} /\ settled = {} /\ returned = {}
  /\ log = [t \in Topics |-> <<>>]
  /\ position = [t \in Topics |-> 0]
  /\ committed = [t \in Topics |-> 0]
  /\ batch = NoBatch
  /\ rows = {}
  /\ balance = Opening
  /\ hot = Opening
  /\ cached = TRUE
  /\ login = [read |-> FALSE, balance |-> 0, left |-> MaxLogins]
  /\ stale = FALSE
  /\ credits = [d \in Deposits |-> 0]
  /\ marred = {}
  /\ resent = {}
  /\ faults = 0

-----------------------------------------------------------------------------
(* The services that publish the events.  A bet or a withdrawal takes its  *)
(* amount in Redis before it is published; a deposit adds its own when the *)
(* consumer has recorded it.                                               *)

Append1(e) == log' = [log EXCEPT ![TopicOf(e)] = Append(@, e)]
Copies(e) == Cardinality({i \in DOMAIN log[TopicOf(e)] : log[TopicOf(e)][i] = e})

(* escrow-bet.lua, withdraw-deduct.lua: an absent balance counts as 0.     *)
Take(e) ==
  /\ e \notin taken /\ hot >= Debit[e]
  /\ hot' = hot - Debit[e]
  /\ taken' = taken \cup {e}
  /\ UNCHANGED <<settled, returned, log, consumer>>

(* The scripts that give something back create an absent balance, which    *)
(* then holds nothing else.                                                *)
AddBack(amount) ==
  /\ hot' = hot + amount
  /\ cached' = TRUE
  /\ stale' = (stale \/ ~cached)
  /\ UNCHANGED <<login, log, position, committed, batch, rows, balance, credits, marred,
                 resent, faults>>

\* Mutation: the wager is added back to the balance with the payout.
SettleWithWager(b) ==
  /\ b \in taken \ (settled \cup returned)
  /\ AddBack(Credit[b] + Debit[b])
  /\ settled' = settled \cup {b}
  /\ UNCHANGED <<taken, returned>>

(* settle-bet.lua                                                          *)
Settle(b) ==
  /\ b \in taken \ (settled \cup returned)
  /\ AddBack(Credit[b])
  /\ settled' = settled \cup {b}
  /\ UNCHANGED <<taken, returned>>

(* release-escrow.lua for a bet that was not rolled, withdraw-credit.lua   *)
(* for a withdrawal whose send rejected.                                   *)
GiveBack(e) ==
  /\ e \in taken \ (settled \cup returned)
  /\ e \in Bets => Copies(e) = 0
  /\ AddBack(Debit[e])
  /\ returned' = returned \cup {e}
  /\ UNCHANGED <<taken, settled>>

(* Its message reaches the brokers: a bet's from any worker's producer,    *)
(* before its settlement or after; a withdrawal's when its payout is mined,*)
(* and a rejected send may have been stored.                               *)
PublishTaken(e) ==
  /\ e \in taken /\ Copies(e) = 0
  /\ e \in Bets => e \notin returned
  /\ Append1(e)
  /\ UNCHANGED <<moves, hot, consumer>>

(* The chain listener reports a deposit, and may do so again after it was  *)
(* restarted.                                                              *)
PublishDeposit(d) ==
  /\ Copies(d) < MaxPublished
  /\ Append1(d)
  /\ UNCHANGED <<moves, hot, consumer>>

-----------------------------------------------------------------------------
(* The Kafka client.                                                       *)

Fetch(t) ==
  /\ Idle
  /\ \E end \in position[t] + 1 .. Len(log[t]) :
       batch' = [topic |-> t, next |-> position[t], end |-> end, step |-> "handle"]
  /\ UNCHANGED <<moves, cache, kafka, stores, marred, resent, faults>>

(* eachBatch returned without throwing, at the end of its loop or from a   *)
(* break: the client resolves the last offset of the batch by itself       *)
(* (eachBatchAutoResolve, which the consumer leaves at its default).       *)
BatchReturns ==
  /\ ~Idle /\ batch.next = batch.end /\ batch.step = "handle"
  /\ Resolve(batch.end)
  /\ batch' = NoBatch
  /\ UNCHANGED <<moves, cache, log, committed, stores, marred, resent, faults>>

\* Mutation: the last offset of the batch is committed with the first.
CommitAhead ==
  /\ batch.step = "commit"
  /\ committed' = [position EXCEPT ![batch.topic] = batch.end]
  /\ Goto("handle")
  /\ UNCHANGED <<moves, cache, log, position, stores, marred, resent, faults>>

(* commitOffsetsIfNecessary(uncommittedOffsets()): what is resolved, of    *)
(* every topic.                                                            *)
Commit ==
  /\ batch.step = "commit"
  /\ committed' = position
  /\ Goto("handle")
  /\ UNCHANGED <<moves, cache, log, position, stores, marred, resent, faults>>

(* The commit or the heartbeat throws, out of eachBatch: what it has not   *)
(* resolved is fetched again.                                              *)
CommitThrows ==
  /\ batch.step = "commit"
  /\ Fault
  /\ batch' = NoBatch
  /\ UNCHANGED <<moves, cache, kafka, stores, marred, resent>>

(* The consumer exits, or is made to rejoin its group: it begins anew at   *)
(* the committed offsets.                                                  *)
Restart ==
  /\ Fault
  /\ position' = committed
  /\ batch' = NoBatch
  /\ Mar(IF batch.step \in {"credit", "publish"} THEN {Message} ELSE {})
  /\ UNCHANGED <<moves, cache, log, committed, stores, resent>>

-----------------------------------------------------------------------------
(* The bets: batchInsertBets, a slice at a time.                           *)

SliceEnd == IF batch.next + BetBatchSize < batch.end
              THEN batch.next + BetBatchSize ELSE batch.end

\* Mutation: the loop that collects the slice stops one message short.
SliceShort == {log[batch.topic][o + 1] : o \in batch.next .. SliceEnd - 2}

Slice == {log[batch.topic][o + 1] : o \in batch.next .. SliceEnd - 1}
NewBets == Slice \ rows

AtSlice == At("handle") /\ batch.topic = "BetResolved"

(* chk_wallets_balance_non_negative                                        *)
Allowed(n) == n >= 0

WriteBets ==
  /\ Allowed(balance + Net(NewBets))
  /\ rows' = rows \cup NewBets
  /\ balance' = balance + Net(NewBets)

\* Mutation: the CTE sums the slice, not the rows that were inserted.
InsertBetsAgain ==
  /\ AtSlice
  /\ Allowed(balance + Net(Slice))
  /\ rows' = rows \cup NewBets
  /\ balance' = balance + Net(Slice)
  /\ Resolve(SliceEnd)
  /\ batch' = [batch EXCEPT !.next = SliceEnd, !.step = "commit"]
  /\ UNCHANGED <<moves, cache, log, committed, hot, credits, marred, resent, faults>>

(* The slice is inserted and its new rows added to the balance, in one     *)
(* transaction; then its offsets are resolved.                             *)
InsertBets ==
  /\ AtSlice
  /\ WriteBets
  /\ Resolve(SliceEnd)
  /\ batch' = [batch EXCEPT !.next = SliceEnd, !.step = "commit"]
  /\ UNCHANGED <<moves, cache, log, committed, hot, credits, marred, resent, faults>>

(* The insert failed: the loop over the slices ends, its own offsets are   *)
(* not resolved, and the slices after it are not looked at.                *)
Rest == {log[batch.topic][o + 1] : o \in batch.next .. batch.end - 1}
Break == Mar(Rest) /\ batch' = [batch EXCEPT !.next = batch.end]

(* The balance would fall below zero: PostgreSQL refuses the transaction.  *)
InsertRefused ==
  /\ AtSlice
  /\ ~Allowed(balance + Net(NewBets))
  /\ Break
  /\ UNCHANGED <<moves, cache, kafka, stores, resent, faults>>

InsertFails ==
  /\ AtSlice
  /\ Fault /\ Break
  /\ UNCHANGED <<moves, cache, kafka, stores, resent>>

(* The transaction commits, and the answer is lost.                        *)
InsertUnanswered ==
  /\ AtSlice
  /\ WriteBets
  /\ Fault /\ Break
  /\ UNCHANGED <<moves, cache, kafka, hot, credits, resent>>

-----------------------------------------------------------------------------
(* Deposits and withdrawals, one message at a time.                        *)

Single == batch.topic \in {"DepositReceived", "WithdrawalCompleted"}

(* The handler returns true: the message's offset is resolved.             *)
HandledWell == Resolve(batch.next + 1) /\ Onward

(* The handler returns false: the offset is left as it is, and the loop    *)
(* goes on to the next message.                                            *)
HandledBadly == Mar({Message}) /\ Onward /\ UNCHANGED position

(* No connection to PostgreSQL: the handler throws, which the loop takes   *)
(* for a malformed message.                                                *)
ConnectFails ==
  /\ At("handle") /\ Single
  /\ Fault /\ Mar({Message})
  /\ HandledWell
  /\ UNCHANGED <<moves, cache, log, committed, stores, resent>>

(* A row for the message exists: nothing is left to do.                    *)
Duplicate ==
  /\ At("handle") /\ Single /\ Message \in rows
  /\ HandledWell
  /\ UNCHANGED <<moves, cache, log, committed, stores, marred, resent, faults>>

Write ==
  /\ Message \notin rows
  /\ Allowed(balance + Net({Message}))
  /\ rows' = rows \cup {Message}
  /\ balance' = balance + Net({Message})

\* Mutation: a deposit that has its row already is credited once more.
RecordDuplicates ==
  /\ At("handle") /\ Single
  /\ IF Message \in rows THEN UNCHANGED <<rows, balance>> ELSE Write
  /\ Goto(IF batch.topic = "DepositReceived" THEN "credit" ELSE "publish")
  /\ UNCHANGED <<moves, cache, kafka, hot, credits, marred, resent, faults>>

\* Mutation: the table has no CHECK on the balance.
RecordUnchecked ==
  /\ At("handle") /\ Single /\ Message \notin rows
  /\ rows' = rows \cup {Message}
  /\ balance' = balance + Net({Message})
  /\ Goto("publish")
  /\ UNCHANGED <<moves, cache, kafka, hot, credits, marred, resent, faults>>

(* Row and balance are written in one statement.                           *)
Record ==
  /\ At("handle") /\ Single
  /\ Write
  /\ Goto(IF batch.topic = "DepositReceived" THEN "credit" ELSE "publish")
  /\ UNCHANGED <<moves, cache, kafka, hot, credits, marred, resent, faults>>

(* A withdrawal that PostgreSQL's balance does not cover is refused.       *)
RecordRefused ==
  /\ At("handle") /\ Single /\ Message \notin rows
  /\ ~Allowed(balance + Net({Message}))
  /\ HandledBadly
  /\ UNCHANGED <<moves, cache, log, committed, stores, resent, faults>>

QueryFails ==
  /\ At("handle") /\ Single
  /\ Fault /\ HandledBadly
  /\ UNCHANGED <<moves, cache, log, committed, stores, resent>>

QueryUnanswered ==
  /\ At("handle") /\ Single
  /\ Write
  /\ Fault /\ HandledBadly
  /\ UNCHANGED <<moves, cache, log, committed, hot, credits, resent>>

(* Every bet and withdrawal that moved Redis has its row, and the other way*)
(* round; no bet is open.                                                  *)
Accounted ==
  /\ taken \ returned \subseteq rows /\ returned \cap rows = {}
  /\ taken \cap Bets \subseteq settled \cup returned

(* DEPOSIT_CREDIT_LUA: a balance that Redis holds is added to, an absent   *)
(* one is set to what PostgreSQL returned with the row.                    *)
AddToRedis(d) ==
  /\ hot' = IF cached THEN hot + Credit[d] ELSE balance
  /\ cached' = TRUE
  /\ stale' = (stale \/ (~cached /\ ~Accounted))
  /\ credits' = [credits EXCEPT ![d] = @ + 1]
  /\ UNCHANGED login

\* Mutation: Redis is set to the balance of PostgreSQL.
CreditOverwrites ==
  /\ At("credit")
  /\ hot' = balance
  /\ credits' = [credits EXCEPT ![Message] = @ + 1]
  /\ Goto("publish")
  /\ UNCHANGED <<moves, cache, kafka, rows, balance, marred, resent, faults>>

(* The new row's deposit is credited to Redis.                             *)
CreditRedis ==
  /\ At("credit")
  /\ AddToRedis(Message)
  /\ Goto("publish")
  /\ UNCHANGED <<moves, kafka, rows, balance, marred, resent, faults>>

(* The script ran, its reply is lost, the client sends it again.           *)
CreditReplyLost ==
  /\ At("credit")
  /\ Fault
  /\ AddToRedis(Message)
  /\ resent' = resent \cup {Message}
  /\ UNCHANGED <<moves, kafka, batch, rows, balance, marred>>

CreditFails ==
  /\ At("credit")
  /\ Fault /\ HandledBadly
  /\ UNCHANGED <<moves, cache, log, committed, stores, resent>>

(* The update is published to the player's sockets; the handler returns.   *)
Publish ==
  /\ At("publish")
  /\ HandledWell
  /\ UNCHANGED <<moves, cache, log, committed, stores, marred, resent, faults>>

PublishFails ==
  /\ At("publish")
  /\ Fault /\ HandledBadly
  /\ UNCHANGED <<moves, cache, log, committed, stores, resent>>

-----------------------------------------------------------------------------
(* The balance key of Redis is lost (an eviction, a restart that lost the  *)
(* tail of the append-only file), and a login puts it back: it reads the   *)
(* balance from PostgreSQL, and later sets the key if it is absent then.   *)

LoseKey ==
  /\ cached /\ Fault
  /\ cached' = FALSE
  /\ hot' = 0
  /\ UNCHANGED <<moves, kafka, batch, rows, balance, credits, marred, resent, login,
                 stale>>

LoginReads ==
  /\ ~login.read /\ login.left > 0
  /\ login' = [read |-> TRUE, balance |-> balance, left |-> login.left - 1]
  /\ UNCHANGED <<moves, kafka, batch, stores, cached, marred, resent, stale, faults>>

(* What PostgreSQL had is what Redis would have had: no event had moved    *)
(* one and not the other.                                                  *)
InStep == Accounted /\ ~At("credit") /\ login.balance = balance

\* Mutation: the balance is set whether or not Redis holds one.
LoginOverwrites ==
  /\ login.read
  /\ login' = [login EXCEPT !.read = FALSE, !.balance = 0]
  /\ hot' = login.balance
  /\ cached' = TRUE
  /\ stale' = (stale \/ (~cached /\ ~InStep))
  /\ UNCHANGED <<moves, kafka, batch, rows, balance, credits, marred, resent, faults>>

LoginRestores ==
  /\ login.read
  /\ login' = [login EXCEPT !.read = FALSE, !.balance = 0]
  /\ hot' = IF cached THEN hot ELSE login.balance
  /\ cached' = TRUE
  /\ stale' = (stale \/ (~cached /\ ~InStep))
  /\ UNCHANGED <<moves, kafka, batch, rows, balance, credits, marred, resent, faults>>

-----------------------------------------------------------------------------
Consumer ==
  \/ \E t \in Topics : Fetch(t)
  \/ BatchReturns \/ Commit
  \/ InsertBets \/ InsertRefused
  \/ Duplicate \/ Record \/ RecordRefused \/ CreditRedis \/ Publish

Failures ==
  \/ CommitThrows \/ Restart \/ InsertFails \/ InsertUnanswered \/ ConnectFails
  \/ QueryFails \/ QueryUnanswered \/ CreditReplyLost \/ CreditFails \/ PublishFails
  \/ LoseKey

Publishers ==
  \/ \E e \in Bets \cup Withdrawals : Take(e) \/ GiveBack(e) \/ PublishTaken(e)
  \/ \E b \in Bets : Settle(b)
  \/ \E d \in Deposits : PublishDeposit(d)

Login == LoginReads \/ LoginRestores

Next == Consumer \/ Failures \/ Publishers \/ Login

Spec == Init /\ [][Next]_vars

(* The consumer works as long as there is a message.  Which topic a fetch  *)
(* takes is the client's choice, but it comes round to each.               *)
Fairness == WF_vars(Consumer) /\ \A t \in Topics : SF_vars(Fetch(t))

FairSpec == Spec /\ Fairness

-----------------------------------------------------------------------------
(* The balances of both stores stay natural numbers, and so on.            *)
TypeOK ==
  /\ returned \subseteq taken /\ taken \subseteq Bets \cup Withdrawals
  /\ settled \subseteq Bets \cap taken
  /\ log \in [Topics -> Seq(Events)]
  /\ position \in [Topics -> Nat]
  /\ committed \in [Topics -> Nat]
  /\ batch \in [topic : Topics \cup {"none"}, next : Nat, end : Nat, step : Step]
  /\ rows \subseteq Events
  /\ balance \in Nat
  /\ hot \in Nat
  /\ cached \in BOOLEAN /\ stale \in BOOLEAN
  /\ login \in [read : BOOLEAN, balance : Nat, left : 0..MaxLogins]
  /\ credits \in [Deposits -> Nat]
  /\ marred \subseteq Events
  /\ resent \subseteq Deposits
  /\ faults \in 0..MaxFaults

(* db/init.sql:29: the balance in PostgreSQL is what the player began with *)
(* plus deposits and payouts, less withdrawals and wagers, of exactly the  *)
(* events that have a row: no event counts twice, however often it was     *)
(* published or handled again after a restart.                             *)
CanonicalBalance == balance = Opening + Net(rows)

(* Once every bet is settled or released, and every message that is due    *)
(* was published and handled without a failure, both stores agree: neither *)
(* the order of the scripts and messages nor a restart between two of them *)
(* nor a login at any moment makes them drift apart.  Excepted is a balance*)
(* key that was lost and came back out of step: restored while an event was*)
(* on its way, or created by a settlement, a release or a credit-back.     *)
Drained == /\ Idle
           /\ \A t \in Topics : position[t] = Len(log[t])
           /\ \A e \in taken \ returned : Copies(e) > 0 /\ (e \in Bets => e \in settled)
           /\ \A e \in returned : Copies(e) = 0
StoresConverge ==
  Drained /\ cached /\ ~stale /\ marred = {} /\ resent = {} => hot = balance

(* Redis is credited only with deposits that have their row, and with each *)
(* of them once, unless the credit itself was sent again.                  *)
CreditedOnce ==
  \A d \in Deposits : /\ credits[d] > 0 => d \in rows
                      /\ d \notin resent => credits[d] <= 1

(* No event is passed over in silence: what lies below a committed offset  *)
(* has its row, or its handling failed (for a bet: the insert of its slice *)
(* or of one before it in the same batch).                                 *)
NothingPassedOver ==
  \A t \in Topics : \A i \in 1..committed[t] : log[t][i] \in rows \cup marred

(* Every event that is published gets its row in the end, unless its       *)
(* handling failed as above: a restart at any moment loses none, and       *)
(* whatever was published the consumer catches up with it again.           *)
EventuallyRecorded ==
  []<>(\A e \in Events : Copies(e) > 0 => e \in rows \cup marred)

(* kafka-event-topology.md:320: "Offsets are committed only after the      *)
(* Postgres insert succeeds."                                              *)
CommittedIsRecorded ==
  \A t \in Topics : \A i \in 1..committed[t] : log[t][i] \in rows
=============================================================================
