----------------------------- MODULE EvmListener -----------------------------
(***************************************************************************)
(* The EVM listener (services/evm-listener): it scans the chain for        *)
(* deposits to the Treasury and publishes each to the ledger consumer,     *)
(* which gives it a row and adds it to the balance in PostgreSQL.          *)
(*                                                                         *)
(* Each connection (an epoch) scans the chain from the first block to its  *)
(* head, and then a range of blocks whenever one is announced: the         *)
(* provider polls, and announces each number once.  A deposit is dropped   *)
(* when its transaction is in a bounded memory, or has a row.              *)
(* The chain may be reset to an earlier height; transactions mined anew    *)
(* have the same hashes.  A connection that finds a row beyond the head    *)
(* purges all rows first, and recomputes the balance.                      *)
(*                                                                         *)
(* One player; a block has at most one deposit; of bets only lost ones,    *)
(* of 1, are recorded.  The consumer does not fail: LedgerConsumer has its *)
(* failures.                                                               *)
(***************************************************************************)
EXTENDS Integers, Sequences, Functions, UnitSums

CONSTANTS
  Deposits,    \* the deposits, each by the hash of its transaction
  NoDeposit,   \* what a block without a deposit has
  Amount,      \* the amount of each deposit
  Opening,     \* config.defaultEthBalance
  CacheSize,   \* config.dedupCacheSize
  MaxHeight,   \* bound: the height of the chain
  MaxEpoch,    \* bound: the listener's epochs
  MaxLost,     \* bound: lost bets
  MaxResets,   \* bound: resets of the chain
  MaxFaults    \* bound: errors, lost connections, restarts

ASSUME DepositsAssumption == IsFiniteSet(Deposits) /\ NoDeposit \notin Deposits
ASSUME AmountsAssumption == Amount \in [Deposits -> Nat \ {0}] /\ Opening \in Nat
ASSUME BoundsAssumption ==
  /\ CacheSize \in Nat \ {0}
  /\ {MaxHeight, MaxEpoch, MaxLost, MaxResets, MaxFaults} \subseteq Nat

VARIABLES
  chain,      \* the blocks: the deposit of each, or NoDeposit
  registered, \* whether the player's wallet address has a user
  epoch,      \* listenerEpoch
  timer,      \* whether a call of listen is scheduled
  worker,     \* by epoch: where its listen, or its block handler, stands
  poller,     \* the provider's poll for blocks: the height it read last, blocks it
              \* told of; history: whether blocks up to it wait for the next one
  seen,       \* seenTxHashes, in the order of insertion
  purge,      \* the transaction that purges: rows it deletes, balance it writes
  topic,      \* DepositReceived messages on their way, <<deposit, block>>
  rows,       \* by deposit: the block of its row in PostgreSQL, 0 if it has none
  lost,       \* lost bets recorded in PostgreSQL
  balance,    \* wallets.balance
  excuse,     \* history, by deposit: why it was passed over since the head was read
  astray,     \* history: the chain was reset since the head was read
  exact,      \* history: the last purge wrote the balance of the rows it left
  resets,     \* history: resets so far
  faults      \* history: failures so far

listener == <<epoch, timer, worker, poller, seen, purge>>
ledger == <<rows, lost, balance, exact>>
vars == <<chain, registered, listener, topic, ledger, excuse, astray, resets, faults>>

-----------------------------------------------------------------------------
Epochs == 1..MaxEpoch
Stage == {"none", "head", "max", "delete", "sum", "commit", "history", "each",
          "lookup", "send", "track", "idle", "query"}

(* from, head: the range of the last scan; live: its block handler is      *)
(* registered; todo: the events still to process; late: how many it has    *)
(* published since its connection was replaced.                            *)
NoWorker == [stage |-> "none", from |-> 0, head |-> 0, live |-> FALSE, todo |-> {},
             late |-> 0]

At(e, stage) == worker[e].stage = stage
Goto(e, stage) == worker' = [worker EXCEPT ![e].stage = stage]
Event(e) == CHOOSE ev \in worker[e].todo : \A other \in worker[e].todo : ev[2] <= other[2]
Tx(e) == Event(e)[1]

(* No poll yet: a number no block has.                                     *)
NoPoll == [last |-> -1, told |-> <<>>, behind |-> FALSE]

NoPurge == [doomed |-> {}, left |-> {}, lost |-> 0]

(* The event is done with: the loop goes on.                               *)
NextEvent(e) == worker' = [worker EXCEPT ![e].todo = @ \ {Event(e)}, ![e].stage = "each"]

Height == Len(chain)
Lower(m, n) == IF m < n THEN m ELSE n

(* queryFilter: the deposits from block m to block n.                      *)
DepositsIn(m, n) ==
  {<<chain[i], i>> : i \in {k \in 1..Lower(n, Height) : k >= m /\ chain[k] # NoDeposit}}

Recorded == {d \in Deposits : rows[d] # 0}
Total(E) == SumOver([d \in E |-> Amount[d]])
Underway(d) == \E i \in DOMAIN topic : topic[i][1] = d

Fault == faults < MaxFaults /\ faults' = faults + 1
Excuse(E, why) == excuse' = [d \in Deposits |-> IF d \in E THEN why ELSE excuse[d]]

(* The process starts with an empty ledger, or with the row of a deposit   *)
(* of an earlier process on a chain that was reset since.                  *)
FirstStart ==
  /\ registered = FALSE
  /\ rows = [d \in Deposits |-> 0]
  /\ resets = 0
LaterStart ==
  /\ MaxResets > 0 /\ MaxHeight > 0
  /\ registered = TRUE
  /\ \E old \in Deposits : rows = [d \in Deposits |-> IF d = old THEN MaxHeight ELSE 0]
  /\ resets = 1

Init ==
  /\ FirstStart \/ LaterStart
  /\ chain = <<>>
  /\ epoch = 0 /\ timer = TRUE
  /\ worker = [e \in Epochs |-> NoWorker]
  /\ poller = NoPoll
  /\ seen = <<>>
  /\ purge = NoPurge
  /\ topic = <<>>
  /\ lost = 0 /\ balance = Opening + Total(Recorded)
  /\ excuse = [d \in Deposits |-> "none"]
  /\ astray = FALSE /\ exact = TRUE
  /\ faults = 0

-----------------------------------------------------------------------------
(* The chain, the player, and the ledger consumer.                         *)

Mine(d) ==
  /\ Height < MaxHeight
  /\ d = NoDeposit \/ \A i \in 1..Height : chain[i] # d
  /\ chain' = Append(chain, d)
  /\ UNCHANGED <<registered, listener, topic, ledger, excuse, astray, resets, faults>>

(* The node starts again, from nothing or from the state it last dumped.   *)
Reset ==
  /\ resets < MaxResets /\ resets' = resets + 1
  /\ \E h \in 0..Height - 1 :
       /\ chain' = SubSeq(chain, 1, h)
       /\ Excuse({chain[i] : i \in h + 1..Height}, "none")
  /\ astray' = TRUE
  /\ UNCHANGED <<registered, listener, topic, ledger, faults>>

Register ==
  /\ ~registered
  /\ registered' = TRUE
  /\ UNCHANGED <<chain, listener, topic, ledger, excuse, astray, resets, faults>>

\* Mutation: a deposit that has its row is added to the balance again.
RecordAgain ==
  /\ topic # <<>>
  /\ LET d == Head(topic)[1] IN
       /\ rows' = [rows EXCEPT ![d] = Head(topic)[2]]
       /\ balance' = balance + Amount[d]
  /\ topic' = Tail(topic)
  /\ UNCHANGED <<chain, registered, listener, lost, exact, excuse, astray, resets, faults>>

(* ON CONFLICT (tx_hash) DO NOTHING; an insert that conflicts with a row   *)
(* being deleted waits for the purge to end.                               *)
Record ==
  /\ topic # <<>>
  /\ LET d == Head(topic)[1] IN
       /\ d \notin purge.doomed
       /\ rows' = [rows EXCEPT ![d] = IF @ = 0 THEN Head(topic)[2] ELSE @]
       /\ balance' = IF rows[d] = 0 THEN balance + Amount[d] ELSE balance
  /\ topic' = Tail(topic)
  /\ UNCHANGED <<chain, registered, listener, lost, exact, excuse, astray, resets, faults>>

RecordLoss ==
  /\ lost < MaxLost /\ balance > 0
  /\ lost' = lost + 1
  /\ balance' = balance - 1
  /\ UNCHANGED <<chain, registered, listener, topic, rows, exact, excuse, astray, resets,
                 faults>>

-----------------------------------------------------------------------------
(* listen, up to the scan of history.                                      *)

Listen ==
  /\ timer /\ epoch < MaxEpoch
  /\ timer' = FALSE
  /\ epoch' = epoch + 1
  /\ worker' = [worker EXCEPT ![epoch'].stage = "head"]
  /\ UNCHANGED <<chain, registered, poller, seen, purge, topic, ledger, excuse, astray,
                 resets, faults>>

(* The node answers with its block number.                                 *)
ReadHead(e) ==
  /\ At(e, "head")
  /\ worker' = [worker EXCEPT ![e].stage = "max", ![e].head = Height]
  /\ astray' = FALSE
  /\ Excuse(Deposits, "none")
  /\ UNCHANGED <<chain, registered, poller, epoch, timer, seen, purge, topic, ledger, resets,
                 faults>>

\* Mutation: a connection that fails is not tried again.
ConnectFailsForGood(e) ==
  /\ worker[e].stage \in {"head", "max"} /\ epoch < MaxEpoch
  /\ Fault
  /\ Goto(e, "none")
  /\ UNCHANGED <<chain, registered, poller, epoch, timer, seen, purge, topic, ledger, excuse,
                 astray, resets>>

(* No answer from the node or from PostgreSQL: listen is scheduled again.  *)
ConnectFails(e) ==
  /\ worker[e].stage \in {"head", "max"} /\ epoch < MaxEpoch
  /\ Fault
  /\ Goto(e, "none")
  /\ timer' = TRUE
  /\ UNCHANGED <<chain, registered, poller, epoch, seen, purge, topic, ledger, excuse, astray,
                 resets>>

(* A row of a block beyond the head gives the reset away.                  *)
ReadMax(e) ==
  /\ At(e, "max")
  /\ Goto(e, IF \E d \in Recorded : worker[e].head < rows[d] THEN "delete"
                                                             ELSE "history")
  /\ UNCHANGED <<chain, registered, poller, epoch, timer, seen, purge, topic, ledger, excuse,
                 astray, resets, faults>>

(* purgeStaleChainData: BEGIN and the DELETE, of the rows there are now.   *)
PurgeDelete(e) ==
  /\ At(e, "delete")
  /\ purge' = [purge EXCEPT !.doomed = Recorded]
  /\ Goto(e, "sum")
  /\ UNCHANGED <<chain, registered, poller, epoch, timer, seen, topic, ledger, excuse, astray,
                 resets, faults>>

(* The UPDATE sums what is committed when it begins, ...                   *)
PurgeSum(e) ==
  /\ At(e, "sum")
  /\ purge' = [purge EXCEPT !.left = Recorded \ purge.doomed, !.lost = lost]
  /\ Goto(e, "commit")
  /\ UNCHANGED <<chain, registered, poller, epoch, timer, seen, topic, ledger, excuse, astray,
                 resets, faults>>

(* ... and writes the balance when it has the wallet's row, whatever the   *)
(* ledger consumer committed in between.                                   *)
PurgeCommit(e) ==
  /\ At(e, "commit")
  /\ LET computed == Opening + Total(purge.left) - purge.lost IN
       /\ balance' = IF computed < 0 THEN 0 ELSE computed
       /\ exact' = (computed >= 0 /\ Recorded \ purge.doomed = purge.left
                                 /\ lost = purge.lost)
  /\ rows' = [d \in Deposits |-> IF d \in purge.doomed THEN 0 ELSE rows[d]]
  /\ purge' = NoPurge
  /\ Goto(e, "history")
  /\ UNCHANGED <<chain, registered, poller, epoch, timer, seen, topic, lost, excuse, astray,
                 resets, faults>>

PurgeFails(e) ==
  /\ worker[e].stage \in {"delete", "sum", "commit"}
  /\ Fault
  /\ purge' = NoPurge
  /\ Goto(e, "history")
  /\ UNCHANGED <<chain, registered, poller, epoch, timer, seen, topic, ledger, excuse, astray,
                 resets>>

\* Mutation: history is scanned from the head.
HistoryAtHead(e) ==
  /\ At(e, "history")
  /\ worker' = [worker EXCEPT ![e].todo = DepositsIn(worker[e].head, worker[e].head),
                             ![e].stage = "each"]
  /\ UNCHANGED <<chain, registered, poller, epoch, timer, seen, purge, topic, ledger, excuse,
                 astray, resets, faults>>

History(e) ==
  /\ At(e, "history")
  /\ worker' = [worker EXCEPT ![e].todo = DepositsIn(0, worker[e].head),
                             ![e].stage = "each"]
  /\ UNCHANGED <<chain, registered, poller, epoch, timer, seen, purge, topic, ledger, excuse,
                 astray, resets, faults>>

(* The scan of history fails: the listener goes on without it.             *)
HistoryFails(e) ==
  /\ At(e, "history")
  /\ Fault
  /\ Excuse({ev[1] : ev \in DepositsIn(0, worker[e].head)}, "failed")
  /\ worker' = [worker EXCEPT ![e].stage = "idle", ![e].live = TRUE]
  /\ UNCHANGED <<chain, registered, poller, epoch, timer, seen, purge, topic, ledger, astray,
                 resets>>

-----------------------------------------------------------------------------
(* processDeposit, for each event of a scan.                               *)

(* The connection was replaced: its block handler returns between events.  *)
Stale(e) == worker[e].live /\ e # epoch

Return(e) ==
  /\ At(e, "each") /\ worker[e].todo # {} /\ Stale(e)
  /\ worker' = [worker EXCEPT ![e].todo = {}, ![e].stage = "idle"]
  /\ UNCHANGED <<chain, registered, poller, epoch, timer, seen, purge, topic, ledger, excuse,
                 astray, resets, faults>>

(* After history the block handler is registered.                          *)
EndScan(e) ==
  /\ At(e, "each") /\ worker[e].todo = {}
  /\ worker' = [worker EXCEPT ![e].stage = "idle", ![e].live = TRUE]
  /\ UNCHANGED <<chain, registered, poller, epoch, timer, seen, purge, topic, ledger, excuse,
                 astray, resets, faults>>

\* Mutation: the block handler does not look at the epoch between events.
InEachAnyEpoch(e) == At(e, "each") /\ worker[e].todo # {}

InEach(e) == At(e, "each") /\ worker[e].todo # {} /\ ~Stale(e)

PassOver(e, why) == NextEvent(e) /\ Excuse({Tx(e)}, why)

(* seenTxHashes has the transaction.                                       *)
Remembered(e) ==
  /\ InEach(e) /\ Tx(e) \in Range(seen)
  /\ IF rows[Tx(e)] = 0 /\ ~Underway(Tx(e))
       THEN PassOver(e, "remembered")
       ELSE NextEvent(e) /\ UNCHANGED excuse
  /\ UNCHANGED <<chain, registered, poller, epoch, timer, seen, purge, topic, ledger, astray,
                 resets, faults>>

StartEvent(e) ==
  /\ InEach(e) /\ Tx(e) \notin Range(seen)
  /\ Goto(e, "lookup")
  /\ UNCHANGED <<chain, registered, poller, epoch, timer, seen, purge, topic, ledger, excuse,
                 astray, resets, faults>>

\* Mutation: the memory is not bounded.
TrackAll(tx) == seen' = IF tx \in Range(seen) THEN seen ELSE Append(seen, tx)

(* trackTxHash: the oldest is dropped when the memory is full.             *)
Track(tx) ==
  LET kept == IF Len(seen) < CacheSize THEN seen ELSE Tail(seen) IN
  seen' = IF tx \in Range(kept) THEN kept ELSE Append(kept, tx)

(* isTxHashAlreadyDeposited and getUserIdByWalletAddress.                  *)
LookUp(e) ==
  /\ At(e, "lookup")
  /\ \/ /\ rows[Tx(e)] # 0
        /\ Track(Tx(e)) /\ NextEvent(e) /\ UNCHANGED excuse
     \/ /\ rows[Tx(e)] = 0 /\ ~registered
        /\ PassOver(e, "unknown") /\ UNCHANGED seen
     \/ /\ rows[Tx(e)] = 0 /\ registered
        /\ Goto(e, "send") /\ UNCHANGED <<seen, excuse>>
  /\ UNCHANGED <<chain, registered, poller, epoch, timer, purge, topic, ledger, astray, resets,
                 faults>>

Publish(e) ==
  /\ topic' = Append(topic, Event(e))
  /\ worker' = [worker EXCEPT ![e].stage = "track",
                             ![e].late = IF Stale(e) THEN @ + 1 ELSE @]

Send(e) ==
  /\ At(e, "send")
  /\ Publish(e)
  /\ Excuse({Tx(e)}, "none")
  /\ UNCHANGED <<chain, registered, poller, epoch, timer, seen, purge, ledger, astray, resets,
                 faults>>

(* A query or the send fails; a send that fails may have been stored.      *)
EventFails(e) ==
  /\ worker[e].stage \in {"lookup", "send"}
  /\ Fault
  /\ PassOver(e, "failed")
  /\ \/ UNCHANGED topic
     \/ At(e, "send") /\ topic' = Append(topic, Event(e))
  /\ UNCHANGED <<chain, registered, poller, epoch, timer, seen, purge, ledger, astray, resets>>

AfterSend(e) ==
  /\ At(e, "track")
  /\ Track(Tx(e)) /\ NextEvent(e)
  /\ UNCHANGED <<chain, registered, poller, epoch, timer, purge, topic, ledger, excuse, astray,
                 resets, faults>>

-----------------------------------------------------------------------------
(* The block handler: one block at a time, blockProcessing.                *)

(* The provider's poll: its first answer is where it starts, and is not    *)
(* announced; later each number above the last one is, once.               *)
Poll ==
  /\ epoch \in Epochs /\ worker[epoch].live
  /\ poller.last # Height
  /\ poller' = IF poller.last = NoPoll.last
                 THEN [poller EXCEPT !.last = Height, !.behind = worker[epoch].head < Height]
                 ELSE [poller EXCEPT !.last = Height,
                          !.told = @ \o [i \in 1..Height - poller.last |-> poller.last + i]]
  /\ UNCHANGED <<chain, registered, epoch, timer, worker, seen, purge, topic, ledger,
                 excuse, astray, resets, faults>>

(* The next number announced: blocks above the head up to it are scanned.  *)
Block(e) ==
  /\ At(e, "idle") /\ worker[e].live /\ e = epoch
  /\ poller.told # <<>>
  /\ poller' = [poller EXCEPT !.told = Tail(@)]
  /\ LET n == Head(poller.told) IN
       worker' = IF n <= worker[e].head THEN worker
                 ELSE [worker EXCEPT ![e].stage = "query", ![e].from = worker[e].head + 1,
                                     ![e].head = n]
  /\ UNCHANGED <<chain, registered, epoch, timer, seen, purge, topic, ledger, excuse,
                 astray, resets, faults>>

Query(e) ==
  /\ At(e, "query")
  /\ worker' = [worker EXCEPT ![e].stage = IF Stale(e) THEN "idle" ELSE "each",
                   ![e].todo = IF Stale(e) THEN {}
                               ELSE DepositsIn(worker[e].from, worker[e].head)]
  /\ poller' = IF Stale(e) THEN poller ELSE [poller EXCEPT !.behind = FALSE]
  /\ UNCHANGED <<chain, registered, epoch, timer, seen, purge, topic, ledger, excuse,
                 astray, resets, faults>>

\* Mutation: the head stays where it is, and the range is not scanned again.
QueryFailsForGood(e) ==
  /\ At(e, "query")
  /\ Fault
  /\ Goto(e, "idle")
  /\ UNCHANGED poller
  /\ UNCHANGED <<chain, registered, epoch, timer, seen, purge, topic, ledger, excuse,
                 astray, resets>>

(* The head goes back; the range is scanned again with the next block.     *)
QueryFails(e) ==
  /\ At(e, "query")
  /\ Fault
  /\ worker' = [worker EXCEPT ![e].stage = "idle", ![e].head = worker[e].from - 1]
  /\ poller' = IF Stale(e) THEN poller ELSE [poller EXCEPT !.behind = TRUE]
  /\ UNCHANGED <<chain, registered, epoch, timer, seen, purge, topic, ledger, excuse,
                 astray, resets>>

(* The provider reports an error: its listeners are removed, and it polls  *)
(* no more.                                                                *)
LoseConnection ==
  /\ epoch \in Epochs /\ worker[epoch].live /\ epoch + 2 <= MaxEpoch
  /\ Fault
  /\ epoch' = epoch + 1 /\ timer' = TRUE
  /\ poller' = NoPoll
  /\ UNCHANGED <<chain, registered, worker, seen, purge, topic, ledger, excuse, astray,
                 resets>>

(* The process is killed and starts again; an open transaction is undone.  *)
Restart ==
  /\ Fault
  /\ epoch' = 0 /\ timer' = TRUE
  /\ worker' = [e \in Epochs |-> NoWorker]
  /\ poller' = NoPoll
  /\ seen' = <<>> /\ purge' = NoPurge
  /\ UNCHANGED <<chain, registered, topic, ledger, excuse, astray, resets>>

-----------------------------------------------------------------------------
Connecting(e) ==
  \/ ReadHead(e) \/ ReadMax(e) \/ PurgeDelete(e) \/ PurgeSum(e) \/ PurgeCommit(e)
  \/ History(e)
Processing(e) ==
  \/ Return(e) \/ EndScan(e) \/ Remembered(e) \/ StartEvent(e) \/ LookUp(e) \/ Send(e)
  \/ AfterSend(e)
Failing(e) ==
  \/ ConnectFails(e) \/ PurgeFails(e) \/ HistoryFails(e) \/ EventFails(e) \/ QueryFails(e)

Work(e) == Connecting(e) \/ Processing(e) \/ Block(e) \/ Query(e)

World == (\E d \in Deposits \cup {NoDeposit} : Mine(d)) \/ Reset \/ Register
Listener == Listen \/ Poll \/ \E e \in Epochs : Work(e)
Failures == (\E e \in Epochs : Failing(e)) \/ LoseConnection \/ Restart

Next == World \/ Record \/ RecordLoss \/ Listener \/ Failures

Spec == Init /\ [][Next]_vars

(* The process does what it can: its timer fires, its calls are answered   *)
(* or fail, and the provider polls.                                        *)
FairSpec == Spec /\ WF_vars(Listener) /\ WF_vars(Record)

-----------------------------------------------------------------------------
Report == Deposits \X (1..MaxHeight)
Why == {"none", "failed", "unknown", "remembered"}

(* Kinds and bounds: the memory never outgrows its bound, a worker's tasks *)
(* are deposits of the range it scans, the balance is not negative.        *)
TypeOK ==
  /\ chain \in Seq(Deposits \cup {NoDeposit}) /\ Height <= MaxHeight
  /\ registered \in BOOLEAN /\ timer \in BOOLEAN
  /\ astray \in BOOLEAN /\ exact \in BOOLEAN
  /\ epoch \in 0..MaxEpoch
  /\ worker \in [Epochs -> [stage : Stage, from : Nat, head : Nat, live : BOOLEAN,
                           todo : SUBSET Report, late : Nat]]
  /\ \A e \in Epochs : \A ev \in worker[e].todo : ev[2] \in worker[e].from..worker[e].head
  /\ poller \in [last : -1..MaxHeight, told : Seq(1..MaxHeight), behind : BOOLEAN]
  /\ seen \in Seq(Deposits) /\ Len(seen) <= CacheSize
  /\ purge \in [doomed : SUBSET Deposits, left : SUBSET Deposits, lost : 0..MaxLost]
  /\ topic \in Seq(Report)
  /\ rows \in [Deposits -> 0..MaxHeight]
  /\ lost \in 0..MaxLost /\ balance \in Nat
  /\ excuse \in [Deposits -> Why]
  /\ resets \in 0..MaxResets /\ faults \in 0..MaxFaults

(* However often a deposit is published - by two connections, before and   *)
(* after a restart, from a chain mined anew - the balance counts it once,  *)
(* and the purge loses no row of the consumer's it does not overwrite.     *)
CanonicalBalance == exact => balance = Opening + Total(Recorded) - lost

(* A deposit up to the head of the connection was published since, or has  *)
(* its row, or there was a reason to pass it over: its processing failed,  *)
(* its player was unknown, or, once the chain was reset, a memory of it.   *)
NothingOverlooked ==
  epoch \in Epochs /\ worker[epoch].live /\ At(epoch, "idle") /\ ~astray =>
    \A i \in 1..Lower(worker[epoch].head, Height) :
      \/ chain[i] = NoDeposit
      \/ rows[chain[i]] # 0 \/ Underway(chain[i])
      \/ excuse[chain[i]] \in {"failed", "unknown"}
      \/ excuse[chain[i]] = "remembered" /\ resets > 0

(* The block handler of a connection that was replaced publishes at most   *)
(* the one deposit it had in hand.                                         *)
StaleHandlersStop == \A e \in Epochs : worker[e].late <= 1

(* The blocks above the head wait for the next block: the provider told of *)
(* all there are, and the scan of them failed or their numbers came with   *)
(* its first answer.                                                       *)
AwaitsBlock(i) ==
  /\ epoch \in Epochs /\ worker[epoch].live /\ At(epoch, "idle")
  /\ i > worker[epoch].head
  /\ poller.behind /\ poller.told = <<>> /\ poller.last = Height

(* Every deposit on the chain is recorded in the end, or was passed over   *)
(* for a reason, or waits for the next block, or belongs to a chain that   *)
(* was reset behind the listener's back.                                   *)
DepositsAreRecorded ==
  []<>(\/ astray
       \/ \A i \in 1..Height :
            \/ chain[i] = NoDeposit \/ rows[chain[i]] # 0
            \/ excuse[chain[i]] # "none"
            \/ AwaitsBlock(i))
=============================================================================
