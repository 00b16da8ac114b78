-------------------------- MODULE EvmListenerProofs --------------------------
(***************************************************************************)
(* Proofs about EvmListener, for any finite set of deposits, any amounts,  *)
(* size of the memory, height of the chain, resets and faults.             *)
(***************************************************************************)
EXTENDS EvmListener, UnitSumsProofs, SequenceTheorems

-----------------------------------------------------------------------------
(* The inductive invariant.                                                *)

(* The stages of a worker whose scan began, and of one that connects.      *)
Connected == {"each", "lookup", "send", "track"}
Early == {"head", "max", "delete", "sum", "commit", "history"}

(* The worker that is not live yet is that of the current connection, and  *)
(* then no call of listen is scheduled.                                    *)
EpochInv ==
  \A e \in Epochs :
    /\ e > epoch => worker[e] = NoWorker
    /\ worker[e].stage # "none" /\ ~worker[e].live => e = epoch /\ ~timer

(* What a worker's record holds at each stage.                             *)
StageInv ==
  \A e \in Epochs : LET w == worker[e] IN
    /\ w.live => w.stage \in Connected \cup {"idle", "query"}
    /\ w.stage \in {"idle", "query"} => w.live
    /\ w.stage \in Early \cup {"none", "idle", "query"} => w.todo = {}
    /\ w.stage \in Early \cup {"none"} => w.from = 0
    /\ w.stage \in {"lookup", "send", "track"} => w.todo # {}
    /\ w.stage = "query" => w.from > 0 /\ w.from <= w.head

(* A worker that published since it was replaced has one event in hand at  *)
(* most, and takes up no other.                                            *)
LateInv ==
  \A e \in Epochs :
    worker[e].late > 0 => /\ worker[e].late = 1 /\ worker[e].live /\ e < epoch
                          /\ worker[e].stage \in {"track", "each", "idle"}

(* Only a live connection polls, and then no call of listen is scheduled;  *)
(* since the head was read no block was announced that there is not.       *)
Live == epoch \in Epochs /\ worker[epoch].live
ToldInv ==
  /\ IF Live THEN ~timer ELSE poller = NoPoll
  /\ resets = 0 => ~astray
  /\ ~astray => \A i \in DOMAIN poller.told : poller.told[i] <= Height

(* On a chain that was never reset no report is of a block beyond it, nor  *)
(* of one beyond the head that the current connection has just read.       *)
Within(h) == /\ \A d \in Deposits : rows[d] <= h
             /\ \A i \in DOMAIN topic : topic[i][2] <= h
HeightInv ==
  resets = 0 =>
    /\ Within(Height)
    /\ \A e \in Epochs : worker[e].head <= Height
    /\ \A e \in Epochs : worker[e].stage = "max" =>
         /\ Within(worker[e].head)
         /\ \A old \in Epochs : worker[old].head <= worker[e].head
    /\ \A e \in Epochs : worker[e].stage \notin {"delete", "sum", "commit"}

(* What was remembered was published, unless the chain was reset.          *)
Published(d) == rows[d] # 0 \/ Underway(d)
MemoryInv ==
  resets = 0 =>
    /\ \A d \in Deposits : d \in Range(seen) => Published(d)
    /\ \A e \in Epochs : worker[e].stage = "track" => Published(Tx(e))

(* Of the blocks the current connection has scanned, what is not accounted *)
(* for is among its tasks.                                                 *)
Accounted(d) == \/ d = NoDeposit
                \/ rows[d] # 0 \/ Underway(d)
                \/ excuse[d] \in {"failed", "unknown"}
                \/ excuse[d] = "remembered" /\ resets > 0
ScanInv ==
  ~astray => \A e \in Epochs : e = epoch => LET w == worker[e] IN
    /\ w.stage \notin {"none", "head"} => w.head <= Height
    /\ w.stage \in Connected =>
         \A i \in 1..w.head : Accounted(chain[i]) \/ <<chain[i], i>> \in w.todo
    /\ w.stage = "idle" => \A i \in 1..w.head : Accounted(chain[i])
    /\ w.stage = "query" => \A i \in 1..w.from - 1 : Accounted(chain[i])
    /\ w.stage = "track" => Published(Tx(e))

(* The records of workers.                                                 *)
WorkerSet == [stage : Stage, from : Nat, head : Nat, live : BOOLEAN,
              todo : SUBSET Report, late : Nat]

(* The parts of the type invariant.                                        *)
ChainType ==
  /\ chain \in Seq(Deposits \cup {NoDeposit}) /\ Height <= MaxHeight
  /\ registered \in BOOLEAN /\ timer \in BOOLEAN
  /\ astray \in BOOLEAN /\ exact \in BOOLEAN
  /\ epoch \in 0..MaxEpoch
  /\ resets \in 0..MaxResets /\ faults \in 0..MaxFaults
WorkerType ==
  /\ worker \in [Epochs -> WorkerSet]
  /\ \A e \in Epochs : \A ev \in worker[e].todo : ev[2] \in worker[e].from..worker[e].head
MemoryType == seen \in Seq(Deposits) /\ Len(seen) <= CacheSize
PurgeType ==
  purge \in [doomed : SUBSET Deposits, left : SUBSET Deposits, lost : 0..MaxLost]
LedgerType ==
  /\ rows \in [Deposits -> 0..MaxHeight]
  /\ lost \in 0..MaxLost /\ balance \in Nat
TopicType == topic \in Seq(Report)
PollerType ==
  poller \in [last : -1..MaxHeight, told : Seq(1..MaxHeight), behind : BOOLEAN]
ExcuseType == excuse \in [Deposits -> Why]

Shape == TypeOK /\ EpochInv /\ StageInv

IInv ==
  Shape /\ LateInv /\ ToldInv /\ CanonicalBalance /\ HeightInv /\ MemoryInv /\ ScanInv

-----------------------------------------------------------------------------
(* The operators the actions are built from.                               *)

(* The bounds are naturals.                                                *)
LEMMA Bounds ==
  /\ CacheSize \in Nat /\ CacheSize > 0
  /\ MaxHeight \in Nat /\ MaxEpoch \in Nat /\ MaxLost \in Nat /\ MaxResets \in Nat
  /\ MaxFaults \in Nat
BY BoundsAssumption

(* Stages the steps below go to.                                           *)
LEMMA Stages ==
  "max" \in Stage /\ "each" \in Stage /\ "idle" \in Stage /\ "track" \in Stage
BY DEF Stage

(* The parts make up the type invariant.                                   *)
LEMMA TypeParts ==
  TypeOK <=> /\ ChainType /\ WorkerType /\ MemoryType /\ PurgeType /\ LedgerType
             /\ TopicType /\ ExcuseType /\ PollerType
BY DEF TypeOK, ChainType, WorkerType, MemoryType, PurgeType, LedgerType, TopicType,
       ExcuseType, PollerType, WorkerSet

(* The event in hand is one of those to process, a report of a deposit in  *)
(* the range of the scan.                                                  *)
LEMMA EventFacts ==
  ASSUME WorkerType, NEW e \in Epochs, worker[e].todo # {}
  PROVE  /\ Event(e) \in worker[e].todo /\ Event(e) \in Report
         /\ Tx(e) \in Deposits /\ Event(e)[2] \in 1..MaxHeight
         /\ Event(e) = <<Tx(e), Event(e)[2]>>
         /\ Event(e)[2] \in worker[e].from..worker[e].head
<1> DEFINE T == {ev[2] : ev \in worker[e].todo}
<1>1. worker[e].todo \subseteq Report
  BY DEF WorkerType, WorkerSet
<1>2. T \in SUBSET Nat /\ T # {}
  BY <1>1, BoundsAssumption DEF Report
<1> HIDE DEF T
<1>3. PICK n \in T : \A m \in T : n <= m
  BY <1>2, Least
<1>4. \E ev \in worker[e].todo : \A other \in worker[e].todo : ev[2] <= other[2]
  BY <1>3 DEF T
<1>5. Event(e) \in worker[e].todo
  BY <1>4 DEF Event
<1>6. Event(e) \in Report
  BY <1>1, <1>5
<1>7. Tx(e) \in Deposits /\ Event(e)[2] \in 1..MaxHeight /\ Event(e) = <<Tx(e), Event(e)[2]>>
  BY <1>6 DEF Report, Tx
<1>8. Event(e)[2] \in worker[e].from..worker[e].head
  BY <1>5 DEF WorkerType
<1>9. QED
  BY <1>5, <1>6, <1>7, <1>8

(* The height of the chain is within the bound.                            *)
LEMMA HeightFacts ==
  ASSUME ChainType
  PROVE  /\ Height \in Nat /\ Height <= MaxHeight /\ MaxHeight \in Nat
         /\ \A i \in 1..Height : chain[i] \in Deposits \cup {NoDeposit}
BY BoundsAssumption, LenProperties, ElementOfSeq DEF ChainType, Height

(* A query returns exactly the deposits of the range, up to the height.    *)
LEMMA QueryFacts ==
  ASSUME ChainType, NEW m \in Nat, NEW n \in Nat
  PROVE  /\ DepositsIn(m, n) \subseteq Report
         /\ \A ev \in DepositsIn(m, n) : ev[2] \in m..n
         /\ \A ev \in DepositsIn(m, n) : ev[1] \in Deposits
         /\ \A i \in 1..n : i >= m /\ i <= Height /\ chain[i] # NoDeposit =>
                               <<chain[i], i>> \in DepositsIn(m, n)
<1>1. Height \in Nat /\ Height <= MaxHeight /\ MaxHeight \in Nat
      /\ \A i \in 1..Height : chain[i] \in Deposits \cup {NoDeposit}
  BY HeightFacts
<1>2. Lower(n, Height) \in Nat /\ Lower(n, Height) <= n /\ Lower(n, Height) <= Height
  BY <1>1 DEF Lower
<1>3. \A i \in {k \in 1..Lower(n, Height) : k >= m /\ chain[k] # NoDeposit} :
        i \in 1..MaxHeight /\ i \in m..n /\ chain[i] \in Deposits
  BY <1>1, <1>2
<1>4. \A i \in 1..n : i >= m /\ i <= Height /\ chain[i] # NoDeposit =>
                         <<chain[i], i>> \in DepositsIn(m, n)
  BY <1>1 DEF DepositsIn, Lower
<1>5. QED
  BY <1>3, <1>4 DEF DepositsIn, Report

(* The memory keeps to its bound, and gains at most the transaction.       *)
LEMMA TrackFacts ==
  ASSUME MemoryType, NEW tx \in Deposits, Track(tx)
  PROVE  /\ MemoryType'
         /\ \A d \in Range(seen') : d = tx \/ d \in Range(seen)
<1>1. CacheSize \in Nat \ {0} /\ Len(seen) \in Nat /\ seen \in Seq(Deposits)
  BY BoundsAssumption, LenProperties DEF MemoryType
<1> DEFINE kept == IF Len(seen) < CacheSize THEN seen ELSE Tail(seen)
<1>2. /\ kept \in Seq(Deposits) /\ Len(kept) < CacheSize
      /\ \A d \in Range(kept) : d \in Range(seen)
  <2>1. CASE Len(seen) < CacheSize
    BY <1>1, <2>1
  <2>2. CASE ~(Len(seen) < CacheSize)
    <3>1. seen # <<>> /\ Len(seen) = CacheSize
      BY <1>1, <2>2, EmptySeq DEF MemoryType
    <3>2. /\ Tail(seen) \in Seq(Deposits) /\ Len(Tail(seen)) = Len(seen) - 1
          /\ \A i \in 1..Len(Tail(seen)) : Tail(seen)[i] = seen[i + 1]
      BY <1>1, <3>1, HeadTailProperties
    <3>3. DOMAIN seen = 1..Len(seen) /\ DOMAIN Tail(seen) = 1..Len(Tail(seen))
      BY <1>1, <3>2, LenProperties
    <3>4. \A d \in Range(Tail(seen)) : d \in Range(seen)
      BY <1>1, <3>2, <3>3 DEF Range
    <3>5. QED
      BY <1>1, <2>2, <3>1, <3>2, <3>4
  <2>3. QED
    BY <2>1, <2>2
<1>3. seen' = IF tx \in Range(kept) THEN kept ELSE Append(kept, tx)
  BY DEF Track
<1> HIDE DEF kept
<1>4. CASE tx \in Range(kept)
  BY <1>2, <1>3, <1>4, <1>1, LenProperties DEF MemoryType
<1>5. CASE tx \notin Range(kept)
  <2>1. seen' = Append(kept, tx)
    BY <1>3, <1>5
  <2>2. /\ seen' \in Seq(Deposits) /\ Len(seen') = Len(kept) + 1
        /\ \A i \in 1..Len(kept) : seen'[i] = kept[i]
        /\ seen'[Len(kept) + 1] = tx
    BY <1>2, <2>1, AppendProperties
  <2>3. /\ Len(kept) \in Nat /\ DOMAIN kept = 1..Len(kept)
        /\ DOMAIN (seen') = 1..Len(kept) + 1
    BY <1>2, <2>2, LenProperties
  <2>4. \A d \in Range(seen') : d = tx \/ d \in Range(kept)
    BY <2>2, <2>3 DEF Range
  <2>5. QED
    BY <1>1, <1>2, <2>2, <2>3, <2>4 DEF MemoryType
<1>6. QED
  BY <1>4, <1>5

(* Two sets of different deposits add up separately.                       *)
LEMMA TotalUnion ==
  ASSUME NEW E \in SUBSET Deposits, NEW F \in SUBSET Deposits, E \cap F = {}
  PROVE  Total(E \cup F) = Total(E) + Total(F)
<1>1. IsFiniteSet(E) /\ IsFiniteSet(F)
  BY DepositsAssumption, FS_Subset
<1>2. \A d \in E \cup F : Amount[d] \in Nat
  BY AmountsAssumption
<1>3. QED
  BY <1>1, <1>2, SumOverUnion DEF Total

(* What a set of deposits adds up to.                                      *)
LEMMA TotalFacts ==
  ASSUME NEW E \in SUBSET Deposits
  PROVE  /\ Total(E) \in Nat
         /\ \A d \in Deposits \ E : Total(E \cup {d}) = Total(E) + Amount[d]
<1>1. IsFiniteSet(E)
  BY DepositsAssumption, FS_Subset
<1>2. \A d \in Deposits : Amount[d] \in Nat
  BY AmountsAssumption
<1>3. [d \in E |-> Amount[d]] \in [E -> Nat]
  BY <1>2
<1>4. Total(E) \in Nat
  BY <1>1, <1>3, SumOverType DEF Total
<1>5. ASSUME NEW d \in Deposits \ E
      PROVE  Total(E \cup {d}) = Total(E) + Amount[d]
  <2>1. {d} \in SUBSET Deposits /\ E \cap {d} = {}
    OBVIOUS
  <2>2. Total(E \cup {d}) = Total(E) + Total({d})
    BY <2>1, TotalUnion
  <2>3. Total({d}) = Amount[d]
    BY <1>2, SumOverFew DEF Total
  <2>4. QED
    BY <2>2, <2>3
<1>6. QED
  BY <1>4, <1>5

(* A message on its way is a report; those left keep their places.         *)
LEMMA TopicFacts ==
  ASSUME TopicType, topic # <<>>
  PROVE  /\ Head(topic) \in Report /\ Head(topic)[1] \in Deposits
         /\ Head(topic)[2] \in 1..MaxHeight /\ Head(topic) = topic[1]
         /\ Tail(topic) \in Seq(Report)
         /\ DOMAIN topic = 1..Len(topic) /\ Len(topic) \in Nat /\ Len(topic) > 0
         /\ DOMAIN Tail(topic) = 1..Len(topic) - 1
         /\ \A i \in 1..Len(topic) - 1 : Tail(topic)[i] = topic[i + 1]
<1>1. topic \in Seq(Report)
  BY DEF TopicType
<1>2. Head(topic) \in Report /\ Tail(topic) \in Seq(Report) /\ Head(topic) = topic[1]
      /\ Len(Tail(topic)) = Len(topic) - 1
      /\ \A i \in 1..Len(Tail(topic)) : Tail(topic)[i] = topic[i + 1]
  BY <1>1, HeadTailProperties
<1>3. Len(topic) \in Nat /\ Len(topic) > 0 /\ DOMAIN topic = 1..Len(topic)
      /\ DOMAIN Tail(topic) = 1..Len(Tail(topic))
  BY <1>1, <1>2, LenProperties, EmptySeq
<1>4. QED
  BY <1>2, <1>3 DEF Report

(* A message more on the topic.                                            *)
LEMMA AppendFacts ==
  ASSUME TopicType, NEW ev \in Report
  PROVE  /\ Append(topic, ev) \in Seq(Report)
         /\ DOMAIN topic = 1..Len(topic) /\ Len(topic) \in Nat
         /\ DOMAIN Append(topic, ev) = 1..Len(topic) + 1
         /\ \A i \in 1..Len(topic) : Append(topic, ev)[i] = topic[i]
         /\ Append(topic, ev)[Len(topic) + 1] = ev
<1>1. topic \in Seq(Report)
  BY DEF TopicType
<1>2. /\ Append(topic, ev) \in Seq(Report) /\ Len(Append(topic, ev)) = Len(topic) + 1
      /\ \A i \in 1..Len(topic) : Append(topic, ev)[i] = topic[i]
      /\ Append(topic, ev)[Len(topic) + 1] = ev
  BY <1>1, AppendProperties
<1>3. DOMAIN topic = 1..Len(topic) /\ Len(topic) \in Nat
      /\ DOMAIN Append(topic, ev) = 1..Len(Append(topic, ev))
  BY <1>1, <1>2, LenProperties
<1>4. QED
  BY <1>2, <1>3

(* The numbers above m up to n: none if n is not above m.                  *)
LEMMA NewsFacts ==
  ASSUME NEW m \in Nat, NEW n \in Nat, NEW top \in Nat, n <= top
  PROVE  /\ [i \in 1..n - m |-> m + i] \in Seq(1..top)
         /\ \A j \in DOMAIN [i \in 1..n - m |-> m + i] :
              [i \in 1..n - m |-> m + i][j] <= n
<1>1. PICK k \in Nat : 1..n - m = 1..k /\ (k = 0 \/ m + k = n)
  <2>1. CASE n < m
    <3>1. 1..n - m = 1..0
      BY <2>1
    <3>2. QED
      BY <3>1
  <2>2. CASE n >= m
    BY <2>2
  <2>3. QED
    BY <2>1, <2>2
<1>2. [i \in 1..k |-> m + i] \in [1..k -> 1..top]
  BY <1>1
<1>3. [i \in 1..k |-> m + i] \in Seq(1..top)
  BY <1>2, SeqDef
<1>4. \A i \in 1..k : m + i <= n
  BY <1>1
<1>5. QED
  BY <1>1, <1>3, <1>4

(* Only these change what the poller holds.                                *)
LEMMA PollerSteps ==
  [Next]_vars => \/ UNCHANGED poller
                 \/ Poll \/ LoseConnection \/ Restart
                 \/ \E e \in Epochs : Block(e) \/ Query(e) \/ QueryFails(e)
<1> SUFFICES ASSUME [Next]_vars
             PROVE  \/ UNCHANGED poller
                    \/ Poll \/ LoseConnection \/ Restart
                    \/ \E e \in Epochs : Block(e) \/ Query(e) \/ QueryFails(e)
  OBVIOUS
<1>1. CASE World \/ Record \/ RecordLoss \/ Listen \/ UNCHANGED vars
  BY <1>1 DEF World, Mine, Reset, Register, Record, RecordLoss, Listen, listener, vars
<1>2. ASSUME NEW e \in Epochs, Connecting(e) PROVE UNCHANGED poller
  BY <1>2 DEF Connecting, ReadHead, ReadMax, PurgeDelete, PurgeSum, PurgeCommit, History
<1>3. ASSUME NEW e \in Epochs, Processing(e) PROVE UNCHANGED poller
  BY <1>3
     DEF Processing, Return, EndScan, Remembered, StartEvent, LookUp, Send, AfterSend
<1>4. ASSUME NEW e \in Epochs, Failing(e), ~QueryFails(e) PROVE UNCHANGED poller
  BY <1>4 DEF Failing, ConnectFails, PurgeFails, HistoryFails, EventFails
<1>5. QED
  BY <1>1, <1>2, <1>3, <1>4 DEF Next, Listener, Failures, Work

(* The block handler takes the next announcement, and does nothing or      *)
(* scans up to that block.                                                 *)
ScansTo(e, n) ==
  /\ n = Head(poller.told) /\ n \in 1..MaxHeight /\ ~(n <= worker[e].head)
  /\ worker' = [worker EXCEPT ![e].stage = "query", ![e].from = worker[e].head + 1,
                              ![e].head = n]
LEMMA BlockFacts ==
  ASSUME PollerType, NEW e \in Epochs, Block(e)
  PROVE  /\ poller' = [poller EXCEPT !.told = Tail(@)]
         /\ poller.told \in Seq(1..MaxHeight) /\ poller.told # <<>>
         /\ worker' = worker \/ ScansTo(e, Head(poller.told))
<1>1. poller.told \in Seq(1..MaxHeight) /\ poller.told # <<>>
      /\ poller' = [poller EXCEPT !.told = Tail(@)]
  BY DEF PollerType, Block
<1>2. Head(poller.told) \in 1..MaxHeight
  BY <1>1, HeadTailProperties
<1>3. CASE Head(poller.told) <= worker[e].head
  BY <1>1, <1>3 DEF Block
<1>4. CASE ~(Head(poller.told) <= worker[e].head)
  <2>1. worker' = [worker EXCEPT ![e].stage = "query",
                      ![e].from = worker[e].head + 1, ![e].head = Head(poller.told)]
    BY <1>4 DEF Block
  <2>2. QED
    BY <1>1, <1>2, <1>4, <2>1 DEF ScansTo
<1>5. QED
  BY <1>3, <1>4

(* Unless the chain was reset since the head was read, the block is there. *)
LEMMA BlockScans ==
  ASSUME PollerType, ChainType, WorkerType, ToldInv, ~astray, NEW e \in Epochs, Block(e)
  PROVE  \/ worker' = worker
         \/ \E n \in worker[e].head + 1..Height :
              worker' = [worker EXCEPT ![e].stage = "query", ![e].from = worker[e].head + 1,
                                       ![e].head = n]
<1>1. Height \in Nat /\ worker[e].head \in Nat /\ MaxHeight \in Nat
  BY HeightFacts DEF WorkerType, WorkerSet
<1>2. poller.told \in Seq(1..MaxHeight) /\ poller.told # <<>>
  BY BlockFacts
<1>3. Head(poller.told) = poller.told[1] /\ 1 \in DOMAIN poller.told
  BY <1>2, LenProperties, EmptySeq
<1>4. Head(poller.told) <= Height
  BY <1>3 DEF ToldInv
<1>5. ASSUME ScansTo(e, Head(poller.told))
      PROVE  \E n \in worker[e].head + 1..Height :
               worker' = [worker EXCEPT ![e].stage = "query",
                            ![e].from = worker[e].head + 1, ![e].head = n]
  <2>1. Head(poller.told) \in worker[e].head + 1..Height
    BY <1>1, <1>4, <1>5 DEF ScansTo
  <2>2. QED
    BY <1>5, <2>1 DEF ScansTo
<1>6. QED
  BY <1>5, BlockFacts

-----------------------------------------------------------------------------
(* The type invariant.                                                     *)

(* The parts hold in the initial states.                                   *)
LEMMA ShapeInit == Init => Shape
<1> SUFFICES ASSUME Init PROVE Shape
  OBVIOUS
<1>1. ChainType
  <2>1. chain \in Seq(Deposits \cup {NoDeposit}) /\ Height = 0
    BY EmptySeq DEF Init, Height
  <2>2. resets \in 0..MaxResets
    BY Bounds DEF Init, FirstStart, LaterStart
  <2>3. registered \in BOOLEAN
    BY DEF Init, FirstStart, LaterStart
  <2>4. timer \in BOOLEAN /\ astray \in BOOLEAN /\ exact \in BOOLEAN
    BY DEF Init
  <2>5. epoch \in 0..MaxEpoch /\ faults \in 0..MaxFaults
    BY Bounds DEF Init
  <2>6. QED
    BY <2>1, <2>2, <2>3, <2>4, <2>5, Bounds DEF ChainType
<1>2. WorkerType
  BY DEF Init, WorkerType, WorkerSet, NoWorker, Stage, Report
<1>3. MemoryType /\ TopicType
  BY Bounds, EmptySeq DEF Init, MemoryType, TopicType
<1>4. PurgeType /\ ExcuseType
  BY Bounds DEF Init, PurgeType, NoPurge, ExcuseType, Why
<1>5. LedgerType
  <2>1. rows \in [Deposits -> 0..MaxHeight]
    BY Bounds DEF Init, FirstStart, LaterStart
  <2>2. Total(Recorded) \in Nat
    BY TotalFacts DEF Recorded
  <2>3. QED
    BY <2>1, <2>2, Bounds, AmountsAssumption DEF Init, LedgerType
<1>6. PollerType
  BY Bounds, EmptySeq DEF Init, PollerType, NoPoll
<1>7. EpochInv /\ StageInv
  BY DEF Init, EpochInv, StageInv, NoWorker, Connected, Early
<1>8. QED
  BY <1>1, <1>2, <1>3, <1>4, <1>5, <1>6, <1>7, TypeParts DEF Shape

(* The chain and the plain variables keep their kinds.                     *)
LEMMA ChainStep == Shape /\ [Next]_vars => ChainType'
<1> SUFFICES ASSUME Shape, [Next]_vars PROVE ChainType'
  OBVIOUS
<1>p. /\ ChainType /\ WorkerType /\ MemoryType /\ PurgeType /\ LedgerType
      /\ TopicType /\ ExcuseType /\ EpochInv /\ StageInv
  BY TypeParts DEF Shape
<1>1. ASSUME NEW b \in Deposits \cup {NoDeposit}, Mine(b) PROVE ChainType'
  <2>1. Height \in Nat /\ Height < MaxHeight
    BY <1>p, <1>1, HeightFacts DEF Mine
  <2>2. chain' \in Seq(Deposits \cup {NoDeposit}) /\ Len(chain') = Height + 1
    BY <1>p, <1>1, AppendProperties DEF Mine, ChainType, Height
  <2>3. Height' <= MaxHeight
    BY <2>1, <2>2, Bounds DEF Height
  <2>4. QED
    BY <1>p, <1>1, <2>2, <2>3 DEF Mine, ChainType, listener, ledger
<1>2. ASSUME Reset PROVE ChainType'
  <2>1. Height \in Nat /\ Height <= MaxHeight
    BY <1>p, HeightFacts
  <2>2. PICK h \in 0..Height - 1 : chain' = SubSeq(chain, 1, h)
    BY <1>2 DEF Reset
  <2>3. chain' \in Seq(Deposits \cup {NoDeposit}) /\ Len(chain') = h
    BY <1>p, <2>1, <2>2, SubSeqProperties DEF ChainType, Height
  <2>4. Height' <= MaxHeight
    BY <2>1, <2>3, Bounds DEF Height
  <2>5. resets' \in 0..MaxResets
    BY <1>p, <1>2, Bounds DEF Reset, ChainType
  <2>6. QED
    BY <1>p, <1>2, <2>3, <2>4, <2>5 DEF Reset, ChainType, listener, ledger
<1>3. ASSUME Register \/ Record \/ RecordLoss PROVE ChainType'
  BY <1>3, <1>p DEF Register, Record, RecordLoss, ChainType, Height, listener, ledger
<1>4. ASSUME Listen PROVE ChainType'
  <2>1. timer' \in BOOLEAN
    BY <1>4 DEF Listen
  <2>2. epoch' \in 0..MaxEpoch
    BY <1>p, <1>4, Bounds DEF Listen, ChainType
  <2>3. QED
    BY <1>p, <1>4, <2>1, <2>2 DEF Listen, ChainType, Height, ledger
<1>5. ASSUME LoseConnection PROVE ChainType'
  BY <1>5, <1>p, Bounds
       DEF LoseConnection, Fault, ChainType, Height, Epochs, listener, ledger
<1>6. ASSUME Restart PROVE ChainType'
  BY <1>6, <1>p, Bounds
       DEF Restart, Fault, NoWorker, ChainType, Height, Epochs, listener, ledger
<1>7. ASSUME NEW e \in Epochs, PurgeCommit(e) PROVE ChainType'
  BY <1>7, <1>p DEF PurgeCommit, At, Goto, ChainType, Height, listener, ledger
<1>8. ASSUME NEW e \in Epochs, ConnectFails(e) PROVE ChainType'
  BY <1>8, <1>p, Bounds
       DEF ConnectFails, Goto, Fault, ChainType, Height, listener, ledger
<1>9. ASSUME NEW e \in Epochs, PurgeFails(e) \/ HistoryFails(e) \/ QueryFails(e)
      PROVE ChainType'
  BY <1>9, <1>p, Bounds
       DEF PurgeFails, HistoryFails, QueryFails, Goto, Fault, At, ChainType, Height,
           listener, ledger
<1>10. ASSUME NEW e \in Epochs, EventFails(e) PROVE ChainType'
  BY <1>10, <1>p, Bounds
       DEF EventFails, PassOver, NextEvent, At, Fault, ChainType, Height, listener,
           ledger
<1>11. ASSUME NEW e \in Epochs, ReadHead(e) \/ ReadMax(e) \/ PurgeDelete(e)
                \/ PurgeSum(e) \/ History(e)
       PROVE ChainType'
  BY <1>11, <1>p
       DEF ReadHead, ReadMax, PurgeDelete, PurgeSum, History, At, Goto, ChainType,
           Height, listener, ledger
<1>12. ASSUME NEW e \in Epochs, Return(e) \/ EndScan(e) \/ StartEvent(e)
                \/ Block(e) \/ Query(e)
       PROVE ChainType'
  BY <1>12, <1>p
       DEF Return, EndScan, StartEvent, Block, Query, At, InEach, Goto, ChainType,
           Height, listener, ledger
<1>13. ASSUME NEW e \in Epochs, Remembered(e) \/ LookUp(e) \/ Send(e) \/ AfterSend(e)
       PROVE ChainType'
  BY <1>13, <1>p
       DEF Remembered, LookUp, Send, AfterSend, PassOver, NextEvent, InEach, At, Goto,
           Publish, ChainType, Height, listener, ledger
<1>14. CASE Poll \/ UNCHANGED vars
  BY <1>14, <1>p DEF vars, Poll, ChainType, Height, listener, ledger
<1>15. QED
  BY <1>1, <1>2, <1>3, <1>4, <1>5, <1>6, <1>7, <1>8, <1>9, <1>10, <1>11, <1>12, <1>13,
       <1>14
       DEF Next, World, Listener, Work, Connecting, Processing, Failing, Failures

(* Workers stay of their kind, with events of the range they scan.         *)
LEMMA WorkerStep == Shape /\ [Next]_vars => WorkerType'
<1> SUFFICES ASSUME Shape, [Next]_vars PROVE WorkerType'
  OBVIOUS
<1>p. /\ ChainType /\ WorkerType /\ MemoryType /\ PurgeType /\ LedgerType
      /\ TopicType /\ ExcuseType /\ EpochInv /\ StageInv
  BY TypeParts DEF Shape
<1>1. ASSUME NEW b \in Deposits \cup {NoDeposit}, Mine(b) PROVE WorkerType'
  BY <1>1, <1>p DEF Mine, WorkerType, WorkerSet, Stage, listener, ledger
<1>2. ASSUME Record \/ Register \/ RecordLoss \/ Reset \/ LoseConnection
      PROVE WorkerType'
  BY <1>2, <1>p
       DEF Record, Register, RecordLoss, Reset, LoseConnection, Fault, WorkerType,
           WorkerSet, Stage, listener, ledger
<1>3. ASSUME Listen PROVE WorkerType'
  <2>1. epoch + 1 \in Epochs
    BY <1>p, <1>3, Bounds DEF Listen, ChainType, Epochs
  <2>2. worker' = [worker EXCEPT ![epoch + 1].stage = "head"]
    BY <1>3 DEF Listen
  <2>3. QED
    BY <1>p, <2>1, <2>2 DEF WorkerType, WorkerSet, Stage
<1>4. ASSUME Restart PROVE WorkerType'
  BY <1>4, <1>p
       DEF Restart, Fault, NoWorker, WorkerType, WorkerSet, Stage, Report, listener,
           ledger
<1>5. ASSUME NEW e \in Epochs, ReadHead(e) PROVE WorkerType'
  <2>1. Height \in Nat /\ worker[e].todo = {}
    BY <1>p, <1>5, HeightFacts DEF ReadHead, At, StageInv, Early
  <2>2. worker' \in [Epochs -> WorkerSet]
    BY <1>p, <1>5, <2>1, Stages DEF ReadHead, WorkerType, WorkerSet
  <2>3. \A x \in Epochs :
          worker'[x].todo = worker[x].todo /\ worker'[x].from = worker[x].from
          /\ (x # e => worker'[x].head = worker[x].head)
    BY <1>p, <1>5 DEF ReadHead, WorkerType, WorkerSet
  <2>4. \A x \in Epochs : \A ev \in worker'[x].todo :
          ev[2] \in worker'[x].from..worker'[x].head
    BY <1>p, <2>1, <2>3 DEF WorkerType
  <2>5. QED
    BY <2>2, <2>4 DEF WorkerType
<1>6. ASSUME NEW e \in Epochs, ReadMax(e) \/ PurgeDelete(e) \/ PurgeSum(e)
               \/ PurgeCommit(e) \/ PurgeFails(e)
      PROVE WorkerType'
  BY <1>6, <1>p
       DEF ReadMax, PurgeDelete, PurgeSum, PurgeCommit, PurgeFails, At, Goto, Fault,
           WorkerType, WorkerSet, Stage, listener, ledger
<1>7. ASSUME NEW e \in Epochs, History(e) PROVE WorkerType'
  <2>1. worker[e].head \in Nat
    BY <1>p DEF WorkerType, WorkerSet
  <2>2. /\ DepositsIn(0, worker[e].head) \subseteq Report
        /\ \A ev \in DepositsIn(0, worker[e].head) : ev[2] \in 0..worker[e].head
    BY <1>p, <2>1, QueryFacts
  <2>3. worker[e].from = 0
    BY <1>p, <1>7 DEF History, At, StageInv, Early
  <2>4. worker' \in [Epochs -> WorkerSet]
    BY <1>p, <1>7, <2>2, Stages DEF History, WorkerType, WorkerSet
  <2>5. QED
    BY <1>p, <1>7, <2>2, <2>3, <2>4 DEF History, WorkerType, WorkerSet
<1>8. ASSUME NEW e \in Epochs, ConnectFails(e) \/ HistoryFails(e) \/ EndScan(e)
               \/ StartEvent(e) \/ Return(e)
      PROVE WorkerType'
  BY <1>8, <1>p
       DEF ConnectFails, HistoryFails, EndScan, StartEvent, Return, Goto, Fault, At,
           InEach, WorkerType, WorkerSet, Stage, listener, ledger
<1>9. ASSUME NEW e \in Epochs, Block(e) PROVE WorkerType'
  <2>1. PollerType /\ worker[e].head \in Nat /\ worker[e].todo = {}
    BY <1>p, <1>9, TypeParts DEF Shape, Block, At, WorkerType, WorkerSet, StageInv, Early
  <2>2. CASE worker' = worker
    BY <1>p, <2>2 DEF WorkerType
  <2>3. CASE ScansTo(e, Head(poller.told))
    BY <1>p, <2>1, <2>3 DEF ScansTo, WorkerType, WorkerSet, Stage
  <2>4. QED
    BY <1>9, <2>1, <2>2, <2>3, BlockFacts
<1>10. ASSUME NEW e \in Epochs, Query(e) PROVE WorkerType'
  <2>1. worker[e].from \in Nat /\ worker[e].head \in Nat
    BY <1>p DEF WorkerType, WorkerSet
  <2> DEFINE found == DepositsIn(worker[e].from, worker[e].head)
  <2>2. /\ found \subseteq Report
        /\ \A ev \in found : ev[2] \in worker[e].from..worker[e].head
    BY <1>p, <2>1, QueryFacts
  <2>3. PICK now \in {"idle", "each"}, got \in {{}, found} :
          worker' = [worker EXCEPT ![e].stage = now, ![e].todo = got]
    BY <1>10 DEF Query
  <2> HIDE DEF found
  <2>4. got \subseteq Report /\ \A ev \in got : ev[2] \in worker[e].from..worker[e].head
    BY <2>2, <2>3
  <2>5. worker' \in [Epochs -> WorkerSet]
    <3>1. now \in Stage
      BY <2>3, Stages
    <3>2. QED
      BY <1>p, <2>3, <2>4, <3>1 DEF WorkerType, WorkerSet
  <2>6. QED
    BY <1>p, <2>3, <2>4, <2>5 DEF WorkerType, WorkerSet
<1>11. ASSUME NEW e \in Epochs, QueryFails(e) PROVE WorkerType'
  BY <1>11, <1>p
       DEF QueryFails, At, Fault, WorkerType, WorkerSet, Stage, StageInv, listener,
           ledger
<1>12. ASSUME NEW e \in Epochs, Remembered(e) \/ LookUp(e) PROVE WorkerType'
  BY <1>12, <1>p
       DEF Remembered, LookUp, PassOver, NextEvent, InEach, At, Goto, WorkerType,
           WorkerSet, Stage, listener, ledger
<1>13. ASSUME NEW e \in Epochs, EventFails(e) PROVE WorkerType'
  BY <1>13, <1>p
       DEF EventFails, PassOver, NextEvent, At, Fault, WorkerType, WorkerSet, Stage,
           listener, ledger
<1>14. ASSUME NEW e \in Epochs, AfterSend(e) PROVE WorkerType'
  BY <1>14, <1>p
       DEF AfterSend, NextEvent, At, WorkerType, WorkerSet, Stage, listener, ledger
<1>15. ASSUME NEW e \in Epochs, Send(e) PROVE WorkerType'
  <2>1. PICK n \in Nat :
          worker' = [worker EXCEPT ![e].stage = "track", ![e].late = n]
    <3>1. worker[e].late \in Nat /\ worker[e].late + 1 \in Nat
      BY <1>p DEF WorkerType, WorkerSet
    <3>2. QED
      BY <1>15, <3>1 DEF Send, Publish
  <2>2. worker' \in [Epochs -> WorkerSet]
    BY <1>p, <2>1, Stages DEF WorkerType, WorkerSet
  <2>3. QED
    BY <1>p, <2>1, <2>2 DEF WorkerType, WorkerSet
<1>16. CASE Poll \/ UNCHANGED vars
  BY <1>16, <1>p DEF vars, Poll, WorkerType, WorkerSet, Stage, listener, ledger
<1>17. QED
  BY <1>1, <1>2, <1>3, <1>4, <1>5, <1>6, <1>7, <1>8, <1>9, <1>10, <1>11, <1>12, <1>13,
       <1>14, <1>15, <1>16
       DEF Next, World, Listener, Work, Connecting, Processing, Failing, Failures

(* The memory keeps to its kind and its bound.                             *)
LEMMA MemoryStep == Shape /\ [Next]_vars => MemoryType'
<1> SUFFICES ASSUME Shape, [Next]_vars PROVE MemoryType'
  OBVIOUS
<1>p. /\ ChainType /\ WorkerType /\ MemoryType /\ PurgeType /\ LedgerType
      /\ TopicType /\ ExcuseType /\ EpochInv /\ StageInv
  BY TypeParts DEF Shape
<1>1. ASSUME NEW b \in Deposits \cup {NoDeposit}, Mine(b) PROVE MemoryType'
  BY <1>1, <1>p DEF Mine, MemoryType, listener, ledger
<1>2. ASSUME Register \/ Reset \/ Record
               \/ RecordLoss \/ Listen \/ LoseConnection
      PROVE MemoryType'
  BY <1>2, <1>p
       DEF Register, Reset, Record, RecordLoss, Listen, LoseConnection, Fault,
           MemoryType, listener, ledger
<1>3. ASSUME Restart PROVE MemoryType'
  BY <1>3, <1>p, Bounds, EmptySeq
       DEF Restart, Fault, NoWorker, MemoryType, listener, ledger
<1>4. ASSUME NEW e \in Epochs, ReadHead(e) \/ ReadMax(e) \/ PurgeDelete(e)
               \/ PurgeSum(e) \/ PurgeCommit(e) \/ History(e)
      PROVE MemoryType'
  BY <1>4, <1>p
       DEF ReadHead, ReadMax, PurgeDelete, PurgeSum, PurgeCommit, History, At, Goto,
           MemoryType, listener, ledger
<1>5. ASSUME NEW e \in Epochs, Return(e) \/ EndScan(e) \/ Remembered(e)
               \/ StartEvent(e) \/ Send(e) \/ Block(e)
               \/ Query(e)
      PROVE MemoryType'
  BY <1>5, <1>p
       DEF Return, EndScan, Remembered, StartEvent, Send, Block, Query, At, PassOver,
           NextEvent, InEach, Goto, Publish, MemoryType, listener, ledger
<1>6. ASSUME NEW e \in Epochs, ConnectFails(e) \/ PurgeFails(e) \/ HistoryFails(e)
               \/ EventFails(e) \/ QueryFails(e)
      PROVE MemoryType'
  BY <1>6, <1>p
       DEF ConnectFails, PurgeFails, HistoryFails, EventFails, QueryFails, Goto, Fault,
           At, PassOver, NextEvent, MemoryType, listener, ledger
<1>7. ASSUME NEW e \in Epochs, LookUp(e) PROVE MemoryType'
  <2>1. CASE UNCHANGED seen
    BY <1>p, <2>1 DEF MemoryType
  <2>2. CASE Track(Tx(e))
    <3>1. worker[e].todo # {}
      BY <1>p, <1>7 DEF LookUp, At, StageInv
    <3>2. QED
      BY <1>p, <2>2, <3>1, EventFacts, TrackFacts
  <2>3. QED
    BY <1>7, <2>1, <2>2 DEF LookUp
<1>8. ASSUME NEW e \in Epochs, AfterSend(e) PROVE MemoryType'
  <2>1. worker[e].todo # {}
    BY <1>p, <1>8 DEF AfterSend, At, StageInv
  <2>2. QED
    BY <1>p, <1>8, <2>1, EventFacts, TrackFacts DEF AfterSend
<1>9. CASE Poll \/ UNCHANGED vars
  BY <1>9, <1>p DEF vars, Poll, MemoryType, listener, ledger
<1>10. QED
  BY <1>1, <1>2, <1>3, <1>4, <1>5, <1>6, <1>7, <1>8, <1>9
       DEF Next, World, Listener, Work, Connecting, Processing, Failing, Failures

(* The transaction that purges keeps to its kind.                          *)
LEMMA PurgeStep == Shape /\ [Next]_vars => PurgeType'
<1> SUFFICES ASSUME Shape, [Next]_vars PROVE PurgeType'
  OBVIOUS
<1>p. /\ ChainType /\ WorkerType /\ MemoryType /\ PurgeType /\ LedgerType
      /\ TopicType /\ ExcuseType /\ EpochInv /\ StageInv
  BY TypeParts DEF Shape
<1>1. ASSUME NEW b \in Deposits \cup {NoDeposit}, Mine(b) PROVE PurgeType'
  BY <1>1, <1>p DEF Mine, PurgeType, listener, ledger
<1>2. ASSUME Register \/ Reset \/ Record
               \/ RecordLoss \/ Listen \/ LoseConnection
      PROVE PurgeType'
  BY <1>2, <1>p
       DEF Register, Reset, Record, RecordLoss, Listen, LoseConnection, Fault,
           PurgeType, listener, ledger
<1>3. ASSUME Restart PROVE PurgeType'
  BY <1>3, <1>p, Bounds
       DEF Restart, Fault, NoWorker, PurgeType, NoPurge, listener, ledger
<1>4. ASSUME NEW e \in Epochs, PurgeCommit(e) \/ PurgeFails(e) PROVE PurgeType'
  BY <1>4, <1>p, Bounds
       DEF PurgeCommit, PurgeFails, At, Goto, Fault, PurgeType, NoPurge, listener,
           ledger
<1>5. ASSUME NEW e \in Epochs, PurgeDelete(e) PROVE PurgeType'
  BY <1>5, <1>p DEF PurgeDelete, At, Goto, PurgeType, Recorded, listener, ledger
<1>6. ASSUME NEW e \in Epochs, PurgeSum(e) PROVE PurgeType'
  BY <1>6, <1>p
       DEF PurgeSum, At, Goto, PurgeType, Recorded, LedgerType, listener, ledger
<1>7. ASSUME NEW e \in Epochs, ReadHead(e) \/ ReadMax(e) \/ History(e)
      PROVE PurgeType'
  BY <1>7, <1>p DEF ReadHead, ReadMax, History, At, Goto, PurgeType, listener, ledger
<1>8. ASSUME NEW e \in Epochs, Return(e) \/ EndScan(e) \/ Remembered(e)
               \/ StartEvent(e) \/ Send(e) \/ Block(e)
               \/ Query(e) \/ LookUp(e) \/ AfterSend(e)
      PROVE PurgeType'
  BY <1>8, <1>p
       DEF Return, EndScan, Remembered, StartEvent, Send, Block, Query, LookUp,
           AfterSend, At, PassOver, NextEvent, InEach, Goto, Publish, PurgeType,
           listener, ledger
<1>9. ASSUME NEW e \in Epochs, ConnectFails(e) \/ HistoryFails(e) \/ EventFails(e)
               \/ QueryFails(e)
      PROVE PurgeType'
  BY <1>9, <1>p
       DEF ConnectFails, HistoryFails, EventFails, QueryFails, Goto, Fault, At,
           PassOver, NextEvent, PurgeType, listener, ledger
<1>10. CASE Poll \/ UNCHANGED vars
  BY <1>10, <1>p DEF vars, Poll, PurgeType, listener, ledger
<1>11. QED
  BY <1>1, <1>2, <1>3, <1>4, <1>5, <1>6, <1>7, <1>8, <1>9, <1>10
       DEF Next, World, Listener, Work, Connecting, Processing, Failing, Failures

(* Rows are of blocks within the bound; the balance is not negative.       *)
LEMMA LedgerStep == Shape /\ [Next]_vars => LedgerType'
<1> SUFFICES ASSUME Shape, [Next]_vars PROVE LedgerType'
  OBVIOUS
<1>p. /\ ChainType /\ WorkerType /\ MemoryType /\ PurgeType /\ LedgerType
      /\ TopicType /\ ExcuseType /\ EpochInv /\ StageInv
  BY TypeParts DEF Shape
<1>1. ASSUME NEW b \in Deposits \cup {NoDeposit}, Mine(b) PROVE LedgerType'
  BY <1>1, <1>p DEF Mine, LedgerType, listener, ledger
<1>2. ASSUME Register \/ Reset \/ Listen \/ LoseConnection \/ Restart
      PROVE LedgerType'
  BY <1>2, <1>p
       DEF Register, Reset, Listen, LoseConnection, Restart, Fault, NoWorker,
           LedgerType, listener, ledger
<1>3. ASSUME Record PROVE LedgerType'
  BY <1>3, <1>p, TopicFacts, Bounds, AmountsAssumption
       DEF Record, LedgerType, listener, ledger
<1>4. ASSUME RecordLoss PROVE LedgerType'
  BY <1>4, <1>p, Bounds DEF RecordLoss, LedgerType, listener, ledger
<1>5. ASSUME NEW e \in Epochs, PurgeCommit(e) PROVE LedgerType'
  <2>1. Total(purge.left) \in Nat /\ purge.lost \in Nat /\ Opening \in Nat
    BY <1>p, TotalFacts, AmountsAssumption, Bounds DEF PurgeType
  <2>2. balance' \in Nat
    BY <1>5, <2>1 DEF PurgeCommit
  <2>3. rows' \in [Deposits -> 0..MaxHeight]
    BY <1>p, <1>5, Bounds DEF PurgeCommit, LedgerType
  <2>4. QED
    BY <1>p, <1>5, <2>2, <2>3 DEF PurgeCommit, LedgerType
<1>6. ASSUME NEW e \in Epochs, ReadHead(e) \/ ReadMax(e) \/ PurgeDelete(e)
               \/ PurgeSum(e) \/ History(e)
      PROVE LedgerType'
  BY <1>6, <1>p
       DEF ReadHead, ReadMax, PurgeDelete, PurgeSum, History, At, Goto, LedgerType,
           listener, ledger
<1>7. ASSUME NEW e \in Epochs, Return(e) \/ EndScan(e) \/ Remembered(e)
               \/ StartEvent(e) \/ Send(e) \/ Block(e)
               \/ Query(e) \/ LookUp(e) \/ AfterSend(e)
      PROVE LedgerType'
  BY <1>7, <1>p
       DEF Return, EndScan, Remembered, StartEvent, Send, Block, Query, LookUp,
           AfterSend, At, PassOver, NextEvent, InEach, Goto, Publish, LedgerType,
           listener, ledger
<1>8. ASSUME NEW e \in Epochs, ConnectFails(e) \/ PurgeFails(e) \/ HistoryFails(e)
               \/ EventFails(e) \/ QueryFails(e)
      PROVE LedgerType'
  BY <1>8, <1>p
       DEF ConnectFails, PurgeFails, HistoryFails, EventFails, QueryFails, Goto, Fault,
           At, PassOver, NextEvent, LedgerType, listener, ledger
<1>9. CASE Poll \/ UNCHANGED vars
  BY <1>9, <1>p DEF vars, Poll, LedgerType, listener, ledger
<1>10. QED
  BY <1>1, <1>2, <1>3, <1>4, <1>5, <1>6, <1>7, <1>8, <1>9
       DEF Next, World, Listener, Work, Connecting, Processing, Failing, Failures

(* The topic holds reports.                                                *)
LEMMA TopicStep == Shape /\ [Next]_vars => TopicType'
<1> SUFFICES ASSUME Shape, [Next]_vars PROVE TopicType'
  OBVIOUS
<1>p. /\ ChainType /\ WorkerType /\ MemoryType /\ PurgeType /\ LedgerType
      /\ TopicType /\ ExcuseType /\ EpochInv /\ StageInv
  BY TypeParts DEF Shape
<1>1. ASSUME NEW b \in Deposits \cup {NoDeposit}, Mine(b) PROVE TopicType'
  BY <1>1, <1>p DEF Mine, TopicType, listener, ledger
<1>2. ASSUME Register \/ Reset \/ RecordLoss
               \/ Listen \/ LoseConnection \/ Restart
      PROVE TopicType'
  BY <1>2, <1>p
       DEF Register, Reset, RecordLoss, Listen, LoseConnection, Restart, Fault,
           NoWorker, TopicType, listener, ledger
<1>3. ASSUME Record PROVE TopicType'
  BY <1>3, <1>p, TopicFacts DEF Record, TopicType, listener, ledger
<1>4. ASSUME NEW e \in Epochs, Send(e) PROVE TopicType'
  <2>1. worker[e].todo # {}
    BY <1>p, <1>4 DEF Send, At, StageInv
  <2>2. QED
    BY <1>p, <1>4, <2>1, EventFacts, AppendFacts DEF Send, Publish, TopicType
<1>5. ASSUME NEW e \in Epochs, EventFails(e) PROVE TopicType'
  <2>1. worker[e].todo # {}
    BY <1>p, <1>5 DEF EventFails, StageInv
  <2>2. QED
    BY <1>p, <1>5, <2>1, EventFacts, AppendFacts DEF EventFails, TopicType
<1>6. ASSUME NEW e \in Epochs, ReadHead(e) \/ ReadMax(e) \/ PurgeDelete(e)
               \/ PurgeSum(e) \/ PurgeCommit(e) \/ History(e)
      PROVE TopicType'
  BY <1>6, <1>p
       DEF ReadHead, ReadMax, PurgeDelete, PurgeSum, PurgeCommit, History, At, Goto,
           TopicType, listener, ledger
<1>7. ASSUME NEW e \in Epochs, Return(e) \/ EndScan(e) \/ Remembered(e)
               \/ StartEvent(e) \/ Block(e) \/ Query(e)
               \/ LookUp(e) \/ AfterSend(e)
      PROVE TopicType'
  BY <1>7, <1>p
       DEF Return, EndScan, Remembered, StartEvent, Block, Query, LookUp, AfterSend, At,
           PassOver, NextEvent, InEach, Goto, TopicType, listener, ledger
<1>8. ASSUME NEW e \in Epochs, ConnectFails(e) \/ HistoryFails(e) \/ PurgeFails(e)
               \/ QueryFails(e)
      PROVE TopicType'
  BY <1>8, <1>p
       DEF ConnectFails, HistoryFails, PurgeFails, QueryFails, Goto, Fault, At,
           TopicType, listener, ledger
<1>9. CASE Poll \/ UNCHANGED vars
  BY <1>9, <1>p DEF vars, Poll, TopicType, listener, ledger
<1>10. QED
  BY <1>1, <1>2, <1>3, <1>4, <1>5, <1>6, <1>7, <1>8, <1>9
       DEF Next, World, Listener, Work, Connecting, Processing, Failing, Failures

(* Excuses keep to their kind.                                             *)
LEMMA ExcuseStep == Shape /\ [Next]_vars => ExcuseType'
<1> SUFFICES ASSUME Shape, [Next]_vars PROVE ExcuseType'
  OBVIOUS
<1>p. /\ ChainType /\ WorkerType /\ MemoryType /\ PurgeType /\ LedgerType
      /\ TopicType /\ ExcuseType /\ EpochInv /\ StageInv
  BY TypeParts DEF Shape
<1>1. ASSUME NEW b \in Deposits \cup {NoDeposit}, Mine(b) PROVE ExcuseType'
  BY <1>1, <1>p DEF Mine, ExcuseType, listener, ledger
<1>2. ASSUME Reset PROVE ExcuseType'
  BY <1>2, <1>p DEF Reset, ExcuseType, Excuse, Why, listener, ledger
<1>3. ASSUME Register \/ Record \/ RecordLoss
               \/ Listen \/ LoseConnection \/ Restart
      PROVE ExcuseType'
  BY <1>3, <1>p
       DEF Register, Record, RecordLoss, Listen, LoseConnection, Restart, Fault,
           NoWorker, ExcuseType, listener, ledger
<1>4. ASSUME NEW e \in Epochs, ReadHead(e) \/ Send(e) \/ Remembered(e) \/ HistoryFails(e)
      PROVE ExcuseType'
  BY <1>4, <1>p
       DEF ReadHead, Send, Remembered, HistoryFails, At, Publish, PassOver, NextEvent,
           InEach, Fault, ExcuseType, Excuse, Why, listener, ledger
<1>5. ASSUME NEW e \in Epochs, LookUp(e) \/ EventFails(e) PROVE ExcuseType'
  BY <1>5, <1>p
       DEF LookUp, EventFails, PassOver, NextEvent, Goto, At, Fault, ExcuseType, Excuse,
           Why, listener, ledger
<1>6. ASSUME NEW e \in Epochs, ReadMax(e) \/ PurgeDelete(e) \/ PurgeSum(e)
               \/ PurgeCommit(e) \/ History(e)
      PROVE ExcuseType'
  BY <1>6, <1>p
       DEF ReadMax, PurgeDelete, PurgeSum, PurgeCommit, History, At, Goto, ExcuseType,
           listener, ledger
<1>7. ASSUME NEW e \in Epochs, Return(e) \/ EndScan(e) \/ StartEvent(e)
               \/ Block(e) \/ Query(e) \/ AfterSend(e)
      PROVE ExcuseType'
  BY <1>7, <1>p
       DEF Return, EndScan, StartEvent, Block, Query, AfterSend, At, InEach, Goto,
           NextEvent, ExcuseType, listener, ledger
<1>8. ASSUME NEW e \in Epochs, ConnectFails(e) \/ PurgeFails(e) \/ QueryFails(e)
      PROVE ExcuseType'
  BY <1>8, <1>p
       DEF ConnectFails, PurgeFails, QueryFails, Goto, Fault, At, ExcuseType, listener,
           ledger
<1>9. CASE Poll \/ UNCHANGED vars
  BY <1>9, <1>p DEF vars, Poll, ExcuseType, listener, ledger
<1>10. QED
  BY <1>1, <1>2, <1>3, <1>4, <1>5, <1>6, <1>7, <1>8, <1>9
       DEF Next, World, Listener, Work, Connecting, Processing, Failing, Failures

(* The poller tells of blocks within the bound.                            *)
LEMMA PollerStep == Shape /\ [Next]_vars => PollerType'
<1> SUFFICES ASSUME Shape, [Next]_vars PROVE PollerType'
  OBVIOUS
<1>p. ChainType /\ PollerType
  BY TypeParts DEF Shape
<1>1. CASE Poll
  <2>1. Height \in 0..MaxHeight /\ MaxHeight \in Nat /\ poller.last \in -1..MaxHeight
        /\ poller.told \in Seq(1..MaxHeight)
    BY <1>p, HeightFacts DEF PollerType
  <2>h. Height \in -1..MaxHeight
    BY <2>1
  <2>2. CASE poller.last = NoPoll.last
    <3>1. poller' = [poller EXCEPT !.last = Height, !.behind = worker[epoch].head < Height]
      BY <1>1, <2>2 DEF Poll
    <3> DEFINE b == worker[epoch].head < Height
    <3>2. b \in BOOLEAN
      OBVIOUS
    <3> HIDE DEF b
    <3>3. poller' = [poller EXCEPT !.last = Height, !.behind = b]
      BY <3>1 DEF b
    <3>4. QED
      BY <1>p, <2>h, <3>2, <3>3 DEF PollerType
  <2>3. CASE poller.last # NoPoll.last
    <3>1. poller.last \in 0..MaxHeight
      BY <2>1, <2>3 DEF NoPoll
    <3> DEFINE news == [i \in 1..Height - poller.last |-> poller.last + i]
    <3>2. news \in Seq(1..MaxHeight)
      BY <2>1, <3>1, NewsFacts
    <3> DEFINE all == poller.told \o news
    <3> HIDE DEF news
    <3>3. all \in Seq(1..MaxHeight)
      BY <2>1, <3>2, ConcatProperties
    <3>4. poller' = [poller EXCEPT !.last = Height, !.told = all]
      BY <1>1, <2>3 DEF Poll, news
    <3> HIDE DEF all
    <3>5. QED
      BY <1>p, <2>h, <3>3, <3>4 DEF PollerType
  <2>4. QED
    BY <2>2, <2>3
<1>2. ASSUME NEW e \in Epochs, Block(e) PROVE PollerType'
  <2>1. poller.told \in Seq(1..MaxHeight) /\ poller.told # <<>>
        /\ poller' = [poller EXCEPT !.told = Tail(@)]
    BY <1>p, <1>2, BlockFacts
  <2>2. Tail(poller.told) \in Seq(1..MaxHeight)
    BY <2>1, HeadTailProperties
  <2>3. QED
    BY <1>p, <2>1, <2>2 DEF PollerType
<1>3. ASSUME NEW e \in Epochs, Query(e) \/ QueryFails(e) PROVE PollerType'
  BY <1>p, <1>3 DEF Query, QueryFails, PollerType, Stale
<1>4. CASE LoseConnection \/ Restart
  <2>1. poller' = NoPoll
    BY <1>4 DEF LoseConnection, Restart
  <2>2. -1 \in -1..MaxHeight /\ <<>> \in Seq(1..MaxHeight)
    BY Bounds, EmptySeq
  <2>3. QED
    BY <2>1, <2>2 DEF PollerType, NoPoll
<1>5. CASE UNCHANGED poller
  BY <1>p, <1>5 DEF PollerType
<1>6. QED
  BY <1>1, <1>2, <1>3, <1>4, <1>5, PollerSteps

(* A step of one worker that leaves it live if it was keeps EpochInv.      *)
LEMMA EpochKept ==
  ASSUME EpochInv, NEW e \in Epochs, worker[e].stage # "none", epoch' = epoch,
         \A x \in Epochs \ {e} : worker'[x] = worker[x],
         \/ timer' = timer /\ (worker[e].live => worker'[e].live)
         \/ ~worker[e].live /\ worker'[e].stage = "none"
  PROVE  EpochInv'
<1>1. ~(e > epoch)
  BY DEF EpochInv, NoWorker
<1>2. ASSUME NEW x \in Epochs, x > epoch' PROVE worker'[x] = NoWorker
  BY <1>1, <1>2 DEF EpochInv
<1>3. ASSUME NEW x \in Epochs, worker'[x].stage # "none", ~worker'[x].live
      PROVE  x = epoch' /\ ~timer'
  BY <1>3 DEF EpochInv
<1>4. QED
  BY <1>2, <1>3 DEF EpochInv

(* A worker that is not live stays the current one.                        *)
LEMMA EpochStep == Shape /\ [Next]_vars => EpochInv'
<1> SUFFICES ASSUME Shape, [Next]_vars PROVE EpochInv'
  OBVIOUS
<1>p. /\ ChainType /\ WorkerType /\ MemoryType /\ PurgeType /\ LedgerType
      /\ TopicType /\ ExcuseType /\ EpochInv /\ StageInv
  BY TypeParts DEF Shape
<1>1. ASSUME NEW b \in Deposits \cup {NoDeposit}, Mine(b) PROVE EpochInv'
  BY <1>1, <1>p DEF Mine, WorkerType, WorkerSet, EpochInv, listener, ledger
<1>2. ASSUME Register \/ Record \/ RecordLoss \/ Reset PROVE EpochInv'
  BY <1>2, <1>p
       DEF Register, Record, RecordLoss, Reset, WorkerType, WorkerSet, EpochInv,
           listener, ledger
<1>3. ASSUME Listen PROVE EpochInv'
  <2>1. epoch + 1 \in Epochs /\ epoch \in Nat
    BY <1>p, <1>3, Bounds DEF Listen, ChainType, Epochs
  <2>2. worker' = [worker EXCEPT ![epoch + 1].stage = "head"] /\ epoch' = epoch + 1
        /\ timer /\ ~timer'
    BY <1>3 DEF Listen
  <2>3. QED
    BY <1>p, <2>1, <2>2 DEF EpochInv, WorkerType, WorkerSet, Epochs
<1>4. ASSUME LoseConnection PROVE EpochInv'
  BY <1>4, <1>p, Bounds
       DEF LoseConnection, Fault, WorkerType, WorkerSet, EpochInv, ChainType, Epochs,
           NoWorker, listener, ledger
<1>5. ASSUME Restart PROVE EpochInv'
  BY <1>5, <1>p, Bounds
       DEF Restart, Fault, NoWorker, WorkerType, WorkerSet, EpochInv, ChainType, Epochs,
           listener, ledger
<1>6. ASSUME NEW e \in Epochs, ConnectFails(e) PROVE EpochInv'
  <2>1. /\ worker[e].stage \in {"head", "max"} /\ epoch' = epoch
        /\ worker'[e].stage = "none" /\ \A x \in Epochs \ {e} : worker'[x] = worker[x]
    BY <1>p, <1>6 DEF ConnectFails, Goto, WorkerType, WorkerSet
  <2>2. ~worker[e].live
    BY <1>p, <2>1 DEF StageInv, Connected
  <2>3. QED
    BY <1>p, <2>1, <2>2, EpochKept
<1>7. ASSUME NEW e \in Epochs, ReadHead(e) PROVE EpochInv'
  BY <1>7, <1>p, EpochKept DEF ReadHead, At, WorkerType, WorkerSet, listener, ledger
<1>8. ASSUME NEW e \in Epochs, ReadMax(e) \/ PurgeDelete(e) \/ PurgeSum(e)
               \/ PurgeCommit(e)
      PROVE EpochInv'
  BY <1>8, <1>p, EpochKept
       DEF ReadMax, PurgeDelete, PurgeSum, PurgeCommit, At, Goto, WorkerType, WorkerSet,
           listener, ledger
<1>9. ASSUME NEW e \in Epochs, PurgeFails(e) PROVE EpochInv'
  BY <1>9, <1>p, EpochKept
       DEF PurgeFails, Goto, Fault, WorkerType, WorkerSet, listener, ledger
<1>10. ASSUME NEW e \in Epochs, History(e) \/ HistoryFails(e) PROVE EpochInv'
  BY <1>10, <1>p, EpochKept
       DEF History, HistoryFails, At, Fault, WorkerType, WorkerSet, listener, ledger
<1>11. ASSUME NEW e \in Epochs, EndScan(e) \/ StartEvent(e) \/ Return(e)
       PROVE EpochInv'
  BY <1>11, <1>p, EpochKept
       DEF EndScan, StartEvent, Return, At, InEach, Goto, WorkerType, WorkerSet,
           listener, ledger
<1>12. ASSUME NEW e \in Epochs, Block(e) PROVE EpochInv'
  BY <1>12, <1>p, EpochKept DEF Block, At, WorkerType, WorkerSet, listener, ledger
<1>13. ASSUME NEW e \in Epochs, Query(e) PROVE EpochInv'
  BY <1>13, <1>p, EpochKept DEF Query, At, WorkerType, WorkerSet, listener, ledger
<1>14. ASSUME NEW e \in Epochs, QueryFails(e) PROVE EpochInv'
  BY <1>14, <1>p, EpochKept
       DEF QueryFails, At, Fault, WorkerType, WorkerSet, listener, ledger
<1>15. ASSUME NEW e \in Epochs, Remembered(e) \/ LookUp(e) PROVE EpochInv'
  BY <1>15, <1>p, EpochKept
       DEF Remembered, LookUp, PassOver, NextEvent, InEach, At, Goto, WorkerType,
           WorkerSet, listener, ledger
<1>16. ASSUME NEW e \in Epochs, EventFails(e) PROVE EpochInv'
  BY <1>16, <1>p, EpochKept
       DEF EventFails, PassOver, NextEvent, At, Fault, WorkerType, WorkerSet, listener,
           ledger
<1>17. ASSUME NEW e \in Epochs, AfterSend(e) PROVE EpochInv'
  BY <1>17, <1>p, EpochKept
       DEF AfterSend, NextEvent, At, WorkerType, WorkerSet, listener, ledger
<1>18. ASSUME NEW e \in Epochs, Send(e) PROVE EpochInv'
  BY <1>18, <1>p, EpochKept
       DEF Send, Publish, At, WorkerType, WorkerSet, listener, ledger
<1>19. CASE Poll \/ UNCHANGED vars
  BY <1>19, <1>p DEF vars, Poll, EpochInv, listener
<1>20. QED
  BY <1>1, <1>2, <1>3, <1>4, <1>5, <1>6, <1>7, <1>8, <1>9, <1>10, <1>11, <1>12, <1>13,
       <1>14, <1>15, <1>16, <1>17, <1>18, <1>19
       DEF Next, World, Listener, Work, Connecting, Processing, Failing, Failures

(* Stages keep their tasks.                                                *)
LEMMA StageStep == Shape /\ [Next]_vars => StageInv'
<1> SUFFICES ASSUME Shape, [Next]_vars PROVE StageInv'
  OBVIOUS
<1>p. /\ ChainType /\ WorkerType /\ MemoryType /\ PurgeType /\ LedgerType
      /\ TopicType /\ ExcuseType /\ EpochInv /\ StageInv
  BY TypeParts DEF Shape
<1>1. ASSUME NEW b \in Deposits \cup {NoDeposit}, Mine(b) PROVE StageInv'
  BY <1>1, <1>p
       DEF Mine, StageInv, WorkerType, WorkerSet, Early, Connected, listener, ledger
<1>2. ASSUME Register \/ Record \/ RecordLoss \/ Reset \/ LoseConnection
      PROVE StageInv'
  BY <1>2, <1>p
       DEF Register, Record, RecordLoss, Reset, LoseConnection, Fault, StageInv,
           WorkerType, WorkerSet, Early, Connected, listener, ledger
<1>3. ASSUME Listen PROVE StageInv'
  <2>1. epoch + 1 \in Epochs /\ epoch \in Nat
    BY <1>p, <1>3, Bounds DEF Listen, ChainType, Epochs
  <2>2. worker' = [worker EXCEPT ![epoch + 1].stage = "head"]
    BY <1>3 DEF Listen
  <2>3. worker[epoch + 1] = NoWorker
    BY <1>p, <2>1 DEF EpochInv
  <2>4. QED
    BY <1>p, <2>1, <2>2, <2>3 DEF StageInv, NoWorker, WorkerType, WorkerSet, Early, Connected
<1>4. ASSUME Restart PROVE StageInv'
  BY <1>4, <1>p
       DEF Restart, Fault, NoWorker, StageInv, WorkerType, WorkerSet, Early, Connected,
           listener, ledger
<1>5. ASSUME NEW e \in Epochs, ConnectFails(e) PROVE StageInv'
  BY <1>5, <1>p
       DEF ConnectFails, Goto, Fault, StageInv, WorkerType, WorkerSet, Early, Connected,
           listener, ledger
<1>6. ASSUME NEW e \in Epochs, ReadHead(e) PROVE StageInv'
  BY <1>6, <1>p
       DEF ReadHead, At, StageInv, WorkerType, WorkerSet, Early, Connected, listener,
           ledger
<1>7. ASSUME NEW e \in Epochs, ReadMax(e) \/ PurgeDelete(e) \/ PurgeSum(e)
               \/ PurgeCommit(e) \/ PurgeFails(e)
      PROVE StageInv'
  BY <1>7, <1>p
       DEF ReadMax, PurgeDelete, PurgeSum, PurgeCommit, PurgeFails, At, Goto, Fault,
           StageInv, WorkerType, WorkerSet, Early, Connected, listener, ledger
<1>8. ASSUME NEW e \in Epochs, History(e) \/ HistoryFails(e) PROVE StageInv'
  BY <1>8, <1>p
       DEF History, HistoryFails, At, Fault, StageInv, WorkerType, WorkerSet, Early,
           Connected, listener, ledger
<1>9. ASSUME NEW e \in Epochs, EndScan(e) \/ StartEvent(e) \/ Return(e)
      PROVE StageInv'
  BY <1>9, <1>p
       DEF EndScan, StartEvent, Return, At, InEach, Goto, StageInv, WorkerType,
           WorkerSet, Early, Connected, listener, ledger
<1>10. ASSUME NEW e \in Epochs, Block(e) PROVE StageInv'
  <2>1. PollerType /\ worker[e].head \in Nat /\ MaxHeight \in Nat
    BY <1>p, TypeParts, Bounds DEF Shape, WorkerType, WorkerSet
  <2>2. CASE worker' = worker
    BY <1>p, <2>2 DEF StageInv
  <2>3. CASE ScansTo(e, Head(poller.told))
    BY <1>p, <1>10, <2>1, <2>3
       DEF ScansTo, Block, At, StageInv, WorkerType, WorkerSet, Early, Connected
  <2>4. QED
    BY <1>10, <2>1, <2>2, <2>3, BlockFacts
<1>11. ASSUME NEW e \in Epochs, Query(e) PROVE StageInv'
  BY <1>11, <1>p
       DEF Query, At, StageInv, WorkerType, WorkerSet, Early, Connected, listener,
           ledger
<1>12. ASSUME NEW e \in Epochs, QueryFails(e) PROVE StageInv'
  BY <1>12, <1>p
       DEF QueryFails, At, Fault, StageInv, WorkerType, WorkerSet, Early, Connected,
           listener, ledger
<1>13. ASSUME NEW e \in Epochs, Remembered(e) \/ LookUp(e) PROVE StageInv'
  BY <1>13, <1>p
       DEF Remembered, LookUp, PassOver, NextEvent, InEach, At, Goto, StageInv,
           WorkerType, WorkerSet, Early, Connected, listener, ledger
<1>14. ASSUME NEW e \in Epochs, EventFails(e) PROVE StageInv'
  BY <1>14, <1>p
       DEF EventFails, PassOver, NextEvent, At, Fault, StageInv, WorkerType, WorkerSet,
           Early, Connected, listener, ledger
<1>15. ASSUME NEW e \in Epochs, AfterSend(e) PROVE StageInv'
  BY <1>15, <1>p
       DEF AfterSend, NextEvent, At, StageInv, WorkerType, WorkerSet, Early, Connected,
           listener, ledger
<1>16. ASSUME NEW e \in Epochs, Send(e) PROVE StageInv'
  BY <1>16, <1>p
       DEF Send, Publish, At, StageInv, WorkerType, WorkerSet, Early, Connected,
           listener, ledger
<1>17. CASE Poll \/ UNCHANGED vars
  BY <1>17, <1>p
       DEF vars, Poll, StageInv, WorkerType, WorkerSet, Early, Connected, listener, ledger
<1>18. QED
  BY <1>1, <1>2, <1>3, <1>4, <1>5, <1>6, <1>7, <1>8, <1>9, <1>10, <1>11, <1>12, <1>13,
       <1>14, <1>15, <1>16, <1>17
       DEF Next, World, Listener, Work, Connecting, Processing, Failing, Failures

(* Every step keeps the kinds, the epochs and the stages.                  *)
LEMMA ShapeStep == Shape /\ [Next]_vars => Shape'
<1>1. TypeOK' <=> /\ ChainType' /\ WorkerType' /\ MemoryType' /\ PurgeType' /\ LedgerType'
                  /\ TopicType' /\ ExcuseType' /\ PollerType'
  BY DEF TypeOK, ChainType, WorkerType, MemoryType, PurgeType, LedgerType, TopicType,
         ExcuseType, PollerType, WorkerSet
<1>2. QED
  BY <1>1, ChainStep, WorkerStep, MemoryStep, PurgeStep, LedgerStep, TopicStep, ExcuseStep,
     PollerStep, EpochStep, StageStep DEF Shape

-----------------------------------------------------------------------------
(* What is kept on top of it.                                              *)

(* A step of one worker that publishes nothing keeps LateInv, if the       *)
(* worker takes up no event once its connection was replaced.              *)
LEMMA LateKept ==
  ASSUME ChainType, LateInv, NEW e \in Epochs, epoch' = epoch,
         \A x \in Epochs \ {e} : worker'[x] = worker[x],
         worker'[e].late = worker[e].late, worker[e].live => worker'[e].live,
         Stale(e) /\ worker[e].stage \in {"track", "each", "idle"}
           => worker'[e].stage \in {"each", "idle"}
  PROVE  LateInv'
<1>1. epoch \in Nat /\ e \in Nat
  BY Bounds DEF ChainType, Epochs
<1>2. ASSUME worker[e].late > 0
      PROVE  /\ worker[e].late = 1 /\ worker[e].live /\ e < epoch
             /\ worker[e].stage \in {"track", "each", "idle"}
  BY <1>2 DEF LateInv
<1>3. ASSUME worker[e].late > 0 PROVE Stale(e)
  BY <1>1, <1>2, <1>3 DEF Stale
<1>4. QED
  BY <1>2, <1>3 DEF LateInv

(* A step of one worker at most that leaves the chain and the poller as    *)
(* they were keeps ToldInv, if the worker stays live.                      *)
LEMMA ToldKept ==
  ASSUME ToldInv, EpochInv, NEW e \in Epochs, worker[e].stage # "none",
         UNCHANGED <<epoch, chain, poller, astray, resets>>,
         \A x \in Epochs \ {e} : worker'[x] = worker[x],
         worker[e].live => worker'[e].live,
         timer' = timer \/ ~worker'[e].live
  PROVE  ToldInv'
<1>1. Height' = Height
  BY DEF Height
<1>2. ~worker[e].live => e = epoch /\ ~timer
  BY DEF EpochInv
<1>3. IF Live' THEN ~timer' ELSE poller' = NoPoll
  BY <1>2 DEF ToldInv, Live
<1>4. QED
  BY <1>1, <1>3 DEF ToldInv

(* Only a live connection polls, and it is told of blocks there are.       *)
LEMMA ToldStep == Shape /\ ToldInv /\ [Next]_vars => ToldInv'
<1> SUFFICES ASSUME Shape, ToldInv, [Next]_vars PROVE ToldInv'
  OBVIOUS
<1>p. ChainType /\ WorkerType /\ PollerType /\ EpochInv /\ StageInv
  BY TypeParts DEF Shape
<1>h. Height \in Nat /\ MaxHeight \in Nat /\ Height <= MaxHeight
  BY <1>p, HeightFacts
<1>d. poller.told \in Seq(1..MaxHeight)
      /\ \A i \in DOMAIN poller.told : poller.told[i] \in Nat
  BY <1>p, <1>h, LenProperties, ElementOfSeq DEF PollerType
<1>1. ASSUME NEW b \in Deposits \cup {NoDeposit}, Mine(b) PROVE ToldInv'
  <2>1. Height' = Height + 1
    BY <1>p, <1>1, AppendProperties DEF Mine, ChainType, Height
  <2>2. UNCHANGED <<epoch, worker, timer, poller, astray, resets>>
    BY <1>1 DEF Mine, listener
  <2>3. QED
    BY <1>h, <1>d, <2>1, <2>2 DEF ToldInv, Live
<1>2. CASE Reset
  BY <1>p, <1>2, Bounds DEF Reset, ToldInv, Live, ChainType, listener
<1>3. CASE Register \/ Record \/ RecordLoss \/ UNCHANGED vars
  BY <1>3 DEF Register, Record, RecordLoss, vars, ToldInv, Live, Height, listener
<1>4. CASE Listen
  <2>1. epoch + 1 \in Epochs /\ epoch' = epoch + 1 /\ epoch \in Nat
        /\ worker' = [worker EXCEPT ![epoch + 1].stage = "head"]
    BY <1>p, <1>4, Bounds DEF Listen, ChainType, Epochs
  <2>2. worker[epoch + 1] = NoWorker
    BY <1>p, <2>1 DEF EpochInv
  <2>3. ~worker'[epoch + 1].live
    BY <1>p, <2>1, <2>2 DEF WorkerType, WorkerSet, NoWorker
  <2>4. poller = NoPoll
    BY <1>4 DEF Listen, ToldInv
  <2>5. UNCHANGED <<chain, poller, astray, resets>>
    BY <1>4 DEF Listen
  <2>6. QED
    BY <2>1, <2>3, <2>4, <2>5 DEF ToldInv, Live, Height
<1>5. CASE LoseConnection
  <2>1. epoch' = epoch + 1 /\ epoch \in Nat /\ worker' = worker /\ poller' = NoPoll
        /\ UNCHANGED <<chain, astray, resets>>
    BY <1>p, <1>5, Bounds DEF LoseConnection, ChainType
  <2>2. ~Live'
    BY <1>p, <2>1 DEF EpochInv, NoWorker, Live
  <2>3. QED
    BY <2>1, <2>2 DEF ToldInv, NoPoll
<1>6. CASE Restart
  BY <1>6 DEF Restart, ToldInv, Live, NoPoll, Epochs
<1>7. CASE Poll
  <2>1. UNCHANGED <<epoch, worker, timer, chain, astray, resets>> /\ Live /\ Height' = Height
    BY <1>7 DEF Poll, Live, Height
  <2>2. CASE poller.last = NoPoll.last
    <3>1. poller'.told = poller.told
      BY <1>p, <1>7, <2>2 DEF Poll, PollerType
    <3>2. QED
      BY <2>1, <3>1 DEF ToldInv, Live
  <2>3. CASE poller.last # NoPoll.last
    <3>1. poller.last \in Nat
      BY <1>p, <1>h, <2>3 DEF NoPoll, PollerType
    <3> DEFINE news == [i \in 1..Height - poller.last |-> poller.last + i]
    <3>2. news \in Seq(1..MaxHeight) /\ \A i \in DOMAIN news : news[i] <= Height
      BY <1>h, <3>1, NewsFacts
    <3>3. poller'.told = poller.told \o news
      BY <1>p, <1>7, <2>3 DEF Poll, PollerType
    <3> HIDE DEF news
    <3>4. ASSUME ~astray
          PROVE  \A i \in DOMAIN (poller.told \o news) : (poller.told \o news)[i] <= Height
      <4>1. \A i \in DOMAIN poller.told : poller.told[i] <= Height
        BY <3>4 DEF ToldInv
      <4>2. /\ DOMAIN poller.told = 1..Len(poller.told) /\ Len(poller.told) \in Nat
            /\ DOMAIN news = 1..Len(news) /\ Len(news) \in Nat
        BY <1>d, <3>2, LenProperties
      <4>3. /\ DOMAIN (poller.told \o news) = 1..Len(poller.told) + Len(news)
            /\ \A i \in 1..Len(poller.told) + Len(news) :
                 (poller.told \o news)[i] = IF i <= Len(poller.told) THEN poller.told[i]
                                            ELSE news[i - Len(poller.told)]
        BY <1>d, <3>2, <4>2, ConcatProperties, LenProperties
      <4>4. QED
        BY <3>2, <4>1, <4>2, <4>3
    <3>5. QED
      BY <2>1, <3>3, <3>4 DEF ToldInv, Live
  <2>4. QED
    BY <2>2, <2>3
<1>8. ASSUME NEW e \in Epochs, ReadHead(e) PROVE ToldInv'
  <2>1. ~worker[e].live /\ e = epoch
    BY <1>p, <1>8 DEF ReadHead, At, StageInv, EpochInv, Connected
  <2>2. poller = NoPoll
    BY <2>1 DEF ToldInv, Live
  <2>3. UNCHANGED <<epoch, poller, resets>> /\ ~worker'[e].live /\ ~astray'
    BY <1>p, <1>8, <2>1 DEF ReadHead, WorkerType, WorkerSet
  <2>4. QED
    BY <2>1, <2>2, <2>3 DEF ToldInv, Live, NoPoll
<1>9. ASSUME NEW e \in Epochs, Block(e) PROVE ToldInv'
  <2>1. /\ poller'.told = Tail(poller.told) /\ poller.told # <<>>
        /\ Live /\ UNCHANGED <<epoch, timer, chain, astray, resets>> /\ e = epoch
    BY <1>p, <1>9 DEF Block, PollerType, Live
  <2>2. Live'
    BY <1>p, <1>9, <2>1 DEF Live, Block, WorkerType, WorkerSet
  <2>3. ~astray => \A i \in DOMAIN Tail(poller.told) : Tail(poller.told)[i] <= Height
    <3>1. /\ Len(Tail(poller.told)) = Len(poller.told) - 1 /\ Len(poller.told) \in Nat
          /\ Len(poller.told) > 0 /\ DOMAIN poller.told = 1..Len(poller.told)
          /\ DOMAIN Tail(poller.told) = 1..Len(poller.told) - 1
          /\ \A i \in 1..Len(poller.told) - 1 : Tail(poller.told)[i] = poller.told[i + 1]
      BY <1>d, <2>1, HeadTailProperties, LenProperties, EmptySeq
    <3>2. QED
      BY <3>1 DEF ToldInv
  <2>4. QED
    BY <2>1, <2>2, <2>3 DEF ToldInv, Live, Height
<1>10. ASSUME NEW e \in Epochs, Query(e) \/ QueryFails(e) PROVE ToldInv'
  <2>1. worker[e].live
    BY <1>p, <1>10 DEF Query, QueryFails, At, StageInv
  <2>2. UNCHANGED <<epoch, timer, chain, astray, resets>> /\ poller'.told = poller.told
    BY <1>p, <1>10 DEF Query, QueryFails, PollerType
  <2>3. Live' <=> Live
    <3>1. \A x \in Epochs : worker'[x].live = worker[x].live
      BY <1>p, <1>10 DEF Query, QueryFails, WorkerType, WorkerSet
    <3>2. QED
      BY <2>2, <3>1 DEF Live
  <2>4. ~Live => poller' = NoPoll
    <3>1. ASSUME ~Live PROVE poller = NoPoll /\ Stale(e)
      BY <2>1, <3>1 DEF ToldInv, Live, Stale
    <3>2. QED
      BY <1>10, <3>1 DEF Query, QueryFails
  <2>5. QED
    BY <2>2, <2>3, <2>4 DEF ToldInv, Height
<1>11. ASSUME NEW e \in Epochs, ConnectFails(e) \/ ReadMax(e) \/ PurgeDelete(e)
                \/ PurgeSum(e) \/ PurgeCommit(e) \/ PurgeFails(e)
       PROVE ToldInv'
  BY <1>p, <1>11, ToldKept
     DEF ConnectFails, ReadMax, PurgeDelete, PurgeSum, PurgeCommit, PurgeFails, At, Goto,
         StageInv, Connected, WorkerType, WorkerSet
<1>12. ASSUME NEW e \in Epochs, History(e) \/ HistoryFails(e) \/ EndScan(e) \/ Return(e)
                \/ StartEvent(e)
       PROVE ToldInv'
  BY <1>p, <1>12, ToldKept
     DEF History, HistoryFails, EndScan, Return, StartEvent, InEach, At, Goto, WorkerType,
         WorkerSet
<1>13. ASSUME NEW e \in Epochs, Remembered(e) \/ LookUp(e) \/ Send(e) \/ AfterSend(e)
                \/ EventFails(e)
       PROVE ToldInv'
  BY <1>p, <1>13, ToldKept
     DEF Remembered, LookUp, Send, AfterSend, EventFails, InEach, At, Goto, PassOver,
         NextEvent, Publish, WorkerType, WorkerSet
<1>14. QED
  BY <1>1, <1>2, <1>3, <1>4, <1>5, <1>6, <1>7, <1>8, <1>9, <1>10, <1>11, <1>12, <1>13
     DEF Next, World, Listener, Work, Connecting, Processing, Failing, Failures

(* A worker whose connection was replaced publishes once more at most.     *)
LEMMA LateStep == Shape /\ LateInv /\ [Next]_vars => LateInv'
<1> SUFFICES ASSUME Shape, LateInv, [Next]_vars PROVE LateInv'
  OBVIOUS
<1>p. /\ ChainType /\ WorkerType /\ MemoryType /\ PurgeType /\ LedgerType
      /\ TopicType /\ ExcuseType /\ EpochInv /\ StageInv
  BY TypeParts DEF Shape
<1>1. ASSUME NEW b \in Deposits \cup {NoDeposit}, Mine(b) PROVE LateInv'
  BY <1>1, <1>p DEF Mine, WorkerType, WorkerSet, LateInv, listener, ledger
<1>2. ASSUME Register \/ Record \/ RecordLoss \/ Reset PROVE LateInv'
  BY <1>2, <1>p
       DEF Register, Record, RecordLoss, Reset, WorkerType, WorkerSet, LateInv,
           listener, ledger
<1>3. ASSUME Listen PROVE LateInv'
  <2>1. epoch + 1 \in Epochs /\ epoch \in Nat
    BY <1>p, <1>3, Bounds DEF Listen, ChainType, Epochs
  <2>2. worker' = [worker EXCEPT ![epoch + 1].stage = "head"] /\ epoch' = epoch + 1
    BY <1>3 DEF Listen
  <2>3. worker[epoch + 1].late = 0
    BY <1>p, <2>1 DEF EpochInv, NoWorker
  <2>4. QED
    BY <1>p, <2>1, <2>2, <2>3 DEF LateInv, WorkerType, WorkerSet, Epochs
<1>4. ASSUME LoseConnection PROVE LateInv'
  BY <1>4, <1>p, Bounds
       DEF LoseConnection, Fault, WorkerType, WorkerSet, Epochs, LateInv, ChainType,
           listener, ledger
<1>5. ASSUME Restart PROVE LateInv'
  BY <1>5, <1>p
       DEF Restart, Fault, NoWorker, WorkerType, WorkerSet, LateInv, listener, ledger
<1>6. ASSUME NEW e \in Epochs, ConnectFails(e) \/ ReadHead(e) PROVE LateInv'
  BY <1>6, <1>p, LateKept
       DEF ConnectFails, ReadHead, Goto, Fault, At, WorkerType, WorkerSet, listener,
           ledger
<1>7. ASSUME NEW e \in Epochs, ReadMax(e) \/ PurgeDelete(e) \/ PurgeSum(e)
               \/ PurgeCommit(e)
      PROVE LateInv'
  BY <1>7, <1>p, LateKept
       DEF ReadMax, PurgeDelete, PurgeSum, PurgeCommit, At, Goto, WorkerType, WorkerSet,
           listener, ledger
<1>8. ASSUME NEW e \in Epochs, PurgeFails(e) PROVE LateInv'
  BY <1>8, <1>p, LateKept
       DEF PurgeFails, Goto, Fault, WorkerType, WorkerSet, listener, ledger
<1>9. ASSUME NEW e \in Epochs, History(e) \/ HistoryFails(e) PROVE LateInv'
  BY <1>9, <1>p, LateKept
       DEF History, HistoryFails, At, Fault, WorkerType, WorkerSet, listener, ledger
<1>10. ASSUME NEW e \in Epochs, EndScan(e) \/ Return(e) PROVE LateInv'
  BY <1>10, <1>p, LateKept
       DEF EndScan, Return, At, WorkerType, WorkerSet, listener, ledger
<1>11. ASSUME NEW e \in Epochs, StartEvent(e) PROVE LateInv'
  BY <1>11, <1>p, LateKept
       DEF StartEvent, InEach, Goto, At, WorkerType, WorkerSet, listener, ledger
<1>12. ASSUME NEW e \in Epochs, Block(e) PROVE LateInv'
  BY <1>12, <1>p, LateKept DEF Block, At, WorkerType, WorkerSet, Stale, listener, ledger
<1>13. ASSUME NEW e \in Epochs, Query(e) PROVE LateInv'
  BY <1>13, <1>p, LateKept DEF Query, At, WorkerType, WorkerSet, listener, ledger
<1>14. ASSUME NEW e \in Epochs, QueryFails(e) PROVE LateInv'
  BY <1>14, <1>p, LateKept
       DEF QueryFails, At, Fault, WorkerType, WorkerSet, listener, ledger
<1>15. ASSUME NEW e \in Epochs, Remembered(e) PROVE LateInv'
  BY <1>15, <1>p, LateKept
       DEF Remembered, PassOver, NextEvent, InEach, At, WorkerType, WorkerSet, listener,
           ledger
<1>16. ASSUME NEW e \in Epochs, LookUp(e) PROVE LateInv'
  BY <1>16, <1>p, LateKept
       DEF LookUp, PassOver, NextEvent, Goto, At, WorkerType, WorkerSet, listener,
           ledger
<1>17. ASSUME NEW e \in Epochs, EventFails(e) PROVE LateInv'
  BY <1>17, <1>p, LateKept
       DEF EventFails, PassOver, NextEvent, At, Fault, WorkerType, WorkerSet, listener,
           ledger
<1>18. ASSUME NEW e \in Epochs, AfterSend(e) PROVE LateInv'
  BY <1>18, <1>p, LateKept
       DEF AfterSend, NextEvent, At, WorkerType, WorkerSet, listener, ledger
<1>19. ASSUME NEW e \in Epochs, Send(e) PROVE LateInv'
  BY <1>19, <1>p
       DEF Send, Publish, At, WorkerType, WorkerSet, Stale, EpochInv, LateInv, NoWorker,
           Epochs, ChainType, listener, ledger
<1>20. CASE Poll \/ UNCHANGED vars
  BY <1>20, <1>p DEF vars, Poll, LateInv, listener
<1>21. QED
  BY <1>1, <1>2, <1>3, <1>4, <1>5, <1>6, <1>7, <1>8, <1>9, <1>10, <1>11, <1>12, <1>13,
       <1>14, <1>15, <1>16, <1>17, <1>18, <1>19, <1>20
       DEF Next, World, Listener, Work, Connecting, Processing, Failing, Failures

(* The balance is that of the rows, unless a purge missed a commit.        *)
LEMMA BalanceStep == Shape /\ CanonicalBalance /\ [Next]_vars => CanonicalBalance'
<1> SUFFICES ASSUME Shape, CanonicalBalance, [Next]_vars PROVE CanonicalBalance'
  OBVIOUS
<1>p. /\ ChainType /\ WorkerType /\ MemoryType /\ PurgeType /\ LedgerType
      /\ TopicType /\ ExcuseType /\ EpochInv /\ StageInv
  BY TypeParts DEF Shape
<1>1. ASSUME NEW b \in Deposits \cup {NoDeposit}, Mine(b) PROVE CanonicalBalance'
  BY <1>1, <1>p DEF Mine, CanonicalBalance, Total, Recorded, listener, ledger
<1>2. ASSUME Register \/ Reset \/ Listen \/ LoseConnection \/ Restart
      PROVE CanonicalBalance'
  BY <1>2, <1>p
       DEF Register, Reset, Listen, LoseConnection, Restart, Fault, NoWorker,
           CanonicalBalance, Total, Recorded, listener, ledger
<1>3. ASSUME NEW e \in Epochs, ReadHead(e) \/ ReadMax(e) \/ PurgeDelete(e)
               \/ PurgeSum(e) \/ History(e)
      PROVE CanonicalBalance'
  BY <1>3, <1>p
       DEF ReadHead, ReadMax, PurgeDelete, PurgeSum, History, At, Goto,
           CanonicalBalance, Total, Recorded, listener, ledger
<1>4. ASSUME NEW e \in Epochs, Return(e) \/ EndScan(e) \/ Remembered(e)
               \/ StartEvent(e) \/ LookUp(e) \/ Send(e)
               \/ AfterSend(e) \/ Block(e) \/ Query(e)
      PROVE CanonicalBalance'
  BY <1>4, <1>p
       DEF Return, EndScan, Remembered, StartEvent, LookUp, Send, AfterSend, Block,
           Query, At, PassOver, NextEvent, InEach, Goto, Publish, CanonicalBalance,
           Total, Recorded, listener, ledger
<1>5. ASSUME NEW e \in Epochs, ConnectFails(e) \/ PurgeFails(e) \/ HistoryFails(e)
               \/ EventFails(e) \/ QueryFails(e)
      PROVE CanonicalBalance'
  BY <1>5, <1>p
       DEF ConnectFails, PurgeFails, HistoryFails, EventFails, QueryFails, Goto, Fault,
           At, PassOver, NextEvent, CanonicalBalance, Total, Recorded, listener, ledger
<1>6. ASSUME Record PROVE CanonicalBalance'
  <2> DEFINE d == Head(topic)[1]
  <2>1. d \in Deposits /\ Head(topic)[2] \in 1..MaxHeight
    BY <1>p, <1>6, TopicFacts DEF Record
  <2>2. lost' = lost /\ exact' = exact
    BY <1>6 DEF Record
  <2>3. CASE rows[d] # 0
    <3>1. Recorded' = Recorded /\ balance' = balance
      BY <1>p, <1>6, <2>1, <2>3 DEF Record, Recorded, LedgerType
    <3>2. QED
      BY <2>2, <3>1 DEF CanonicalBalance, Total
  <2>4. CASE rows[d] = 0
    <3>1. Recorded' = Recorded \cup {d} /\ balance' = balance + Amount[d]
      BY <1>p, <1>6, <2>1, <2>4, Bounds DEF Record, Recorded, LedgerType
    <3>2. Recorded \in SUBSET Deposits /\ d \in Deposits \ Recorded
      BY <2>1, <2>4 DEF Recorded
    <3>3. Total(Recorded \cup {d}) = Total(Recorded) + Amount[d]
      BY <3>2, TotalFacts
    <3>4. Total(Recorded') = Total(Recorded \cup {d})
      BY <3>1 DEF Total
    <3>5. Total(Recorded)' = Total(Recorded')
      BY DEF Total
    <3>6. /\ Total(Recorded) \in Nat /\ Amount[d] \in Nat /\ Opening \in Nat
          /\ lost \in Nat /\ balance \in Nat
      BY <1>p, <2>1, <3>2, TotalFacts, AmountsAssumption, Bounds DEF LedgerType
    <3>7. QED
      BY <2>2, <3>1, <3>3, <3>4, <3>5, <3>6 DEF CanonicalBalance
  <2>5. QED
    BY <2>3, <2>4
<1>7. ASSUME RecordLoss PROVE CanonicalBalance'
  <2>1. Total(Recorded)' = Total(Recorded)
    BY <1>7 DEF RecordLoss, Recorded, Total
  <2>2. Total(Recorded) \in Nat /\ Opening \in Nat /\ lost \in Nat /\ balance \in Nat
    BY <1>p, TotalFacts, AmountsAssumption, Bounds DEF LedgerType, Recorded
  <2>3. lost' = lost + 1 /\ balance' = balance - 1 /\ exact' = exact
    BY <1>7 DEF RecordLoss
  <2>4. QED
    BY <2>1, <2>2, <2>3 DEF CanonicalBalance
<1>8. ASSUME NEW e \in Epochs, PurgeCommit(e) PROVE CanonicalBalance'
  <2> DEFINE computed == Opening + Total(purge.left) - purge.lost
  <2> SUFFICES ASSUME exact'
               PROVE  balance' = Opening + Total(Recorded)' - lost'
    BY DEF CanonicalBalance
  <2>1. computed >= 0 /\ Recorded \ purge.doomed = purge.left /\ lost = purge.lost
    BY <1>8 DEF PurgeCommit
  <2>2. Recorded' = Recorded \ purge.doomed /\ lost' = lost
    BY <1>p, <1>8 DEF PurgeCommit, Recorded, LedgerType
  <2>3. Recorded' = purge.left
    BY <2>1, <2>2
  <2>4. Total(Recorded)' = Total(purge.left)
    BY <2>3 DEF Total
  <2>5. computed \in Int /\ Opening \in Nat /\ Total(purge.left) \in Nat
    BY <1>p, TotalFacts, AmountsAssumption, Bounds DEF PurgeType
  <2>6. balance' = computed
    BY <1>8, <2>1, <2>5 DEF PurgeCommit
  <2>7. QED
    BY <2>1, <2>2, <2>4, <2>6
<1>9. CASE Poll \/ UNCHANGED vars
  BY <1>9, <1>p DEF vars, Poll, CanonicalBalance, Total, Recorded, listener, ledger
<1>10. QED
  BY <1>1, <1>2, <1>3, <1>4, <1>5, <1>6, <1>7, <1>8, <1>9
       DEF Next, World, Listener, Work, Connecting, Processing, Failing, Failures

(* A step of one worker that raises no head keeps HeightInv, if what it    *)
(* publishes is of the range it scans.                                     *)
LEMMA HeightKept ==
  ASSUME ChainType, WorkerType, TopicType, LedgerType, HeightInv, NEW e \in Epochs,
         UNCHANGED <<resets, chain, rows>>,
         \A x \in Epochs \ {e} : worker'[x] = worker[x],
         worker'[e].head \in Nat, worker'[e].head <= worker[e].head,
         worker'[e].stage \notin {"max", "delete", "sum", "commit"},
         \/ topic' = topic
         \/ \E ev \in Report : topic' = Append(topic, ev) /\ ev[2] <= worker[e].head
  PROVE  HeightInv'
<1> SUFFICES ASSUME resets = 0
             PROVE  /\ Within(Height)'
                    /\ \A x \in Epochs : worker'[x].head <= Height'
                    /\ \A x \in Epochs : worker'[x].stage = "max" =>
                         /\ Within(worker[x].head)'
                         /\ \A old \in Epochs : worker'[old].head <= worker'[x].head
                    /\ \A x \in Epochs : worker'[x].stage \notin {"delete", "sum", "commit"}
  BY DEF HeightInv
<1>1. /\ Within(Height)
      /\ \A x \in Epochs : worker[x].head <= Height
      /\ \A x \in Epochs : worker[x].stage = "max" =>
           /\ Within(worker[x].head)
           /\ \A old \in Epochs : worker[old].head <= worker[x].head
      /\ \A x \in Epochs : worker[x].stage \notin {"delete", "sum", "commit"}
  BY DEF HeightInv
<1>2. Height' = Height /\ Height \in Nat /\ \A x \in Epochs : worker[x].head \in Nat
  BY HeightFacts DEF Height, WorkerType, WorkerSet
<1>3. ASSUME NEW h \in Nat, Within(h), worker[e].head <= h
      PROVE  /\ \A d \in Deposits : rows'[d] <= h
             /\ \A i \in DOMAIN (topic') : topic'[i][2] <= h
  <2>1. CASE topic' = topic
    BY <1>3, <2>1 DEF Within
  <2>2. ASSUME NEW ev \in Report, topic' = Append(topic, ev), ev[2] <= worker[e].head
        PROVE  \A i \in DOMAIN (topic') : topic'[i][2] <= h
    <3>1. ev[2] <= h
      BY <1>2, <1>3, <2>2 DEF Report
    <3>2. QED
      BY <1>3, <2>2, <3>1, AppendFacts DEF Within
  <2>3. QED
    BY <1>3, <2>1, <2>2 DEF Within
<1>4. Within(Height)'
  BY <1>1, <1>2, <1>3 DEF Within
<1>5. \A x \in Epochs : worker'[x].head \in Nat /\ worker'[x].head <= worker[x].head
  BY <1>2
<1>6. \A x \in Epochs : worker'[x].head <= Height'
  BY <1>1, <1>2, <1>5
<1>7. ASSUME NEW x \in Epochs, worker'[x].stage = "max"
      PROVE  /\ Within(worker[x].head)'
             /\ \A old \in Epochs : worker'[old].head <= worker'[x].head
  <2>1. x # e /\ worker'[x] = worker[x] /\ worker[x].stage = "max"
    BY <1>7
  <2>2. Within(worker[x].head) /\ \A old \in Epochs : worker[old].head <= worker[x].head
    BY <1>1, <2>1
  <2>3. Within(worker[x].head)'
    BY <1>2, <1>3, <2>1, <2>2 DEF Within
  <2>4. QED
    BY <1>2, <1>5, <2>1, <2>2, <2>3
<1>8. QED
  BY <1>1, <1>4, <1>6, <1>7

(* A failed send may have been stored: the event is of the range.          *)
LEMMA PublishFacts ==
  ASSUME WorkerType, NEW e \in Epochs, worker[e].todo # {}
  PROVE  \E ev \in Report : ev = Event(e) /\ ev[2] <= worker[e].head
BY EventFacts DEF WorkerType, WorkerSet

(* On a chain never reset no report is of a block beyond a head.           *)
LEMMA HeightStep == Shape /\ ToldInv /\ HeightInv /\ [Next]_vars => HeightInv'
<1> SUFFICES ASSUME Shape, ToldInv, HeightInv, [Next]_vars PROVE HeightInv'
  OBVIOUS
<1>p. /\ ChainType /\ WorkerType /\ MemoryType /\ PurgeType /\ LedgerType
      /\ TopicType /\ ExcuseType /\ PollerType /\ EpochInv /\ StageInv
  BY TypeParts DEF Shape
<1>1. ASSUME NEW b \in Deposits \cup {NoDeposit}, Mine(b) PROVE HeightInv'
  <2>1. Height \in Nat /\ Height' = Height + 1
    BY <1>p, <1>1, HeightFacts, AppendProperties DEF Mine, ChainType, Height
  <2>2. /\ \A e \in Epochs : worker[e].head \in Nat
        /\ \A f \in Deposits : rows[f] \in Nat
        /\ \A i \in DOMAIN topic : topic[i][2] \in Nat
    BY <1>p, ElementOfSeq, LenProperties, Bounds
       DEF WorkerType, WorkerSet, LedgerType, TopicType, Report
  <2>3. UNCHANGED <<resets, worker, rows, topic>>
    BY <1>1 DEF Mine, listener, ledger
  <2>4. QED
    BY <2>1, <2>2, <2>3 DEF HeightInv, Within
<1>2. ASSUME Reset PROVE HeightInv'
  BY <1>2, <1>p, Bounds DEF Reset, ChainType, HeightInv, listener, ledger
<1>3. ASSUME Register \/ RecordLoss \/ LoseConnection PROVE HeightInv'
  BY <1>3, <1>p
       DEF Register, RecordLoss, LoseConnection, Fault, HeightInv, Within, Height,
           listener, ledger
<1>4. ASSUME Record PROVE HeightInv'
  <2>1. \A h \in Nat : Within(h) => /\ \A d \in Deposits : rows'[d] <= h
                                    /\ \A i \in DOMAIN (topic') : topic'[i][2] <= h
    <3> SUFFICES ASSUME NEW h \in Nat, Within(h)
                 PROVE  /\ \A d \in Deposits : rows'[d] <= h
                        /\ \A i \in DOMAIN (topic') : topic'[i][2] <= h
      OBVIOUS
    <3>1. Head(topic)[2] <= h
      BY <1>p, <1>4, TopicFacts DEF Record, Within
    <3>2. \A d \in Deposits : rows'[d] <= h
      BY <1>p, <1>4, <3>1 DEF Record, Within, LedgerType
    <3>3. \A i \in DOMAIN (topic') : topic'[i][2] <= h
      BY <1>p, <1>4, TopicFacts DEF Record, Within
    <3>4. QED
      BY <3>2, <3>3
  <2>2. UNCHANGED <<resets, worker, chain>>
    BY <1>4 DEF Record, listener
  <2>3. Height' = Height
    BY <2>2 DEF Height
  <2>4. resets = 0 => Within(Height)'
    <3>1. ASSUME resets = 0 PROVE Within(Height)
      BY <3>1 DEF HeightInv
    <3>2. ASSUME resets = 0
          PROVE  /\ \A d \in Deposits : rows'[d] <= Height
                 /\ \A i \in DOMAIN (topic') : topic'[i][2] <= Height
      BY <1>p, <2>1, <3>1, <3>2, HeightFacts
    <3>3. QED
      BY <2>3, <3>2 DEF Within
  <2>5. ASSUME resets = 0, NEW e \in Epochs, worker[e].stage = "max"
        PROVE  Within(worker[e].head)'
    <3>1. Within(worker[e].head)
      BY <2>5 DEF HeightInv
    <3>2. /\ \A d \in Deposits : rows'[d] <= worker[e].head
          /\ \A i \in DOMAIN (topic') : topic'[i][2] <= worker[e].head
      BY <1>p, <2>1, <3>1 DEF WorkerType, WorkerSet
    <3>3. QED
      BY <2>2, <3>2 DEF Within
  <2>6. QED
    BY <2>2, <2>3, <2>4, <2>5 DEF HeightInv
<1>5. ASSUME Listen PROVE HeightInv'
  <2>1. /\ \A x \in Epochs : worker'[x].head = worker[x].head
        /\ \A x \in Epochs : worker'[x].stage \in {"head", worker[x].stage}
    BY <1>p, <1>5 DEF Listen, WorkerType, WorkerSet
  <2>2. UNCHANGED <<resets, chain, rows, topic>>
    BY <1>5 DEF Listen, ledger
  <2>3. QED
    BY <2>1, <2>2 DEF HeightInv, Within, Height
<1>6. ASSUME Restart PROVE HeightInv'
  <2>1. Height \in Nat /\ Height' = Height
    BY <1>p, <1>6, HeightFacts DEF Restart, Height
  <2>2. UNCHANGED <<resets, rows, topic>>
    BY <1>6 DEF Restart, ledger
  <2>3. \A e \in Epochs : worker'[e].head = 0 /\ worker'[e].stage = "none"
    BY <1>6 DEF Restart, NoWorker
  <2>4. QED
    BY <2>1, <2>2, <2>3 DEF HeightInv, Within
<1>7. ASSUME NEW e \in Epochs, ReadHead(e) PROVE HeightInv'
  <2>1. Height \in Nat /\ Height' = Height
    BY <1>p, <1>7, HeightFacts DEF ReadHead, Height
  <2>2. UNCHANGED <<resets, rows, topic>>
    BY <1>7 DEF ReadHead, ledger
  <2>3. /\ \A x \in Epochs \ {e} : worker'[x] = worker[x]
        /\ worker'[e].head = Height /\ worker'[e].stage = "max"
    BY <1>p, <1>7 DEF ReadHead, WorkerType, WorkerSet
  <2>4. ASSUME NEW x \in Epochs, worker'[x].stage = "max" PROVE x = e
    BY <1>p, <1>7, <2>3, <2>4 DEF ReadHead, At, EpochInv, StageInv, Connected
  <2>5. resets = 0 =>
          /\ Within(Height)' /\ \A x \in Epochs : worker'[x].head <= Height'
          /\ \A x \in Epochs : worker'[x].stage \notin {"delete", "sum", "commit"}
    BY <2>1, <2>2, <2>3 DEF HeightInv, Within
  <2>6. QED
    BY <2>1, <2>2, <2>3, <2>4, <2>5 DEF HeightInv, Within
<1>8. ASSUME NEW e \in Epochs, ReadMax(e) PROVE HeightInv'
  <2>1. resets = 0 => ~ \E d \in Recorded : worker[e].head < rows[d]
    BY <1>p, <1>8, Bounds
       DEF ReadMax, At, HeightInv, Within, Recorded, WorkerType, WorkerSet, LedgerType
  <2>2. resets' = resets
    BY <1>8 DEF ReadMax
  <2>3. ASSUME resets = 0 PROVE HeightInv'
    <3>1. /\ \A x \in Epochs \ {e} : worker'[x] = worker[x]
          /\ worker'[e].head = worker[e].head /\ worker[e].head \in Nat
          /\ worker'[e].stage = "history"
      BY <1>p, <1>8, <2>1, <2>3 DEF ReadMax, Goto, WorkerType, WorkerSet
    <3>2. worker'[e].head <= worker[e].head
      BY <3>1
    <3>3. UNCHANGED <<resets, chain, rows, topic>>
      BY <1>8 DEF ReadMax, ledger
    <3>4. QED
      BY <1>p, <3>1, <3>2, <3>3, HeightKept
  <2>4. QED
    BY <2>2, <2>3 DEF HeightInv
<1>9. ASSUME NEW e \in Epochs, PurgeDelete(e) \/ PurgeSum(e) \/ PurgeCommit(e)
               \/ PurgeFails(e)
      PROVE HeightInv'
  BY <1>9, <1>p
       DEF PurgeDelete, PurgeSum, PurgeCommit, PurgeFails, At, Goto, Fault, HeightInv,
           listener, ledger
<1>10. ASSUME NEW e \in Epochs, ConnectFails(e) PROVE HeightInv'
  <2>1. /\ \A x \in Epochs \ {e} : worker'[x] = worker[x]
        /\ worker'[e].head = worker[e].head /\ worker[e].head \in Nat
        /\ worker'[e].stage = "none"
    BY <1>p, <1>10 DEF ConnectFails, Goto, WorkerType, WorkerSet
  <2>2. worker'[e].head <= worker[e].head
    BY <2>1
  <2>3. UNCHANGED <<resets, chain, rows, topic>>
    BY <1>10 DEF ConnectFails, ledger
  <2>4. QED
    BY <1>p, <2>1, <2>2, <2>3, HeightKept
<1>11. ASSUME NEW e \in Epochs, History(e) \/ HistoryFails(e) \/ EndScan(e)
                \/ StartEvent(e) \/ Return(e)
       PROVE HeightInv'
  <2>1. /\ \A x \in Epochs \ {e} : worker'[x] = worker[x]
        /\ worker'[e].head = worker[e].head /\ worker[e].head \in Nat
        /\ worker'[e].stage \notin {"max", "delete", "sum", "commit"}
    BY <1>p, <1>11
       DEF History, HistoryFails, EndScan, StartEvent, Return, At, Fault, Goto, InEach,
           WorkerType, WorkerSet
  <2>2. worker'[e].head <= worker[e].head
    BY <2>1
  <2>3. UNCHANGED <<resets, chain, rows, topic>>
    BY <1>11 DEF History, HistoryFails, EndScan, StartEvent, Return, ledger
  <2>4. QED
    BY <1>p, <2>1, <2>2, <2>3, HeightKept
<1>12. ASSUME NEW e \in Epochs, Query(e) PROVE HeightInv'
  <2>1. /\ \A x \in Epochs \ {e} : worker'[x] = worker[x]
        /\ worker'[e].head = worker[e].head /\ worker[e].head \in Nat
        /\ worker'[e].stage \notin {"max", "delete", "sum", "commit"}
    BY <1>p, <1>12
       DEF Query, At, WorkerType, WorkerSet
  <2>2. worker'[e].head <= worker[e].head
    BY <2>1
  <2>3. UNCHANGED <<resets, chain, rows, topic>>
    BY <1>12 DEF Query, ledger
  <2>4. QED
    BY <1>p, <2>1, <2>2, <2>3, HeightKept
<1>13. ASSUME NEW e \in Epochs, Remembered(e) \/ LookUp(e) \/ AfterSend(e)
       PROVE HeightInv'
  <2>1. /\ \A x \in Epochs \ {e} : worker'[x] = worker[x]
        /\ worker'[e].head = worker[e].head /\ worker[e].head \in Nat
        /\ worker'[e].stage \notin {"max", "delete", "sum", "commit"}
    BY <1>p, <1>13
       DEF Remembered, LookUp, AfterSend, At, Goto, InEach, NextEvent, PassOver,
           WorkerType, WorkerSet
  <2>2. worker'[e].head <= worker[e].head
    BY <2>1
  <2>3. UNCHANGED <<resets, chain, rows, topic>>
    BY <1>13 DEF Remembered, LookUp, AfterSend, ledger
  <2>4. QED
    BY <1>p, <2>1, <2>2, <2>3, HeightKept
<1>14. ASSUME NEW e \in Epochs, Block(e) PROVE HeightInv'
  <2>1. Height \in Nat /\ Height' = Height
    BY <1>p, <1>14, HeightFacts DEF Block, Height
  <2>2. UNCHANGED <<resets, rows, topic>>
    BY <1>14 DEF Block, ledger
  <2>3. resets = 0 /\ worker' # worker =>
          \E n \in worker[e].head + 1..Height :
            worker' = [worker EXCEPT ![e].stage = "query", ![e].from = worker[e].head + 1,
                                     ![e].head = n]
    BY <1>p, <1>14, BlockScans DEF ToldInv
  <2>4. resets = 0 =>
          /\ \A x \in Epochs : worker'[x].stage \in {"query", worker[x].stage}
          /\ \A x \in Epochs : worker'[x].head <= Height
    BY <1>p, <2>1, <2>3 DEF WorkerType, WorkerSet, HeightInv
  <2>5. ASSUME resets = 0, NEW x \in Epochs PROVE worker'[x].stage # "max"
    <3>1. worker[x].stage = "max" => x = epoch
      BY <1>p DEF EpochInv, StageInv, Connected
    <3>2. e = epoch /\ worker[e].stage = "idle"
      BY <1>14 DEF Block, At
    <3>3. QED
      BY <2>4, <2>5, <3>1, <3>2
  <2>6. QED
    BY <2>1, <2>2, <2>4, <2>5 DEF HeightInv, Within
<1>15. ASSUME NEW e \in Epochs, QueryFails(e) PROVE HeightInv'
  <2>1. worker[e].from \in Nat /\ worker[e].from > 0 /\ worker[e].from <= worker[e].head
        /\ worker[e].head \in Nat
    BY <1>p, <1>15 DEF QueryFails, At, StageInv, WorkerType, WorkerSet
  <2>2. /\ \A x \in Epochs \ {e} : worker'[x] = worker[x]
        /\ worker'[e].head = worker[e].from - 1 /\ worker'[e].stage = "idle"
    BY <1>p, <1>15 DEF QueryFails, WorkerType, WorkerSet
  <2>3. worker'[e].head \in Nat /\ worker'[e].head <= worker[e].head
    BY <2>1, <2>2
  <2>4. UNCHANGED <<resets, chain, rows, topic>>
    BY <1>15 DEF QueryFails, ledger
  <2>5. QED
    BY <1>p, <2>2, <2>3, <2>4, HeightKept
<1>16. ASSUME NEW e \in Epochs, EventFails(e) PROVE HeightInv'
  <2>1. worker[e].todo # {} /\ worker[e].head \in Nat
    BY <1>p, <1>16 DEF EventFails, StageInv, WorkerType, WorkerSet
  <2>2. /\ \A x \in Epochs \ {e} : worker'[x] = worker[x]
        /\ worker'[e].head = worker[e].head /\ worker'[e].stage = "each"
    BY <1>p, <1>16 DEF EventFails, PassOver, NextEvent, WorkerType, WorkerSet
  <2>3. worker'[e].head <= worker[e].head
    BY <2>1, <2>2
  <2>4. topic' = topic \/ topic' = Append(topic, Event(e))
    BY <1>16 DEF EventFails
  <2>5. UNCHANGED <<resets, chain, rows>>
    BY <1>16 DEF EventFails, ledger
  <2>6. QED
    BY <1>p, <2>1, <2>2, <2>3, <2>4, <2>5, PublishFacts, HeightKept
<1>17. ASSUME NEW e \in Epochs, Send(e) PROVE HeightInv'
  <2>1. worker[e].todo # {} /\ worker[e].head \in Nat
    BY <1>p, <1>17 DEF Send, At, StageInv, WorkerType, WorkerSet
  <2>2. /\ \A x \in Epochs \ {e} : worker'[x] = worker[x]
        /\ worker'[e].head = worker[e].head /\ worker'[e].stage = "track"
    BY <1>p, <1>17 DEF Send, Publish, WorkerType, WorkerSet
  <2>3. worker'[e].head <= worker[e].head
    BY <2>1, <2>2
  <2>4. topic' = Append(topic, Event(e))
    BY <1>17 DEF Send, Publish
  <2>5. UNCHANGED <<resets, chain, rows>>
    BY <1>17 DEF Send, ledger
  <2>6. QED
    BY <1>p, <2>1, <2>2, <2>3, <2>4, <2>5, PublishFacts, HeightKept
<1>18. CASE Poll \/ UNCHANGED vars
  BY <1>18 DEF vars, Poll, HeightInv, Within, Height, listener, ledger
<1>19. QED
  BY <1>1, <1>2, <1>3, <1>4, <1>5, <1>6, <1>7, <1>8, <1>9, <1>10, <1>11, <1>12, <1>13,
       <1>14, <1>15, <1>16, <1>17, <1>18
       DEF Next, World, Listener, Work, Connecting, Processing, Failing, Failures

-----------------------------------------------------------------------------
(* The memory and the scan.  PublishedNext and AccountedNext are Published *)
(* and Accounted in the next state, and ScanNext says what ScanInv will of *)
(* a worker then, with a transaction tx in hand.                           *)

PublishedNext(d) == rows'[d] # 0 \/ \E i \in DOMAIN (topic') : topic'[i][1] = d
AccountedNext(d) ==
  \/ d = NoDeposit \/ PublishedNext(d)
  \/ excuse'[d] \in {"failed", "unknown"}
  \/ excuse'[d] = "remembered" /\ resets' > 0
ScanNext(w, tx) ==
  /\ w.stage \notin {"none", "head"} => w.head <= Height'
  /\ w.stage \in Connected =>
       \A i \in 1..w.head : AccountedNext(chain'[i]) \/ <<chain'[i], i>> \in w.todo
  /\ w.stage = "idle" => \A i \in 1..w.head : AccountedNext(chain'[i])
  /\ w.stage = "query" => \A i \in 1..w.from - 1 : AccountedNext(chain'[i])
  /\ w.stage = "track" => PublishedNext(tx)

(* They are.                                                               *)
LEMMA NextForms ==
  /\ (resets' = 0 =>
        /\ \A d \in Deposits : d \in Range(seen') => PublishedNext(d)
        /\ \A e \in Epochs : worker'[e].stage = "track" => PublishedNext(Tx(e)'))
       => MemoryInv'
  /\ (~astray' => \A e \in Epochs : e = epoch' => ScanNext(worker'[e], Tx(e)')) => ScanInv'
<1>1. (resets' = 0 =>
         /\ \A d \in Deposits : d \in Range(seen') => PublishedNext(d)
         /\ \A e \in Epochs : worker'[e].stage = "track" => PublishedNext(Tx(e)'))
        => MemoryInv'
  BY DEF MemoryInv, Published, Underway, PublishedNext
<1>2. ASSUME ~astray' => \A e \in Epochs : e = epoch' => ScanNext(worker'[e], Tx(e)')
      PROVE  ScanInv'
  BY <1>2 DEF ScanInv, ScanNext, Accounted, AccountedNext, Published, Underway, PublishedNext
<1>3. QED
  BY <1>1, <1>2

(* A deposit on the topic or with a row stays so, but for a purge.         *)
LEMMA PublishedStep ==
  ASSUME Shape, [Next]_vars, ~ \E e \in Epochs : PurgeCommit(e),
         NEW d \in Deposits, Published(d)
  PROVE  PublishedNext(d)
<1>p. /\ ChainType /\ WorkerType /\ MemoryType /\ PurgeType /\ LedgerType
      /\ TopicType /\ ExcuseType /\ EpochInv /\ StageInv
  BY TypeParts DEF Shape
<1>1. ASSUME NEW b \in Deposits \cup {NoDeposit}, Mine(b) PROVE PublishedNext(d)
  BY <1>1, <1>p DEF Mine, Published, Underway, PublishedNext, listener, ledger
<1>2. ASSUME Reset \/ Register \/ RecordLoss
               \/ Listen \/ LoseConnection \/ Restart
      PROVE PublishedNext(d)
  BY <1>2, <1>p
       DEF Reset, Register, RecordLoss, Listen, LoseConnection, Restart, Published,
           Underway, PublishedNext, listener, ledger
<1>3. ASSUME Record PROVE PublishedNext(d)
  <2>1. CASE rows[d] # 0
    <3>1. rows'[d] = rows[d]
      BY <1>p, <1>3, <2>1, TopicFacts DEF Record, LedgerType
    <3>2. QED
      BY <2>1, <3>1 DEF PublishedNext
  <2>2. ASSUME NEW i \in DOMAIN topic, topic[i][1] = d PROVE PublishedNext(d)
    <3>1. CASE i = 1
      <4>1. Head(topic)[1] = d /\ Head(topic)[2] > 0
        BY <1>p, <1>3, <2>2, <3>1, TopicFacts, Bounds DEF Record
      <4>2. rows'[d] # 0
        BY <1>p, <1>3, <4>1 DEF Record, LedgerType
      <4>3. QED
        BY <4>2 DEF PublishedNext
    <3>2. CASE i # 1
      <4>1. i - 1 \in DOMAIN Tail(topic) /\ Tail(topic)[i - 1] = topic[i]
        BY <1>p, <1>3, <2>2, <3>2, TopicFacts DEF Record
      <4>2. topic' = Tail(topic)
        BY <1>3 DEF Record
      <4>3. QED
        BY <2>2, <4>1, <4>2 DEF PublishedNext
    <3>3. QED
      BY <3>1, <3>2
  <2>3. QED
    BY <2>1, <2>2 DEF Published, Underway
<1>4. ASSUME NEW e \in Epochs, PurgeCommit(e) PROVE PublishedNext(d)
  BY <1>4
<1>5. ASSUME NEW e \in Epochs, Send(e) PROVE PublishedNext(d)
  <2>1. topic' = Append(topic, Event(e)) /\ Event(e) \in Report /\ rows' = rows
    BY <1>p, <1>5, EventFacts DEF Send, Publish, At, StageInv, ledger
  <2>2. QED
    BY <1>p, <2>1, AppendFacts DEF Published, Underway, PublishedNext
<1>6. ASSUME NEW e \in Epochs, EventFails(e) PROVE PublishedNext(d)
  <2>1. topic' = topic \/ topic' = Append(topic, Event(e))
    BY <1>6 DEF EventFails
  <2>2. Event(e) \in Report /\ rows' = rows
    BY <1>p, <1>6, EventFacts DEF EventFails, StageInv, ledger
  <2>3. QED
    BY <1>p, <2>1, <2>2, AppendFacts DEF Published, Underway, PublishedNext
<1>7. ASSUME NEW e \in Epochs, ReadHead(e) \/ ReadMax(e) \/ PurgeDelete(e)
               \/ PurgeSum(e) \/ History(e)
      PROVE PublishedNext(d)
  BY <1>7, <1>p
       DEF ReadHead, ReadMax, PurgeDelete, PurgeSum, History, Published, Underway,
           PublishedNext, listener, ledger
<1>8. ASSUME NEW e \in Epochs, Return(e) \/ EndScan(e) \/ Remembered(e)
               \/ StartEvent(e) \/ LookUp(e) \/ AfterSend(e)
               \/ Block(e) \/ Query(e)
      PROVE PublishedNext(d)
  BY <1>8, <1>p
       DEF Return, EndScan, Remembered, StartEvent, LookUp, AfterSend, Block, Query,
           Published, Underway, PublishedNext, listener, ledger
<1>9. ASSUME NEW e \in Epochs, ConnectFails(e) \/ PurgeFails(e) \/ HistoryFails(e)
               \/ QueryFails(e)
      PROVE PublishedNext(d)
  BY <1>9, <1>p
       DEF ConnectFails, PurgeFails, HistoryFails, QueryFails, Published, Underway,
           PublishedNext, listener, ledger
<1>10. CASE Poll \/ UNCHANGED vars
  BY <1>10, <1>p DEF vars, Poll, Published, Underway, PublishedNext, listener, ledger
<1>11. QED
  BY <1>1, <1>2, <1>3, <1>4, <1>5, <1>6, <1>7, <1>8, <1>9, <1>10
       DEF Next, World, Listener, Work, Connecting, Processing, Failing, Failures

(* A worker that has sent its event stays with it, or has just sent it.    *)
LEMMA HandStep ==
  ASSUME Shape, [Next]_vars, NEW x \in Epochs, worker'[x].stage = "track"
  PROVE  \/ worker[x].stage = "track" /\ Tx(x)' = Tx(x)
         \/ PublishedNext(Tx(x)')
<1>p. /\ ChainType /\ WorkerType /\ MemoryType /\ PurgeType /\ LedgerType
      /\ TopicType /\ ExcuseType /\ EpochInv /\ StageInv
  BY TypeParts DEF Shape
<1>t. worker'[x].todo = worker[x].todo => Tx(x)' = Tx(x)
  BY DEF Tx, Event
<1> DEFINE Goal == \/ worker[x].stage = "track" /\ worker'[x].todo = worker[x].todo
                   \/ PublishedNext(Tx(x)')
<1> SUFFICES Goal
  BY <1>t
<1> HIDE DEF Goal
<1>1. ASSUME NEW b \in Deposits \cup {NoDeposit}, Mine(b) PROVE Goal
  BY <1>1, <1>p DEF Mine, Goal, listener, ledger
<1>2. ASSUME Reset \/ Register \/ RecordLoss \/ Record \/ LoseConnection PROVE Goal
  BY <1>2, <1>p
       DEF Reset, Register, RecordLoss, Record, LoseConnection, Fault, Goal, listener,
           ledger
<1>3. ASSUME Listen PROVE Goal
  BY <1>3, <1>p, Bounds DEF Listen, Goal, WorkerType, WorkerSet, listener, ledger
<1>4. ASSUME Restart PROVE Goal
  BY <1>4, <1>p DEF Restart, Fault, NoWorker, Goal, listener, ledger
<1>5. ASSUME NEW e \in Epochs, ConnectFails(e) \/ ReadHead(e) PROVE Goal
  BY <1>5, <1>p
       DEF ConnectFails, ReadHead, Goto, Fault, At, Goal, WorkerType, WorkerSet,
           listener, ledger
<1>6. ASSUME NEW e \in Epochs, ReadMax(e) \/ PurgeDelete(e) \/ PurgeSum(e)
               \/ PurgeCommit(e) \/ PurgeFails(e)
      PROVE Goal
  BY <1>6, <1>p
       DEF ReadMax, PurgeDelete, PurgeSum, PurgeCommit, PurgeFails, At, Goto, Fault,
           Goal, WorkerType, WorkerSet, listener, ledger
<1>7. ASSUME NEW e \in Epochs, History(e) \/ HistoryFails(e) PROVE Goal
  BY <1>7, <1>p
       DEF History, HistoryFails, At, Fault, Goal, WorkerType, WorkerSet, listener,
           ledger
<1>8. ASSUME NEW e \in Epochs, EndScan(e) \/ StartEvent(e) \/ Return(e) PROVE Goal
  BY <1>8, <1>p
       DEF EndScan, StartEvent, Return, At, InEach, Goto, Goal, WorkerType, WorkerSet,
           listener, ledger
<1>9. ASSUME NEW e \in Epochs, Block(e) \/ Query(e) \/ QueryFails(e) PROVE Goal
  <2>1. \/ worker' = worker
        \/ worker' = [worker EXCEPT ![e] = worker'[e]] /\ worker'[e].stage # "track"
    BY <1>9, <1>p DEF Block, Query, QueryFails, At, WorkerType, WorkerSet
  <2>2. topic' = topic /\ rows' = rows /\ seen' = seen
    BY <1>9 DEF Block, Query, QueryFails, ledger
  <2>3. QED
    BY <1>9, <1>p, <2>1, <2>2 DEF Goal, WorkerType, WorkerSet
<1>10. ASSUME NEW e \in Epochs, Remembered(e) \/ LookUp(e) PROVE Goal
  BY <1>10, <1>p
       DEF Remembered, LookUp, PassOver, NextEvent, InEach, At, Goto, Goal, WorkerType,
           WorkerSet, listener, ledger
<1>11. ASSUME NEW e \in Epochs, EventFails(e) \/ AfterSend(e) PROVE Goal
  BY <1>11, <1>p
       DEF EventFails, AfterSend, PassOver, NextEvent, At, Fault, Goal, WorkerType,
           WorkerSet, listener, ledger
<1>12. ASSUME NEW e \in Epochs, Send(e) PROVE Goal
  <2>1. CASE x = e
    <3>1. worker'[e].todo = worker[e].todo
      BY <1>p, <1>12 DEF Send, Publish, WorkerType, WorkerSet
    <3>2. topic' = Append(topic, Event(e)) /\ Event(e) \in Report /\ Tx(e) = Event(e)[1]
      BY <1>p, <1>12, EventFacts DEF Send, Publish, At, StageInv, Tx
    <3>3. PublishedNext(Tx(e))
      BY <1>p, <3>2, AppendFacts DEF PublishedNext
    <3>4. QED
      BY <1>t, <2>1, <3>1, <3>3 DEF Goal
  <2>2. CASE x # e
    BY <1>p, <1>12, <2>2 DEF Send, Publish, Goal, WorkerType, WorkerSet
  <2>3. QED
    BY <2>1, <2>2
<1>13. ASSUME Poll \/ UNCHANGED vars PROVE Goal
  BY <1>13 DEF vars, Poll, Goal, listener
<1>14. QED
  BY <1>1, <1>2, <1>3, <1>4, <1>5, <1>6, <1>7, <1>8, <1>9, <1>10, <1>11, <1>12, <1>13
       DEF Next, World, Listener, Work, Connecting, Processing, Failing, Failures, Goal

(* What the memory has now it had, or has its row, or was just sent.       *)
LEMMA SeenStep ==
  ASSUME Shape, [Next]_vars, NEW d \in Range(seen')
  PROVE  \/ d \in Range(seen) \/ rows[d] # 0
         \/ \E e \in Epochs : worker[e].stage = "track" /\ d = Tx(e)
<1>p. /\ ChainType /\ WorkerType /\ MemoryType /\ PurgeType /\ LedgerType
      /\ TopicType /\ ExcuseType /\ EpochInv /\ StageInv
  BY TypeParts DEF Shape
<1> DEFINE Goal == \/ d \in Range(seen) \/ rows[d] # 0
                   \/ \E e \in Epochs : worker[e].stage = "track" /\ d = Tx(e)
<1> SUFFICES Goal
  OBVIOUS
<1> HIDE DEF Goal
<1>1. ASSUME NEW b \in Deposits \cup {NoDeposit}, Mine(b) PROVE Goal
  BY <1>1 DEF Mine, Goal, listener, ledger
<1>2. ASSUME Reset \/ Register \/ RecordLoss
               \/ Record \/ LoseConnection \/ Listen
      PROVE Goal
  BY <1>2
       DEF Reset, Register, RecordLoss, Record, LoseConnection, Listen, Goal, listener,
           ledger
<1>3. ASSUME Restart PROVE Goal
  BY <1>3, EmptySeq DEF Restart, Goal, Range, listener, ledger
<1>4. ASSUME NEW e \in Epochs, ReadHead(e) \/ ReadMax(e) \/ PurgeDelete(e)
               \/ PurgeSum(e) \/ PurgeCommit(e) \/ History(e)
      PROVE Goal
  BY <1>4
       DEF ReadHead, ReadMax, PurgeDelete, PurgeSum, PurgeCommit, History, Goal,
           listener, ledger
<1>5. ASSUME NEW e \in Epochs, ConnectFails(e) \/ PurgeFails(e) \/ HistoryFails(e)
               \/ EventFails(e) \/ QueryFails(e)
      PROVE Goal
  BY <1>5
       DEF ConnectFails, PurgeFails, HistoryFails, EventFails, QueryFails, Goal,
           listener, ledger
<1>6. ASSUME NEW e \in Epochs, Return(e) \/ EndScan(e) \/ Remembered(e)
               \/ StartEvent(e) \/ Send(e) \/ Block(e)
               \/ Query(e)
      PROVE Goal
  BY <1>6
       DEF Return, EndScan, Remembered, StartEvent, Send, Block, Query, Goal, listener,
           ledger
<1>7. ASSUME NEW e \in Epochs, LookUp(e) PROVE Goal
  <2>1. CASE UNCHANGED seen
    BY <2>1 DEF Goal
  <2>2. CASE ~UNCHANGED seen
    <3>1. Track(Tx(e)) /\ rows[Tx(e)] # 0
      BY <1>7, <2>2 DEF LookUp
    <3>2. d = Tx(e) \/ d \in Range(seen)
      BY <1>p, <1>7, <3>1, EventFacts, TrackFacts DEF LookUp, At, StageInv
    <3>3. QED
      BY <3>1, <3>2 DEF Goal
  <2>3. QED
    BY <2>1, <2>2
<1>8. ASSUME NEW e \in Epochs, AfterSend(e) PROVE Goal
  <2>1. Track(Tx(e)) /\ worker[e].stage = "track"
    BY <1>8 DEF AfterSend, At
  <2>2. d = Tx(e) \/ d \in Range(seen)
    BY <1>p, <2>1, EventFacts, TrackFacts DEF StageInv
  <2>3. QED
    BY <2>1, <2>2 DEF Goal
<1>9. ASSUME Poll \/ UNCHANGED vars PROVE Goal
  BY <1>9 DEF vars, Poll, Goal, listener
<1>10. QED
  BY <1>1, <1>2, <1>3, <1>4, <1>5, <1>6, <1>7, <1>8, <1>9
       DEF Next, World, Listener, Work, Connecting, Processing, Failing, Failures, Goal

(* Resets are only counted up.                                             *)
LEMMA ResetsStep == [Next]_vars => resets' \in {resets, resets + 1}
<1> SUFFICES ASSUME [Next]_vars PROVE resets' \in {resets, resets + 1}
  OBVIOUS
<1>1. ASSUME NEW b \in Deposits \cup {NoDeposit}, Mine(b)
      PROVE resets' \in {resets, resets + 1}
  BY <1>1 DEF Mine, listener, ledger
<1>2. ASSUME Reset \/ Register \/ RecordLoss
               \/ Record \/ Listen \/ LoseConnection
               \/ Restart
      PROVE resets' \in {resets, resets + 1}
  BY <1>2
       DEF Reset, Register, RecordLoss, Record, Listen, LoseConnection, Restart,
           listener, ledger
<1>3. ASSUME NEW e \in Epochs, ReadHead(e) \/ ReadMax(e) \/ PurgeDelete(e)
               \/ PurgeSum(e) \/ PurgeCommit(e) \/ History(e)
      PROVE resets' \in {resets, resets + 1}
  BY <1>3
       DEF ReadHead, ReadMax, PurgeDelete, PurgeSum, PurgeCommit, History, listener,
           ledger
<1>4. ASSUME NEW e \in Epochs, Return(e) \/ EndScan(e) \/ Remembered(e)
               \/ StartEvent(e) \/ LookUp(e) \/ Send(e)
               \/ AfterSend(e) \/ Block(e) \/ Query(e)
      PROVE resets' \in {resets, resets + 1}
  BY <1>4
       DEF Return, EndScan, Remembered, StartEvent, LookUp, Send, AfterSend, Block,
           Query, listener, ledger
<1>5. ASSUME NEW e \in Epochs, ConnectFails(e) \/ PurgeFails(e) \/ HistoryFails(e)
               \/ EventFails(e) \/ QueryFails(e)
      PROVE resets' \in {resets, resets + 1}
  BY <1>5
       DEF ConnectFails, PurgeFails, HistoryFails, EventFails, QueryFails, listener,
           ledger
<1>6. CASE Poll \/ UNCHANGED vars
  BY <1>6 DEF vars, Poll, listener, ledger
<1>7. QED
  BY <1>1, <1>2, <1>3, <1>4, <1>5, <1>6
       DEF Next, World, Listener, Work, Connecting, Processing, Failing, Failures

(* On a chain never reset what the memory has was published.               *)
LEMMA RememberedStep == Shape /\ HeightInv /\ MemoryInv /\ [Next]_vars => MemoryInv'
<1> SUFFICES ASSUME Shape, HeightInv, MemoryInv, [Next]_vars, resets' = 0
             PROVE  /\ \A d \in Deposits : d \in Range(seen') => PublishedNext(d)
                    /\ \A e \in Epochs : worker'[e].stage = "track" => PublishedNext(Tx(e)')
  BY NextForms
<1>p. /\ ChainType /\ WorkerType /\ MemoryType /\ PurgeType /\ LedgerType
      /\ TopicType /\ ExcuseType /\ EpochInv /\ StageInv
  BY TypeParts DEF Shape
<1>1. resets = 0
  BY <1>p, Bounds, ResetsStep DEF ChainType
<1>2. ~ \E e \in Epochs : PurgeCommit(e)
  BY <1>1 DEF HeightInv, PurgeCommit, At
<1>3. \A d \in Deposits : Published(d) => PublishedNext(d)
  BY <1>2, PublishedStep
<1>4. ASSUME NEW e \in Epochs, worker[e].stage = "track"
      PROVE  Tx(e) \in Deposits /\ PublishedNext(Tx(e))
  <2>1. Tx(e) \in Deposits
    BY <1>p, <1>4, EventFacts DEF StageInv
  <2>2. QED
    BY <1>1, <1>3, <1>4, <2>1 DEF MemoryInv
<1>5. ASSUME NEW d \in Deposits, d \in Range(seen') PROVE PublishedNext(d)
  <2>1. CASE d \in Range(seen)
    BY <1>1, <1>3, <2>1 DEF MemoryInv
  <2>2. CASE rows[d] # 0
    BY <1>3, <2>2 DEF Published
  <2>3. QED
    BY <1>4, <1>5, <2>1, <2>2, SeenStep
<1>6. ASSUME NEW e \in Epochs, worker'[e].stage = "track" PROVE PublishedNext(Tx(e)')
  BY <1>4, <1>6, HandStep
<1>7. QED
  BY <1>5, <1>6

(* A deposit's excuse is changed only for another, or as it is published.  *)
LEMMA ExcusesStep ==
  ASSUME Shape, MemoryInv, [Next]_vars, ~astray', ~ \E e \in Epochs : ReadHead(e),
         NEW d \in Deposits
  PROVE  \/ excuse'[d] = excuse[d]
         \/ excuse'[d] \in {"failed", "unknown"}
         \/ excuse'[d] = "remembered" /\ resets' > 0
         \/ PublishedNext(d)
<1>p. /\ ChainType /\ WorkerType /\ MemoryType /\ PurgeType /\ LedgerType
      /\ TopicType /\ ExcuseType /\ EpochInv /\ StageInv
  BY TypeParts DEF Shape
<1> DEFINE Goal == \/ excuse'[d] = excuse[d]
                   \/ excuse'[d] \in {"failed", "unknown"}
                   \/ excuse'[d] = "remembered" /\ resets' > 0
                   \/ PublishedNext(d)
<1> SUFFICES Goal
  OBVIOUS
<1> HIDE DEF Goal
<1>1. ASSUME NEW b \in Deposits \cup {NoDeposit}, Mine(b) PROVE Goal
  BY <1>1 DEF Mine, Goal, listener, ledger
<1>2. ASSUME Reset PROVE Goal
  BY <1>2 DEF Reset
<1>3. ASSUME Register \/ RecordLoss \/ Record
               \/ LoseConnection \/ Listen \/ Restart
      PROVE Goal
  BY <1>3
       DEF Register, RecordLoss, Record, LoseConnection, Listen, Restart, Goal,
           listener, ledger
<1>4. ASSUME NEW e \in Epochs, ReadHead(e) PROVE Goal
  BY <1>4
<1>5. ASSUME NEW e \in Epochs, ReadMax(e) \/ PurgeDelete(e) \/ PurgeSum(e)
               \/ PurgeCommit(e) \/ History(e)
      PROVE Goal
  BY <1>5
       DEF ReadMax, PurgeDelete, PurgeSum, PurgeCommit, History, Goal, listener, ledger
<1>6. ASSUME NEW e \in Epochs, ConnectFails(e) \/ PurgeFails(e) \/ QueryFails(e)
      PROVE Goal
  BY <1>6 DEF ConnectFails, PurgeFails, QueryFails, Goal, listener, ledger
<1>7. ASSUME NEW e \in Epochs, HistoryFails(e) \/ EventFails(e) PROVE Goal
  BY <1>7 DEF HistoryFails, EventFails, Goal, Excuse, PassOver, listener, ledger
<1>8. ASSUME NEW e \in Epochs, Return(e) \/ EndScan(e) \/ StartEvent(e)
               \/ Block(e) \/ Query(e) \/ AfterSend(e)
      PROVE Goal
  BY <1>8
       DEF Return, EndScan, StartEvent, Block, Query, AfterSend, Goal, listener, ledger
<1>9. ASSUME NEW e \in Epochs, LookUp(e) PROVE Goal
  BY <1>9 DEF LookUp, Goal, Excuse, PassOver, listener, ledger
<1>10. ASSUME NEW e \in Epochs, Remembered(e) PROVE Goal
  <2>1. CASE UNCHANGED excuse
    BY <2>1 DEF Goal
  <2>2. CASE ~UNCHANGED excuse
    <3>1. /\ rows[Tx(e)] = 0 /\ ~Underway(Tx(e)) /\ Tx(e) \in Range(seen)
          /\ Excuse({Tx(e)}, "remembered") /\ worker[e].todo # {}
      BY <1>10, <2>2 DEF Remembered, PassOver, InEach
    <3>2. Tx(e) \in Deposits
      BY <1>p, <3>1, EventFacts
    <3>3. resets # 0
      BY <3>1, <3>2 DEF MemoryInv, Published
    <3>4. resets' > 0
      BY <1>p, <1>10, <3>3, Bounds DEF Remembered, ChainType
    <3>5. QED
      BY <3>1, <3>4 DEF Excuse, Goal
  <2>3. QED
    BY <2>1, <2>2
<1>11. ASSUME NEW e \in Epochs, Send(e) PROVE Goal
  <2>1. topic' = Append(topic, Event(e)) /\ Event(e) \in Report /\ Tx(e) = Event(e)[1]
    BY <1>p, <1>11, EventFacts DEF Send, Publish, At, StageInv, Tx
  <2>2. PublishedNext(Tx(e))
    BY <1>p, <2>1, AppendFacts DEF PublishedNext
  <2>3. QED
    BY <1>11, <2>2 DEF Send, Excuse, Goal
<1>12. ASSUME Poll \/ UNCHANGED vars PROVE Goal
  BY <1>12 DEF vars, Poll, Goal
<1>13. QED
  BY <1>1, <1>2, <1>3, <1>4, <1>5, <1>6, <1>7, <1>8, <1>9, <1>10, <1>11, <1>12
       DEF Next, World, Listener, Work, Connecting, Processing, Failing, Failures, Goal

(* What is accounted for stays so, until a connection reads its head.      *)
LEMMA AccountedStep ==
  ASSUME Shape, MemoryInv, [Next]_vars, ~astray',
         ~ \E e \in Epochs : ReadHead(e) \/ PurgeCommit(e),
         NEW d \in Deposits \cup {NoDeposit}, Accounted(d)
  PROVE  AccountedNext(d)
<1>1. CASE d = NoDeposit
  BY <1>1 DEF AccountedNext
<1>2. CASE d \in Deposits /\ Published(d)
  BY <1>2, PublishedStep DEF AccountedNext
<1>3. CASE d \in Deposits /\ (excuse[d] \in {"failed", "unknown"}
                              \/ (excuse[d] = "remembered" /\ resets > 0))
  <2>1. resets > 0 => resets' > 0
    <3>1. resets \in Nat
      BY TypeParts, Bounds DEF Shape, ChainType
    <3>2. QED
      BY <3>1, ResetsStep
  <2>2. QED
    BY <1>3, <2>1, ExcusesStep DEF AccountedNext
<1>4. QED
  BY <1>1, <1>2, <1>3 DEF Accounted, Published

(* The chain grows by a block, or the reset is noted.                      *)
LEMMA ChainSteps == [Next]_vars => (astray' \/ chain' = chain
      \/ \E x \in Deposits \cup {NoDeposit} : chain' = Append(chain, x))
<1> SUFFICES ASSUME [Next]_vars PROVE (astray' \/ chain' = chain
      \/ \E x \in Deposits \cup {NoDeposit} : chain' = Append(chain, x))
  OBVIOUS
<1>1. ASSUME NEW b \in Deposits \cup {NoDeposit}, Mine(b)
      PROVE (astray' \/ chain' = chain
      \/ \E x \in Deposits \cup {NoDeposit} : chain' = Append(chain, x))
  BY <1>1 DEF Mine, listener, ledger
<1>2. ASSUME Reset \/ Register \/ RecordLoss
               \/ Record \/ Listen \/ LoseConnection
               \/ Restart
      PROVE (astray' \/ chain' = chain
      \/ \E x \in Deposits \cup {NoDeposit} : chain' = Append(chain, x))
  BY <1>2
       DEF Reset, Register, RecordLoss, Record, Listen, LoseConnection, Restart,
           listener, ledger
<1>3. ASSUME NEW e \in Epochs, ReadHead(e) \/ ReadMax(e) \/ PurgeDelete(e)
               \/ PurgeSum(e) \/ PurgeCommit(e) \/ History(e)
      PROVE (astray' \/ chain' = chain
      \/ \E x \in Deposits \cup {NoDeposit} : chain' = Append(chain, x))
  BY <1>3
       DEF ReadHead, ReadMax, PurgeDelete, PurgeSum, PurgeCommit, History, listener,
           ledger
<1>4. ASSUME NEW e \in Epochs, Return(e) \/ EndScan(e) \/ Remembered(e)
               \/ StartEvent(e) \/ LookUp(e) \/ Send(e)
               \/ AfterSend(e) \/ Block(e) \/ Query(e)
      PROVE (astray' \/ chain' = chain
      \/ \E x \in Deposits \cup {NoDeposit} : chain' = Append(chain, x))
  BY <1>4
       DEF Return, EndScan, Remembered, StartEvent, LookUp, Send, AfterSend, Block,
           Query, listener, ledger
<1>5. ASSUME NEW e \in Epochs, ConnectFails(e) \/ PurgeFails(e) \/ HistoryFails(e)
               \/ EventFails(e) \/ QueryFails(e)
      PROVE (astray' \/ chain' = chain
      \/ \E x \in Deposits \cup {NoDeposit} : chain' = Append(chain, x))
  BY <1>5
       DEF ConnectFails, PurgeFails, HistoryFails, EventFails, QueryFails, listener,
           ledger
<1>6. CASE Poll \/ UNCHANGED vars
  BY <1>6 DEF vars, Poll, listener, ledger
<1>7. QED
  BY <1>1, <1>2, <1>3, <1>4, <1>5, <1>6
       DEF Next, World, Listener, Work, Connecting, Processing, Failing, Failures

(* The blocks there were stay in their places, or the reset is noted.      *)
LEMMA ChainGrows ==
  ASSUME ChainType, [Next]_vars, ~astray'
  PROVE  /\ Height <= Height' /\ Height \in Nat /\ Height' \in Nat
         /\ \A i \in 1..Height :
              chain'[i] = chain[i] /\ chain[i] \in Deposits \cup {NoDeposit}
<1>1. chain \in Seq(Deposits \cup {NoDeposit}) /\ Height \in Nat
      /\ \A i \in 1..Height : chain[i] \in Deposits \cup {NoDeposit}
  BY HeightFacts DEF ChainType
<1>2. CASE chain' = chain
  BY <1>1, <1>2 DEF Height
<1>3. ASSUME NEW x \in Deposits \cup {NoDeposit}, chain' = Append(chain, x)
      PROVE  Height' = Height + 1 /\ \A i \in 1..Height : chain'[i] = chain[i]
  BY <1>1, <1>3, AppendProperties DEF Height
<1>4. QED
  BY <1>1, <1>2, <1>3, ChainSteps

(* A purge and a new head are of the current connection.                   *)
LEMMA CurrentFacts ==
  ASSUME Shape, NEW x \in Epochs, ReadHead(x) \/ PurgeCommit(x)
  PROVE  x = epoch /\ epoch' = epoch
<1>1. worker[x].stage \in {"head", "commit"} /\ epoch' = epoch
  BY DEF ReadHead, PurgeCommit, At
<1>2. QED
  BY <1>1 DEF Shape, EpochInv, StageInv, Connected

(* Only these replace the current connection.                              *)
LEMMA EpochSteps == [Next]_vars => (epoch' = epoch \/ Listen \/ LoseConnection \/ Restart)
<1> SUFFICES ASSUME [Next]_vars PROVE (epoch' = epoch \/ Listen \/ LoseConnection \/ Restart)
  OBVIOUS
<1>1. ASSUME NEW b \in Deposits \cup {NoDeposit}, Mine(b)
      PROVE (epoch' = epoch \/ Listen \/ LoseConnection \/ Restart)
  BY <1>1 DEF Mine, listener, ledger
<1>2. ASSUME Reset \/ Register \/ RecordLoss \/ Record
      PROVE (epoch' = epoch \/ Listen \/ LoseConnection \/ Restart)
  BY <1>2 DEF Reset, Register, RecordLoss, Record, listener, ledger
<1>3. ASSUME Listen \/ LoseConnection \/ Restart
      PROVE (epoch' = epoch \/ Listen \/ LoseConnection \/ Restart)
  BY <1>3
<1>4. ASSUME NEW e \in Epochs, ReadHead(e) \/ ReadMax(e) \/ PurgeDelete(e)
               \/ PurgeSum(e) \/ PurgeCommit(e) \/ History(e)
      PROVE (epoch' = epoch \/ Listen \/ LoseConnection \/ Restart)
  BY <1>4
       DEF ReadHead, ReadMax, PurgeDelete, PurgeSum, PurgeCommit, History, listener,
           ledger
<1>5. ASSUME NEW e \in Epochs, Return(e) \/ EndScan(e) \/ Remembered(e)
               \/ StartEvent(e) \/ LookUp(e) \/ Send(e)
               \/ AfterSend(e) \/ Block(e) \/ Query(e)
      PROVE (epoch' = epoch \/ Listen \/ LoseConnection \/ Restart)
  BY <1>5
       DEF Return, EndScan, Remembered, StartEvent, LookUp, Send, AfterSend, Block,
           Query, listener, ledger
<1>6. ASSUME NEW e \in Epochs, ConnectFails(e) \/ PurgeFails(e) \/ HistoryFails(e)
               \/ EventFails(e) \/ QueryFails(e)
      PROVE (epoch' = epoch \/ Listen \/ LoseConnection \/ Restart)
  BY <1>6
       DEF ConnectFails, PurgeFails, HistoryFails, EventFails, QueryFails, listener,
           ledger
<1>7. CASE Poll \/ UNCHANGED vars
  BY <1>7 DEF vars, Poll, listener, ledger
<1>8. QED
  BY <1>1, <1>2, <1>3, <1>4, <1>5, <1>6, <1>7
       DEF Next, World, Listener, Work, Connecting, Processing, Failing, Failures

(* Only reading the head makes up for a reset.                             *)
LEMMA AstraySteps == [Next]_vars => (astray /\ ~astray' => \E x \in Epochs : ReadHead(x))
<1> SUFFICES ASSUME [Next]_vars PROVE (astray /\ ~astray' => \E x \in Epochs : ReadHead(x))
  OBVIOUS
<1>1. ASSUME NEW b \in Deposits \cup {NoDeposit}, Mine(b)
      PROVE (astray /\ ~astray' => \E x \in Epochs : ReadHead(x))
  BY <1>1 DEF Mine, listener, ledger
<1>2. ASSUME Reset \/ Register \/ RecordLoss
               \/ Record \/ Listen \/ LoseConnection
               \/ Restart
      PROVE (astray /\ ~astray' => \E x \in Epochs : ReadHead(x))
  BY <1>2
       DEF Reset, Register, RecordLoss, Record, Listen, LoseConnection, Restart,
           listener, ledger
<1>3. ASSUME NEW e \in Epochs, ReadHead(e)
      PROVE (astray /\ ~astray' => \E x \in Epochs : ReadHead(x))
  BY <1>3
<1>4. ASSUME NEW e \in Epochs, ReadMax(e) \/ PurgeDelete(e) \/ PurgeSum(e)
               \/ PurgeCommit(e) \/ History(e)
      PROVE (astray /\ ~astray' => \E x \in Epochs : ReadHead(x))
  BY <1>4 DEF ReadMax, PurgeDelete, PurgeSum, PurgeCommit, History, listener, ledger
<1>5. ASSUME NEW e \in Epochs, Return(e) \/ EndScan(e) \/ Remembered(e)
               \/ StartEvent(e) \/ LookUp(e) \/ Send(e)
               \/ AfterSend(e) \/ Block(e) \/ Query(e)
      PROVE (astray /\ ~astray' => \E x \in Epochs : ReadHead(x))
  BY <1>5
       DEF Return, EndScan, Remembered, StartEvent, LookUp, Send, AfterSend, Block,
           Query, listener, ledger
<1>6. ASSUME NEW e \in Epochs, ConnectFails(e) \/ PurgeFails(e) \/ HistoryFails(e)
               \/ EventFails(e) \/ QueryFails(e)
      PROVE (astray /\ ~astray' => \E x \in Epochs : ReadHead(x))
  BY <1>6
       DEF ConnectFails, PurgeFails, HistoryFails, EventFails, QueryFails, listener,
           ledger
<1>7. CASE Poll \/ UNCHANGED vars
  BY <1>7 DEF vars, Poll, listener, ledger
<1>8. QED
  BY <1>1, <1>2, <1>3, <1>4, <1>5, <1>6, <1>7
       DEF Next, World, Listener, Work, Connecting, Processing, Failing, Failures

(* A worker moves by its own steps, but for a new or a lost process.       *)
LEMMA OwnStep ==
  ASSUME WorkerType, [Next]_vars, NEW x \in Epochs
  PROVE  worker'[x] = worker[x] \/ Listen \/ Restart \/ Work(x) \/ Failing(x)
<1>1. ASSUME NEW e \in Epochs, Connecting(e) PROVE e = x \/ worker'[x] = worker[x]
  BY <1>1
     DEF WorkerType, Connecting, ReadHead, ReadMax, PurgeDelete, PurgeSum, PurgeCommit,
         History, Goto
<1>2. ASSUME NEW e \in Epochs, Processing(e) PROVE e = x \/ worker'[x] = worker[x]
  BY <1>2
     DEF WorkerType, Processing, Return, EndScan, Remembered, StartEvent, LookUp, Send,
         AfterSend, Goto, PassOver, NextEvent, Publish
<1>3. ASSUME NEW e \in Epochs, Failing(e) PROVE e = x \/ worker'[x] = worker[x]
  BY <1>3
     DEF WorkerType, Failing, ConnectFails, PurgeFails, HistoryFails, EventFails,
         QueryFails, Goto, PassOver, NextEvent
<1>4. ASSUME NEW e \in Epochs, Block(e) \/ Query(e) PROVE e = x \/ worker'[x] = worker[x]
  BY <1>4 DEF WorkerType, Block, Query
<1>5. CASE World \/ Record \/ RecordLoss \/ LoseConnection \/ Poll \/ UNCHANGED vars
  BY <1>5
     DEF World, Mine, Reset, Register, Record, RecordLoss, LoseConnection, Poll, listener,
         vars
<1>6. QED
  BY <1>1, <1>2, <1>3, <1>4, <1>5 DEF Next, Listener, Failures, Work

(* What the current connection has scanned stays so for its worker, until  *)
(* it reads the head.                                                      *)
LEMMA ScanKept ==
  ASSUME Shape, MemoryInv, ScanInv, [Next]_vars, ~astray',
         ~ \E e \in Epochs : ReadHead(e) \/ PurgeCommit(e),
         NEW x \in Epochs, x = epoch
  PROVE  ScanNext(worker[x], Tx(x))
<1>p. ChainType /\ WorkerType /\ StageInv
  BY TypeParts DEF Shape
<1>1. ~astray
  BY AstraySteps
<1>2. /\ worker[x].stage \notin {"none", "head"} => worker[x].head <= Height
      /\ worker[x].stage \in Connected =>
           \A i \in 1..worker[x].head :
             Accounted(chain[i]) \/ <<chain[i], i>> \in worker[x].todo
      /\ worker[x].stage = "idle" => \A i \in 1..worker[x].head : Accounted(chain[i])
      /\ worker[x].stage = "query" => \A i \in 1..worker[x].from - 1 : Accounted(chain[i])
      /\ worker[x].stage = "track" => Published(Tx(x))
  BY <1>1 DEF ScanInv
<1>3. /\ Height <= Height' /\ Height \in Nat /\ Height' \in Nat
      /\ \A i \in 1..Height :
           chain'[i] = chain[i] /\ chain[i] \in Deposits \cup {NoDeposit}
  BY <1>p, ChainGrows
<1>4. \A i \in 1..Height : Accounted(chain[i]) => AccountedNext(chain'[i])
  BY <1>3, AccountedStep
<1>5. worker[x].head \in Nat /\ worker[x].from \in Nat
  BY <1>p DEF WorkerType, WorkerSet
<1>6. worker[x].stage \notin {"none", "head"} => worker[x].head <= Height'
  BY <1>2, <1>3, <1>5
<1>7. worker[x].stage \in Connected =>
        \A i \in 1..worker[x].head :
          AccountedNext(chain'[i]) \/ <<chain'[i], i>> \in worker[x].todo
  BY <1>2, <1>3, <1>4, <1>5 DEF Connected
<1>8. worker[x].stage = "idle" => \A i \in 1..worker[x].head : AccountedNext(chain'[i])
  BY <1>2, <1>3, <1>4, <1>5
<1>9. worker[x].stage = "query" => \A i \in 1..worker[x].from - 1 : AccountedNext(chain'[i])
  BY <1>p, <1>2, <1>3, <1>4, <1>5 DEF StageInv
<1>10. worker[x].stage = "track" => PublishedNext(Tx(x))
  BY <1>p, <1>2, EventFacts, PublishedStep DEF StageInv
<1>11. QED
  BY <1>6, <1>7, <1>8, <1>9, <1>10 DEF ScanNext

(* An event that is done with and accounted for leaves the scan as it was. *)
LEMMA EventDone ==
  ASSUME WorkerType, NEW x \in Epochs, ScanNext(worker[x], Tx(x)),
         worker[x].stage \in Connected, AccountedNext(Tx(x)),
         worker'[x] = [worker[x] EXCEPT !.todo = @ \ {Event(x)}, !.stage = "each"]
  PROVE  ScanNext(worker'[x], Tx(x)')
<1>1. /\ worker'[x].stage = "each" /\ worker'[x].head = worker[x].head
      /\ worker'[x].todo = worker[x].todo \ {Event(x)}
  BY DEF WorkerType, WorkerSet
<1>2. /\ worker[x].head <= Height'
      /\ \A i \in 1..worker[x].head :
           AccountedNext(chain'[i]) \/ <<chain'[i], i>> \in worker[x].todo
  BY DEF ScanNext, Connected
<1>3. \A i \in 1..worker[x].head :
        AccountedNext(chain'[i]) \/ <<chain'[i], i>> \in worker'[x].todo
  <2> SUFFICES ASSUME NEW i \in 1..worker[x].head,
                      <<chain'[i], i>> \notin worker'[x].todo
               PROVE  AccountedNext(chain'[i])
    OBVIOUS
  <2>1. CASE <<chain'[i], i>> \notin worker[x].todo
    BY <1>2, <2>1
  <2>2. CASE <<chain'[i], i>> \in worker[x].todo
    <3>1. Event(x) = <<chain'[i], i>>
      BY <1>1, <2>2
    <3>2. Tx(x) = chain'[i]
      BY <3>1 DEF Tx
    <3>3. QED
      BY <3>2
  <2>3. QED
    BY <2>1, <2>2
<1>4. QED
  BY <1>1, <1>2, <1>3 DEF ScanNext

(* A query returns what is not accounted for of the blocks it asks for.    *)
LEMMA ScanAdds ==
  ASSUME ChainType, NEW m \in Nat, NEW n \in Nat, n <= Height, chain' = chain,
         \A i \in 1..m - 1 : AccountedNext(chain'[i])
  PROVE  \A i \in 1..n : AccountedNext(chain'[i]) \/ <<chain'[i], i>> \in DepositsIn(m, n)
<1>1. ASSUME NEW i \in 1..n, i >= m, chain[i] # NoDeposit
      PROVE  <<chain'[i], i>> \in DepositsIn(m, n)
  BY <1>1, QueryFacts, HeightFacts
<1>2. ASSUME NEW i \in 1..n, chain[i] = NoDeposit PROVE AccountedNext(chain'[i])
  BY <1>2 DEF AccountedNext
<1>3. QED
  BY <1>1, <1>2

(* A step of the current worker keeps account of what it has scanned.      *)
LEMMA WorkStep ==
  ASSUME Shape, ToldInv, MemoryInv, ScanInv, [Next]_vars, ~astray', NEW x \in Epochs,
         x = epoch, epoch' = epoch, ScanNext(worker[x], Tx(x)), Work(x) \/ Failing(x),
         ~ \E e \in Epochs : ReadHead(e) \/ PurgeCommit(e)
  PROVE  ScanNext(worker'[x], Tx(x)')
<1>p. ChainType /\ WorkerType /\ LedgerType /\ PollerType /\ EpochInv /\ StageInv
  BY TypeParts DEF Shape
<1>k. worker[x].head \in Nat /\ worker[x].from \in Nat
  BY <1>p DEF WorkerType, WorkerSet
<1>1. ASSUME ConnectFails(x) PROVE ScanNext(worker'[x], Tx(x)')
  BY <1>p, <1>1 DEF ConnectFails, Goto, ScanNext, WorkerType, WorkerSet, Connected
<1>2. ASSUME ReadMax(x) \/ PurgeDelete(x) \/ PurgeSum(x) \/ PurgeFails(x)
      PROVE  ScanNext(worker'[x], Tx(x)')
  <2>1. /\ worker'[x].stage \in {"delete", "sum", "commit", "history"}
        /\ worker'[x].head = worker[x].head
        /\ worker[x].stage \in {"max", "delete", "sum", "commit"}
    BY <1>p, <1>2
       DEF ReadMax, PurgeDelete, PurgeSum, PurgeFails, At, Goto, WorkerType, WorkerSet
  <2>2. QED
    BY <2>1 DEF ScanNext, Connected
<1>3. ASSUME History(x) PROVE ScanNext(worker'[x], Tx(x)')
  <2>1. /\ worker'[x].stage = "each" /\ worker'[x].head = worker[x].head
        /\ worker'[x].todo = DepositsIn(0, worker[x].head) /\ chain' = chain
        /\ worker[x].stage = "history"
    BY <1>p, <1>3 DEF History, At, WorkerType, WorkerSet
  <2>2. worker[x].head <= Height' /\ Height' = Height
    BY <2>1 DEF ScanNext, Height
  <2>3. \A i \in 1..worker[x].head :
          AccountedNext(chain'[i]) \/ <<chain'[i], i>> \in worker'[x].todo
    BY <1>p, <1>k, <2>1, <2>2, ScanAdds
  <2>4. QED
    BY <2>1, <2>2, <2>3 DEF ScanNext
<1>4. ASSUME HistoryFails(x) PROVE ScanNext(worker'[x], Tx(x)')
  <2>1. /\ worker'[x].stage = "idle" /\ worker'[x].head = worker[x].head
        /\ chain' = chain /\ worker[x].stage = "history"
        /\ Excuse({ev[1] : ev \in DepositsIn(0, worker[x].head)}, "failed")
    BY <1>p, <1>4 DEF HistoryFails, At, WorkerType, WorkerSet
  <2>2. worker[x].head <= Height' /\ Height' = Height
    BY <2>1 DEF ScanNext, Height
  <2>3. ASSUME NEW i \in 1..worker[x].head PROVE AccountedNext(chain'[i])
    <3>1. CASE chain[i] = NoDeposit
      BY <2>1, <3>1 DEF AccountedNext
    <3>2. CASE chain[i] # NoDeposit
      <4>1. i \in 1..Height /\ chain[i] \in Deposits
        BY <1>p, <1>k, <2>2, <3>2, HeightFacts
      <4>2. <<chain[i], i>> \in DepositsIn(0, worker[x].head)
        BY <1>p, <1>k, <3>2, <4>1, QueryFacts
      <4>3. chain[i] \in {ev[1] : ev \in DepositsIn(0, worker[x].head)}
        BY <4>2
      <4>4. excuse'[chain[i]] = "failed"
        BY <2>1, <4>1, <4>3 DEF Excuse
      <4>5. QED
        BY <2>1, <4>4 DEF AccountedNext
    <3>3. QED
      BY <3>1, <3>2
  <2>4. QED
    BY <2>1, <2>2, <2>3 DEF ScanNext, Connected
<1>5. ASSUME Return(x) PROVE ScanNext(worker'[x], Tx(x)')
  BY <1>5 DEF Return, Stale
<1>6. ASSUME EndScan(x) PROVE ScanNext(worker'[x], Tx(x)')
  <2>1. /\ worker'[x].stage = "idle" /\ worker'[x].head = worker[x].head
        /\ worker[x].stage = "each" /\ worker[x].todo = {}
    BY <1>p, <1>6 DEF EndScan, At, WorkerType, WorkerSet
  <2>2. QED
    BY <2>1 DEF ScanNext, Connected
<1>7. ASSUME StartEvent(x) PROVE ScanNext(worker'[x], Tx(x)')
  <2>1. /\ worker'[x].stage = "lookup" /\ worker'[x].head = worker[x].head
        /\ worker[x].stage = "each" /\ worker'[x].todo = worker[x].todo
    BY <1>p, <1>7 DEF StartEvent, InEach, At, Goto, WorkerType, WorkerSet
  <2>2. QED
    BY <2>1 DEF ScanNext, Connected
<1>d. ASSUME NextEvent(x), worker[x].stage \in Connected, AccountedNext(Tx(x))
      PROVE  ScanNext(worker'[x], Tx(x)')
  <2>1. worker'[x] = [worker[x] EXCEPT !.todo = @ \ {Event(x)}, !.stage = "each"]
    BY <1>p, <1>d DEF NextEvent, WorkerType, WorkerSet
  <2>2. QED
    BY <1>p, <1>d, <2>1, EventDone
<1>n. \A d \in Deposits : rows[d] # 0 \/ Underway(d) => PublishedNext(d)
  BY PublishedStep DEF Published
<1>8. ASSUME Remembered(x) PROVE ScanNext(worker'[x], Tx(x)')
  <2>1. /\ NextEvent(x) /\ worker[x].stage = "each" /\ worker[x].todo # {}
        /\ Tx(x) \in Range(seen) /\ resets' = resets
        /\ rows[Tx(x)] = 0 /\ ~Underway(Tx(x)) => Excuse({Tx(x)}, "remembered")
    BY <1>8 DEF Remembered, PassOver, InEach, At
  <2>2. Tx(x) \in Deposits
    BY <1>p, <2>1, EventFacts
  <2>3. CASE rows[Tx(x)] # 0 \/ Underway(Tx(x))
    BY <1>n, <1>d, <2>1, <2>2, <2>3 DEF AccountedNext, Connected
  <2>4. CASE rows[Tx(x)] = 0 /\ ~Underway(Tx(x))
    <3>1. resets # 0 /\ resets \in Nat
      BY <1>p, <2>1, <2>2, <2>4, Bounds DEF MemoryInv, Published, ChainType
    <3>2. excuse'[Tx(x)] = "remembered"
      BY <2>1, <2>2, <2>4 DEF Excuse
    <3>3. AccountedNext(Tx(x))
      BY <2>1, <3>1, <3>2 DEF AccountedNext
    <3>4. QED
      BY <1>d, <2>1, <3>3 DEF Connected
  <2>5. QED
    BY <2>3, <2>4
<1>9. ASSUME LookUp(x) PROVE ScanNext(worker'[x], Tx(x)')
  <2>1. worker[x].stage = "lookup" /\ worker[x].todo # {} /\ Tx(x) \in Deposits
    BY <1>p, <1>9, EventFacts DEF LookUp, At, StageInv
  <2>2. CASE rows[Tx(x)] # 0 /\ NextEvent(x)
    BY <1>n, <1>d, <2>1, <2>2 DEF AccountedNext, Connected
  <2>3. CASE PassOver(x, "unknown")
    <3>1. excuse'[Tx(x)] = "unknown" /\ NextEvent(x)
      BY <2>1, <2>3 DEF PassOver, Excuse
    <3>2. QED
      BY <1>d, <2>1, <3>1 DEF AccountedNext, Connected
  <2>4. CASE Goto(x, "send")
    <3>1. /\ worker'[x].stage = "send" /\ worker'[x].head = worker[x].head
          /\ worker'[x].todo = worker[x].todo
      BY <1>p, <2>4 DEF Goto, WorkerType, WorkerSet
    <3>2. QED
      BY <2>1, <3>1 DEF ScanNext, Connected
  <2>5. QED
    BY <1>9, <2>2, <2>3, <2>4 DEF LookUp
<1>10. ASSUME Send(x) PROVE ScanNext(worker'[x], Tx(x)')
  <2>1. /\ worker'[x].stage = "track" /\ worker'[x].head = worker[x].head
        /\ worker'[x].todo = worker[x].todo /\ worker[x].stage = "send"
    BY <1>p, <1>10 DEF Send, Publish, At, WorkerType, WorkerSet
  <2>2. PublishedNext(Tx(x)')
    BY <2>1, HandStep
  <2>3. QED
    BY <2>1, <2>2 DEF ScanNext, Connected
<1>11. ASSUME EventFails(x) PROVE ScanNext(worker'[x], Tx(x)')
  <2>1. worker[x].stage \in {"lookup", "send"} /\ worker[x].todo # {} /\ Tx(x) \in Deposits
    BY <1>p, <1>11, EventFacts DEF EventFails, StageInv
  <2>2. NextEvent(x) /\ excuse'[Tx(x)] = "failed"
    BY <1>11, <2>1 DEF EventFails, PassOver, Excuse
  <2>3. QED
    BY <1>d, <2>1, <2>2 DEF AccountedNext, Connected
<1>12. ASSUME AfterSend(x) PROVE ScanNext(worker'[x], Tx(x)')
  <2>1. worker[x].stage = "track" /\ worker[x].todo # {} /\ NextEvent(x)
    BY <1>p, <1>12 DEF AfterSend, At, StageInv
  <2>2. PublishedNext(Tx(x))
    BY <2>1 DEF ScanNext
  <2>3. QED
    BY <1>d, <2>1, <2>2 DEF AccountedNext, Connected
<1>13. ASSUME Block(x) PROVE ScanNext(worker'[x], Tx(x)')
  <2>1. Height' = Height /\ chain' = chain /\ worker[x].stage = "idle" /\ ~astray
    BY <1>13 DEF Block, At, Height
  <2>2. CASE worker' = worker
    <3>1. Tx(x)' = Tx(x)
      BY <2>2 DEF Tx, Event
    <3>2. QED
      BY <2>2, <3>1
  <2>3. ASSUME NEW n \in worker[x].head + 1..Height,
               worker' = [worker EXCEPT ![x].stage = "query",
                            ![x].from = worker[x].head + 1, ![x].head = n]
        PROVE  ScanNext(worker'[x], Tx(x)')
    <3>1. /\ worker'[x].stage = "query" /\ worker'[x].from = worker[x].head + 1
          /\ worker'[x].head = n /\ n <= Height
      BY <1>p, <1>k, <2>3, HeightFacts DEF WorkerType, WorkerSet
    <3>2. worker'[x].from - 1 = worker[x].head
      BY <1>k, <3>1
    <3>3. QED
      BY <2>1, <3>1, <3>2 DEF ScanNext, Connected
  <2>4. QED
    BY <1>p, <1>13, <2>1, <2>2, <2>3, BlockScans
<1>14. ASSUME Query(x) PROVE ScanNext(worker'[x], Tx(x)')
  <2>1. /\ worker'[x].stage = "each" /\ worker'[x].head = worker[x].head
        /\ worker'[x].todo = DepositsIn(worker[x].from, worker[x].head) /\ chain' = chain
        /\ worker[x].stage = "query"
    BY <1>p, <1>14 DEF Query, At, Stale, WorkerType, WorkerSet
  <2>2. worker[x].head <= Height' /\ Height' = Height
        /\ \A i \in 1..worker[x].from - 1 : AccountedNext(chain'[i])
    BY <2>1 DEF ScanNext, Height
  <2>3. \A i \in 1..worker[x].head :
          AccountedNext(chain'[i]) \/ <<chain'[i], i>> \in worker'[x].todo
    BY <1>p, <1>k, <2>1, <2>2, ScanAdds
  <2>4. QED
    BY <2>1, <2>2, <2>3 DEF ScanNext
<1>15. ASSUME QueryFails(x) PROVE ScanNext(worker'[x], Tx(x)')
  <2>1. /\ worker'[x].stage = "idle" /\ worker'[x].head = worker[x].from - 1
        /\ worker[x].stage = "query" /\ worker[x].from <= worker[x].head
    BY <1>p, <1>15 DEF QueryFails, At, StageInv, WorkerType, WorkerSet
  <2>2. worker[x].head <= Height' /\ Height' \in Nat
        /\ \A i \in 1..worker[x].from - 1 : AccountedNext(chain'[i])
    BY <1>p, <2>1, ChainGrows DEF ScanNext
  <2>3. worker'[x].head <= Height'
    BY <1>k, <2>1, <2>2
  <2>4. QED
    BY <2>1, <2>2, <2>3 DEF ScanNext, Connected
<1>16. QED
  BY <1>1, <1>2, <1>3, <1>4, <1>5, <1>6, <1>7, <1>8, <1>9, <1>10, <1>11, <1>12, <1>13,
     <1>14, <1>15 DEF Work, Connecting, Processing, Failing

(* Every step keeps account of what the current connection has scanned.    *)
LEMMA ScanStep == Shape /\ ToldInv /\ MemoryInv /\ ScanInv /\ [Next]_vars => ScanInv'
<1> SUFFICES ASSUME Shape, ToldInv, MemoryInv, ScanInv, [Next]_vars, ~astray',
                    NEW x \in Epochs, x = epoch'
             PROVE  ScanNext(worker'[x], Tx(x)')
  BY NextForms
<1>p. ChainType /\ WorkerType /\ EpochInv /\ StageInv
  BY TypeParts DEF Shape
<1>e. epoch \in Nat /\ MaxEpoch \in Nat
  BY <1>p, Bounds DEF ChainType
<1>1. CASE Listen
  <2>1. worker' = [worker EXCEPT ![x].stage = "head"]
    BY <1>1 DEF Listen
  <2>2. worker'[x].stage = "head"
    BY <1>p, <2>1 DEF WorkerType, WorkerSet
  <2>3. QED
    BY <2>2 DEF ScanNext, Connected
<1>2. CASE Restart
  BY <1>2 DEF Restart, Epochs
<1>3. CASE LoseConnection
  <2>1. worker' = worker /\ x > epoch
    BY <1>e, <1>3 DEF LoseConnection
  <2>2. worker'[x].stage = "none"
    BY <1>p, <2>1 DEF EpochInv, NoWorker
  <2>3. QED
    BY <2>2 DEF ScanNext, Connected
<1>4. CASE epoch' = epoch /\ ~Listen /\ ~Restart
  <2>1. ASSUME NEW e \in Epochs, ReadHead(e) PROVE ScanNext(worker'[x], Tx(x)')
    <3>1. e = x
      BY <1>4, <2>1, CurrentFacts
    <3>2. worker'[x].stage = "max" /\ worker'[x].head = Height /\ Height' = Height
      BY <1>p, <2>1, <3>1 DEF ReadHead, WorkerType, WorkerSet, Height
    <3>3. QED
      BY <1>p, <3>2, HeightFacts DEF ScanNext, Connected
  <2>2. ASSUME NEW e \in Epochs, PurgeCommit(e) PROVE ScanNext(worker'[x], Tx(x)')
    <3>1. e = x
      BY <1>4, <2>2, CurrentFacts
    <3>2. /\ worker'[x].stage = "history" /\ worker'[x].head = worker[x].head
          /\ worker[x].stage = "commit" /\ Height' = Height /\ astray' = astray
      BY <1>p, <2>2, <3>1 DEF PurgeCommit, At, Goto, WorkerType, WorkerSet, Height
    <3>3. worker[x].head <= Height
      BY <1>4, <3>2 DEF ScanInv
    <3>4. QED
      BY <3>2, <3>3 DEF ScanNext, Connected
  <2>3. CASE ~ \E e \in Epochs : ReadHead(e) \/ PurgeCommit(e)
    <3>1. ScanNext(worker[x], Tx(x))
      BY <1>4, <2>3, ScanKept
    <3>2. CASE worker'[x] = worker[x]
      <4>1. Tx(x)' = Tx(x)
        BY <3>2 DEF Tx, Event
      <4>2. QED
        BY <3>1, <3>2, <4>1
    <3>3. CASE Work(x) \/ Failing(x)
      BY <1>4, <2>3, <3>1, <3>3, WorkStep
    <3>4. QED
      BY <1>p, <1>4, <3>2, <3>3, OwnStep
  <2>4. QED
    BY <2>1, <2>2, <2>3
<1>5. QED
  BY <1>1, <1>2, <1>3, <1>4, EpochSteps

-----------------------------------------------------------------------------
(* The theorems.                                                           *)

(* The inductive invariant holds in the initial states.                    *)
LEMMA IInvInit == Init => IInv
<1> SUFFICES ASSUME Init PROVE IInv
  OBVIOUS
<1>p. Shape /\ LedgerType /\ WorkerType
  BY ShapeInit, TypeParts DEF Shape
<1>1. LateInv /\ ScanInv
  BY DEF Init, LateInv, ScanInv, NoWorker, Connected
<1>2. CanonicalBalance
  <2>1. Total(Recorded) \in Nat /\ Opening \in Nat
    BY TotalFacts, AmountsAssumption DEF Recorded
  <2>2. lost = 0 /\ balance = Opening + Total(Recorded)
    BY DEF Init
  <2>3. QED
    BY <2>1, <2>2 DEF CanonicalBalance
<1>3. HeightInv
  <2>1. Height = 0 /\ topic = <<>>
    BY EmptySeq DEF Init, Height
  <2>2. DOMAIN topic = {}
    BY <2>1
  <2>3. resets = 0 => \A d \in Deposits : rows[d] = 0
    BY DEF Init, FirstStart, LaterStart
  <2>4. QED
    BY <2>1, <2>2, <2>3 DEF Init, HeightInv, Within, NoWorker
<1>4. MemoryInv
  <2>1. Range(seen) = {}
    BY DEF Init, Range
  <2>2. QED
    BY <2>1 DEF Init, MemoryInv, NoWorker
<1>5. ToldInv
  BY DEF Init, FirstStart, LaterStart, ToldInv, Live, NoPoll, Epochs
<1>6. QED
  BY <1>p, <1>1, <1>2, <1>3, <1>4, <1>5 DEF IInv

(* IInv is an invariant: every worker that is not live is the current one, *)
(* a replaced one publishes once more, and, of the current one, what is    *)
(* not accounted for of the blocks scanned is among its tasks.             *)
THEOREM Invariance == Spec => []IInv
<1>1. IInv /\ [Next]_vars => IInv'
  BY ShapeStep, LateStep, ToldStep, BalanceStep, HeightStep, RememberedStep, ScanStep DEF IInv
<1>2. QED
  BY IInvInit, <1>1, PTL DEF Spec

(* Types and bounds: the memory of transactions keeps within its size, a   *)
(* worker's tasks within the range of blocks it scans, and the balance is  *)
(* never negative.                                                         *)
THEOREM TypeCorrect == Spec => []TypeOK
<1>1. IInv => TypeOK
  BY DEF IInv, Shape
<1>2. QED
  BY Invariance, <1>1, PTL

(* The balance in PostgreSQL is the opening one, each recorded deposit     *)
(* once, less the losses, as long as no purge missed a commit, whatever    *)
(* is published again, after restarts, resets and replaced connections.    *)
THEOREM BalanceIsCanonical == Spec => []CanonicalBalance
<1>1. IInv => CanonicalBalance
  BY DEF IInv
<1>2. QED
  BY Invariance, <1>1, PTL

(* A deposit up to the head of an idle connection is on its way, has its   *)
(* row, or was passed over for one of the reasons the code has for it.     *)
THEOREM ScansAreComplete == Spec => []NothingOverlooked
<1>1. IInv => NothingOverlooked
  <2> SUFFICES ASSUME IInv, epoch \in Epochs, At(epoch, "idle"), ~astray,
                      NEW i \in 1..Lower(worker[epoch].head, Height)
               PROVE  Accounted(chain[i])
    BY DEF NothingOverlooked, Accounted
  <2>1. ChainType /\ WorkerType /\ ScanInv
    BY TypeParts DEF IInv, Shape
  <2>2. worker[epoch].head \in Nat /\ Height \in Nat
    BY <2>1, HeightFacts DEF WorkerType, WorkerSet
  <2>3. i \in 1..worker[epoch].head
    BY <2>2 DEF Lower
  <2>4. QED
    BY <2>1, <2>3 DEF ScanInv, At
<1>2. QED
  BY Invariance, <1>1, PTL

(* The block handler of a replaced connection publishes at most the one    *)
(* deposit it had in hand.                                                 *)
THEOREM StaleHandlersEnd == Spec => []StaleHandlersStop
<1>1. IInv => StaleHandlersStop
  <2> SUFFICES ASSUME IInv, NEW e \in Epochs PROVE worker[e].late <= 1
    BY DEF StaleHandlersStop
  <2>1. WorkerType /\ LateInv
    BY TypeParts DEF IInv, Shape
  <2>2. worker[e].late \in Nat
    BY <2>1 DEF WorkerType, WorkerSet
  <2>3. QED
    BY <2>1, <2>2 DEF LateInv
<1>2. QED
  BY Invariance, <1>1, PTL
=============================================================================
