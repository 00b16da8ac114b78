------------------------- MODULE LedgerConsumerProofs -------------------------
(***************************************************************************)
(* Proofs about LedgerConsumer, for any finite set of events, any amounts, *)
(* sizes of slices, republications, logins and faults.                     *)
(***************************************************************************)
EXTENDS LedgerConsumer, UnitSumsProofs, SequenceTheorems

-----------------------------------------------------------------------------
(* The inductive invariant.                                                *)

(* The batch lies within its topic, and each step belongs to some topics.  *)
BatchInv ==
  /\ Idle => batch.step = "handle"
  /\ ~Idle => /\ position[batch.topic] <= batch.next /\ batch.next <= batch.end
              /\ batch.end <= Len(log[batch.topic])
  /\ batch.step \in {"credit", "publish"} => Single /\ batch.next < batch.end
  /\ batch.step = "credit" => batch.topic = "DepositReceived"

(* Offsets lie within the topics.                                          *)
OffsetsInv ==
  \A t \in Topics : committed[t] <= position[t] /\ position[t] <= Len(log[t])

(* A topic holds events of its kind, bets and withdrawals once Redis has   *)
(* taken their amount.                                                     *)
LogInv ==
  \A t \in Topics : \A i \in 1..Len(log[t]) :
    TopicOf(log[t][i]) = t /\ log[t][i] \in taken \cup Deposits

BatchSet == [topic : Topics \cup {"none"}, next : Nat, end : Nat, step : Step]
KafkaType ==
  /\ log \in [Topics -> Seq(Events)]
  /\ position \in [Topics -> Nat] /\ committed \in [Topics -> Nat]
  /\ batch \in BatchSet

Shape == TypeOK /\ BatchInv /\ OffsetsInv /\ LogInv

(* What lies below the offset in memory, or below the next message of the  *)
(* batch, has its row or failed.                                           *)
PassedInv ==
  /\ \A t \in Topics : \A i \in 1..position[t] : log[t][i] \in rows \cup marred
  /\ ~Idle => \A i \in 1..batch.next : log[batch.topic][i] \in rows \cup marred
  /\ batch.step \in {"credit", "publish"} => Message \in rows

(* A deposit about to be credited was not credited before, unless its      *)
(* credit was sent again.                                                  *)
CreditInv ==
  CreditedOnce /\ (batch.step = "credit" /\ Message \notin resent => credits[Message] = 0)

(* Every row was taken from Redis or credited to it, but for the deposit   *)
(* in hand, and those whose handling failed.                               *)
Credited == {d \in Deposits : credits[d] > 0}
RowsInv ==
  rows \subseteq taken \cup Credited \cup marred
                   \cup (IF batch.step = "credit" THEN {Message} ELSE {})

(* Only what was published has a row.                                      *)
Published == {e \in Events : \E i \in 1..Len(log[TopicOf(e)]) : log[TopicOf(e)][i] = e}
PublishedInv == rows \subseteq Published

(* Redis holds what its scripts added and took, if nothing failed.         *)
HotInv ==
  /\ settled \cap returned = {}
  /\ cached /\ ~stale /\ marred = {} /\ resent = {} =>
       hot = Opening + Total(Credit, settled \cup Credited)
                     - Total(Debit, taken \ returned)

IInv == /\ Shape /\ PassedInv /\ CreditInv /\ RowsInv /\ PublishedInv /\ HotInv
        /\ CanonicalBalance

-----------------------------------------------------------------------------
(* What sets of events add up to.                                          *)

(* There are finitely many events, each with natural amounts.              *)
LEMMA EventFacts ==
  /\ \A E \in SUBSET Events : IsFiniteSet(E)
  /\ \A e \in Events : Credit[e] \in Nat /\ Debit[e] \in Nat
<1>1. \A E \in SUBSET Events : IsFiniteSet(E)
  BY EventsAssumption, FS_Subset
<1>2. \A e \in Events : Credit[e] \in Nat /\ Debit[e] \in Nat
  BY AmountsAssumption
<1>3. QED
  BY <1>1, <1>2

(* Each kind of event has its topic.                                       *)
LEMMA TopicFacts ==
  ASSUME NEW e \in Events
  PROVE  /\ TopicOf(e) \in Topics
         /\ TopicOf(e) = "BetResolved" => e \in Bets /\ e \notin Deposits
         /\ TopicOf(e) = "DepositReceived" => e \in Deposits
         /\ e \in Deposits => TopicOf(e) = "DepositReceived"
BY EventsAssumption DEF TopicOf, Topics, Events

(* What a set of events adds, or takes, is a natural number.               *)
LEMMA TotalType ==
  ASSUME NEW f \in [Events -> Nat], NEW E \in SUBSET Events
  PROVE  Total(f, E) \in Nat
<1>1. IsFiniteSet(E) /\ [e \in E |-> f[e]] \in [E -> Nat]
  BY EventFacts
<1>2. QED
  BY <1>1, SumOverType DEF Total

(* Two sets of different events count separately.                          *)
LEMMA TotalUnion ==
  ASSUME NEW f \in [Events -> Nat],
         NEW E \in SUBSET Events, NEW F \in SUBSET Events, E \cap F = {}
  PROVE  Total(f, E \cup F) = Total(f, E) + Total(f, F)
<1>1. IsFiniteSet(E) /\ IsFiniteSet(F)
  BY EventFacts
<1>2. \A e \in E \cup F : f[e] \in Nat
  OBVIOUS
<1>3. Cardinality(Units(f, E \cup F)) = Cardinality(Units(f, E)) + Cardinality(Units(f, F))
  BY <1>1, <1>2, UnitsUnion
<1>4. QED
  BY <1>3, SumOverPart DEF Total

(* Events that add nothing, or none at all.                                *)
LEMMA TotalZero ==
  ASSUME NEW f \in [Events -> Nat], NEW E \in SUBSET Events, \A e \in E : f[e] = 0
  PROVE  Total(f, E) = 0
<1>1. IsFiniteSet(E) /\ [e \in E |-> f[e]] \in [E -> Nat]
  BY EventFacts
<1>2. QED
  BY <1>1, SumOverZero DEF Total

(* Adding one more event.                                                  *)
LEMMA TotalAdd ==
  ASSUME NEW f \in [Events -> Nat], NEW E \in SUBSET Events, NEW e \in Events \ E
  PROVE  Total(f, E \cup {e}) = Total(f, E) + f[e]
<1>1. Total(f, E \cup {e}) = Total(f, E) + Total(f, {e})
  BY TotalUnion
<1>2. Total(f, {e}) = f[e]
  <2>1. f[e] \in Nat
    OBVIOUS
  <2>2. QED
    BY <2>1, SumOverFew DEF Total
<1>3. QED
  BY <1>1, <1>2

(* What a set of events adds up to is an integer.                          *)
LEMMA NetType ==
  ASSUME NEW E \in SUBSET Events
  PROVE  Total(Credit, E) \in Nat /\ Total(Debit, E) \in Nat /\ Net(E) \in Int
<1>1. Total(Credit, E) \in Nat /\ Total(Debit, E) \in Nat
  BY TotalType, AmountsAssumption
<1>2. QED
  BY <1>1 DEF Net

(* Two sets of different events add up separately.                         *)
LEMMA NetUnion ==
  ASSUME NEW E \in SUBSET Events, NEW F \in SUBSET Events, E \cap F = {}
  PROVE  Net(E \cup F) = Net(E) + Net(F)
<1>1. /\ Total(Credit, E \cup F) = Total(Credit, E) + Total(Credit, F)
      /\ Total(Debit, E \cup F) = Total(Debit, E) + Total(Debit, F)
  BY TotalUnion, AmountsAssumption
<1>2. QED
  BY <1>1, NetType DEF Net

(* No event adds up to nothing.                                            *)
LEMMA TotalNone ==
  Total(Credit, {}) = 0 /\ Total(Debit, {}) = 0 /\ Net({}) = 0
<1>1. Total(Credit, {}) = 0 /\ Total(Debit, {}) = 0
  BY TotalZero, AmountsAssumption
<1>2. QED
  BY <1>1 DEF Net

-----------------------------------------------------------------------------
(* The message in hand and the slice.                                      *)

(* The message in hand is an event of the batch's topic that was published.*)
LEMMA MessageFacts ==
  ASSUME Shape, ~Idle, batch.next < batch.end
  PROVE  /\ batch.topic \in Topics
         /\ batch.next + 1 \in 1..Len(log[batch.topic])
         /\ Message \in Events /\ Message \in taken \cup Deposits
         /\ TopicOf(Message) = batch.topic
         /\ batch.topic = "DepositReceived" => Message \in Deposits
         /\ {Message} \in SUBSET Published
<1>1. batch.topic \in Topics /\ batch.next \in Nat /\ batch.end \in Nat
  BY DEF Shape, TypeOK, Idle
<1>2. log[batch.topic] \in Seq(Events)
  BY <1>1 DEF Shape, TypeOK
<1>3. Len(log[batch.topic]) \in Nat /\ DOMAIN log[batch.topic] = 1..Len(log[batch.topic])
  BY <1>2, LenProperties
<1>4. batch.next + 1 \in 1..Len(log[batch.topic])
  BY <1>1, <1>3 DEF Shape, BatchInv
<1>5. Message \in Events
  BY <1>2, <1>4, ElementOfSeq DEF Message
<1>6. TopicOf(Message) = batch.topic /\ Message \in taken \cup Deposits
  BY <1>1, <1>4 DEF Shape, LogInv, Message
<1>7. Message \in Published
  BY <1>4, <1>5, <1>6 DEF Published, Message
<1>8. QED
  BY <1>1, <1>4, <1>5, <1>6, <1>7, TopicFacts

(* The slice ends within the batch and holds bets that were placed; so     *)
(* does what is left of the batch.                                         *)
LEMMA SliceFacts ==
  ASSUME Shape, AtSlice
  PROVE  /\ batch.topic \in Topics
         /\ SliceEnd \in Nat /\ batch.next < SliceEnd /\ SliceEnd <= batch.end
         /\ Slice \subseteq taken /\ Slice \subseteq Bets /\ Rest \subseteq Bets
         /\ Slice \in SUBSET Published /\ Rest \in SUBSET Events
<1>1. batch.topic \in Topics /\ batch.topic = "BetResolved" /\ ~Idle
      /\ batch.next \in Nat /\ batch.end \in Nat /\ batch.next < batch.end
  BY DEF Shape, TypeOK, Idle, AtSlice, At, Topics
<1>2. log[batch.topic] \in Seq(Events)
  BY <1>1 DEF Shape, TypeOK
<1>3. Len(log[batch.topic]) \in Nat /\ batch.end <= Len(log[batch.topic])
  BY <1>1, <1>2, LenProperties DEF Shape, BatchInv
<1>4. SliceEnd \in Nat /\ batch.next < SliceEnd /\ SliceEnd <= batch.end
  BY <1>1, BoundsAssumption DEF SliceEnd
<1>5. \A o \in batch.next .. batch.end - 1 :
        log[batch.topic][o + 1] \in Bets \cap taken \cap Published
  <2> SUFFICES ASSUME NEW o \in batch.next .. batch.end - 1
               PROVE  log[batch.topic][o + 1] \in Bets \cap taken \cap Published
    OBVIOUS
  <2>1. o + 1 \in 1..Len(log[batch.topic])
    BY <1>1, <1>3
  <2>2. log[batch.topic][o + 1] \in Events
    BY <1>2, <2>1, ElementOfSeq
  <2>3. /\ TopicOf(log[batch.topic][o + 1]) = batch.topic
        /\ log[batch.topic][o + 1] \in taken \cup Deposits
    BY <1>1, <2>1 DEF Shape, LogInv
  <2>4. log[batch.topic][o + 1] \in Published
    BY <2>1, <2>2, <2>3 DEF Published
  <2>5. QED
    BY <1>1, <2>2, <2>3, <2>4, TopicFacts
<1>6. Slice \subseteq Bets \cap taken \cap Published
  <2>1. batch.next .. SliceEnd - 1 \subseteq batch.next .. batch.end - 1
    BY <1>1, <1>4
  <2>2. QED
    BY <1>5, <2>1 DEF Slice
<1>7. Rest \subseteq Bets
  BY <1>5 DEF Rest
<1>8. QED
  BY <1>1, <1>4, <1>6, <1>7 DEF Events, Published

-----------------------------------------------------------------------------
(* What a step may do to the topics, the offsets and the batch.            *)

InHand == ~Idle /\ batch.next < batch.end

KafkaSame == UNCHANGED <<log, position, committed, batch>>
Grown == /\ \E e \in Events : e \in taken \cup Deposits /\ Append1(e)
         /\ UNCHANGED <<position, committed, batch, taken, rows, marred, credits, resent>>
Fetched == (\E t \in Topics : Fetch(t)) /\ Idle
Committed == /\ batch.step = "commit" /\ committed' = position /\ Goto("handle")
             /\ UNCHANGED <<log, position>>
Dropped == /\ batch' = NoBatch /\ position' \in {position, committed}
           /\ UNCHANGED <<log, committed>>
Sliced == /\ AtSlice
          /\ Resolve(SliceEnd) /\ batch' = [batch EXCEPT !.next = SliceEnd, !.step = "commit"]
          /\ Slice \subseteq rows'
          /\ UNCHANGED <<log, committed>>
Broken == /\ AtSlice
          /\ batch' = [batch EXCEPT !.next = batch.end]
          /\ Rest \subseteq marred'
          /\ UNCHANGED <<log, position, committed>>
Advanced == /\ InHand /\ Single /\ Onward
            /\ position' = position \/ Resolve(batch.next + 1)
            /\ Message \in rows' \cup marred' \/ batch.step = "publish"
            /\ UNCHANGED <<log, committed>>
Proceeded == /\ InHand /\ Single
             /\ \E step \in {"credit", "publish"} :
                  /\ Goto(step)
                  /\ step = "credit" => batch.topic = "DepositReceived"
             /\ Message \in rows' \/ batch.step = "credit"
             /\ UNCHANGED <<log, position, committed>>

(* Each action of the specification is one of these to the Kafka client.   *)
LEMMA KafkaStep ==
  ASSUME Shape, [Next]_vars
  PROVE  \/ KafkaSame \/ Grown \/ Fetched \/ BatchReturns \/ Committed
         \/ Dropped \/ Sliced \/ Broken \/ Advanced \/ Proceeded
<1> DEFINE Goal == \/ KafkaSame \/ Grown \/ Fetched \/ BatchReturns \/ Committed
                   \/ Dropped \/ Sliced \/ Broken \/ Advanced \/ Proceeded
<1> USE DEF moves, kafka, stores, cache, consumer
<1>1. ASSUME NEW t \in Topics, Fetch(t) PROVE Goal
  BY <1>1 DEF Fetch, Fetched
<1>2. ASSUME BatchReturns PROVE Goal
  BY <1>2 DEF BatchReturns
<1>3. ASSUME Commit PROVE Goal
  BY <1>3 DEF Commit, Committed
<1>4. ASSUME InsertBets PROVE Goal
  BY <1>4 DEF InsertBets, Sliced, WriteBets, NewBets
<1>5. ASSUME InsertRefused \/ InsertFails PROVE Goal
  BY <1>5 DEF InsertRefused, InsertFails, Broken, Break, Mar
<1>6. ASSUME InsertUnanswered PROVE Goal
  BY <1>6 DEF InsertUnanswered, Broken, Break, Mar
<1>7. ASSUME Duplicate PROVE Goal
  BY <1>7 DEF Duplicate, Advanced, InHand, At, HandledWell
<1>8. ASSUME ConnectFails PROVE Goal
  BY <1>8 DEF ConnectFails, Advanced, InHand, At, HandledWell, Mar
<1>9. ASSUME Record PROVE Goal
  BY <1>9 DEF Record, Proceeded, InHand, At, Write
<1>10. ASSUME RecordRefused \/ QueryFails \/ QueryUnanswered PROVE Goal
  BY <1>10
       DEF RecordRefused, QueryFails, QueryUnanswered, Advanced, InHand, At,
           HandledBadly, Mar
<1>11. ASSUME CreditRedis PROVE Goal
  BY <1>11 DEF CreditRedis, Proceeded, InHand, At, Shape, BatchInv
<1>12. ASSUME Publish PROVE Goal
  BY <1>12 DEF Publish, Advanced, InHand, At, HandledWell, Shape, BatchInv
<1>13. ASSUME CommitThrows \/ Restart PROVE Goal
  BY <1>13 DEF CommitThrows, Restart, Dropped
<1>14. ASSUME CreditReplyLost \/ LoseKey \/ LoginReads \/ LoginRestores PROVE Goal
  BY <1>14 DEF CreditReplyLost, LoseKey, LoginReads, LoginRestores, KafkaSame
<1>15. ASSUME CreditFails \/ PublishFails PROVE Goal
  BY <1>15
       DEF CreditFails, PublishFails, Advanced, InHand, At, HandledBadly, Mar, Shape,
           BatchInv
<1>16. ASSUME NEW e \in Bets \cup Withdrawals, Take(e) \/ GiveBack(e) PROVE Goal
  BY <1>16 DEF Take, GiveBack, AddBack, KafkaSame
<1>17. ASSUME NEW e \in Bets \cup Withdrawals, PublishTaken(e) PROVE Goal
  BY <1>17 DEF PublishTaken, Grown, Events
<1>18. ASSUME NEW d \in Deposits, PublishDeposit(d) PROVE Goal
  BY <1>18 DEF PublishDeposit, Grown, Events
<1>19. CASE UNCHANGED vars
  BY <1>19 DEF vars, KafkaSame
<1>20. ASSUME NEW b \in Bets, Settle(b) PROVE Goal
  BY <1>20 DEF Settle, AddBack, KafkaSame
<1>21. QED
  BY <1>1, <1>2, <1>3, <1>4, <1>5, <1>6, <1>7, <1>8, <1>9, <1>10, <1>11, <1>12, <1>13,
       <1>14, <1>15, <1>16, <1>17, <1>18, <1>19, <1>20
       DEF Next, Consumer, Failures, Publishers, Login

(* A step gives some new events their rows and changes the balance in      *)
(* PostgreSQL by what they add up to, which never makes it negative.       *)
LEMMA LedgerStep ==
  ASSUME Shape, [Next]_vars
  PROVE  \E E \in SUBSET (Published \ rows) :
           rows' = rows \cup E /\ balance' = balance + Net(E) /\ balance' \in Nat
<1> DEFINE Goal == \E E \in SUBSET (Published \ rows) :
                     rows' = rows \cup E /\ balance' = balance + Net(E) /\ balance' \in Nat
<1> USE DEF moves, kafka, stores, cache, consumer
<1>a. balance \in Nat /\ rows \subseteq Events
  BY DEF Shape, TypeOK
<1>b. ASSUME rows' = rows, balance' = balance PROVE Goal
  <2>1. Net({}) = 0
    BY TotalNone
  <2>2. {} \in SUBSET (Published \ rows)
    OBVIOUS
  <2>3. rows' = rows \cup {} /\ balance' = balance + Net({}) /\ balance' \in Nat
    BY <1>a, <1>b, <2>1
  <2>4. QED
    BY <2>2, <2>3
<1>c. ASSUME NEW E \in SUBSET (Published \ rows), Allowed(balance + Net(E)),
             rows' = rows \cup E, balance' = balance + Net(E)
      PROVE  Goal
  <2>1. balance' \in Nat
    <3>1. E \in SUBSET Events
      BY DEF Published
    <3>2. QED
      BY <1>a, <1>c, <3>1, NetType DEF Allowed
  <2>2. QED
    BY <1>c, <2>1
<1>d. ASSUME AtSlice, WriteBets PROVE Goal
  <2>1. NewBets \in SUBSET (Published \ rows)
    BY <1>d, SliceFacts DEF NewBets
  <2>2. QED
    BY <1>c, <1>d, <2>1 DEF WriteBets
<1>e. ASSUME At("handle"), Write PROVE Goal
  <2>1. {Message} \in SUBSET (Published \ rows)
    BY <1>e, MessageFacts DEF At, Write
  <2>2. QED
    BY <1>c, <1>e, <2>1 DEF Write
<1> HIDE DEF Goal
<1>1. ASSUME NEW t \in Topics, Fetch(t) PROVE Goal
  BY <1>1, <1>b DEF Fetch
<1>2. ASSUME BatchReturns \/ Commit \/ InsertRefused
               \/ Duplicate \/ RecordRefused \/ CreditRedis
      PROVE Goal
  BY <1>2, <1>b
       DEF BatchReturns, Commit, InsertRefused, Duplicate, RecordRefused, CreditRedis
<1>3. ASSUME Publish \/ CommitThrows \/ Restart
               \/ InsertFails \/ ConnectFails \/ QueryFails
      PROVE Goal
  BY <1>3, <1>b
       DEF Publish, CommitThrows, Restart, InsertFails, ConnectFails, QueryFails
<1>4. ASSUME CreditReplyLost \/ CreditFails \/ PublishFails
               \/ LoseKey \/ LoginReads \/ LoginRestores
      PROVE Goal
  BY <1>4, <1>b
       DEF CreditReplyLost, CreditFails, PublishFails, LoseKey, LoginReads,
           LoginRestores
<1>5. ASSUME InsertBets \/ InsertUnanswered PROVE Goal
  BY <1>5, <1>d DEF InsertBets, InsertUnanswered
<1>6. ASSUME Record \/ QueryUnanswered PROVE Goal
  BY <1>6, <1>e DEF Record, QueryUnanswered
<1>7. ASSUME NEW e \in Bets \cup Withdrawals, Take(e) \/ GiveBack(e) \/ PublishTaken(e)
      PROVE Goal
  BY <1>7, <1>b DEF Take, GiveBack, AddBack, PublishTaken
<1>8. ASSUME NEW d \in Deposits, PublishDeposit(d) PROVE Goal
  BY <1>8, <1>b DEF PublishDeposit
<1>9. ASSUME UNCHANGED vars PROVE Goal
  BY <1>9, <1>b DEF vars
<1>10. ASSUME NEW b \in Bets, Settle(b) PROVE Goal
  BY <1>10, <1>b DEF Settle, AddBack
<1>11. QED
  BY <1>1, <1>2, <1>3, <1>4, <1>5, <1>6, <1>7, <1>8, <1>9, <1>10
       DEF Next, Consumer, Failures, Publishers, Login, Goal

(* The other variables: their types, and the histories that only grow.     *)
RedisType ==
  /\ returned \subseteq taken /\ taken \subseteq Bets \cup Withdrawals
  /\ settled \subseteq Bets \cap taken
  /\ hot \in Nat /\ cached \in BOOLEAN /\ stale \in BOOLEAN
  /\ login \in [read : BOOLEAN, balance : Nat, left : 0..MaxLogins]
  /\ credits \in [Deposits -> Nat]
  /\ marred \subseteq Events /\ resent \subseteq Deposits
  /\ faults \in 0..MaxFaults

(* No step takes anything out of the histories, or settles what was        *)
(* returned or returns what was settled.                                   *)
LEMMA HistoryStep ==
  ASSUME Shape, [Next]_vars
  PROVE  /\ taken \subseteq taken' /\ marred \subseteq marred'
         /\ resent \subseteq resent' /\ (stale => stale')
         /\ settled \cap returned = {} => settled' \cap returned' = {}
<1> DEFINE Goal == /\ taken \subseteq taken' /\ marred \subseteq marred'
                   /\ resent \subseteq resent' /\ (stale => stale')
                   /\ settled \cap returned = {} => settled' \cap returned' = {}
<1> stale \in BOOLEAN
  BY DEF Shape, TypeOK
<1> USE DEF moves, kafka, stores, cache, consumer, Mar, AddToRedis, Break, HandledBadly
<1>1. ASSUME NEW t \in Topics, Fetch(t) PROVE Goal
  BY <1>1 DEF Fetch
<1>2. ASSUME BatchReturns \/ Commit \/ InsertBets
               \/ InsertRefused \/ Duplicate \/ Record
      PROVE Goal
  BY <1>2 DEF BatchReturns, Commit, InsertBets, InsertRefused, Duplicate, Record
<1>3. ASSUME RecordRefused \/ CreditRedis \/ Publish
               \/ CommitThrows \/ Restart \/ InsertFails
      PROVE Goal
  BY <1>3 DEF RecordRefused, CreditRedis, Publish, CommitThrows, Restart, InsertFails
<1>4. ASSUME InsertUnanswered \/ ConnectFails \/ QueryFails
               \/ QueryUnanswered \/ CreditReplyLost \/ CreditFails
      PROVE Goal
  BY <1>4
       DEF InsertUnanswered, ConnectFails, QueryFails, QueryUnanswered, CreditReplyLost,
           CreditFails
<1>5. ASSUME PublishFails \/ LoseKey \/ LoginReads \/ LoginRestores PROVE Goal
  BY <1>5 DEF PublishFails, LoseKey, LoginReads, LoginRestores
<1>6. ASSUME NEW e \in Bets \cup Withdrawals, Take(e) \/ GiveBack(e) \/ PublishTaken(e)
      PROVE Goal
  BY <1>6 DEF Take, GiveBack, AddBack, PublishTaken
<1>7. ASSUME NEW d \in Deposits, PublishDeposit(d) PROVE Goal
  BY <1>7 DEF PublishDeposit
<1>8. CASE UNCHANGED vars
  BY <1>8 DEF vars
<1>9. ASSUME NEW b \in Bets, Settle(b) PROVE Goal
  BY <1>9 DEF Settle, AddBack
<1>10. QED
  BY <1>1, <1>2, <1>3, <1>4, <1>5, <1>6, <1>7, <1>8, <1>9
       DEF Next, Consumer, Failures, Publishers, Login

(* The variables of Redis, and the histories, keep their types.            *)
LEMMA RedisTypeNext ==
  ASSUME Shape, [Next]_vars
  PROVE  RedisType'
<1> USE DEF moves, kafka, stores, cache, consumer, Mar, Fault
<1>a. RedisType /\ rows \subseteq Events /\ balance \in Nat /\ MaxFaults \in Nat
  BY BoundsAssumption DEF Shape, TypeOK, RedisType
<1>b. faults < MaxFaults => faults + 1 \in 0..MaxFaults
  BY <1>a DEF RedisType
<1>c. InHand => Message \in Events /\ (batch.step = "credit" => Message \in Deposits)
  BY MessageFacts DEF InHand, Shape, BatchInv
<1>d. AtSlice => Rest \subseteq Events
  BY SliceFacts
<1>e. batch.step \in {"credit", "publish"} => InHand
  BY DEF InHand, Shape, BatchInv, Single, Idle
<1>f. ASSUME InHand, batch.step = "credit", AddToRedis(Message)
      PROVE  hot' \in Nat /\ cached' \in BOOLEAN /\ stale' \in BOOLEAN
             /\ credits' \in [Deposits -> Nat] /\ login' = login
  <2>1. Message \in Deposits /\ Credit[Message] \in Nat
    BY <1>c, <1>f, EventFacts
  <2>2. hot' \in Nat
    BY <1>a, <1>f, <2>1 DEF AddToRedis, RedisType
  <2>3. credits' \in [Deposits -> Nat]
    BY <1>a, <1>f, <2>1 DEF AddToRedis, RedisType
  <2>4. cached' \in BOOLEAN /\ stale' \in BOOLEAN /\ login' = login
    BY <1>a, <1>f DEF AddToRedis, RedisType
  <2>5. QED
    BY <2>2, <2>3, <2>4
<1>1. ASSUME NEW t \in Topics, Fetch(t) PROVE RedisType'
  BY <1>1, <1>a DEF Fetch, RedisType
<1>2. ASSUME BatchReturns \/ Commit \/ InsertBets
               \/ Duplicate \/ Record \/ Publish
      PROVE RedisType'
  BY <1>2, <1>a
       DEF BatchReturns, Commit, InsertBets, Duplicate, Record, Publish, RedisType
<1>3. ASSUME CommitThrows PROVE RedisType'
  BY <1>3, <1>a, <1>b DEF CommitThrows, RedisType
<1>4. ASSUME InsertRefused \/ InsertFails \/ InsertUnanswered PROVE RedisType'
  BY <1>4, <1>a, <1>b, <1>d
       DEF InsertRefused, InsertFails, InsertUnanswered, RedisType, Break
<1>5. ASSUME Restart PROVE RedisType'
  BY <1>5, <1>a, <1>b, <1>c, <1>e DEF Restart, RedisType
<1>6. ASSUME ConnectFails PROVE RedisType'
  BY <1>6, <1>a, <1>b, <1>c DEF ConnectFails, RedisType, At, InHand
<1>7. ASSUME RecordRefused \/ QueryFails \/ QueryUnanswered
               \/ CreditFails \/ PublishFails
      PROVE RedisType'
  BY <1>7, <1>a, <1>b, <1>c
       DEF RecordRefused, QueryFails, QueryUnanswered, CreditFails, PublishFails,
           RedisType, At, InHand, HandledBadly
<1>8. ASSUME CreditRedis PROVE RedisType'
  BY <1>8, <1>a, <1>f DEF CreditRedis, RedisType, At, InHand
<1>9. ASSUME CreditReplyLost PROVE RedisType'
  BY <1>9, <1>a, <1>b, <1>c, <1>f DEF CreditReplyLost, RedisType, At, InHand
<1>10. ASSUME LoseKey PROVE RedisType'
  BY <1>10, <1>a, <1>b DEF LoseKey, RedisType
<1>11. ASSUME LoginReads PROVE RedisType'
  <2>1. login' = [read |-> TRUE, balance |-> balance, left |-> login.left - 1]
        /\ login.left \in 0..MaxLogins /\ login.left > 0
    BY <1>11, <1>a DEF LoginReads, RedisType
  <2>2. login' \in [read : BOOLEAN, balance : Nat, left : 0..MaxLogins]
    BY <1>a, <2>1, BoundsAssumption
  <2>3. QED
    BY <1>11, <1>a, <2>2 DEF LoginReads, RedisType
<1>12. ASSUME LoginRestores PROVE RedisType'
  <2>1. login' \in [read : BOOLEAN, balance : Nat, left : 0..MaxLogins]
    BY <1>12, <1>a DEF LoginRestores, RedisType
  <2>2. hot' \in Nat /\ cached' \in BOOLEAN /\ stale' \in BOOLEAN
    BY <1>12, <1>a DEF LoginRestores, RedisType
  <2>3. QED
    BY <1>12, <1>a, <2>1, <2>2 DEF LoginRestores, RedisType
<1>13. ASSUME NEW e \in Bets \cup Withdrawals, Take(e) PROVE RedisType'
  <2>1. Debit[e] \in Nat
    BY EventFacts DEF Events
  <2>2. hot' \in Nat
    BY <1>13, <1>a, <2>1 DEF Take, RedisType
  <2>3. QED
    BY <1>13, <1>a, <2>2 DEF Take, RedisType
<1>g. ASSUME NEW n \in Nat, AddBack(n)
      PROVE  hot' \in Nat /\ cached' \in BOOLEAN /\ stale' \in BOOLEAN
  BY <1>a, <1>g DEF AddBack, RedisType
<1>14. ASSUME NEW e \in Bets \cup Withdrawals, GiveBack(e) \/ PublishTaken(e)
       PROVE  RedisType'
  <2>1. CASE GiveBack(e)
    <3>1. Debit[e] \in Nat
      BY EventFacts DEF Events
    <3>2. hot' \in Nat /\ cached' \in BOOLEAN /\ stale' \in BOOLEAN
      BY <1>g, <2>1, <3>1 DEF GiveBack
    <3>3. QED
      BY <1>a, <2>1, <3>2 DEF GiveBack, AddBack, RedisType
  <2>2. CASE PublishTaken(e)
    BY <1>a, <2>2 DEF PublishTaken, RedisType
  <2>3. QED
    BY <1>14, <2>1, <2>2
<1>15. ASSUME NEW d \in Deposits, PublishDeposit(d) PROVE RedisType'
  BY <1>15, <1>a DEF PublishDeposit, RedisType
<1>16. CASE UNCHANGED vars
  BY <1>16, <1>a DEF vars, RedisType
<1>17. ASSUME NEW b \in Bets, Settle(b) PROVE RedisType'
  <2>1. Credit[b] \in Nat
    BY EventFacts DEF Events
  <2>2. hot' \in Nat /\ cached' \in BOOLEAN /\ stale' \in BOOLEAN
    BY <1>g, <1>17, <2>1 DEF Settle
  <2>3. QED
    BY <1>a, <1>17, <2>2 DEF Settle, AddBack, RedisType
<1>18. QED
  BY <1>1, <1>2, <1>3, <1>4, <1>5, <1>6, <1>7, <1>8, <1>9, <1>10, <1>11, <1>12, <1>13,
       <1>14, <1>15, <1>16, <1>17
       DEF Next, Consumer, Failures, Publishers, Login

-----------------------------------------------------------------------------
(* Topics, offsets and the batch.                                          *)

(* A published event goes to the end of its topic; what was there stays.   *)
LEMMA LogGrows ==
  ASSUME Shape, Grown
  PROVE  /\ log' \in [Topics -> Seq(Events)]
         /\ \A t \in Topics :
              /\ Len(log[t]) <= Len(log'[t])
              /\ \A i \in 1..Len(log[t]) : log'[t][i] = log[t][i]
              /\ \A i \in 1..Len(log'[t]) :
                   \/ i \in 1..Len(log[t])
                   \/ TopicOf(log'[t][i]) = t /\ log'[t][i] \in taken \cup Deposits
<1>1. PICK e \in Events : e \in taken \cup Deposits /\ Append1(e)
  BY DEF Grown
<1>2. log \in [Topics -> Seq(Events)] /\ TopicOf(e) \in Topics
  BY TopicFacts DEF Shape, TypeOK
<1>3. log' = [log EXCEPT ![TopicOf(e)] = Append(log[TopicOf(e)], e)]
  BY <1>1 DEF Append1
<1>4. /\ Append(log[TopicOf(e)], e) \in Seq(Events)
      /\ Len(log[TopicOf(e)]) \in Nat
      /\ Len(Append(log[TopicOf(e)], e)) = Len(log[TopicOf(e)]) + 1
      /\ \A i \in 1..Len(log[TopicOf(e)]) :
           Append(log[TopicOf(e)], e)[i] = log[TopicOf(e)][i]
      /\ Append(log[TopicOf(e)], e)[Len(log[TopicOf(e)]) + 1] = e
  <2>1. log[TopicOf(e)] \in Seq(Events)
    BY <1>2
  <2>2. QED
    BY <2>1, AppendProperties, LenProperties
<1>5. log' \in [Topics -> Seq(Events)]
  BY <1>2, <1>3, <1>4
<1>6. ASSUME NEW t \in Topics
      PROVE  /\ Len(log[t]) <= Len(log'[t])
             /\ \A i \in 1..Len(log[t]) : log'[t][i] = log[t][i]
             /\ \A i \in 1..Len(log'[t]) :
                  \/ i \in 1..Len(log[t])
                  \/ TopicOf(log'[t][i]) = t /\ log'[t][i] \in taken \cup Deposits
  <2>1. CASE t = TopicOf(e)
    <3>1. log'[t] = Append(log[t], e)
      BY <1>2, <1>3, <2>1
    <3>2. \A i \in 1..Len(log'[t]) : i \in 1..Len(log[t]) \/ i = Len(log[t]) + 1
      BY <1>4, <2>1, <3>1
    <3>3. log'[t][Len(log[t]) + 1] = e /\ Len(log[t]) <= Len(log'[t])
      BY <1>4, <2>1, <3>1
    <3>4. \A i \in 1..Len(log[t]) : log'[t][i] = log[t][i]
      BY <1>4, <2>1, <3>1
    <3>5. QED
      BY <1>1, <2>1, <3>2, <3>3, <3>4
  <2>2. CASE t # TopicOf(e)
    <3>1. log'[t] = log[t]
      BY <1>2, <1>3, <2>2
    <3>2. Len(log[t]) \in Nat
      BY <1>2, LenProperties
    <3>3. QED
      BY <3>1, <3>2
  <2>3. QED
    BY <2>1, <2>2
<1>7. QED
  BY <1>5, <1>6

(* The message in hand stays the same when a topic grows.                  *)
LEMMA MessageStays ==
  ASSUME Shape, Grown, InHand
  PROVE  Message' = Message
<1>1. batch' = batch /\ batch.topic \in Topics /\ batch.next + 1 \in 1..Len(log[batch.topic])
  BY MessageFacts DEF InHand, Grown
<1>2. log'[batch.topic][batch.next + 1] = log[batch.topic][batch.next + 1]
  BY <1>1, LogGrows
<1>3. QED
  BY <1>1, <1>2 DEF Message

(* Assignments to the fields of a batch keep its shape.                    *)
LEMMA BatchUpdates ==
  ASSUME NEW b \in BatchSet
  PROVE  /\ \A s \in Step : [b EXCEPT !.step = s] \in BatchSet
         /\ \A n \in Nat : [b EXCEPT !.next = n] \in BatchSet
         /\ \A n \in Nat, s \in Step : [b EXCEPT !.next = n, !.step = s] \in BatchSet
         /\ b.next \in Nat /\ b.next + 1 \in Nat /\ b.end \in Nat
         /\ NoBatch \in BatchSet
<1>1. \A s \in Step : [b EXCEPT !.step = s] \in BatchSet
  BY DEF BatchSet
<1>2. \A n \in Nat : [b EXCEPT !.next = n] \in BatchSet
  BY DEF BatchSet
<1>3. \A n \in Nat, s \in Step : [b EXCEPT !.next = n, !.step = s] \in BatchSet
  BY DEF BatchSet
<1>4. b.next \in Nat /\ b.next + 1 \in Nat /\ b.end \in Nat
  BY DEF BatchSet
<1>5. NoBatch \in BatchSet
  BY DEF BatchSet, NoBatch, Step
<1>6. QED
  BY <1>1, <1>2, <1>3, <1>4, <1>5, Zenon

(* The client's variables keep their types.                                *)
LEMMA KafkaTypeNext ==
  ASSUME Shape, [Next]_vars
  PROVE  KafkaType'
<1>a. KafkaType /\ batch \in BatchSet
  BY DEF Shape, TypeOK, KafkaType, BatchSet
<1>b. /\ {"handle", "credit", "publish", "commit"} \subseteq Step
      /\ \A s \in Step : [batch EXCEPT !.step = s] \in BatchSet
      /\ \A n \in Nat : [batch EXCEPT !.next = n] \in BatchSet
      /\ \A n \in Nat, s \in Step : [batch EXCEPT !.next = n, !.step = s] \in BatchSet
      /\ batch.next \in Nat /\ batch.next + 1 \in Nat /\ batch.end \in Nat
      /\ NoBatch \in BatchSet
  BY <1>a, BatchUpdates DEF Step
<1> USE DEF Resolve, Goto, Onward
<1>1. ASSUME KafkaSame PROVE KafkaType'
  BY <1>1, <1>a DEF KafkaSame, KafkaType
<1>2. ASSUME Grown PROVE KafkaType'
  BY <1>2, <1>a, LogGrows DEF Grown, KafkaType
<1>3. ASSUME Fetched PROVE KafkaType'
  <2>1. PICK t \in Topics : Fetch(t)
    BY <1>3 DEF Fetched
  <2>2. PICK end \in position[t] + 1 .. Len(log[t]) :
          batch' = [topic |-> t, next |-> position[t], end |-> end, step |-> "handle"]
    BY <2>1 DEF Fetch
  <2>3. position[t] \in Nat /\ Len(log[t]) \in Nat
    BY <1>a, LenProperties DEF KafkaType
  <2>4. end \in Nat
    BY <2>3
  <2>5. batch' \in BatchSet
    BY <1>b, <2>2, <2>3, <2>4 DEF BatchSet
  <2>6. QED
    BY <1>a, <2>1, <2>5 DEF Fetch, KafkaType, kafka
<1>4. ASSUME BatchReturns PROVE KafkaType'
  BY <1>4, <1>a, <1>b DEF BatchReturns, KafkaType
<1>5. ASSUME Committed PROVE KafkaType'
  BY <1>5, <1>a, <1>b DEF Committed, KafkaType
<1>6. ASSUME Dropped PROVE KafkaType'
  BY <1>6, <1>a, <1>b DEF Dropped, KafkaType
<1>7. ASSUME Sliced PROVE KafkaType'
  BY <1>7, <1>a, <1>b, SliceFacts DEF Sliced, KafkaType
<1>8. ASSUME Broken PROVE KafkaType'
  BY <1>8, <1>a, <1>b DEF Broken, KafkaType
<1>9. ASSUME Advanced PROVE KafkaType'
  BY <1>9, <1>a, <1>b DEF Advanced, KafkaType
<1>10. ASSUME Proceeded PROVE KafkaType'
  BY <1>10, <1>a, <1>b DEF Proceeded, KafkaType
<1>11. QED
  BY <1>1, <1>2, <1>3, <1>4, <1>5, <1>6, <1>7, <1>8, <1>9, <1>10, KafkaStep

(* Every variable keeps its type.                                          *)
LEMMA TypeNext ==
  ASSUME Shape, [Next]_vars
  PROVE  TypeOK'
<1>1. KafkaType' /\ RedisType'
  BY KafkaTypeNext, RedisTypeNext
<1>2. rows' \subseteq Events /\ balance' \in Nat
  BY LedgerStep DEF Shape, TypeOK, Published
<1>3. QED
  BY <1>1, <1>2 DEF TypeOK, KafkaType, RedisType, BatchSet

(* Offsets stay within the topics, the committed ones behind those in      *)
(* memory.                                                                 *)
LEMMA OffsetsNext ==
  ASSUME Shape, [Next]_vars
  PROVE  OffsetsInv'
<1>a. /\ batch \in BatchSet /\ position \in [Topics -> Nat] /\ committed \in [Topics -> Nat]
      /\ \A t \in Topics : Len(log[t]) \in Nat
  BY LenProperties DEF Shape, TypeOK, BatchSet
<1>b. ~Idle => batch.topic \in Topics
  BY <1>a DEF BatchSet, Idle
<1>c. BatchInv /\ OffsetsInv
  BY DEF Shape
<1>d. ASSUME ~Idle, NEW offset \in Nat, batch.next <= offset, offset <= batch.end,
             committed' = committed, log' = log, Resolve(offset)
      PROVE  OffsetsInv'
  <2>1. /\ position[batch.topic] <= offset /\ offset <= Len(log[batch.topic])
        /\ committed[batch.topic] <= offset
    BY <1>a, <1>b, <1>c, <1>d DEF BatchInv, BatchSet, OffsetsInv
  <2>2. QED
    BY <1>a, <1>b, <1>c, <1>d, <2>1 DEF Resolve, OffsetsInv
<1>1. ASSUME KafkaSame PROVE OffsetsInv'
  BY <1>1, <1>c DEF KafkaSame, OffsetsInv
<1>2. ASSUME Grown PROVE OffsetsInv'
  <2>1. position' = position /\ committed' = committed
    BY <1>2 DEF Grown
  <2>2. ASSUME NEW t \in Topics PROVE Len(log[t]) <= Len(log'[t]) /\ Len(log'[t]) \in Nat
    BY <1>2, LogGrows, LenProperties
  <2>3. QED
    BY <1>a, <1>c, <2>1, <2>2 DEF OffsetsInv
<1>3. ASSUME Fetched PROVE OffsetsInv'
  BY <1>3, <1>c DEF Fetched, Fetch, kafka, OffsetsInv
<1>4. ASSUME BatchReturns PROVE OffsetsInv'
  BY <1>4, <1>a, <1>b, <1>c, <1>d DEF BatchReturns, BatchInv, BatchSet
<1>5. ASSUME Committed PROVE OffsetsInv'
  BY <1>5, <1>a, <1>c DEF Committed, OffsetsInv
<1>6. ASSUME Dropped PROVE OffsetsInv'
  BY <1>6, <1>a, <1>c DEF Dropped, OffsetsInv
<1>7. ASSUME Sliced PROVE OffsetsInv'
  BY <1>7, <1>a, <1>d, SliceFacts DEF Sliced, AtSlice, At, BatchSet
<1>8. ASSUME Broken PROVE OffsetsInv'
  BY <1>8, <1>c DEF Broken, OffsetsInv
<1>9. ASSUME Advanced PROVE OffsetsInv'
  <2>1. CASE position' = position
    BY <1>9, <1>c, <2>1 DEF Advanced, OffsetsInv
  <2>2. CASE Resolve(batch.next + 1)
    BY <1>9, <1>a, <1>d, <2>2 DEF Advanced, InHand, BatchSet
  <2>3. QED
    BY <1>9, <2>1, <2>2 DEF Advanced
<1>10. ASSUME Proceeded PROVE OffsetsInv'
  BY <1>10, <1>c DEF Proceeded, OffsetsInv
<1>11. QED
  BY <1>1, <1>2, <1>3, <1>4, <1>5, <1>6, <1>7, <1>8, <1>9, <1>10, KafkaStep

(* The batch stays within its topic.                                       *)
LEMMA BatchNext ==
  ASSUME Shape, [Next]_vars
  PROVE  BatchInv'
<1>a. /\ batch \in BatchSet /\ position \in [Topics -> Nat] /\ committed \in [Topics -> Nat]
      /\ \A t \in Topics : Len(log[t]) \in Nat
  BY LenProperties DEF Shape, TypeOK, BatchSet
<1>b. ~Idle => batch.topic \in Topics
  BY <1>a DEF BatchSet, Idle
<1>c. BatchInv /\ OffsetsInv
  BY DEF Shape
<1> USE DEF BatchInv, BatchSet, Idle, Single, Goto, Onward
<1>1. ASSUME KafkaSame PROVE BatchInv'
  BY <1>1, <1>c DEF KafkaSame
<1>2. ASSUME Grown PROVE BatchInv'
  <2>1. position' = position /\ batch' = batch
    BY <1>2 DEF Grown
  <2>2. ASSUME NEW t \in Topics PROVE Len(log[t]) <= Len(log'[t]) /\ Len(log'[t]) \in Nat
    BY <1>2, LogGrows, LenProperties
  <2>3. QED
    BY <1>a, <1>b, <1>c, <2>1, <2>2
<1>3. ASSUME Fetched PROVE BatchInv'
  <2>1. PICK t \in Topics : Fetch(t)
    BY <1>3 DEF Fetched
  <2>2. PICK end \in position[t] + 1 .. Len(log[t]) :
          batch' = [topic |-> t, next |-> position[t], end |-> end, step |-> "handle"]
    BY <2>1 DEF Fetch
  <2>3. position' = position /\ log' = log
    BY <2>1 DEF Fetch, kafka
  <2>4. t # "none"
    BY DEF Topics
  <2>5. position[t] <= end /\ end <= Len(log[t])
    BY <1>a, <2>2
  <2>6. QED
    BY <1>a, <2>2, <2>3, <2>4, <2>5
<1>4. ASSUME BatchReturns PROVE BatchInv'
  BY <1>4, <1>c DEF BatchReturns, NoBatch
<1>5. ASSUME Committed PROVE BatchInv'
  BY <1>5, <1>a, <1>b, <1>c DEF Committed
<1>6. ASSUME Dropped PROVE BatchInv'
  BY <1>6, <1>c DEF Dropped, NoBatch
<1>7. ASSUME Sliced PROVE BatchInv'
  <2>1. batch' = [batch EXCEPT !.next = SliceEnd, !.step = "commit"]
        /\ position' = [position EXCEPT ![batch.topic] = SliceEnd] /\ log' = log
    BY <1>7 DEF Sliced, Resolve
  <2>2. SliceEnd <= batch.end /\ SliceEnd \in Nat /\ ~Idle
    BY <1>7, SliceFacts DEF Sliced, AtSlice, At
  <2>3. QED
    BY <1>a, <1>b, <1>c, <2>1, <2>2
<1>8. ASSUME Broken PROVE BatchInv'
  BY <1>8, <1>a, <1>b, <1>c DEF Broken, AtSlice, At
<1>9. ASSUME Advanced PROVE BatchInv'
  <2>1. batch' = [batch EXCEPT !.next = batch.next + 1, !.step = "commit"] /\ log' = log
    BY <1>9 DEF Advanced
  <2>2. ~Idle /\ batch.next + 1 <= batch.end /\ batch.topic \in Topics
    BY <1>9, <1>a, <1>b DEF Advanced, InHand
  <2>3. position'[batch.topic] <= batch.next + 1
    BY <1>9, <1>a, <1>c, <2>2 DEF Advanced, Resolve
  <2>4. QED
    BY <1>a, <1>b, <1>c, <2>1, <2>2, <2>3
<1>10. ASSUME Proceeded PROVE BatchInv'
  BY <1>10, <1>a, <1>b, <1>c DEF Proceeded, InHand
<1>11. QED
  BY <1>1, <1>2, <1>3, <1>4, <1>5, <1>6, <1>7, <1>8, <1>9, <1>10, KafkaStep

(* A topic holds events of its kind, which Redis has taken.                *)
LEMMA LogNext ==
  ASSUME Shape, [Next]_vars
  PROVE  LogInv'
<1>a. LogInv /\ taken \subseteq taken'
  BY HistoryStep DEF Shape
<1>b. ASSUME log' = log PROVE LogInv'
  BY <1>a, <1>b DEF LogInv
<1>1. ASSUME KafkaSame PROVE LogInv'
  BY <1>1, <1>b DEF KafkaSame
<1>2. ASSUME Grown PROVE LogInv'
  BY <1>2, <1>a, LogGrows DEF Grown, LogInv
<1>3. ASSUME Fetched PROVE LogInv'
  BY <1>3, <1>b DEF Fetched, Fetch, kafka
<1>4. ASSUME BatchReturns PROVE LogInv'
  BY <1>4, <1>b DEF BatchReturns
<1>5. ASSUME Committed PROVE LogInv'
  BY <1>5, <1>b DEF Committed
<1>6. ASSUME Dropped PROVE LogInv'
  BY <1>6, <1>b DEF Dropped
<1>7. ASSUME Sliced PROVE LogInv'
  BY <1>7, <1>b DEF Sliced
<1>8. ASSUME Broken PROVE LogInv'
  BY <1>8, <1>b DEF Broken
<1>9. ASSUME Advanced PROVE LogInv'
  BY <1>9, <1>b DEF Advanced
<1>10. ASSUME Proceeded PROVE LogInv'
  BY <1>10, <1>b DEF Proceeded
<1>11. QED
  BY <1>1, <1>2, <1>3, <1>4, <1>5, <1>6, <1>7, <1>8, <1>9, <1>10, KafkaStep

(* All of these together.                                                  *)
LEMMA ShapeNext ==
  ASSUME Shape, [Next]_vars
  PROVE  Shape'
BY TypeNext, OffsetsNext, BatchNext, LogNext DEF Shape

(* Before the first event everything is empty.                             *)
LEMMA ShapeInit ==
  ASSUME Init
  PROVE  Shape
<1>1. TypeOK
  <2>1. log \in [Topics -> Seq(Events)]
    BY EmptySeq DEF Init
  <2>2. /\ login \in [read : BOOLEAN, balance : Nat, left : 0..MaxLogins]
        /\ faults \in 0..MaxFaults
    BY BoundsAssumption DEF Init
  <2>3. batch \in [topic : Topics \cup {"none"}, next : Nat, end : Nat, step : Step]
    BY DEF Init, NoBatch, Step
  <2>4. balance \in Nat /\ hot \in Nat
    BY BoundsAssumption DEF Init
  <2>5. QED
    BY <2>1, <2>2, <2>3, <2>4 DEF Init, TypeOK
<1>2. \A t \in Topics : Len(log[t]) = 0
  BY EmptySeq DEF Init
<1>3. BatchInv
  BY DEF Init, BatchInv, NoBatch, Idle
<1>4. OffsetsInv /\ LogInv
  BY <1>2 DEF Init, OffsetsInv, LogInv
<1>5. QED
  BY <1>1, <1>3, <1>4 DEF Shape

(* The balances of both stores stay natural numbers, whatever the events,  *)
(* the failures and the restarts, and every variable keeps its type.       *)
THEOREM TypeCorrect == Spec => []TypeOK
<1>1. Init => Shape
  BY ShapeInit
<1>2. Shape /\ [Next]_vars => Shape'
  BY ShapeNext
<1>3. Shape => TypeOK
  BY DEF Shape
<1>4. QED
  BY <1>1, <1>2, <1>3, PTL DEF Spec

-----------------------------------------------------------------------------
(* Nothing is passed over in silence.                                      *)

(* Rows and histories only grow.                                           *)
LEMMA DoneStays ==
  ASSUME Shape, [Next]_vars
  PROVE  rows \subseteq rows' /\ rows \cup marred \subseteq rows' \cup marred'
BY LedgerStep, HistoryStep

(* Every step that moves an offset or the batch forward has given the      *)
(* messages in between their rows, or noted that their handling failed.    *)
LEMMA PassedNext ==
  ASSUME Shape, PassedInv, [Next]_vars
  PROVE  PassedInv'
<1>a. /\ batch \in BatchSet /\ position \in [Topics -> Nat] /\ committed \in [Topics -> Nat]
      /\ \A t \in Topics : Len(log[t]) \in Nat
  BY LenProperties DEF Shape, TypeOK, BatchSet
<1>b. ~Idle => batch.topic \in Topics
  BY <1>a DEF BatchSet, Idle
<1>c. BatchInv /\ OffsetsInv
  BY DEF Shape
<1>d. /\ \A t \in Topics : \A i \in 1..position[t] : log[t][i] \in rows' \cup marred'
      /\ ~Idle => \A i \in 1..batch.next : log[batch.topic][i] \in rows' \cup marred'
      /\ batch.step \in {"credit", "publish"} => Message \in rows'
  BY DoneStays DEF PassedInv
<1>e. /\ batch.step \in {"credit", "publish"} => InHand
      /\ batch.next \in Nat /\ batch.end \in Nat
  BY <1>a, <1>c DEF BatchInv, BatchSet, Single, InHand, Idle
<1>f. ASSUME ~Idle, NEW n \in Nat, \A i \in 1..n : log[batch.topic][i] \in rows' \cup marred',
             log' = log, batch'.topic = batch.topic, batch'.next = n,
             batch'.step \notin {"credit", "publish"},
             position' = position \/ position' = [position EXCEPT ![batch.topic] = n]
      PROVE  PassedInv'
  <2>1. \A t \in Topics : \A i \in 1..position'[t] : log'[t][i] \in rows' \cup marred'
    <3>1. CASE position' = position
      BY <1>d, <1>f, <3>1
    <3>2. CASE position' = [position EXCEPT ![batch.topic] = n]
      BY <1>a, <1>d, <1>f, <3>2
    <3>3. QED
      BY <1>f, <3>1, <3>2
  <2>2. \A i \in 1..batch'.next : log'[batch'.topic][i] \in rows' \cup marred'
    BY <1>f
  <2>3. QED
    BY <1>f, <2>1, <2>2 DEF PassedInv
<1>1. ASSUME KafkaSame PROVE PassedInv'
  BY <1>1, <1>d DEF KafkaSame, PassedInv, Idle, Message
<1>2. ASSUME Grown PROVE PassedInv'
  <2>1. position' = position /\ batch' = batch
    BY <1>2 DEF Grown
  <2>2. ASSUME NEW t \in Topics, NEW i \in 1..Len(log[t]) PROVE log'[t][i] = log[t][i]
    BY <1>2, LogGrows
  <2>3. \A t \in Topics : \A i \in 1..position'[t] : log'[t][i] \in rows' \cup marred'
    <3>1. \A t \in Topics : \A i \in 1..position[t] : i \in 1..Len(log[t])
      BY <1>a, <1>c DEF OffsetsInv
    <3>2. QED
      BY <1>d, <2>1, <2>2, <3>1
  <2>4. ~Idle => \A i \in 1..batch.next : log'[batch.topic][i] \in rows' \cup marred'
    <3>1. ~Idle => \A i \in 1..batch.next : i \in 1..Len(log[batch.topic])
      BY <1>a, <1>b, <1>c, <1>e DEF BatchInv
    <3>2. QED
      BY <1>b, <1>d, <2>2, <3>1
  <2>5. batch.step \in {"credit", "publish"} => Message' \in rows'
    BY <1>2, <1>d, <1>e, MessageStays
  <2>6. QED
    BY <2>1, <2>3, <2>4, <2>5 DEF PassedInv, Idle
<1>3. ASSUME Fetched PROVE PassedInv'
  <2>1. PICK t \in Topics : Fetch(t)
    BY <1>3 DEF Fetched
  <2>2. batch'.topic = t /\ batch'.next = position[t] /\ batch'.step = "handle"
    BY <2>1 DEF Fetch
  <2>3. position' = position /\ log' = log
    BY <2>1 DEF Fetch, kafka
  <2>4. QED
    BY <1>d, <2>2, <2>3 DEF PassedInv
<1>4. ASSUME BatchReturns PROVE PassedInv'
  <2>1. /\ batch' = NoBatch /\ log' = log /\ ~Idle
        /\ position' = [position EXCEPT ![batch.topic] = batch.next]
    BY <1>4 DEF BatchReturns, Resolve
  <2>2. \A t \in Topics : \A i \in 1..position'[t] : log'[t][i] \in rows' \cup marred'
    BY <1>a, <1>b, <1>d, <2>1
  <2>3. QED
    BY <2>1, <2>2 DEF PassedInv, NoBatch, Idle
<1>5. ASSUME Committed PROVE PassedInv'
  <2>1. batch'.topic = batch.topic /\ batch'.next = batch.next /\ batch'.step = "handle"
    BY <1>5, <1>a DEF Committed, Goto, BatchSet
  <2>2. position' = position /\ log' = log
    BY <1>5 DEF Committed
  <2>3. QED
    BY <1>d, <2>1, <2>2 DEF PassedInv, Idle
<1>6. ASSUME Dropped PROVE PassedInv'
  <2>1. batch' = NoBatch /\ log' = log
    BY <1>6 DEF Dropped
  <2>2. \A t \in Topics : position'[t] \in Nat /\ position'[t] <= position[t]
    BY <1>6, <1>a, <1>c DEF Dropped, OffsetsInv
  <2>3. \A t \in Topics : \A i \in 1..position'[t] : i \in 1..position[t]
    BY <1>a, <2>2
  <2>4. QED
    BY <1>d, <2>1, <2>3 DEF PassedInv, NoBatch, Idle
<1>7. ASSUME Sliced PROVE PassedInv'
  <2>1. /\ ~Idle /\ SliceEnd \in Nat /\ log' = log /\ Slice \subseteq rows'
        /\ batch' = [batch EXCEPT !.next = SliceEnd, !.step = "commit"]
        /\ position' = [position EXCEPT ![batch.topic] = SliceEnd]
    BY <1>7, SliceFacts DEF Sliced, Resolve, AtSlice, At
  <2>2. ASSUME NEW i \in 1..SliceEnd PROVE log[batch.topic][i] \in rows' \cup marred'
    <3>1. CASE i <= batch.next
      BY <1>d, <1>e, <2>1, <3>1
    <3>2. CASE i > batch.next
      <4>1. i - 1 \in batch.next .. SliceEnd - 1 /\ (i - 1) + 1 = i
        BY <1>e, <2>1, <3>2
      <4>2. log[batch.topic][i] \in Slice
        BY <4>1 DEF Slice
      <4>3. QED
        BY <2>1, <4>2
    <3>3. QED
      BY <1>e, <2>1, <3>1, <3>2
  <2>3. batch'.topic = batch.topic /\ batch'.next = SliceEnd /\ batch'.step = "commit"
    BY <1>a, <2>1 DEF BatchSet
  <2>4. QED
    BY <1>f, <2>1, <2>2, <2>3
<1>8. ASSUME Broken PROVE PassedInv'
  <2>1. /\ ~Idle /\ log' = log /\ Rest \subseteq marred' /\ position' = position
        /\ batch' = [batch EXCEPT !.next = batch.end] /\ batch.step = "handle"
    BY <1>8 DEF Broken, AtSlice, At
  <2>2. ASSUME NEW i \in 1..batch.end PROVE log[batch.topic][i] \in rows' \cup marred'
    <3>1. CASE i <= batch.next
      BY <1>d, <1>e, <2>1, <3>1
    <3>2. CASE i > batch.next
      <4>1. i - 1 \in batch.next .. batch.end - 1 /\ (i - 1) + 1 = i
        BY <1>e, <2>1, <3>2
      <4>2. log[batch.topic][i] \in Rest
        BY <4>1 DEF Rest
      <4>3. QED
        BY <2>1, <4>2
    <3>3. QED
      BY <1>e, <2>1, <3>1, <3>2
  <2>3. batch'.topic = batch.topic /\ batch'.next = batch.end /\ batch'.step = "handle"
    BY <1>a, <2>1 DEF BatchSet
  <2>4. QED
    BY <1>e, <1>f, <2>1, <2>2, <2>3
<1>9. ASSUME Advanced PROVE PassedInv'
  <2>1. /\ ~Idle /\ log' = log
        /\ batch' = [batch EXCEPT !.next = batch.next + 1, !.step = "commit"]
        /\ position' = position \/ Resolve(batch.next + 1)
    BY <1>9 DEF Advanced, InHand, Onward
  <2>2. Message \in rows' \cup marred'
    BY <1>9, <1>d DEF Advanced
  <2>3. ASSUME NEW i \in 1..batch.next + 1
        PROVE  log[batch.topic][i] \in rows' \cup marred'
    <3>1. CASE i = batch.next + 1
      BY <2>2, <3>1 DEF Message
    <3>2. CASE i # batch.next + 1
      <4>1. i \in 1..batch.next
        BY <1>e, <3>2
      <4>2. QED
        BY <1>d, <2>1, <4>1
    <3>3. QED
      BY <3>1, <3>2
  <2>4. batch'.topic = batch.topic /\ batch'.next = batch.next + 1 /\ batch'.step = "commit"
    BY <1>a, <2>1 DEF BatchSet
  <2>5. batch.next + 1 \in Nat
    BY <1>e
  <2>6. QED
    BY <1>f, <2>1, <2>3, <2>4, <2>5 DEF Resolve
<1>10. ASSUME Proceeded PROVE PassedInv'
  <2>1. position' = position /\ log' = log /\ Message \in rows'
    BY <1>10, <1>d DEF Proceeded
  <2>2. batch'.topic = batch.topic /\ batch'.next = batch.next
    BY <1>10, <1>a DEF Proceeded, Goto, BatchSet
  <2>3. Message' = Message
    BY <2>1, <2>2 DEF Message
  <2>4. QED
    BY <1>d, <2>1, <2>2, <2>3 DEF PassedInv, Idle
<1>11. QED
  BY <1>1, <1>2, <1>3, <1>4, <1>5, <1>6, <1>7, <1>8, <1>9, <1>10, KafkaStep

-----------------------------------------------------------------------------
(* Credits to Redis.                                                       *)

(* Where the step of the batch stands after an action.                     *)
LEMMA StepFacts ==
  ASSUME Shape
  PROVE  /\ batch \in BatchSet
         /\ batch.step \in {"credit", "publish"} => InHand /\ Message \in Events
         /\ batch.step = "credit" => Message \in Deposits
         /\ \A n : [batch EXCEPT !.next = n].step = batch.step
         /\ \A n, s : [batch EXCEPT !.next = n, !.step = s].step = s
         /\ \A s : /\ [batch EXCEPT !.step = s].step = s
                  /\ [batch EXCEPT !.step = s].topic = batch.topic
                  /\ [batch EXCEPT !.step = s].next = batch.next
<1>1. batch \in BatchSet
  BY DEF Shape, TypeOK, BatchSet
<1>2. batch.step \in {"credit", "publish"} => InHand
  BY DEF InHand, Shape, BatchInv, Single, Idle
<1>3. InHand => Message \in Events
  BY MessageFacts DEF InHand
<1>4. batch.step = "credit" => Message \in Deposits
  BY <1>2, MessageFacts DEF InHand, Shape, BatchInv
<1>5. /\ \A n : [batch EXCEPT !.next = n].step = batch.step
      /\ \A n, s : [batch EXCEPT !.next = n, !.step = s].step = s
      /\ \A s : /\ [batch EXCEPT !.step = s].step = s
               /\ [batch EXCEPT !.step = s].topic = batch.topic
               /\ [batch EXCEPT !.step = s].next = batch.next
  BY <1>1 DEF BatchSet
<1>6. QED
  BY <1>1, <1>2, <1>3, <1>4, <1>5

(* A deposit is added to Redis once, unless the script was sent again.     *)
LEMMA CreditNext ==
  ASSUME Shape, PassedInv, CreditInv, [Next]_vars
  PROVE  CreditInv'
<1>a. /\ credits \in [Deposits -> Nat] /\ batch \in BatchSet
      /\ rows \subseteq rows' /\ resent \subseteq resent'
  BY DoneStays, HistoryStep DEF Shape, TypeOK, BatchSet
<1>b. ASSUME credits' = credits, batch'.step # "credit" PROVE CreditInv'
  BY <1>a, <1>b DEF CreditInv, CreditedOnce
<1>c. ASSUME credits' = credits, batch' = batch, Message' = Message PROVE CreditInv'
  BY <1>a, <1>c DEF CreditInv, CreditedOnce
<1>d. /\ \A n : [batch EXCEPT !.next = n].step = batch.step
      /\ \A n, s : [batch EXCEPT !.next = n, !.step = s].step = s
      /\ \A s : [batch EXCEPT !.step = s].step = s
  BY StepFacts
<1> USE DEF moves, kafka, stores, cache, consumer
<1>1. ASSUME NEW t \in Topics, Fetch(t) PROVE CreditInv'
  <2>1. credits' = credits /\ batch'.step = "handle"
    BY <1>1 DEF Fetch
  <2>2. QED
    BY <1>b, <2>1
<1>2. ASSUME BatchReturns \/ CommitThrows \/ Restart PROVE CreditInv'
  BY <1>2, <1>b DEF BatchReturns, CommitThrows, Restart, NoBatch
<1>3. ASSUME Commit PROVE CreditInv'
  BY <1>3, <1>b, <1>d DEF Commit, Goto
<1>4. ASSUME InsertBets PROVE CreditInv'
  BY <1>4, <1>b, <1>d DEF InsertBets
<1>5. ASSUME InsertRefused \/ InsertFails \/ InsertUnanswered PROVE CreditInv'
  BY <1>5, <1>b, <1>d
       DEF InsertRefused, InsertFails, InsertUnanswered, Break, AtSlice, At
<1>6. ASSUME Duplicate \/ ConnectFails \/ Publish PROVE CreditInv'
  BY <1>6, <1>b, <1>d DEF Duplicate, ConnectFails, Publish, HandledWell, Onward
<1>7. ASSUME Record PROVE CreditInv'
  <2>1. CASE batch.topic # "DepositReceived"
    BY <1>7, <1>b, <1>d, <2>1 DEF Record, Goto
  <2>2. CASE batch.topic = "DepositReceived"
    <3>1. InHand /\ Message \notin rows
      BY <1>7 DEF Record, At, Write, InHand
    <3>2. Message \in Deposits
      BY <2>2, <3>1, MessageFacts DEF InHand
    <3>3. credits[Message] = 0
      BY <1>a, <3>1, <3>2 DEF CreditInv, CreditedOnce
    <3>4. batch' = [batch EXCEPT !.step = "credit"] /\ log' = log
      BY <1>7, <2>2 DEF Record, Goto
    <3>5. Message' = Message
      BY <3>4, StepFacts DEF Message
    <3>6. credits' = credits /\ resent' = resent
      BY <1>7 DEF Record
    <3>7. QED
      BY <1>a, <3>3, <3>5, <3>6 DEF CreditInv, CreditedOnce
  <2>3. QED
    BY <2>1, <2>2
<1>8. ASSUME RecordRefused \/ QueryFails \/ QueryUnanswered
               \/ CreditFails \/ PublishFails
      PROVE CreditInv'
  BY <1>8, <1>b, <1>d
       DEF RecordRefused, QueryFails, QueryUnanswered, CreditFails, PublishFails,
           HandledBadly, Onward
<1>9. ASSUME CreditRedis PROVE CreditInv'
  <2>1. /\ batch.step = "credit" /\ InHand /\ Message \in rows /\ Message \in Deposits
        /\ credits' = [credits EXCEPT ![Message] = credits[Message] + 1] /\ rows' = rows
    BY <1>9, StepFacts DEF CreditRedis, At, AddToRedis, PassedInv
  <2>2. \A d \in Deposits \ {Message} : credits'[d] = credits[d]
    BY <1>a, <2>1
  <2>3. Message \notin resent => credits'[Message] = 1
    BY <1>a, <2>1 DEF CreditInv
  <2>4. resent' = resent /\ batch'.step = "publish"
    BY <1>9, <1>d DEF CreditRedis, Goto
  <2>5. CreditedOnce'
    BY <1>a, <2>1, <2>2, <2>3, <2>4 DEF CreditInv, CreditedOnce
  <2>6. QED
    BY <2>4, <2>5 DEF CreditInv
<1>10. ASSUME CreditReplyLost PROVE CreditInv'
  <2>1. /\ batch.step = "credit" /\ InHand /\ Message \in rows /\ Message \in Deposits
        /\ credits' = [credits EXCEPT ![Message] = credits[Message] + 1] /\ rows' = rows
    BY <1>10, StepFacts DEF CreditReplyLost, At, AddToRedis, PassedInv
  <2>2. \A d \in Deposits \ {Message} : credits'[d] = credits[d]
    BY <1>a, <2>1
  <2>3. Message' = Message /\ resent' = resent \cup {Message} /\ batch' = batch
    BY <1>10 DEF CreditReplyLost, Message
  <2>4. CreditedOnce'
    BY <1>a, <2>1, <2>2, <2>3 DEF CreditInv, CreditedOnce
  <2>5. QED
    BY <2>3, <2>4 DEF CreditInv
<1>11. ASSUME LoseKey \/ LoginReads \/ LoginRestores PROVE CreditInv'
  BY <1>11, <1>c DEF LoseKey, LoginReads, LoginRestores, Message
<1>12. ASSUME NEW e \in Bets \cup Withdrawals, Take(e) \/ GiveBack(e) PROVE CreditInv'
  BY <1>12, <1>c DEF Take, GiveBack, AddBack, Message
<1>13. ASSUME NEW e \in Bets \cup Withdrawals, PublishTaken(e) PROVE CreditInv'
  <2>1. Grown
    BY <1>13 DEF PublishTaken, Grown, Events
  <2>2. credits' = credits /\ batch' = batch
    BY <1>13 DEF PublishTaken
  <2>3. QED
    BY <1>b, <1>c, <2>1, <2>2, MessageStays, StepFacts
<1>14. ASSUME NEW d \in Deposits, PublishDeposit(d) PROVE CreditInv'
  <2>1. Grown
    BY <1>14 DEF PublishDeposit, Grown, Events
  <2>2. credits' = credits /\ batch' = batch
    BY <1>14 DEF PublishDeposit
  <2>3. QED
    BY <1>b, <1>c, <2>1, <2>2, MessageStays, StepFacts
<1>15. CASE UNCHANGED vars
  BY <1>15, <1>c DEF vars, Message
<1>16. ASSUME NEW b \in Bets, Settle(b) PROVE CreditInv'
  BY <1>16, <1>c DEF Settle, AddBack, Message
<1>17. QED
  BY <1>1, <1>2, <1>3, <1>4, <1>5, <1>6, <1>7, <1>8, <1>9, <1>10, <1>11, <1>12, <1>13,
       <1>14, <1>15, <1>16
       DEF Next, Consumer, Failures, Publishers, Login

(* An event with a row was taken from Redis or credited to it, is about to *)
(* be, or failed to.                                                       *)
LEMMA RowsNext ==
  ASSUME Shape, RowsInv, [Next]_vars
  PROVE  RowsInv'
<1>a. /\ credits \in [Deposits -> Nat] /\ batch \in BatchSet
      /\ taken \subseteq taken' /\ marred \subseteq marred'
  BY HistoryStep DEF Shape, TypeOK, BatchSet
<1>b. ASSUME rows' = rows, credits' = credits, batch.step # "credit" PROVE RowsInv'
  BY <1>a, <1>b DEF RowsInv, Credited
<1>c. ASSUME rows' = rows, credits' = credits, batch.step = "credit", Message \in marred'
      PROVE  RowsInv'
  BY <1>a, <1>c DEF RowsInv, Credited
<1>d. ASSUME rows' = rows, credits' = credits, batch' = batch, Message' = Message
      PROVE  RowsInv'
  BY <1>a, <1>d DEF RowsInv, Credited
<1> USE DEF moves, kafka, stores, cache, consumer
<1>1. ASSUME NEW t \in Topics, Fetch(t) PROVE RowsInv'
  BY <1>1, <1>b DEF Fetch, Idle, Shape, BatchInv
<1>2. ASSUME BatchReturns \/ Commit PROVE RowsInv'
  BY <1>2, <1>b DEF BatchReturns, Commit
<1>3. ASSUME CommitThrows PROVE RowsInv'
  BY <1>3, <1>b DEF CommitThrows
<1>4. ASSUME Restart PROVE RowsInv'
  BY <1>4, <1>b, <1>c DEF Restart, Mar
<1>5. ASSUME InsertBets \/ InsertUnanswered PROVE RowsInv'
  <2>1. rows' = rows \cup NewBets /\ NewBets \subseteq taken /\ batch.step = "handle"
    BY <1>5, SliceFacts DEF InsertBets, InsertUnanswered, WriteBets, NewBets, AtSlice, At
  <2>2. credits' = credits
    BY <1>5 DEF InsertBets, InsertUnanswered
  <2>3. QED
    BY <1>a, <2>1, <2>2 DEF RowsInv, Credited
<1>6. ASSUME InsertRefused \/ InsertFails PROVE RowsInv'
  BY <1>6, <1>b DEF InsertRefused, InsertFails, AtSlice, At
<1>7. ASSUME Duplicate \/ ConnectFails \/ Publish PROVE RowsInv'
  BY <1>7, <1>b DEF Duplicate, ConnectFails, Publish, At
<1>8. ASSUME Record PROVE RowsInv'
  <2>1. rows' = rows \cup {Message} /\ batch.step = "handle" /\ InHand
    BY <1>8 DEF Record, Write, At, InHand
  <2>2. credits' = credits
    BY <1>8 DEF Record
  <2>3. CASE batch.topic = "DepositReceived"
    <3>1. batch' = [batch EXCEPT !.step = "credit"] /\ log' = log
      BY <1>8, <2>3 DEF Record, Goto
    <3>2. Message' = Message /\ batch'.step = "credit"
      BY <3>1, StepFacts DEF Message
    <3>3. QED
      BY <1>a, <2>1, <2>2, <3>2 DEF RowsInv, Credited
  <2>4. CASE batch.topic # "DepositReceived"
    <3>1. Message \in taken
      BY <2>1, <2>4, MessageFacts, TopicFacts DEF InHand
    <3>2. QED
      BY <1>a, <2>1, <2>2, <3>1 DEF RowsInv, Credited
  <2>5. QED
    BY <2>3, <2>4
<1>9. ASSUME RecordRefused \/ QueryFails PROVE RowsInv'
  BY <1>9, <1>b DEF RecordRefused, QueryFails, At
<1>10. ASSUME QueryUnanswered PROVE RowsInv'
  <2>1. /\ rows' = rows \cup {Message} /\ batch.step = "handle" /\ credits' = credits
        /\ marred' = marred \cup {Message}
    BY <1>10 DEF QueryUnanswered, Write, At, HandledBadly, Mar
  <2>2. QED
    BY <1>a, <2>1 DEF RowsInv, Credited
<1>11. ASSUME CreditFails PROVE RowsInv'
  BY <1>11, <1>c DEF CreditFails, At, HandledBadly, Mar
<1>12. ASSUME PublishFails PROVE RowsInv'
  BY <1>12, <1>b DEF PublishFails, At
<1>13. ASSUME CreditRedis PROVE RowsInv'
  <2>1. /\ batch.step = "credit" /\ Message \in Deposits /\ rows' = rows
        /\ credits' = [credits EXCEPT ![Message] = credits[Message] + 1]
    BY <1>13, StepFacts DEF CreditRedis, At, AddToRedis
  <2>2. credits'[Message] > 0 /\ \A d \in Deposits \ {Message} : credits'[d] = credits[d]
    BY <1>a, <2>1
  <2>3. rows' \subseteq taken' \cup Credited' \cup marred'
    BY <1>a, <2>1, <2>2 DEF RowsInv, Credited
  <2>4. QED
    BY <2>3 DEF RowsInv
<1>14. ASSUME CreditReplyLost PROVE RowsInv'
  <2>1. /\ batch.step = "credit" /\ Message \in Deposits /\ rows' = rows
        /\ credits' = [credits EXCEPT ![Message] = credits[Message] + 1]
    BY <1>14, StepFacts DEF CreditReplyLost, At, AddToRedis
  <2>2. credits'[Message] > 0 /\ \A d \in Deposits \ {Message} : credits'[d] = credits[d]
    BY <1>a, <2>1
  <2>3. rows' \subseteq taken' \cup Credited' \cup marred'
    BY <1>a, <2>1, <2>2 DEF RowsInv, Credited
  <2>4. QED
    BY <2>3 DEF RowsInv
<1>15. ASSUME LoseKey \/ LoginReads \/ LoginRestores PROVE RowsInv'
  BY <1>15, <1>d DEF LoseKey, LoginReads, LoginRestores, Message
<1>16. ASSUME NEW e \in Bets \cup Withdrawals, Take(e) \/ GiveBack(e) PROVE RowsInv'
  BY <1>16, <1>d DEF Take, GiveBack, AddBack, Message
<1>17. ASSUME NEW e \in Bets \cup Withdrawals, PublishTaken(e) PROVE RowsInv'
  <2>1. Grown
    BY <1>17 DEF PublishTaken, Grown, Events
  <2>2. rows' = rows /\ credits' = credits /\ batch' = batch
    BY <1>17 DEF PublishTaken
  <2>3. QED
    BY <1>b, <1>d, <2>1, <2>2, MessageStays, StepFacts
<1>18. ASSUME NEW d \in Deposits, PublishDeposit(d) PROVE RowsInv'
  <2>1. Grown
    BY <1>18 DEF PublishDeposit, Grown, Events
  <2>2. rows' = rows /\ credits' = credits /\ batch' = batch
    BY <1>18 DEF PublishDeposit
  <2>3. QED
    BY <1>b, <1>d, <2>1, <2>2, MessageStays, StepFacts
<1>19. CASE UNCHANGED vars
  BY <1>19, <1>d DEF vars, Message
<1>20. ASSUME NEW b \in Bets, Settle(b) PROVE RowsInv'
  BY <1>20, <1>d DEF Settle, AddBack, Message
<1>21. QED
  BY <1>1, <1>2, <1>3, <1>4, <1>5, <1>6, <1>7, <1>8, <1>9, <1>10, <1>11, <1>12, <1>13,
       <1>14, <1>15, <1>16, <1>17, <1>18, <1>19, <1>20
       DEF Next, Consumer, Failures, Publishers, Login

(* A row is only written for a message that was published.                 *)
LEMMA PublishedNext ==
  ASSUME Shape, PublishedInv, [Next]_vars
  PROVE  PublishedInv'
<1>1. rows' \subseteq Published
  BY LedgerStep DEF PublishedInv
<1>2. ASSUME log' = log PROVE Published' = Published
  BY <1>2 DEF Published
<1>3. ASSUME Grown PROVE Published \subseteq Published'
  <2> SUFFICES ASSUME NEW e \in Published PROVE e \in Published'
    OBVIOUS
  <2>1. PICK i \in 1..Len(log[TopicOf(e)]) : log[TopicOf(e)][i] = e
    BY DEF Published
  <2>2. e \in Events /\ TopicOf(e) \in Topics
    BY TopicFacts DEF Published
  <2>3. /\ Len(log[TopicOf(e)]) <= Len(log'[TopicOf(e)])
        /\ log'[TopicOf(e)][i] = log[TopicOf(e)][i]
    BY <1>3, <2>2, LogGrows
  <2>4. Len(log[TopicOf(e)]) \in Nat /\ Len(log'[TopicOf(e)]) \in Nat
    BY <1>3, <2>2, LogGrows, LenProperties DEF Shape, TypeOK
  <2>5. i \in 1..Len(log'[TopicOf(e)])
    BY <2>3, <2>4
  <2>6. QED
    BY <2>1, <2>2, <2>3, <2>5 DEF Published
<1>4. Grown \/ log' = log
  BY KafkaStep
     DEF KafkaSame, Fetched, Fetch, kafka, BatchReturns, Committed, Dropped, Sliced,
         Broken, Advanced, Proceeded
<1>5. QED
  BY <1>1, <1>2, <1>3, <1>4 DEF PublishedInv

-----------------------------------------------------------------------------
(* The balances.                                                           *)

(* PostgreSQL's balance and its rows change together.                      *)
LEMMA CanonicalNext ==
  ASSUME Shape, CanonicalBalance, [Next]_vars
  PROVE  CanonicalBalance'
<1>1. PICK E \in SUBSET (Events \ rows) :
        rows' = rows \cup E /\ balance' = balance + Net(E)
  BY LedgerStep DEF Published
<1>2. rows \in SUBSET Events /\ E \in SUBSET Events /\ rows \cap E = {}
  BY DEF Shape, TypeOK
<1>3. Net(rows') = Net(rows) + Net(E) /\ Net(rows) \in Int /\ Net(E) \in Int
  BY <1>1, <1>2, NetUnion, NetType
<1>4. QED
  BY <1>1, <1>3, BoundsAssumption DEF CanonicalBalance

(* While nothing failed, the rows are the events that Redis took and did   *)
(* not give back, or was credited with, and the deposit in hand.           *)
LEMMA RowsAreMoved ==
  ASSUME Shape, PassedInv, CreditInv, RowsInv, marred = {},
         taken \ returned \subseteq rows, returned \cap rows = {}
  PROVE  /\ batch.step # "credit" => rows = (taken \ returned) \cup Credited
         /\ batch.step = "credit" => rows = (taken \ returned) \cup Credited \cup {Message}
<1>1. Credited \subseteq rows
  BY DEF CreditInv, CreditedOnce, Credited
<1>2. batch.step = "credit" => Message \in rows
  BY DEF PassedInv
<1>3. QED
  BY <1>1, <1>2 DEF RowsInv

(* When no bet is open, the kept withdrawals and settled bets add up, with *)
(* some deposits, to what was settled and deposited less what was kept.    *)
LEMMA NetOfKept ==
  ASSUME Shape, taken \cap Bets \subseteq settled \cup returned,
         settled \cap returned = {}, NEW D \in SUBSET Deposits
  PROVE  Net((taken \ returned) \cup D)
           = Total(Credit, settled \cup D) - Total(Debit, taken \ returned)
<1> DEFINE kept == taken \ returned
           left == kept \ settled
<1>1. /\ kept \in SUBSET Events /\ left \in SUBSET Withdrawals
      /\ left \in SUBSET Events /\ D \in SUBSET Events /\ settled \in SUBSET Events
      /\ kept \cap D = {} /\ left \cap (settled \cup D) = {}
      /\ kept \cup D = (settled \cup D) \cup left
  BY EventsAssumption DEF Shape, TypeOK, Events
<1>2. /\ Credit \in [Events -> Nat] /\ Debit \in [Events -> Nat]
      /\ \A w \in left : Credit[w] = 0
      /\ \A d \in D : Debit[d] = 0
  BY <1>1, AmountsAssumption
<1> HIDE DEF kept, left
<1>3. Total(Credit, kept \cup D) = Total(Credit, settled \cup D) + Total(Credit, left)
  <2>1. settled \cup D \in SUBSET Events
    BY <1>1
  <2>2. QED
    BY <1>1, <1>2, <2>1, TotalUnion
<1>4. Total(Debit, kept \cup D) = Total(Debit, kept) + Total(Debit, D)
  BY <1>1, <1>2, TotalUnion
<1>5. Total(Credit, left) = 0 /\ Total(Debit, D) = 0
  BY <1>1, <1>2, TotalZero
<1>6. Total(Credit, settled \cup D) \in Nat /\ Total(Debit, kept) \in Nat
  BY <1>1, <1>2, TotalType
<1>7. Net(kept \cup D) = Total(Credit, settled \cup D) - Total(Debit, kept)
  BY <1>3, <1>4, <1>5, <1>6 DEF Net
<1>8. QED
  BY <1>7 DEF kept

(* Redis follows the scripts one by one; a restored balance counts as long *)
(* as it was in step when it was read and set.                             *)
LEMMA HotNext ==
  ASSUME Shape, PassedInv, CreditInv, RowsInv, HotInv, CanonicalBalance, [Next]_vars
  PROVE  HotInv'
<1> DEFINE gains == Total(Credit, settled \cup Credited)
           costs == Total(Debit, taken \ returned)
           Goal == hot' = Opening + gains' - costs'
<1>0. settled \cap returned = {} /\ settled' \cap returned' = {}
  BY HistoryStep DEF HotInv
<1> SUFFICES ASSUME cached', ~stale', marred' = {}, resent' = {}
             PROVE  Goal
  BY <1>0 DEF HotInv
<1>a. marred = {} /\ resent = {} /\ ~stale /\ cached \in BOOLEAN
  BY HistoryStep DEF Shape, TypeOK
<1>b. cached => hot = Opening + gains - costs
  BY <1>a DEF HotInv
<1>c. ASSUME hot' = hot, UNCHANGED moves, credits' = credits, cached PROVE Goal
  BY <1>b, <1>c DEF Credited, moves
<1>d. /\ taken \subseteq Events /\ Credited \subseteq Deposits /\ Deposits \subseteq Events
      /\ taken \cap Deposits = {} /\ settled \subseteq taken /\ settled \cap Deposits = {}
      /\ credits \in [Deposits -> Nat] /\ hot \in Nat /\ Opening \in Nat
  BY EventsAssumption, BoundsAssumption DEF Shape, TypeOK, Credited, Events
<1>e. balance = Opening + Net(rows)
  BY DEF CanonicalBalance
<1>f. /\ Credit \in [Events -> Nat] /\ Debit \in [Events -> Nat]
      /\ gains \in Nat /\ costs \in Nat
  BY <1>d, TotalType, AmountsAssumption
<1>g. ASSUME NEW n \in Nat, AddBack(n)
      PROVE  hot' = Opening + gains - costs + n /\ Credited' = Credited
  BY <1>a, <1>b, <1>g DEF AddBack, Credited
<1> HIDE DEF Goal, gains, costs
<1> USE DEF kafka, stores, cache, consumer
<1>1. ASSUME NEW t \in Topics, Fetch(t) PROVE Goal
  BY <1>1, <1>c DEF Fetch
<1>2. ASSUME BatchReturns \/ Commit \/ InsertBets
               \/ InsertRefused \/ Duplicate \/ Record
      PROVE Goal
  BY <1>2, <1>c DEF BatchReturns, Commit, InsertBets, InsertRefused, Duplicate, Record
<1>3. ASSUME RecordRefused \/ Publish \/ CommitThrows
               \/ Restart \/ InsertFails \/ InsertUnanswered
      PROVE Goal
  BY <1>3, <1>c
       DEF RecordRefused, Publish, CommitThrows, Restart, InsertFails, InsertUnanswered
<1>4. ASSUME ConnectFails \/ QueryFails \/ QueryUnanswered
               \/ CreditFails \/ PublishFails
      PROVE Goal
  BY <1>4, <1>c DEF ConnectFails, QueryFails, QueryUnanswered, CreditFails, PublishFails
<1>5. ASSUME LoseKey PROVE Goal
  BY <1>5 DEF LoseKey
<1>6. ASSUME LoginReads PROVE Goal
  BY <1>6, <1>c DEF LoginReads
<1>7. ASSUME LoginRestores PROVE Goal
  <2>1. /\ UNCHANGED moves /\ credits' = credits
        /\ hot' = IF cached THEN hot ELSE login.balance
    BY <1>7 DEF LoginRestores
  <2>2. CASE cached
    BY <1>c, <2>1, <2>2
  <2>3. CASE ~cached
    <3>1. InStep
      BY <1>7, <2>3 DEF LoginRestores
    <3>2. batch.step # "credit"
      BY <3>1, StepFacts DEF InStep, At, InHand
    <3>3. rows = (taken \ returned) \cup Credited
      BY <1>a, <3>1, <3>2, RowsAreMoved DEF InStep, Accounted
    <3>4. Net(rows) = gains - costs
      BY <1>0, <1>d, <3>1, <3>3, NetOfKept DEF InStep, Accounted, gains, costs
    <3>5. gains' = gains /\ costs' = costs
      BY <2>1 DEF gains, costs, moves, Credited
    <3>6. hot' = balance
      BY <2>1, <2>3, <3>1 DEF InStep
    <3>7. QED
      BY <1>d, <1>e, <1>f, <3>4, <3>5, <3>6 DEF Goal
  <2>4. QED
    BY <1>a, <2>2, <2>3
<1>8. ASSUME CreditRedis PROVE Goal
  <2>1. /\ batch.step = "credit" /\ InHand /\ Message \in rows /\ Message \in Deposits
        /\ credits' = [credits EXCEPT ![Message] = credits[Message] + 1]
        /\ UNCHANGED moves /\ Message \notin resent
    BY <1>8, <1>a, StepFacts DEF CreditRedis, At, AddToRedis, PassedInv
  <2>2. credits[Message] = 0
    BY <1>a, <2>1 DEF CreditInv
  <2>3. Message \notin settled \cup Credited /\ Message \in Events
    BY <1>d, <2>1, <2>2 DEF Credited
  <2>4. Credited' = Credited \cup {Message}
    <3>1. \A d \in Deposits : credits'[d] > 0 <=> (credits[d] > 0 \/ d = Message)
      BY <1>d, <2>1, <2>2
    <3>2. QED
      BY <2>1, <3>1 DEF Credited
  <2>5. costs' = costs
    BY <2>1 DEF costs, moves
  <2>6. gains' = gains + Credit[Message] /\ Credit[Message] \in Nat
    <3>1. settled' \cup Credited' = (settled \cup Credited) \cup {Message}
      BY <2>1, <2>4 DEF moves
    <3>2. settled \cup Credited \in SUBSET Events
      BY <1>d
    <3>3. QED
      BY <1>f, <2>3, <3>1, <3>2, TotalAdd DEF gains
  <2>7. CASE cached
    <3>1. hot' = hot + Credit[Message]
      BY <1>8, <2>7 DEF CreditRedis, AddToRedis
    <3>2. QED
      BY <1>b, <1>d, <1>f, <2>5, <2>6, <2>7, <3>1 DEF Goal
  <2>8. CASE ~cached
    <3>1. hot' = balance /\ Accounted
      BY <1>8, <2>8 DEF CreditRedis, AddToRedis
    <3>2. rows = (taken \ returned) \cup Credited'
      BY <1>a, <2>1, <2>4, <3>1, RowsAreMoved DEF Accounted
    <3>3. Credited' \in SUBSET Deposits
      BY <1>d, <2>1, <2>4
    <3>4. Net(rows) = Total(Credit, settled \cup Credited') - costs
      BY <1>0, <3>1, <3>2, <3>3, NetOfKept DEF Accounted, costs
    <3>5. gains' = Total(Credit, settled \cup Credited')
      BY <2>1 DEF gains, moves
    <3>6. QED
      BY <1>d, <1>e, <1>f, <2>5, <2>6, <3>1, <3>4, <3>5 DEF Goal
  <2>9. QED
    BY <1>a, <2>7, <2>8
<1>9. ASSUME CreditReplyLost PROVE Goal
  BY <1>9 DEF CreditReplyLost
<1>10. ASSUME NEW e \in Bets \cup Withdrawals, Take(e) PROVE Goal
  <2>1. /\ e \in Events /\ e \notin taken \ returned
        /\ taken' = taken \cup {e} /\ returned' = returned /\ settled' = settled
        /\ credits' = credits /\ cached /\ hot' = hot - Debit[e]
    BY <1>10 DEF Take, Events
  <2>2. taken' \ returned' = (taken \ returned) \cup {e}
    BY <1>10, <2>1 DEF Take, Shape, TypeOK
  <2>3. costs' = costs + Debit[e] /\ Debit[e] \in Nat
    <3>1. taken \ returned \in SUBSET Events
      BY <1>d
    <3>2. QED
      BY <1>f, <2>1, <2>2, <3>1, TotalAdd DEF costs
  <2>4. gains' = gains
    BY <2>1 DEF gains, Credited
  <2>5. QED
    BY <1>b, <1>d, <1>f, <2>1, <2>3, <2>4 DEF Goal
<1>11. ASSUME NEW e \in Bets \cup Withdrawals, GiveBack(e) PROVE Goal
  <2>1. /\ e \in Events /\ e \in taken \ returned /\ AddBack(Debit[e])
        /\ taken' = taken /\ returned' = returned \cup {e} /\ settled' = settled
    BY <1>11 DEF GiveBack, Events
  <2>2. Debit[e] \in Nat
    BY <1>f, <2>1
  <2>3. hot' = Opening + gains - costs + Debit[e] /\ Credited' = Credited
    BY <1>g, <2>1, <2>2
  <2>4. costs = costs' + Debit[e] /\ costs' \in Nat
    <3>1. /\ taken' \ returned' \in SUBSET Events
          /\ taken \ returned = (taken' \ returned') \cup {e}
          /\ e \in Events \ (taken' \ returned')
      BY <1>d, <2>1
    <3>2. QED
      BY <1>f, <3>1, TotalAdd, TotalType DEF costs
  <2>5. gains' = gains
    BY <2>1, <2>3 DEF gains
  <2>6. QED
    BY <1>d, <1>f, <2>2, <2>3, <2>4, <2>5 DEF Goal
<1>12. ASSUME NEW b \in Bets, Settle(b) PROVE Goal
  <2>1. /\ b \in Events /\ b \notin settled /\ AddBack(Credit[b])
        /\ taken' = taken /\ returned' = returned /\ settled' = settled \cup {b}
    BY <1>12 DEF Settle, Events
  <2>2. Credit[b] \in Nat /\ b \notin settled \cup Credited
    BY <1>d, <1>f, <2>1, EventsAssumption
  <2>3. hot' = Opening + gains - costs + Credit[b] /\ Credited' = Credited
    BY <1>g, <2>1, <2>2
  <2>4. gains' = gains + Credit[b]
    <3>1. /\ settled' \cup Credited' = (settled \cup Credited) \cup {b}
          /\ settled \cup Credited \in SUBSET Events
      BY <1>d, <2>1, <2>3
    <3>2. QED
      BY <1>f, <2>1, <2>2, <3>1, TotalAdd DEF gains
  <2>5. costs' = costs
    BY <2>1 DEF costs
  <2>6. QED
    BY <1>d, <1>f, <2>2, <2>3, <2>4, <2>5 DEF Goal
<1>13. ASSUME NEW e \in Bets \cup Withdrawals, PublishTaken(e) PROVE Goal
  BY <1>13, <1>c DEF PublishTaken
<1>14. ASSUME NEW d \in Deposits, PublishDeposit(d) PROVE Goal
  BY <1>14, <1>c DEF PublishDeposit
<1>15. ASSUME UNCHANGED vars PROVE Goal
  BY <1>15, <1>c DEF vars
<1>16. QED
  BY <1>1, <1>2, <1>3, <1>4, <1>5, <1>6, <1>7, <1>8, <1>9, <1>10, <1>11, <1>12, <1>13,
       <1>14, <1>15
       DEF Next, Consumer, Failures, Publishers, Login

(* The inductive invariant.                                                *)
THEOREM Invariance == Spec => []IInv
<1>1. ASSUME Init PROVE IInv
  <2>1. Shape
    BY <1>1, ShapeInit
  <2>2. PassedInv /\ CreditInv /\ RowsInv /\ PublishedInv
    BY <1>1
       DEF Init, PassedInv, CreditInv, CreditedOnce, RowsInv, PublishedInv, NoBatch, Idle
  <2>3. settled \cup Credited = {} /\ taken \ returned = {} /\ settled = {} /\ rows = {}
    BY <1>1 DEF Init, Credited
  <2>4. hot = Opening /\ balance = Opening /\ Opening = Opening + 0
    BY <1>1, BoundsAssumption DEF Init
  <2>5. HotInv /\ CanonicalBalance
    BY <2>3, <2>4, TotalNone, BoundsAssumption DEF HotInv, CanonicalBalance
  <2>6. QED
    BY <2>1, <2>2, <2>5 DEF IInv
<1>2. ASSUME IInv, [Next]_vars PROVE IInv'
  BY <1>2, ShapeNext, PassedNext, CreditNext, RowsNext, PublishedNext, HotNext,
     CanonicalNext
     DEF IInv
<1>3. QED
  BY <1>1, <1>2, PTL DEF Spec

(* The balance in PostgreSQL is what the player began with plus deposits   *)
(* and payouts, less withdrawals and wagers, of exactly the events that    *)
(* have a row, however often they were published or handled again.         *)
THEOREM BalanceIsCanonical == Spec => []CanonicalBalance
<1>1. IInv => CanonicalBalance
  BY DEF IInv
<1>2. QED
  BY <1>1, Invariance, PTL

(* What lies below a committed offset has its row, or its handling failed. *)
THEOREM NothingIsPassedOver == Spec => []NothingPassedOver
<1>1. ASSUME IInv PROVE NothingPassedOver
  <2> SUFFICES ASSUME NEW t \in Topics, NEW i \in 1..committed[t]
               PROVE  log[t][i] \in rows \cup marred
    BY DEF NothingPassedOver
  <2>1. /\ committed[t] \in Nat /\ position[t] \in Nat /\ committed[t] <= position[t]
    BY <1>1 DEF IInv, Shape, TypeOK, OffsetsInv
  <2>2. i \in 1..position[t]
    BY <2>1
  <2>3. QED
    BY <1>1, <2>2 DEF IInv, PassedInv
<1>2. QED
  BY <1>1, Invariance, PTL

(* Redis is credited only with deposits that have their row, and with each *)
(* of them once, unless the credit itself was sent again.                  *)
THEOREM DepositsCreditedOnce == Spec => []CreditedOnce
<1>1. IInv => CreditedOnce
  BY DEF IInv, CreditInv
<1>2. QED
  BY <1>1, Invariance, PTL

(* Once every bet is settled or released, and every message that is due    *)
(* was published and handled without a failure, both stores agree, unless  *)
(* Redis had lost its balance and got one back that was not in step.       *)
THEOREM StoresAgree == Spec => []StoresConverge
<1>1. ASSUME IInv PROVE StoresConverge
  <2> SUFFICES ASSUME Drained, cached, ~stale, marred = {}, resent = {}
               PROVE  hot = balance
    BY DEF StoresConverge
  <2>1. Shape /\ PassedInv /\ CreditInv /\ RowsInv /\ PublishedInv /\ HotInv
        /\ CanonicalBalance
    BY <1>1 DEF IInv
  <2> DEFINE places(e) == {i \in DOMAIN log[TopicOf(e)] : log[TopicOf(e)][i] = e}
  <2>2. ASSUME NEW e \in taken
        PROVE  /\ e \in Events /\ TopicOf(e) \in Topics /\ log[TopicOf(e)] \in Seq(Events)
               /\ DOMAIN log[TopicOf(e)] = 1..Len(log[TopicOf(e)])
               /\ Copies(e) = Cardinality(places(e))
               /\ places(e) = {} => Copies(e) = 0
    <3>1. e \in Events /\ TopicOf(e) \in Topics
      BY <2>1, TopicFacts DEF Shape, TypeOK, Events
    <3>2. log[TopicOf(e)] \in Seq(Events)
      BY <2>1, <3>1 DEF Shape, TypeOK
    <3>3. Copies(e) = Cardinality(places(e))
      BY DEF Copies
    <3>4. QED
      BY <3>1, <3>2, <3>3, LenProperties, FS_EmptySet
  <2>3. ASSUME NEW e \in taken \ returned PROVE e \in rows
    <3>1. Copies(e) > 0 /\ Copies(e) # 0
      BY DEF Drained
    <3>2. PICK i \in DOMAIN log[TopicOf(e)] : log[TopicOf(e)][i] = e
      BY <2>2, <3>1
    <3>3. i \in 1..position[TopicOf(e)]
      BY <2>2, <3>2 DEF Drained
    <3>4. log[TopicOf(e)][i] \in rows
      BY <2>1, <2>2, <3>3 DEF PassedInv
    <3>5. QED
      BY <3>2, <3>4
  <2>4. ASSUME NEW e \in returned PROVE e \notin rows
    <3>1. e \in taken /\ Copies(e) = 0
      BY <2>1 DEF Drained, Shape, TypeOK
    <3>2. IsFiniteSet(places(e))
      <4>1. /\ Len(log[TopicOf(e)]) \in Nat
            /\ DOMAIN log[TopicOf(e)] = 1..Len(log[TopicOf(e)])
        BY <2>2, <3>1, LenProperties
      <4>2. IsFiniteSet(1..Len(log[TopicOf(e)]))
        BY <4>1, FS_Interval
      <4>3. QED
        BY <4>1, <4>2, FS_Subset
    <3>3. places(e) = {}
      <4> HIDE DEF places
      <4> QED BY <2>2, <3>1, <3>2, FS_EmptySet
    <3>4. e \notin Published
      BY <2>2, <3>1, <3>3 DEF Published
    <3>5. QED
      BY <2>1, <3>4 DEF PublishedInv
  <2>5. batch.step # "credit"
    BY <2>1 DEF Drained, Shape, BatchInv
  <2>6. rows = (taken \ returned) \cup Credited
    BY <2>1, <2>3, <2>4, <2>5, RowsAreMoved
  <2>7. taken \cap Bets \subseteq settled \cup returned /\ settled \cap returned = {}
    BY <2>1 DEF Drained, HotInv
  <2>8. Net(rows) = Total(Credit, settled \cup Credited) - Total(Debit, taken \ returned)
    BY <2>1, <2>6, <2>7, NetOfKept DEF Credited
  <2>9. /\ Total(Credit, settled \cup Credited) \in Nat
        /\ Total(Debit, taken \ returned) \in Nat
    <3>1. settled \cup Credited \in SUBSET Events /\ taken \ returned \in SUBSET Events
      BY <2>1 DEF Shape, TypeOK, Credited, Events
    <3>2. QED
      BY <3>1, TotalType, AmountsAssumption
  <2>10. QED
    BY <2>1, <2>8, <2>9, BoundsAssumption DEF HotInv, CanonicalBalance
<1>2. QED
  BY <1>1, Invariance, PTL
===============================================================================
