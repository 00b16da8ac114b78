---------------------------- MODULE WsSlotsProofs ----------------------------
(***************************************************************************)
(* Proofs about WsSlots, for any finite set of connections, any workers,   *)
(* limit and number of faults.                                             *)
(***************************************************************************)
EXTENDS WsSlots, FiniteSetTheorems, TLAPS

-----------------------------------------------------------------------------
(* The inductive invariant.                                                *)

(* A reservation is outstanding exactly while its handshake waits for it,  *)
(* and a release only after its socket closed: so a connection holds a slot*)
(* in one way at a time.                                                   *)
CallInv ==
  \A c \in Conns :
    /\ call[c] \in {"reserve", "granted", "denied", "failed"} => stage[c] = "reserve"
    /\ call[c] \in {"release", "released", "again"} => stage[c] = "gone"

(* The counter misses at most Limit holders for each wipe, and one for each*)
(* release that ran a second time.                                         *)
SlotInv == Cardinality(Holders) <= count + Limit * wipes + doubles

Bounds == SlotInv /\ NoPhantomSlots

(* Only a fault makes a release run again, or leaves a slot taken.         *)
FaultInv ==
  faults = 0 => doubles = 0 /\ orphans = 0 /\ \A c \in Conns : call[c] # "again"

Inv == TypeOK /\ CallInv /\ Bounds /\ FaultInv

-----------------------------------------------------------------------------
(* The holders are finitely many, and no number of them is negative.       *)
LEMMA HoldersFinite ==
  IsFiniteSet(Holders) /\ Cardinality(Holders) \in Nat
<1>1. Holders \subseteq Conns
  BY DEF Holders
<1>2. QED
  BY <1>1, ConnsAssumption, FS_Subset, FS_CardinalityType

(* There are no calls at first, and no slot is held.                       *)
LEMMA InitInv == Init => Inv
<1> SUFFICES ASSUME Init PROVE Inv
  OBVIOUS
<1>1. TypeOK
  BY LimitAssumption DEF Init, TypeOK, Stage, CallState, NoWorker
<1>2. CallInv /\ FaultInv
  BY DEF Init, CallInv, FaultInv
<1>3. Holders = {}
  BY DEF Init, Holders
<1>4. Cardinality(Holders) = 0
  BY <1>3, FS_EmptySet
<1>5. Bounds
  BY <1>4, LimitAssumption DEF Init, Bounds, SlotInv, NoPhantomSlots
<1>6. QED
  BY <1>1, <1>2, <1>5 DEF Inv

(* A step that gives nobody a slot and takes none leaves both bounds.      *)
LEMMA SameHolders ==
  ASSUME Bounds, Holders' = Holders, UNCHANGED <<count, wipes, strays>>
  PROVE  Bounds'
BY DEF Bounds, SlotInv, NoPhantomSlots, strays

(* A holder lost with a reply or by a failed release is a slot left taken. *)
LEMMA LostHolder ==
  ASSUME TypeOK, Bounds, NEW c \in Conns, Holders' = Holders \ {c},
         UNCHANGED <<count, wipes, doubles>>,
         orphans' = IF c \in Holders THEN orphans + 1 ELSE orphans
  PROVE  Bounds'
<1>1. CASE c \in Holders
  <2>1. Cardinality(Holders') = Cardinality(Holders) - 1
    BY <1>1, HoldersFinite, FS_RemoveElement
  <2>2. count \in Nat /\ orphans \in Nat /\ doubles \in Nat /\ Limit * wipes \in Nat
    BY LimitAssumption DEF TypeOK
  <2>3. QED
    BY <1>1, <2>1, <2>2, HoldersFinite DEF Bounds, SlotInv, NoPhantomSlots
<1>2. CASE c \notin Holders
  <2>1. Holders' = Holders
    BY <1>2
  <2>2. QED
    BY <1>2, <2>1 DEF Bounds, SlotInv, NoPhantomSlots
<1>3. QED
  BY <1>1, <1>2

(* The holders lost with their worker are as many slots left taken.        *)
LEMMA DeadHolders ==
  ASSUME TypeOK, Bounds, NEW here \in SUBSET Conns, Holders' = Holders \ here,
         UNCHANGED <<count, wipes, doubles>>,
         orphans' = orphans + Cardinality(Holders \cap here)
  PROVE  Bounds'
<1>1. /\ Holders' = Holders \ (Holders \cap here)
      /\ Holders \cap here \subseteq Holders
  OBVIOUS
<1>2. /\ IsFiniteSet(Holders \cap here)
      /\ Cardinality(Holders \cap here) \in Nat
  BY <1>1, HoldersFinite, FS_Subset, FS_CardinalityType
<1>3. Holders \cap (Holders \cap here) = Holders \cap here
  OBVIOUS
<1>4. Cardinality(Holders') = Cardinality(Holders) - Cardinality(Holders \cap here)
  BY <1>1, <1>3, HoldersFinite, FS_Difference
<1>5. count \in Nat /\ orphans \in Nat /\ doubles \in Nat /\ Limit * wipes \in Nat
  BY LimitAssumption DEF TypeOK
<1>6. QED
  BY <1>2, <1>4, <1>5, HoldersFinite DEF Bounds, SlotInv, NoPhantomSlots

(* A wipe forgets at most Limit holders, and counts.                       *)
LEMMA WipedHolders ==
  ASSUME TypeOK, Bounds, Holders' = Holders, Wipe, doubles' = doubles
  PROVE  Bounds'
<1>1. NoPhantomSlots'
  BY HoldersFinite DEF Wipe, NoPhantomSlots
<1>2. CASE count = 0
  BY <1>1, <1>2 DEF Wipe, Bounds, SlotInv
<1>3. CASE count # 0
  <2>1. count' = 0 /\ wipes' = wipes + 1 /\ count \in 0..Limit /\ wipes \in Nat
    BY <1>3 DEF TypeOK, Wipe
  <2>2. Limit * wipes' = Limit * wipes + Limit
    BY <2>1, LimitAssumption
  <2>3. Limit * wipes \in Nat /\ doubles \in Nat
    BY <2>1, LimitAssumption DEF TypeOK
  <2>4. SlotInv'
    BY <2>1, <2>2, <2>3, HoldersFinite, LimitAssumption DEF Bounds, SlotInv
  <2>5. QED
    BY <1>1, <2>4 DEF Bounds
<1>4. QED
  BY <1>2, <1>3

-----------------------------------------------------------------------------
(* The counter stays within the limit, and stages and calls as they are.   *)
LEMMA NextType ==
  ASSUME TypeOK, [Next]_vars PROVE TypeOK'
<1> USE LimitAssumption DEF TypeOK, Stage, CallState, Enter, Call, HangUp, Wipe, OverLimit,
           Take, strays
<1>1. ASSUME NEW c \in Conns, NEW w \in Workers, Connect(c, w) PROVE TypeOK'
  BY <1>1 DEF Connect
<1>2. ASSUME NEW c \in Conns, AuthFails(c) PROVE TypeOK'
  BY <1>2 DEF AuthFails
<1>3. ASSUME NEW c \in Conns, AuthFrame(c) PROVE TypeOK'
  BY <1>3 DEF AuthFrame
<1>4. ASSUME NEW c \in Conns, SessionActive(c) PROVE TypeOK'
  BY <1>4 DEF SessionActive
<1>5. ASSUME NEW c \in Conns, SessionRefused(c) PROVE TypeOK'
  BY <1>5 DEF SessionRefused
<1>6. ASSUME NEW c \in Conns, Register(c) PROVE TypeOK'
  BY <1>6 DEF Register
<1>7. ASSUME NEW c \in Conns, TurnAway(c) PROVE TypeOK'
  BY <1>7 DEF TurnAway
<1>8. ASSUME NEW c \in Conns, PeerCloses(c) PROVE TypeOK'
  <2>1. CASE stage[c] = "live"
    BY <1>8, <2>1 DEF PeerCloses
  <2>2. CASE stage[c] = "auth"
    BY <1>8, <2>2 DEF PeerCloses
  <2>3. CASE stage[c] \notin {"live", "auth"}
    BY <1>8, <2>3 DEF PeerCloses
  <2>4. QED
    BY <2>1, <2>2, <2>3
<1>9. ASSUME NEW c \in Conns, RunReserve(c) PROVE TypeOK'
  BY <1>9 DEF RunReserve
<1>10. ASSUME NEW c \in Conns, RunRelease(c) PROVE TypeOK'
  <2>1. count' \in 0..Limit /\ doubles' \in Nat
    BY <1>10 DEF RunRelease
  <2>2. QED
    BY <1>10, <2>1 DEF RunRelease
<1>11. ASSUME NEW c \in Conns, LoseReply(c) PROVE TypeOK'
  BY <1>11 DEF LoseReply
<1>12. ASSUME NEW c \in Conns, RejectReserve(c) PROVE TypeOK'
  BY <1>12 DEF RejectReserve
<1>13. ASSUME NEW c \in Conns, RejectRelease(c) PROVE TypeOK'
  BY <1>13 DEF RejectRelease
<1>14. CASE Expire
  BY <1>14 DEF Expire
<1>15. ASSUME NEW w \in Workers, FlushScan(w) PROVE TypeOK'
  BY <1>15 DEF FlushScan
<1>16. ASSUME NEW w \in Workers, FlushDelete(w) PROVE TypeOK'
  BY <1>16 DEF FlushDelete
<1>17. ASSUME NEW w \in Workers, FlushFails(w) PROVE TypeOK'
  BY <1>17 DEF FlushFails
<1>18. ASSUME NEW w \in Workers, Crash(w) PROVE TypeOK'
  <2> DEFINE here == {c \in Conns : host[c] = w}
  <2>1. Cardinality(Holders \cap here) \in Nat
    BY HoldersFinite, FS_Subset, FS_CardinalityType
  <2>2. orphans' \in Nat
    BY <1>18, <2>1 DEF Crash
  <2>3. QED
    BY <1>18, <2>2 DEF Crash
<1>19. CASE UNCHANGED vars
  BY <1>19 DEF vars
<1>20. ASSUME NEW c \in Conns, ReleaseReturns(c) PROVE TypeOK'
  BY <1>20 DEF ReleaseReturns
<1>21. QED
  BY <1>1, <1>2, <1>3, <1>4, <1>5, <1>6, <1>7, <1>8, <1>9, <1>10, <1>11, <1>12, <1>13,
     <1>14, <1>15, <1>16, <1>17, <1>18, <1>19, <1>20
     DEF Next, Handshake, Redis, Start

(* A call belongs to the stage its handler waits in: a handshake leaves    *)
(* "reserve" only with its answer, and releases only when it is gone.      *)
LEMMA NextCall ==
  ASSUME TypeOK, CallInv, [Next]_vars PROVE CallInv'
<1> USE DEF TypeOK, CallInv, Enter, Call, HangUp
<1>1. ASSUME NEW c \in Conns, NEW w \in Workers, Connect(c, w) PROVE CallInv'
  BY <1>1 DEF Connect
<1>2. ASSUME NEW c \in Conns, AuthFails(c) PROVE CallInv'
  BY <1>2 DEF AuthFails
<1>3. ASSUME NEW c \in Conns, AuthFrame(c) PROVE CallInv'
  BY <1>3 DEF AuthFrame
<1>4. ASSUME NEW c \in Conns, SessionActive(c) PROVE CallInv'
  BY <1>4 DEF SessionActive
<1>5. ASSUME NEW c \in Conns, SessionRefused(c) PROVE CallInv'
  BY <1>5 DEF SessionRefused
<1>6. ASSUME NEW c \in Conns, Register(c) PROVE CallInv'
  BY <1>6 DEF Register
<1>7. ASSUME NEW c \in Conns, TurnAway(c) PROVE CallInv'
  BY <1>7 DEF TurnAway
<1>8. ASSUME NEW c \in Conns, PeerCloses(c) PROVE CallInv'
  <2>1. CASE stage[c] = "live"
    BY <1>8, <2>1 DEF PeerCloses
  <2>2. CASE stage[c] = "auth"
    BY <1>8, <2>2 DEF PeerCloses
  <2>3. CASE stage[c] \notin {"live", "auth"}
    BY <1>8, <2>3 DEF PeerCloses
  <2>4. QED
    BY <2>1, <2>2, <2>3
<1>9. ASSUME NEW c \in Conns, RunReserve(c) PROVE CallInv'
  BY <1>9 DEF RunReserve
<1>10. ASSUME NEW c \in Conns, RunRelease(c) PROVE CallInv'
  BY <1>10 DEF RunRelease
<1>11. ASSUME NEW c \in Conns, LoseReply(c) PROVE CallInv'
  BY <1>11 DEF LoseReply
<1>12. ASSUME NEW c \in Conns, RejectReserve(c) PROVE CallInv'
  BY <1>12 DEF RejectReserve
<1>13. ASSUME NEW c \in Conns, RejectRelease(c) PROVE CallInv'
  BY <1>13 DEF RejectRelease
<1>14. CASE Expire
  BY <1>14 DEF Expire
<1>15. ASSUME NEW w \in Workers, FlushScan(w) PROVE CallInv'
  BY <1>15 DEF FlushScan
<1>16. ASSUME NEW w \in Workers, FlushDelete(w) PROVE CallInv'
  BY <1>16 DEF FlushDelete
<1>17. ASSUME NEW w \in Workers, FlushFails(w) PROVE CallInv'
  BY <1>17 DEF FlushFails
<1>18. ASSUME NEW w \in Workers, Crash(w) PROVE CallInv'
  BY <1>18 DEF Crash
<1>19. CASE UNCHANGED vars
  BY <1>19 DEF vars
<1>20. ASSUME NEW c \in Conns, ReleaseReturns(c) PROVE CallInv'
  BY <1>20 DEF ReleaseReturns
<1>21. QED
  BY <1>1, <1>2, <1>3, <1>4, <1>5, <1>6, <1>7, <1>8, <1>9, <1>10, <1>11, <1>12, <1>13,
     <1>14, <1>15, <1>16, <1>17, <1>18, <1>19, <1>20
     DEF Next, Handshake, Redis, Start

(* Only a lost reply, a failed release or a crash is a fault: no other step*)
(* makes a release run again.                                              *)
LEMMA NextFault ==
  ASSUME TypeOK, FaultInv, [Next]_vars PROVE FaultInv'
<1>1. CASE UNCHANGED vars
  BY <1>1 DEF vars, strays, FaultInv
<1>2. CASE faults' = faults /\ faults = 0 /\ Next
  <2>1. doubles = 0 /\ orphans = 0 /\ \A c \in Conns : call[c] # "again"
    BY <1>2 DEF FaultInv
  <2>2. doubles' = 0 /\ orphans' = 0
    BY <1>2, <2>1 DEF Next, Handshake, Redis, Start, Connect, AuthFails, AuthFrame,
       SessionActive, SessionRefused, Register, TurnAway, PeerCloses, RunReserve,
       RunRelease, ReleaseReturns, LoseReply, RejectReserve, RejectRelease, Expire,
       FlushScan, FlushDelete, FlushFails, Crash, Wipe, strays
  <2>3. ASSUME NEW d \in Conns PROVE call'[d] # "again"
    BY <1>2, <2>1 DEF TypeOK, Next, Handshake, Redis, Start, Connect, AuthFails,
       AuthFrame, SessionActive, SessionRefused, Register, TurnAway, PeerCloses,
       RunReserve, RunRelease, ReleaseReturns, LoseReply, RejectReserve,
       RejectRelease, Expire, FlushScan, FlushDelete, FlushFails, Crash, Call
  <2>4. QED
    BY <2>2, <2>3 DEF FaultInv
<1>3. CASE faults' # 0
  BY <1>3 DEF FaultInv
<1>4. faults' = faults \/ faults' = faults + 1
  BY DEF Next, Handshake, Redis, Start, Connect, AuthFails, AuthFrame,
     SessionActive, SessionRefused, Register, TurnAway, PeerCloses, RunReserve,
     RunRelease, ReleaseReturns, LoseReply, RejectReserve, RejectRelease, Expire,
     FlushScan, FlushDelete, FlushFails, Crash, vars
<1>5. QED
  BY <1>1, <1>2, <1>3, <1>4 DEF TypeOK

(* A granted reservation adds its connection to the holders and one to the *)
(* counter; a denied one does neither.                                     *)
LEMMA ReserveSlots ==
  ASSUME Inv, NEW c \in Conns, RunReserve(c) PROVE Bounds'
<1>1. /\ call[c] = "reserve" /\ stage[c] = "reserve" /\ c \notin Holders
      /\ UNCHANGED <<stage, wipes, doubles, orphans>>
      /\ count \in Nat /\ Limit * wipes \in Nat /\ doubles \in Nat /\ orphans \in Nat
  BY LimitAssumption DEF Inv, CallInv, TypeOK, RunReserve, Holders, strays
<1>2. CASE OverLimit(count)
  <2>1. count' = count /\ call' = [call EXCEPT ![c] = "denied"]
    BY <1>2 DEF RunReserve, Call
  <2>2. Holders' = Holders
    BY <1>1, <2>1 DEF Holders, Inv, TypeOK
  <2>3. QED
    BY <1>1, <2>1, <2>2 DEF Inv, Bounds, SlotInv, NoPhantomSlots
<1>3. CASE ~OverLimit(count)
  <2>1. count' = count + 1 /\ call' = [call EXCEPT ![c] = "granted"]
    BY <1>3 DEF RunReserve, Call
  <2>2. Holders' = Holders \cup {c}
    BY <1>1, <2>1 DEF Holders, Inv, TypeOK
  <2>3. Cardinality(Holders') = Cardinality(Holders) + 1
    BY <1>1, <2>2, HoldersFinite, FS_AddElement
  <2>4. QED
    BY <1>1, <2>1, <2>3, HoldersFinite DEF Inv, Bounds, SlotInv, NoPhantomSlots
<1>4. QED
  BY <1>2, <1>3

(* A release takes its connection from the holders and one from the        *)
(* counter, unless a wipe has left nothing to take; running again, it takes*)
(* one from the counter only.                                              *)
LEMMA ReleaseSlots ==
  ASSUME Inv, NEW c \in Conns, RunRelease(c) PROVE Bounds'
<1>1. /\ stage[c] = "gone"
      /\ call' = [call EXCEPT ![c] = "released"]
      /\ count' = IF count > 0 THEN count - 1 ELSE 0
      /\ UNCHANGED <<stage, wipes, orphans>>
      /\ count \in Nat /\ Limit * wipes \in Nat /\ doubles \in Nat /\ orphans \in Nat
  BY LimitAssumption DEF Inv, CallInv, TypeOK, RunRelease, Call, Take
<1>2. CASE call[c] = "release"
  <2>1. c \in Holders /\ doubles' = doubles
    BY <1>2 DEF Holders, RunRelease
  <2>2. Holders' = Holders \ {c}
    BY <1>1, <1>2 DEF Holders, Inv, TypeOK
  <2>3. Cardinality(Holders') = Cardinality(Holders) - 1
    BY <2>1, <2>2, HoldersFinite, FS_RemoveElement
  <2>4. Cardinality(Holders') \in Nat
    BY <2>2, HoldersFinite, FS_RemoveElement, FS_CardinalityType
  <2>5. QED
    BY <1>1, <2>1, <2>3, <2>4, HoldersFinite DEF Inv, Bounds, SlotInv, NoPhantomSlots
<1>3. CASE call[c] = "again"
  <2>1. doubles' = IF count > 0 THEN doubles + 1 ELSE doubles
    BY <1>3 DEF RunRelease
  <2>2. Holders' = Holders
    BY <1>1, <1>3 DEF Holders, Inv, TypeOK
  <2>3. QED
    BY <1>1, <2>1, <2>2, HoldersFinite DEF Inv, Bounds, SlotInv, NoPhantomSlots
<1>4. QED
  BY <1>2, <1>3 DEF RunRelease

(* Between the two, a slot only changes the way it is held: granted,       *)
(* registered, being released.                                             *)
LEMMA NextSlots ==
  ASSUME Inv, [Next]_vars PROVE Bounds'
<1> DEFINE Goal == Bounds'
<1> USE DEF Inv
<1>0. ASSUME Holders' = Holders, UNCHANGED <<count, wipes, strays>> PROVE Goal
  BY <1>0, SameHolders DEF Goal
<1> HIDE DEF Goal
<1>1. ASSUME NEW c \in Conns, NEW w \in Workers, Connect(c, w) PROVE Goal
  BY <1>0, <1>1 DEF Connect, Enter, Holders, TypeOK
<1>2. ASSUME NEW c \in Conns, AuthFails(c) PROVE Goal
  BY <1>0, <1>2 DEF AuthFails, HangUp, Enter, Holders, TypeOK
<1>3. ASSUME NEW c \in Conns, AuthFrame(c) PROVE Goal
  BY <1>0, <1>3 DEF AuthFrame, Enter, Holders, TypeOK
<1>4. ASSUME NEW c \in Conns, SessionActive(c) PROVE Goal
  BY <1>0, <1>4 DEF SessionActive, Enter, Call, CallInv, Holders, TypeOK
<1>5. ASSUME NEW c \in Conns, SessionRefused(c) PROVE Goal
  BY <1>0, <1>5 DEF SessionRefused, HangUp, Enter, Holders, TypeOK
<1>6. ASSUME NEW c \in Conns, Register(c) PROVE Goal
  BY <1>0, <1>6 DEF Register, Enter, Call, Holders, TypeOK
<1>7. ASSUME NEW c \in Conns, TurnAway(c) PROVE Goal
  BY <1>0, <1>7 DEF TurnAway, HangUp, Enter, Call, Holders, TypeOK
<1>8. ASSUME NEW c \in Conns, PeerCloses(c) PROVE Goal
  <2>1. CASE stage[c] = "live"
    BY <1>0, <1>8, <2>1 DEF PeerCloses, Enter, Call, Holders, TypeOK
  <2>2. CASE stage[c] = "auth"
    BY <1>0, <1>8, <2>2 DEF PeerCloses, Enter, Holders, TypeOK
  <2>3. CASE stage[c] \notin {"live", "auth"}
    BY <1>0, <1>8, <2>3 DEF PeerCloses, Holders
  <2>4. QED
    BY <2>1, <2>2, <2>3
<1>9. ASSUME NEW c \in Conns, RunReserve(c) PROVE Goal
  BY <1>9, ReserveSlots DEF Goal
<1>10. ASSUME NEW c \in Conns, RunRelease(c) PROVE Goal
  BY <1>10, ReleaseSlots DEF Goal
<1>11. ASSUME NEW c \in Conns, LoseReply(c) PROVE Goal
  <2>1. /\ UNCHANGED <<count, wipes, doubles>>
        /\ orphans' = IF c \in Holders THEN orphans + 1 ELSE orphans
    BY <1>11 DEF LoseReply
  <2>2. Holders' = Holders \ {c}
    BY <1>11 DEF LoseReply, Call, CallInv, Holders, TypeOK
  <2>3. QED
    BY <2>1, <2>2, LostHolder DEF Goal
<1>12. ASSUME NEW c \in Conns, RejectReserve(c) PROVE Goal
  BY <1>0, <1>12 DEF RejectReserve, Call, Holders, TypeOK
<1>13. ASSUME NEW c \in Conns, RejectRelease(c) PROVE Goal
  <2>1. /\ UNCHANGED <<count, wipes, doubles>>
        /\ orphans' = IF c \in Holders THEN orphans + 1 ELSE orphans
    BY <1>13 DEF RejectRelease
  <2>2. Holders' = Holders \ {c}
    BY <1>13 DEF RejectRelease, Call, CallInv, Holders, TypeOK
  <2>3. QED
    BY <2>1, <2>2, LostHolder DEF Goal
<1>14. ASSUME Expire PROVE Goal
  <2>1. Holders' = Holders /\ Wipe /\ doubles' = doubles
    BY <1>14 DEF Expire, Holders
  <2>2. QED
    BY <2>1, WipedHolders DEF Goal
<1>15. ASSUME NEW w \in Workers, FlushScan(w) PROVE Goal
  BY <1>0, <1>15 DEF FlushScan, Holders
<1>16. ASSUME NEW w \in Workers, FlushDelete(w) PROVE Goal
  <2>1. Holders' = Holders /\ Wipe /\ doubles' = doubles
    BY <1>16 DEF FlushDelete, Holders
  <2>2. QED
    BY <2>1, WipedHolders DEF Goal
<1>17. ASSUME NEW w \in Workers, FlushFails(w) PROVE Goal
  BY <1>0, <1>17 DEF FlushFails, Holders
<1>18. ASSUME NEW w \in Workers, Crash(w) PROVE Goal
  <2> DEFINE here == {c \in Conns : host[c] = w}
  <2>1. /\ UNCHANGED <<count, wipes, doubles>>
        /\ orphans' = orphans + Cardinality(Holders \cap here)
    BY <1>18 DEF Crash
  <2>2. Holders' = Holders \ here
    BY <1>18 DEF Crash, Holders, TypeOK
  <2>3. here \in SUBSET Conns
    OBVIOUS
  <2> HIDE DEF here
  <2>4. QED
    BY <2>1, <2>2, <2>3, DeadHolders DEF Goal
<1>19. ASSUME UNCHANGED vars PROVE Goal
  BY <1>0, <1>19 DEF vars, Holders
<1>20. ASSUME NEW c \in Conns, ReleaseReturns(c) PROVE Goal
  BY <1>0, <1>20 DEF ReleaseReturns, Call, Holders, TypeOK
<1>21. Goal
  BY <1>1, <1>2, <1>3, <1>4, <1>5, <1>6, <1>7, <1>8, <1>9, <1>10, <1>11, <1>12, <1>13,
     <1>14, <1>15, <1>16, <1>17, <1>18, <1>19, <1>20
     DEF Next, Handshake, Redis, Start
<1>22. QED
  BY <1>21 DEF Goal

-----------------------------------------------------------------------------
(* The inductive invariant holds in every reachable state.                 *)
THEOREM Invariance == Spec => []Inv
<1>1. Inv /\ [Next]_vars => Inv'
  BY NextType, NextCall, NextSlots, NextFault DEF Inv
<1>2. QED
  BY <1>1, InitInv, PTL DEF Spec

(* The counter never passes the limit, and stages and calls keep to theirs.*)
THEOREM SlotTypesCorrect == Spec => []TypeOK
<1>1. Inv => TypeOK
  BY DEF Inv
<1>2. QED
  BY <1>1, Invariance, PTL

(* Without faults and wipes the counter is the number of connections that  *)
(* hold a slot, in every interleaving of handshakes and closing sockets.   *)
THEOREM CountStaysExact == Spec => []CountIsHolders
<1>1. ASSUME Inv PROVE CountIsHolders
  <2>1. ASSUME faults = 0, wipes = 0 PROVE count = Cardinality(Holders)
    <3>1. doubles = 0 /\ orphans = 0 /\ Limit * wipes = 0
      BY <1>1, <2>1, LimitAssumption DEF Inv, FaultInv
    <3>2. QED
      BY <1>1, <3>1, HoldersFinite DEF Inv, TypeOK, Bounds, SlotInv, NoPhantomSlots
  <2>2. QED
    BY <2>1 DEF CountIsHolders
<1>2. QED
  BY <1>1, Invariance, PTL

(* Whatever the faults, the counter counts no slot but those connections   *)
(* hold and those a fault left taken since the last wipe.                  *)
THEOREM PhantomsBounded == Spec => []NoPhantomSlots
<1>1. Inv => NoPhantomSlots
  BY DEF Inv, Bounds
<1>2. QED
  BY <1>1, Invariance, PTL

(* At most Limit sockets are served at once, Limit more for each time the  *)
(* counter was wiped and one more for each release that ran twice.         *)
THEOREM CapAlwaysHolds == Spec => []CapHolds
<1>1. ASSUME Inv PROVE CapHolds
  <2>1. Live \subseteq Holders
    BY DEF Live, Holders
  <2>2. Cardinality(Live) <= Cardinality(Holders) /\ Cardinality(Live) \in Nat
    BY <2>1, HoldersFinite, FS_Subset, FS_CardinalityType
  <2>3. count <= Limit /\ count \in Nat /\ wipes \in Nat /\ doubles \in Nat
    BY <1>1, LimitAssumption DEF Inv, TypeOK
  <2>4. Limit * (1 + wipes) = Limit + Limit * wipes /\ Limit * wipes \in Nat
    BY <2>3, LimitAssumption
  <2>5. QED
    BY <1>1, <2>2, <2>3, <2>4, HoldersFinite, LimitAssumption
       DEF Inv, Bounds, SlotInv, CapHolds
<1>2. QED
  BY <1>1, Invariance, PTL
=============================================================================
