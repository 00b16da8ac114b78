-------------------------- MODULE SeedRotationProofs --------------------------
(***************************************************************************)
(* Proofs about SeedRotation, for any sign-ins, rotations, bets, currencies*)
(* and number of failures.                                                 *)
(***************************************************************************)
EXTENDS SeedRotation, TLAPS

-----------------------------------------------------------------------------
(* The inductive invariant.                                                *)

(* From UpdateSeed to its answer a rotation carries a replaced seed.       *)
Late(r) == rotation[r].stage \in {"reveal", "commit", "swap", "reset", "respond"}

(* The seed of a rotation that has not updated the row is known to nobody. *)
Unused(r) ==
  /\ r # serverSeed /\ r # user.active
  /\ r \notin told /\ r \notin audit.revealed
  /\ \A l \in Logins : login[l].seed # r
  /\ \A q \in Rotations : rotation[q].seed # r
  /\ \A b \in Bets : bet[b].seed # r
FreshInv == \A r \in Rotations : rotation[r].stage \in {"idle", "update"} => Unused(r)

(* Without the player's row there is no session, and no rotation began.    *)
StartInv ==
  user.active = NoSeed =>
    /\ told = {} /\ audit.revealed = {} /\ audit.committed = {} /\ ~session
    /\ \A l \in Logins : login[l].stage \notin {"restore", "session"}
    /\ \A r \in Rotations : rotation[r].stage \in {"idle", "over"}

(* What was revealed, or is about to be, is not the active seed.           *)
SecretInv ==
  /\ user.active \notin told /\ user.active \notin audit.revealed
  /\ \A r \in Rotations : Late(r) => rotation[r].seed # user.active

(* A seed in Redis that the player was told, or is about to be, was set    *)
(* there outdated, or its replacement failed.                              *)
RetiredInv ==
  /\ serverSeed \in told => serverSeed \in outdated \cup unreplaced
  /\ \A r \in Rotations :
       rotation[r].stage \in {"reset", "respond"} /\ rotation[r].seed = serverSeed
         => serverSeed \in outdated \cup unreplaced
  /\ ToldSeedsAreRetired

(* A seed is committed to, or its rotation is about to, or was cut off.    *)
Covered(s) ==
  \/ s \in audit.committed \cup torn
  \/ s \in Rotations /\ rotation[s].stage \in {"reveal", "commit"}
CoveredInv ==
  /\ user.active # NoSeed => Covered(user.active)
  /\ serverSeed # NoSeed => Covered(serverSeed)
  /\ \A l \in Logins : /\ login[l].stage = "create" => login[l].seed = l
                       /\ login[l].stage = "restore" => Covered(login[l].seed)
  /\ \A r \in Rotations : rotation[r].stage \in {"swap", "reset", "respond"}
                            => r \in audit.committed
  /\ \A b \in Bets : Rolled(b) => Covered(bet[b].seed)

(* Whoever has a session has a seed in Redis.                              *)
SessionInv ==
  /\ session => serverSeed # NoSeed
  /\ \A l \in Logins : login[l].stage = "session" => serverSeed # NoSeed
  /\ \A b \in Bets : bet[b].stage # "idle" => session

(* The open commitments, counting a replaced seed's as closed and a new    *)
(* one's as made from the update of the row on, are that of the active one.*)
Announced == audit.committed \cup
             {r \in Rotations : rotation[r].stage \in {"reveal", "commit"}}
Closed(s) == \/ s \in audit.revealed
             \/ \E r \in Rotations : rotation[r].stage = "reveal" /\ rotation[r].seed = s
AuditInv ==
  user.active # NoSeed /\ torn = {} /\ ~clash =>
    /\ user.active \in Announced /\ ~Closed(user.active)
    /\ \A s \in Announced : s # user.active => Closed(s)

(* Bets that no rotation overlaps: those that have a nonce, those rolled.  *)
Waiting(b) == bet[b].stage = "seed" /\ ~bet[b].during
Current(b) == Rolled(b) /\ ~bet[b].during

(* Such a bet has a nonce only while no rotation is under way, and rolled  *)
(* with another seed than a rotation makes: so that the seed in Redis, when*)
(* the nonces are reset, is not its seed, or is outdated.                  *)
RollInv ==
  /\ \A b \in Bets, r \in Rotations : Waiting(b) => ~InProgress(rotation[r].stage)
  /\ \A a \in Bets, r \in Rotations : Current(a) /\ InProgress(rotation[r].stage)
       => bet[a].seed # r
  /\ \A a \in Bets, r \in Rotations : Current(a) /\ Late(r) => bet[a].seed # user.active
  /\ \A a \in Bets, r \in Rotations :
       Current(a) /\ rotation[r].stage = "reset" /\ bet[a].seed = serverSeed
         => bet[a].seed \in outdated

(* While its seed may come to be used, a nonce is not drawn again.         *)
InUse(a) == Current(a) /\ bet[a].seed \in {serverSeed, user.active} \ outdated
NonceInv ==
  /\ \A a \in Bets : Waiting(a) \/ InUse(a) => bet[a].nonce <= nonce[bet[a].currency]
  /\ \A a, b \in Bets : a # b /\ Waiting(b) /\ (Waiting(a) \/ InUse(a))
       => bet[a].currency # bet[b].currency \/ bet[a].nonce # bet[b].nonce
  /\ RollsDiffer

Inv == /\ TypeOK /\ FreshInv /\ StartInv /\ SecretInv /\ RetiredInv
       /\ SessionInv /\ CoveredInv /\ AuditInv /\ RollInv /\ NonceInv

-----------------------------------------------------------------------------
(* Nothing exists and nothing is under way: the invariant holds at first.  *)
LEMMA InitInv == Init => Inv
<1> SUFFICES ASSUME Init PROVE Inv
  OBVIOUS
<1>1. TypeOK
  <2>1. (CHOOSE c \in Currencies : TRUE) \in Currencies
    BY CurrenciesAssumption
  <2>2. bet \in [Bets -> [stage : BetStage, currency : Currencies, nonce : Nat,
                         seed : Seeds \cup {NoSeed}, during : BOOLEAN, knew : BOOLEAN]]
    BY <2>1 DEF Init, BetStage
  <2>3. rotation \in [Rotations -> [stage : RotationStage, seed : Seeds \cup {NoSeed},
                                   left : SUBSET Currencies]]
    BY DEF Init, RotationStage
  <2>4. login \in [Logins -> [stage : LoginStage, seed : Seeds \cup {NoSeed}]]
    BY DEF Init, LoginStage
  <2>5. /\ \A l \in Logins : ~InProgress(login[l].stage)
        /\ \A r \in Rotations : ~InProgress(rotation[r].stage)
    BY DEF Init, InProgress
  <2>6. /\ user \in [active : Seeds \cup {NoSeed}, previous : Seeds \cup {NoSeed}]
        /\ audit \in [committed : SUBSET Seeds, revealed : SUBSET Seeds]
    BY DEF Init
  <2>7. /\ nonce \in [Currencies -> Nat] /\ faults \in 0..MaxFaults
    BY BoundsAssumption DEF Init
  <2>8. /\ serverSeed = NoSeed /\ session \in BOOLEAN /\ clash \in BOOLEAN
        /\ told = {} /\ outdated = {} /\ unreplaced = {} /\ torn = {}
    BY DEF Init
  <2>9. QED
    BY <2>2, <2>3, <2>4, <2>5, <2>6, <2>7, <2>8 DEF TypeOK
<1>2. FreshInv /\ StartInv /\ SecretInv
  BY ProcessesAssumption DEF Init, FreshInv, Unused, StartInv, SecretInv, Late
<1>3. RetiredInv /\ SessionInv /\ CoveredInv
  BY DEF Init, RetiredInv, ToldSeedsAreRetired, SessionInv, CoveredInv, Rolled
<1>4. AuditInv
  BY DEF Init, AuditInv
<1>5. RollInv /\ NonceInv
  BY DEF Init, RollInv, NonceInv, Waiting, Current, InUse, Rolled, RollsDiffer
<1>6. QED
  BY <1>1, <1>2, <1>3, <1>4, <1>5 DEF Inv

(* The records of rotations and bets.                                      *)
RotationSet == [stage : RotationStage, seed : Seeds \cup {NoSeed},
                left : SUBSET Currencies]
BetSet == [stage : BetStage, currency : Currencies, nonce : Nat,
           seed : Seeds \cup {NoSeed}, during : BOOLEAN, knew : BOOLEAN]

(* Reading the seed marks the bets that wait for theirs, and nothing else. *)
LEMMA ReadSeedBets ==
  ASSUME TypeOK, NEW r \in Rotations, ReadSeed(r)
  PROVE  /\ bet' \in [Bets -> BetSet]
         /\ \A b \in Bets : /\ bet'[b].stage = bet[b].stage /\ bet'[b].seed = bet[b].seed
                            /\ bet'[b].knew = bet[b].knew
                            /\ bet'[b].nonce = bet[b].nonce
                            /\ bet'[b].currency = bet[b].currency
                            /\ bet'[b].during = (bet[b].during \/ bet[b].stage = "seed")
<1>1. bet' = [b \in Bets |-> [bet[b] EXCEPT !.during = @ \/ bet[b].stage = "seed"]]
  BY DEF ReadSeed
<1>2. ASSUME NEW b \in Bets
      PROVE  /\ bet'[b] \in BetSet
             /\ bet'[b].stage = bet[b].stage /\ bet'[b].seed = bet[b].seed
             /\ bet'[b].knew = bet[b].knew /\ bet'[b].nonce = bet[b].nonce
             /\ bet'[b].currency = bet[b].currency
             /\ bet'[b].during = (bet[b].during \/ bet[b].stage = "seed")
  <2>1. bet[b] \in BetSet
    BY DEF TypeOK, BetSet
  <2>2. bet'[b] = [bet[b] EXCEPT !.during = bet[b].during \/ bet[b].stage = "seed"]
    BY <1>1
  <2>3. (bet[b].during \/ bet[b].stage = "seed") \in BOOLEAN
    BY <2>1 DEF BetSet
  <2>4. QED
    BY <2>1, <2>2, <2>3 DEF BetSet
<1>3. QED
  BY <1>1, <1>2

(* Reading the seed changes one rotation, and gives it the seed of Redis.  *)
LEMMA ReadSeedRotation ==
  ASSUME TypeOK, NEW r \in Rotations, ReadSeed(r)
  PROVE  /\ rotation' \in [Rotations -> RotationSet]
         /\ rotation'[r].stage = "update" /\ rotation'[r].seed = serverSeed
         /\ serverSeed \in Seeds
         /\ \A q \in Rotations \ {r} : rotation'[q] = rotation[q]
<1>1. rotation \in [Rotations -> RotationSet] /\ serverSeed \in Seeds
  BY DEF TypeOK, RotationSet, ReadSeed
<1>2. rotation' = [rotation EXCEPT ![r] = [rotation[r] EXCEPT !.stage = "update",
                                                              !.seed = serverSeed]]
  BY <1>1 DEF ReadSeed, RotationSet
<1>3. [rotation[r] EXCEPT !.stage = "update", !.seed = serverSeed] \in RotationSet
  BY <1>1 DEF RotationSet, RotationStage
<1>4. QED
  BY <1>1, <1>2, <1>3 DEF RotationSet

(* The swap changes one rotation's stage and its keys, not its seed.       *)
LEMMA SwapSeedRotation ==
  ASSUME TypeOK, NEW r \in Rotations, SwapSeed(r)
  PROVE  /\ rotation' \in [Rotations -> RotationSet]
         /\ rotation[r].stage = "swap" /\ rotation'[r].stage = "reset"
         /\ rotation'[r].seed = rotation[r].seed
         /\ \A q \in Rotations \ {r} : rotation'[q] = rotation[q]
         /\ rotation[r].seed \in Seeds
<1>0. rotation[r].stage = "swap"
  BY DEF SwapSeed, RotationAt
<1>1. rotation \in [Rotations -> RotationSet]
  BY DEF TypeOK, RotationSet
<1>2. rotation' = [rotation EXCEPT ![r] = [rotation[r] EXCEPT !.stage = "reset",
                                                              !.left = Currencies]]
  BY <1>1 DEF SwapSeed, RotationSet
<1>3. [rotation[r] EXCEPT !.stage = "reset", !.left = Currencies] \in RotationSet
  BY <1>1 DEF RotationSet, RotationStage
<1>4. rotation[r].seed \in Seeds
  <2>1. InProgress(rotation[r].stage)
    BY DEF SwapSeed, RotationAt, InProgress
  <2>2. QED
    BY <2>1 DEF TypeOK
<1>5. QED
  BY <1>0, <1>1, <1>2, <1>3, <1>4 DEF RotationSet

(* Nor does the reset of a nonce change the seed of a rotation.            *)
LEMMA ResetNonceRotation ==
  ASSUME TypeOK, NEW r \in Rotations, NEW c \in Currencies, ResetNonce(r, c)
  PROVE  /\ rotation' \in [Rotations -> RotationSet]
         /\ rotation'[r].seed = rotation[r].seed
         /\ \A q \in Rotations \ {r} : rotation'[q] = rotation[q]
         /\ rotation[r].seed \in Seeds
<1>1. rotation \in [Rotations -> RotationSet]
  BY DEF TypeOK, RotationSet
<1> DEFINE left == rotation[r].left \ {c}
<1> DEFINE stage == IF rotation[r].left = {c} THEN "respond" ELSE rotation[r].stage
<1>2. rotation' = [rotation EXCEPT ![r] = [rotation[r] EXCEPT !.left = left,
                                                              !.stage = stage]]
  BY <1>1 DEF ResetNonce, RotationSet
<1>3. [rotation[r] EXCEPT !.left = left, !.stage = stage] \in RotationSet
  BY <1>1 DEF RotationSet, RotationStage
<1>4. rotation[r].seed \in Seeds
  <2>1. InProgress(rotation[r].stage)
    BY DEF ResetNonce, RotationAt, InProgress
  <2>2. QED
    BY <2>1 DEF TypeOK
<1>5. QED
  BY <1>1, <1>2, <1>3, <1>4 DEF RotationSet

(* The row a sign-in creates has the sign-in's own fresh seed.             *)
LEMMA CreatesOwnSeed ==
  ASSUME CoveredInv, NEW l \in Logins, CreateUser(l)
  PROVE  login[l].seed = l
BY DEF CoveredInv, CreateUser, LoginAt

(* A bet that takes its nonce stays a bet, and the nonce a number.         *)
LEMMA TakeNonceBets ==
  ASSUME TypeOK, NEW b \in Bets, NEW c \in Currencies, TakeNonce(b, c)
  PROVE  bet' \in [Bets -> BetSet] /\ nonce' \in [Currencies -> Nat]
<1>1. nonce' \in [Currencies -> Nat] /\ nonce'[c] \in Nat
  BY DEF TakeNonce, TypeOK
<1>2. Rotating \in BOOLEAN
  BY DEF Rotating
<1>3. bet \in [Bets -> BetSet]
  BY DEF TypeOK, BetSet
<1>4. bet' = [bet EXCEPT ![b] = [bet[b] EXCEPT !.stage = "seed", !.currency = c,
                                   !.nonce = nonce'[c], !.during = Rotating]]
  BY <1>3 DEF TakeNonce, BetSet
<1>5. [bet[b] EXCEPT !.stage = "seed", !.currency = c, !.nonce = nonce'[c],
                     !.during = Rotating] \in BetSet
  BY <1>1, <1>2, <1>3 DEF BetSet, BetStage
<1>6. QED
  BY <1>1, <1>3, <1>4, <1>5

(* A bet that rolls stays a bet.                                           *)
LEMMA RollBets ==
  ASSUME TypeOK, NEW b \in Bets, Roll(b)
  PROVE  bet' \in [Bets -> BetSet]
<1>1. bet \in [Bets -> BetSet] /\ serverSeed \in Seeds \cup {NoSeed}
  BY DEF TypeOK, BetSet
<1>2. (serverSeed \in told) \in BOOLEAN
  OBVIOUS
<1>3. bet' = [bet EXCEPT ![b] = [bet[b] EXCEPT !.stage = "rolled", !.seed = serverSeed,
                                   !.knew = serverSeed \in told]]
  BY <1>1 DEF Roll, BetSet
<1>4. [bet[b] EXCEPT !.stage = "rolled", !.seed = serverSeed,
                     !.knew = serverSeed \in told] \in BetSet
  BY <1>1, <1>2 DEF BetSet, BetStage
<1>5. QED
  BY <1>1, <1>3, <1>4

(* Rows, keys and handlers keep their shapes.                              *)
LEMMA NextType ==
  ASSUME TypeOK, [Next]_vars PROVE TypeOK'
<1> USE ProcessesAssumption, CurrenciesAssumption, BoundsAssumption DEF TypeOK,
      InProgress, LoginStage, RotationStage, BetStage, Seeds, Goto, SetSeed,
      Fault, LoginAt, RotationAt, keys, history, vars
<1>1. ASSUME NEW l \in Logins, FindUser(l) PROVE TypeOK'
  BY <1>1 DEF FindUser
<1>2. ASSUME NEW l \in Logins, CreateUser(l) PROVE TypeOK'
  <2>1. user' \in [active : Seeds \cup {NoSeed}, previous : Seeds \cup {NoSeed}]
    BY <1>2 DEF CreateUser
  <2>2. audit' \in [committed : SUBSET Seeds, revealed : SUBSET Seeds]
    BY <1>2 DEF CreateUser
  <2>3. /\ login' \in [Logins -> [stage : LoginStage, seed : Seeds \cup {NoSeed}]]
        /\ \A k \in Logins : InProgress(login'[k].stage) => login'[k].seed \in Seeds
    BY <1>2 DEF CreateUser
  <2>4. QED
    BY <1>2, <2>1, <2>2, <2>3 DEF CreateUser
<1>3. ASSUME NEW l \in Logins, CreateRefused(l) PROVE TypeOK'
  BY <1>3 DEF CreateRefused
<1>4. ASSUME NEW l \in Logins, RestoreSeed(l) PROVE TypeOK'
  BY <1>4 DEF RestoreSeed
<1>5. ASSUME NEW l \in Logins, SetSession(l) PROVE TypeOK'
  BY <1>5 DEF SetSession
<1>6. ASSUME NEW l \in Logins, LoginFails(l) PROVE TypeOK'
  BY <1>6 DEF LoginFails
<1>7. ASSUME NEW r \in Rotations, TurnAway(r) PROVE TypeOK'
  BY <1>7 DEF TurnAway
<1>8. ASSUME NEW r \in Rotations, ReadSeed(r) PROVE TypeOK'
  <2>1. /\ rotation' \in [Rotations -> RotationSet]
        /\ \A q \in Rotations : InProgress(rotation'[q].stage) => rotation'[q].seed \in Seeds
    BY <1>8, ReadSeedRotation
  <2>2. bet' \in [Bets -> BetSet]
    BY <1>8, ReadSeedBets
  <2>3. QED
    BY <1>8, <2>1, <2>2 DEF ReadSeed, BetSet, RotationSet
<1>9. ASSUME NEW r \in Rotations, UpdateSeed(r) PROVE TypeOK'
  BY <1>9 DEF UpdateSeed
<1>10. ASSUME NEW r \in Rotations, RevealSeed(r) PROVE TypeOK'
  BY <1>10 DEF RevealSeed
<1>11. ASSUME NEW r \in Rotations, CommitSeed(r) PROVE TypeOK'
  <2>1. audit' \in [committed : SUBSET Seeds, revealed : SUBSET Seeds]
    BY <1>11 DEF CommitSeed
  <2>2. /\ rotation' \in [Rotations -> RotationSet]
        /\ \A q \in Rotations : InProgress(rotation'[q].stage)
             => rotation'[q].seed \in Seeds
    BY <1>11 DEF CommitSeed, RotationSet
  <2>3. QED
    BY <1>11, <2>1, <2>2 DEF CommitSeed, RotationSet
<1>12. ASSUME NEW r \in Rotations, SwapSeed(r) PROVE TypeOK'
  <2>1. /\ rotation' \in [Rotations -> RotationSet]
        /\ rotation'[r].seed \in Seeds
        /\ \A q \in Rotations \ {r} : rotation'[q] = rotation[q]
    BY <1>12, SwapSeedRotation
  <2>2. \A q \in Rotations : InProgress(rotation'[q].stage) => rotation'[q].seed \in Seeds
    BY <2>1
  <2>3. QED
    BY <1>12, <2>1, <2>2 DEF SwapSeed, RotationSet
<1>13. ASSUME NEW r \in Rotations, NEW c \in Currencies, ResetNonce(r, c) PROVE TypeOK'
  <2>1. /\ rotation' \in [Rotations -> RotationSet]
        /\ \A q \in Rotations : InProgress(rotation'[q].stage) => rotation'[q].seed \in Seeds
    BY <1>13, ResetNonceRotation DEF ResetNonce
  <2>2. nonce' \in [Currencies -> Nat]
    BY <1>13 DEF ResetNonce
  <2>3. QED
    BY <1>13, <2>1, <2>2 DEF ResetNonce, RotationSet
<1>14. ASSUME NEW r \in Rotations, RedisFails(r) PROVE TypeOK'
  BY <1>14 DEF RedisFails
<1>15. ASSUME NEW r \in Rotations, Respond(r) PROVE TypeOK'
  BY <1>15 DEF Respond
<1>16. ASSUME NEW r \in Rotations, RotationFails(r) PROVE TypeOK'
  BY <1>16 DEF RotationFails
<1>17. ASSUME NEW b \in Bets, NEW c \in Currencies, TakeNonce(b, c) PROVE TypeOK'
  <2>1. bet' \in [Bets -> BetSet] /\ nonce' \in [Currencies -> Nat]
    BY <1>17, TakeNonceBets
  <2>2. QED
    BY <1>17, <2>1 DEF TakeNonce, BetSet
<1>18. ASSUME NEW b \in Bets, Roll(b) PROVE TypeOK'
  <2>1. bet' \in [Bets -> BetSet]
    BY <1>18, RollBets
  <2>2. QED
    BY <1>18, <2>1 DEF Roll, BetSet
<1>19. CASE UNCHANGED vars
  BY <1>19 DEF vars
<1>20. QED
  BY <1>1, <1>2, <1>3, <1>4, <1>5, <1>6, <1>7, <1>8, <1>9, <1>10,
     <1>11, <1>12, <1>13, <1>14, <1>15, <1>16, <1>17, <1>18, <1>19
     DEF Next, SignIn, Rotate, Bet

(* Before UpdateSeed has stored it, no step passes a rotation's fresh seed *)
(* on.                                                                     *)
LEMMA NextFresh ==
  ASSUME TypeOK, FreshInv, [Next]_vars PROVE FreshInv'
<1> USE ProcessesAssumption DEF TypeOK, FreshInv, Unused, Seeds, Goto, SetSeed,
      Fault, LoginAt, RotationAt, keys, history, vars
<1>1. ASSUME NEW l \in Logins, FindUser(l) PROVE FreshInv'
  BY <1>1 DEF FindUser
<1>2. ASSUME NEW l \in Logins, CreateUser(l) PROVE FreshInv'
  BY <1>2 DEF CreateUser
<1>3. ASSUME NEW l \in Logins, CreateRefused(l) PROVE FreshInv'
  BY <1>3 DEF CreateRefused
<1>4. ASSUME NEW l \in Logins, RestoreSeed(l) PROVE FreshInv'
  BY <1>4 DEF RestoreSeed
<1>5. ASSUME NEW l \in Logins, SetSession(l) PROVE FreshInv'
  BY <1>5 DEF SetSession
<1>6. ASSUME NEW l \in Logins, LoginFails(l) PROVE FreshInv'
  BY <1>6 DEF LoginFails
<1>7. ASSUME NEW r \in Rotations, TurnAway(r) PROVE FreshInv'
  BY <1>7 DEF TurnAway
<1>8. ASSUME NEW r \in Rotations, ReadSeed(r) PROVE FreshInv'
  BY <1>8 DEF ReadSeed
<1>9. ASSUME NEW r \in Rotations, UpdateSeed(r) PROVE FreshInv'
  BY <1>9 DEF UpdateSeed
<1>10. ASSUME NEW r \in Rotations, RevealSeed(r) PROVE FreshInv'
  BY <1>10 DEF RevealSeed
<1>11. ASSUME NEW r \in Rotations, CommitSeed(r) PROVE FreshInv'
  BY <1>11 DEF CommitSeed
<1>12. ASSUME NEW r \in Rotations, SwapSeed(r) PROVE FreshInv'
  BY <1>12 DEF SwapSeed
<1>13. ASSUME NEW r \in Rotations, NEW c \in Currencies, ResetNonce(r, c) PROVE FreshInv'
  BY <1>13 DEF ResetNonce
<1>14. ASSUME NEW r \in Rotations, RedisFails(r) PROVE FreshInv'
  BY <1>14 DEF RedisFails
<1>15. ASSUME NEW r \in Rotations, Respond(r) PROVE FreshInv'
  BY <1>15 DEF Respond
<1>16. ASSUME NEW r \in Rotations, RotationFails(r) PROVE FreshInv'
  BY <1>16 DEF RotationFails
<1>17. ASSUME NEW b \in Bets, NEW c \in Currencies, TakeNonce(b, c) PROVE FreshInv'
  BY <1>17 DEF TakeNonce
<1>18. ASSUME NEW b \in Bets, Roll(b) PROVE FreshInv'
  BY <1>18 DEF Roll
<1>19. CASE UNCHANGED vars
  BY <1>19 DEF vars
<1>20. QED
  BY <1>1, <1>2, <1>3, <1>4, <1>5, <1>6, <1>7, <1>8, <1>9, <1>10,
     <1>11, <1>12, <1>13, <1>14, <1>15, <1>16, <1>17, <1>18, <1>19
     DEF Next, SignIn, Rotate, Bet

(* Nothing happens to a player who has no row yet but its creation.        *)
LEMMA NextStart ==
  ASSUME TypeOK, StartInv, [Next]_vars PROVE StartInv'
<1> USE ProcessesAssumption DEF TypeOK, StartInv, InProgress, Seeds, Goto,
      SetSeed, Fault, LoginAt, RotationAt, keys, history, vars
<1>1. ASSUME NEW l \in Logins, FindUser(l) PROVE StartInv'
  BY <1>1 DEF FindUser
<1>2. ASSUME NEW l \in Logins, CreateUser(l) PROVE StartInv'
  BY <1>2 DEF CreateUser
<1>3. ASSUME NEW l \in Logins, CreateRefused(l) PROVE StartInv'
  BY <1>3 DEF CreateRefused
<1>4. ASSUME NEW l \in Logins, RestoreSeed(l) PROVE StartInv'
  BY <1>4 DEF RestoreSeed
<1>5. ASSUME NEW l \in Logins, SetSession(l) PROVE StartInv'
  BY <1>5 DEF SetSession
<1>6. ASSUME NEW l \in Logins, LoginFails(l) PROVE StartInv'
  BY <1>6 DEF LoginFails
<1>7. ASSUME NEW r \in Rotations, TurnAway(r) PROVE StartInv'
  BY <1>7 DEF TurnAway
<1>8. ASSUME NEW r \in Rotations, ReadSeed(r) PROVE StartInv'
  BY <1>8 DEF ReadSeed
<1>9. ASSUME NEW r \in Rotations, UpdateSeed(r) PROVE StartInv'
  BY <1>9 DEF UpdateSeed
<1>10. ASSUME NEW r \in Rotations, RevealSeed(r) PROVE StartInv'
  BY <1>10 DEF RevealSeed
<1>11. ASSUME NEW r \in Rotations, CommitSeed(r) PROVE StartInv'
  BY <1>11 DEF CommitSeed
<1>12. ASSUME NEW r \in Rotations, SwapSeed(r) PROVE StartInv'
  BY <1>12 DEF SwapSeed
<1>13. ASSUME NEW r \in Rotations, NEW c \in Currencies, ResetNonce(r, c) PROVE StartInv'
  BY <1>13 DEF ResetNonce
<1>14. ASSUME NEW r \in Rotations, RedisFails(r) PROVE StartInv'
  BY <1>14 DEF RedisFails
<1>15. ASSUME NEW r \in Rotations, Respond(r) PROVE StartInv'
  BY <1>15 DEF Respond
<1>16. ASSUME NEW r \in Rotations, RotationFails(r) PROVE StartInv'
  BY <1>16 DEF RotationFails
<1>17. ASSUME NEW b \in Bets, NEW c \in Currencies, TakeNonce(b, c) PROVE StartInv'
  BY <1>17 DEF TakeNonce
<1>18. ASSUME NEW b \in Bets, Roll(b) PROVE StartInv'
  BY <1>18 DEF Roll
<1>19. CASE UNCHANGED vars
  BY <1>19 DEF vars
<1>20. QED
  BY <1>1, <1>2, <1>3, <1>4, <1>5, <1>6, <1>7, <1>8, <1>9, <1>10,
     <1>11, <1>12, <1>13, <1>14, <1>15, <1>16, <1>17, <1>18, <1>19
     DEF Next, SignIn, Rotate, Bet

(* A step that reveals a seed, or is going to, has replaced it as the      *)
(* active one; UpdateSeed sets a seed that nobody knows.                   *)
LEMMA NextSecret ==
  ASSUME TypeOK, FreshInv, StartInv, SecretInv, [Next]_vars PROVE SecretInv'
<1> USE ProcessesAssumption DEF TypeOK, FreshInv, Unused, StartInv, SecretInv,
      Late, Seeds, Goto, SetSeed, Fault, LoginAt, RotationAt, keys, history,
      vars
<1>1. ASSUME NEW l \in Logins, FindUser(l) PROVE SecretInv'
  BY <1>1 DEF FindUser
<1>2. ASSUME NEW l \in Logins, CreateUser(l) PROVE SecretInv'
  BY <1>2 DEF CreateUser
<1>3. ASSUME NEW l \in Logins, CreateRefused(l) PROVE SecretInv'
  BY <1>3 DEF CreateRefused
<1>4. ASSUME NEW l \in Logins, RestoreSeed(l) PROVE SecretInv'
  BY <1>4 DEF RestoreSeed
<1>5. ASSUME NEW l \in Logins, SetSession(l) PROVE SecretInv'
  BY <1>5 DEF SetSession
<1>6. ASSUME NEW l \in Logins, LoginFails(l) PROVE SecretInv'
  BY <1>6 DEF LoginFails
<1>7. ASSUME NEW r \in Rotations, TurnAway(r) PROVE SecretInv'
  BY <1>7 DEF TurnAway
<1>8. ASSUME NEW r \in Rotations, ReadSeed(r) PROVE SecretInv'
  BY <1>8 DEF ReadSeed
<1>9. ASSUME NEW r \in Rotations, UpdateSeed(r) PROVE SecretInv'
  BY <1>9 DEF UpdateSeed
<1>10. ASSUME NEW r \in Rotations, RevealSeed(r) PROVE SecretInv'
  BY <1>10 DEF RevealSeed
<1>11. ASSUME NEW r \in Rotations, CommitSeed(r) PROVE SecretInv'
  BY <1>11 DEF CommitSeed
<1>12. ASSUME NEW r \in Rotations, SwapSeed(r) PROVE SecretInv'
  BY <1>12 DEF SwapSeed
<1>13. ASSUME NEW r \in Rotations, NEW c \in Currencies, ResetNonce(r, c) PROVE SecretInv'
  BY <1>13 DEF ResetNonce
<1>14. ASSUME NEW r \in Rotations, RedisFails(r) PROVE SecretInv'
  BY <1>14 DEF RedisFails
<1>15. ASSUME NEW r \in Rotations, Respond(r) PROVE SecretInv'
  BY <1>15 DEF Respond
<1>16. ASSUME NEW r \in Rotations, RotationFails(r) PROVE SecretInv'
  BY <1>16 DEF RotationFails
<1>17. ASSUME NEW b \in Bets, NEW c \in Currencies, TakeNonce(b, c) PROVE SecretInv'
  BY <1>17 DEF TakeNonce
<1>18. ASSUME NEW b \in Bets, Roll(b) PROVE SecretInv'
  BY <1>18 DEF Roll
<1>19. CASE UNCHANGED vars
  BY <1>19 DEF vars
<1>20. QED
  BY <1>1, <1>2, <1>3, <1>4, <1>5, <1>6, <1>7, <1>8, <1>9, <1>10,
     <1>11, <1>12, <1>13, <1>14, <1>15, <1>16, <1>17, <1>18, <1>19
     DEF Next, SignIn, Rotate, Bet

(* A seed that an answer reveals is out of Redis, unless the swap failed   *)
(* or another handler set it outdated; Roll reads what Redis holds.        *)
LEMMA NextRetired ==
  ASSUME TypeOK, SecretInv, RetiredInv, [Next]_vars PROVE RetiredInv'
<1> USE ProcessesAssumption DEF TypeOK, SecretInv, Late, RetiredInv,
      ToldSeedsAreRetired, Seeds, Goto, SetSeed, Fault, LoginAt, RotationAt,
      keys, history, vars
<1>1. ASSUME NEW l \in Logins, FindUser(l) PROVE RetiredInv'
  BY <1>1 DEF FindUser
<1>2. ASSUME NEW l \in Logins, CreateUser(l) PROVE RetiredInv'
  BY <1>2 DEF CreateUser
<1>3. ASSUME NEW l \in Logins, CreateRefused(l) PROVE RetiredInv'
  BY <1>3 DEF CreateRefused
<1>4. ASSUME NEW l \in Logins, RestoreSeed(l) PROVE RetiredInv'
  BY <1>4 DEF RestoreSeed
<1>5. ASSUME NEW l \in Logins, SetSession(l) PROVE RetiredInv'
  BY <1>5 DEF SetSession
<1>6. ASSUME NEW l \in Logins, LoginFails(l) PROVE RetiredInv'
  BY <1>6 DEF LoginFails
<1>7. ASSUME NEW r \in Rotations, TurnAway(r) PROVE RetiredInv'
  BY <1>7 DEF TurnAway
<1>8. ASSUME NEW r \in Rotations, ReadSeed(r) PROVE RetiredInv'
  <2>1. UNCHANGED <<serverSeed, told, outdated, unreplaced>>
    BY <1>8 DEF ReadSeed
  <2>2. QED
    BY <1>8, <2>1, ReadSeedBets, ReadSeedRotation
<1>9. ASSUME NEW r \in Rotations, UpdateSeed(r) PROVE RetiredInv'
  BY <1>9 DEF UpdateSeed
<1>10. ASSUME NEW r \in Rotations, RevealSeed(r) PROVE RetiredInv'
  BY <1>10 DEF RevealSeed
<1>11. ASSUME NEW r \in Rotations, CommitSeed(r) PROVE RetiredInv'
  BY <1>11 DEF CommitSeed
<1>12. ASSUME NEW r \in Rotations, SwapSeed(r) PROVE RetiredInv'
  BY <1>12 DEF SwapSeed
<1>13. ASSUME NEW r \in Rotations, NEW c \in Currencies, ResetNonce(r, c) PROVE RetiredInv'
  BY <1>13 DEF ResetNonce
<1>14. ASSUME NEW r \in Rotations, RedisFails(r) PROVE RetiredInv'
  BY <1>14 DEF RedisFails
<1>15. ASSUME NEW r \in Rotations, Respond(r) PROVE RetiredInv'
  BY <1>15 DEF Respond
<1>16. ASSUME NEW r \in Rotations, RotationFails(r) PROVE RetiredInv'
  BY <1>16 DEF RotationFails
<1>17. ASSUME NEW b \in Bets, NEW c \in Currencies, TakeNonce(b, c) PROVE RetiredInv'
  BY <1>17 DEF TakeNonce
<1>18. ASSUME NEW b \in Bets, Roll(b) PROVE RetiredInv'
  BY <1>18 DEF Roll
<1>19. CASE UNCHANGED vars
  BY <1>19 DEF vars
<1>20. QED
  BY <1>1, <1>2, <1>3, <1>4, <1>5, <1>6, <1>7, <1>8, <1>9, <1>10,
     <1>11, <1>12, <1>13, <1>14, <1>15, <1>16, <1>17, <1>18, <1>19
     DEF Next, SignIn, Rotate, Bet

(* The four steps of a rotation leave one announced seed that is not       *)
(* closed, unless it is cut off in between or clashes with another.        *)
LEMMA NextAudit ==
  ASSUME TypeOK, FreshInv, StartInv, AuditInv, [Next]_vars PROVE AuditInv'
<1> USE ProcessesAssumption DEF TypeOK, FreshInv, Unused, StartInv, AuditInv,
      Announced, Closed, Seeds, Goto, SetSeed, Fault, LoginAt, RotationAt, keys,
      history, vars
<1>1. ASSUME NEW l \in Logins, FindUser(l) PROVE AuditInv'
  BY <1>1 DEF FindUser
<1>2. ASSUME NEW l \in Logins, CreateUser(l) PROVE AuditInv'
  BY <1>2 DEF CreateUser
<1>3. ASSUME NEW l \in Logins, CreateRefused(l) PROVE AuditInv'
  BY <1>3 DEF CreateRefused
<1>4. ASSUME NEW l \in Logins, RestoreSeed(l) PROVE AuditInv'
  BY <1>4 DEF RestoreSeed
<1>5. ASSUME NEW l \in Logins, SetSession(l) PROVE AuditInv'
  BY <1>5 DEF SetSession
<1>6. ASSUME NEW l \in Logins, LoginFails(l) PROVE AuditInv'
  BY <1>6 DEF LoginFails
<1>7. ASSUME NEW r \in Rotations, TurnAway(r) PROVE AuditInv'
  BY <1>7 DEF TurnAway
<1>8. ASSUME NEW r \in Rotations, ReadSeed(r) PROVE AuditInv'
  BY <1>8 DEF ReadSeed
<1>9. ASSUME NEW r \in Rotations, UpdateSeed(r) PROVE AuditInv'
  <2>1. /\ rotation[r].stage = "update" /\ rotation'[r].stage = "reveal"
        /\ rotation'[r].seed = rotation[r].seed
        /\ \A q \in Rotations \ {r} : rotation'[q] = rotation[q]
        /\ user'.active = r
        /\ UNCHANGED <<audit, torn>> /\ clash' = (clash \/ user.active # rotation[r].seed)
    BY <1>9 DEF UpdateSeed
  <2>2. Announced' = Announced \cup {r}
    BY <2>1 DEF Announced
  <2>3. ASSUME NEW s PROVE Closed(s)' <=> Closed(s) \/ s = rotation[r].seed
    <3>1. Closed(s) \/ s = rotation[r].seed => Closed(s)'
      BY <2>1 DEF Closed
    <3>2. Closed(s)' => Closed(s) \/ s = rotation[r].seed
      BY <2>1 DEF Closed
    <3>3. QED
      BY <3>1, <3>2
  <2>4. ~Closed(r) /\ rotation[r].seed # r
    BY <2>1 DEF FreshInv, Unused, Closed
  <2>5. user.active # NoSeed
    BY <2>1 DEF StartInv
  <2>6. ASSUME torn' = {}, ~clash'
        PROVE  /\ r \in Announced' /\ ~Closed(r)'
               /\ \A s \in Announced' : s # r => Closed(s)'
    <3>1. torn = {} /\ ~clash /\ user.active = rotation[r].seed
      BY <2>1, <2>6
    <3>2. \A s \in Announced : s # user.active => Closed(s)
      BY <2>5, <3>1 DEF AuditInv
    <3>3. QED
      BY <2>2, <2>3, <2>4, <3>1, <3>2
  <2>7. QED
    BY <2>1, <2>6 DEF AuditInv
<1>10. ASSUME NEW r \in Rotations, RevealSeed(r) PROVE AuditInv'
  <2>1. /\ rotation[r].stage = "reveal" /\ rotation'[r].stage = "commit"
        /\ rotation'[r].seed = rotation[r].seed
        /\ \A q \in Rotations \ {r} : rotation'[q] = rotation[q]
        /\ audit'.committed = audit.committed
        /\ audit'.revealed = audit.revealed \cup ({rotation[r].seed} \cap audit.committed)
        /\ UNCHANGED <<user, torn>>
        /\ clash' = (clash \/ rotation[r].seed \notin audit.committed)
    BY <1>10 DEF RevealSeed
  <2>2. Announced' = Announced
    BY <2>1 DEF Announced
  <2>3. ASSUME ~clash', NEW s PROVE Closed(s)' <=> Closed(s)
    <3>1. audit'.revealed = audit.revealed \cup {rotation[r].seed}
      <4>1. rotation[r].seed \in audit.committed
        BY <2>1, <2>3
      <4>2. {rotation[r].seed} \cap audit.committed = {rotation[r].seed}
        BY <4>1
      <4>3. QED
        BY <2>1, <4>2
    <3>2. Closed(s) => Closed(s)'
      BY <2>1, <3>1 DEF Closed
    <3>3. Closed(s)' => Closed(s)
      BY <2>1, <3>1 DEF Closed
    <3>4. QED
      BY <3>2, <3>3
  <2>4. QED
    BY <2>1, <2>2, <2>3 DEF AuditInv
<1>11. ASSUME NEW r \in Rotations, CommitSeed(r) PROVE AuditInv'
  BY <1>11 DEF CommitSeed
<1>12. ASSUME NEW r \in Rotations, SwapSeed(r) PROVE AuditInv'
  <2>1. UNCHANGED <<user, audit, torn, clash>>
    BY <1>12 DEF SwapSeed
  <2>2. /\ rotation[r].stage = "swap" /\ rotation'[r].stage = "reset"
        /\ \A q \in Rotations \ {r} : rotation'[q] = rotation[q]
    BY <1>12, SwapSeedRotation
  <2>3. Announced' = Announced
    BY <2>1, <2>2 DEF Announced
  <2>4. ASSUME NEW s PROVE Closed(s)' <=> Closed(s)
    BY <2>1, <2>2 DEF Closed
  <2>5. QED
    BY <2>1, <2>3, <2>4 DEF AuditInv
<1>13. ASSUME NEW r \in Rotations, NEW c \in Currencies, ResetNonce(r, c) PROVE AuditInv'
  BY <1>13 DEF ResetNonce
<1>14. ASSUME NEW r \in Rotations, RedisFails(r) PROVE AuditInv'
  BY <1>14 DEF RedisFails
<1>15. ASSUME NEW r \in Rotations, Respond(r) PROVE AuditInv'
  BY <1>15 DEF Respond
<1>16. ASSUME NEW r \in Rotations, RotationFails(r) PROVE AuditInv'
  <2>1. /\ rotation'[r].stage = "over"
        /\ \A q \in Rotations \ {r} : rotation'[q] = rotation[q]
        /\ UNCHANGED <<user, audit, clash>>
        /\ torn' = IF rotation[r].stage \in {"reveal", "commit"} THEN torn \cup {r} ELSE torn
    BY <1>16 DEF RotationFails
  <2>2. torn' = {} => torn = {} /\ rotation[r].stage \notin {"reveal", "commit"}
    BY <2>1
  <2>3. ASSUME torn' = {}
        PROVE  Announced' = Announced /\ \A s : Closed(s)' <=> Closed(s)
    BY <2>1, <2>2, <2>3 DEF Announced, Closed
  <2>4. QED
    BY <2>1, <2>2, <2>3 DEF AuditInv
<1>17. ASSUME NEW b \in Bets, NEW c \in Currencies, TakeNonce(b, c) PROVE AuditInv'
  BY <1>17 DEF TakeNonce
<1>18. ASSUME NEW b \in Bets, Roll(b) PROVE AuditInv'
  BY <1>18 DEF Roll
<1>19. CASE UNCHANGED vars
  BY <1>19 DEF vars
<1>20. QED
  BY <1>1, <1>2, <1>3, <1>4, <1>5, <1>6, <1>7, <1>8, <1>9, <1>10,
     <1>11, <1>12, <1>13, <1>14, <1>15, <1>16, <1>17, <1>18, <1>19
     DEF Next, SignIn, Rotate, Bet

(* A rotation that begins marks every bet that waits for its seed; those   *)
(* that have rolled keep a seed that it replaces.                          *)
LEMMA NextRolls ==
  ASSUME TypeOK, FreshInv, StartInv, SessionInv, RollInv, [Next]_vars PROVE RollInv'
<1> USE ProcessesAssumption DEF TypeOK, FreshInv, Unused, StartInv, SessionInv,
      RollInv, Waiting, Current, Rolled, Late, InProgress, Rotating, Seeds,
      Goto, SetSeed, Fault, LoginAt, RotationAt, keys, history, vars
<1>1. ASSUME NEW l \in Logins, FindUser(l) PROVE RollInv'
  BY <1>1 DEF FindUser
<1>2. ASSUME NEW l \in Logins, CreateUser(l) PROVE RollInv'
  BY <1>2 DEF CreateUser
<1>3. ASSUME NEW l \in Logins, CreateRefused(l) PROVE RollInv'
  BY <1>3 DEF CreateRefused
<1>4. ASSUME NEW l \in Logins, RestoreSeed(l) PROVE RollInv'
  BY <1>4 DEF RestoreSeed
<1>5. ASSUME NEW l \in Logins, SetSession(l) PROVE RollInv'
  BY <1>5 DEF SetSession
<1>6. ASSUME NEW l \in Logins, LoginFails(l) PROVE RollInv'
  BY <1>6 DEF LoginFails
<1>7. ASSUME NEW r \in Rotations, TurnAway(r) PROVE RollInv'
  BY <1>7 DEF TurnAway
<1>8. ASSUME NEW r \in Rotations, ReadSeed(r) PROVE RollInv'
  <2>1. /\ UNCHANGED <<user, serverSeed, outdated>>
        /\ rotation[r].stage = "idle"
    BY <1>8 DEF ReadSeed
  <2>2. \A b \in Bets : /\ ~Waiting(b)' /\ Current(b)' = Current(b)
                       /\ bet'[b].seed = bet[b].seed
    BY <1>8, ReadSeedBets
  <2>3. \A b \in Bets : bet[b].seed # r
    BY <2>1
  <2>4. \A b \in Bets : ~Waiting(b)'
    BY <2>2
  <2>5. \A a \in Bets, q \in Rotations :
          Current(a)' /\ InProgress(rotation'[q].stage) => bet'[a].seed # q
    BY <2>2, <2>3, <1>8, ReadSeedRotation
  <2>6. \A a \in Bets, q \in Rotations :
          Current(a)' /\ Late(q)' => bet'[a].seed # user.active
    <3>1. ~Late(r)' /\ \A q \in Rotations \ {r} : Late(q)' = Late(q)
      BY <1>8, ReadSeedRotation
    <3>2. QED
      BY <2>2, <3>1
  <2>7. \A a \in Bets, q \in Rotations :
          Current(a)' /\ rotation'[q].stage = "reset" /\ bet'[a].seed = serverSeed
            => bet'[a].seed \in outdated
    BY <2>2, <1>8, ReadSeedRotation
  <2>8. QED
    BY <2>1, <2>4, <2>5, <2>6, <2>7
<1>9. ASSUME NEW r \in Rotations, UpdateSeed(r) PROVE RollInv'
  BY <1>9 DEF UpdateSeed
<1>10. ASSUME NEW r \in Rotations, RevealSeed(r) PROVE RollInv'
  BY <1>10 DEF RevealSeed
<1>11. ASSUME NEW r \in Rotations, CommitSeed(r) PROVE RollInv'
  BY <1>11 DEF CommitSeed
<1>12. ASSUME NEW r \in Rotations, SwapSeed(r) PROVE RollInv'
  BY <1>12 DEF SwapSeed
<1>13. ASSUME NEW r \in Rotations, NEW c \in Currencies, ResetNonce(r, c) PROVE RollInv'
  BY <1>13 DEF ResetNonce
<1>14. ASSUME NEW r \in Rotations, RedisFails(r) PROVE RollInv'
  BY <1>14 DEF RedisFails
<1>15. ASSUME NEW r \in Rotations, Respond(r) PROVE RollInv'
  BY <1>15 DEF Respond
<1>16. ASSUME NEW r \in Rotations, RotationFails(r) PROVE RollInv'
  BY <1>16 DEF RotationFails
<1>17. ASSUME NEW b \in Bets, NEW c \in Currencies, TakeNonce(b, c) PROVE RollInv'
  BY <1>17 DEF TakeNonce
<1>18. ASSUME NEW b \in Bets, Roll(b) PROVE RollInv'
  <2>1. /\ UNCHANGED <<user, serverSeed, rotation, outdated>>
        /\ bet[b].stage = "seed" /\ bet'[b].stage = "rolled"
        /\ bet'[b].during = bet[b].during
        /\ \A a \in Bets \ {b} : bet'[a] = bet[a]
    BY <1>18 DEF Roll
  <2>2. ~Waiting(b)' /\ \A a \in Bets \ {b} : Waiting(a)' = Waiting(a)
    BY <2>1
  <2>3. \A r \in Rotations : Current(b)' => ~InProgress(rotation[r].stage)
    BY <2>1
  <2>4. \A a \in Bets \ {b} : Current(a)' = Current(a)
    BY <2>1
  <2> HIDE DEF Waiting, Current, TypeOK
  <2>5. QED
    BY <2>1, <2>2, <2>3, <2>4
<1>19. CASE UNCHANGED vars
  BY <1>19 DEF vars
<1>20. QED
  BY <1>1, <1>2, <1>3, <1>4, <1>5, <1>6, <1>7, <1>8, <1>9, <1>10,
     <1>11, <1>12, <1>13, <1>14, <1>15, <1>16, <1>17, <1>18, <1>19
     DEF Next, SignIn, Rotate, Bet

(* Nonces only grow while a seed is in use: they are reset after the swap, *)
(* when no seed of an unmarked bet is in Redis or active, unless outdated. *)
LEMMA NextNonces ==
  ASSUME TypeOK, StartInv, SessionInv, RollInv, NonceInv, [Next]_vars PROVE NonceInv'
<1> USE ProcessesAssumption DEF TypeOK, StartInv, SessionInv, RollInv, NonceInv,
      RollsDiffer, SameRoll, Waiting, Current, InUse, Rolled, Late, InProgress,
      Seeds, Goto, SetSeed, Fault, LoginAt, RotationAt, keys, history, vars
<1>1. ASSUME NEW l \in Logins, FindUser(l) PROVE NonceInv'
  BY <1>1 DEF FindUser
<1>2. ASSUME NEW l \in Logins, CreateUser(l) PROVE NonceInv'
  BY <1>2 DEF CreateUser
<1>3. ASSUME NEW l \in Logins, CreateRefused(l) PROVE NonceInv'
  BY <1>3 DEF CreateRefused
<1>4. ASSUME NEW l \in Logins, RestoreSeed(l) PROVE NonceInv'
  BY <1>4 DEF RestoreSeed
<1>5. ASSUME NEW l \in Logins, SetSession(l) PROVE NonceInv'
  BY <1>5 DEF SetSession
<1>6. ASSUME NEW l \in Logins, LoginFails(l) PROVE NonceInv'
  BY <1>6 DEF LoginFails
<1>7. ASSUME NEW r \in Rotations, TurnAway(r) PROVE NonceInv'
  BY <1>7 DEF TurnAway
<1>8. ASSUME NEW r \in Rotations, ReadSeed(r) PROVE NonceInv'
  <2>1. UNCHANGED <<user, serverSeed, outdated, nonce>>
    BY <1>8 DEF ReadSeed
  <2>2. \A b \in Bets : ~Waiting(b)' /\ InUse(b)' = InUse(b)
    BY <1>8, <2>1, ReadSeedBets
  <2>3. \A b \in Bets : /\ bet'[b].nonce = bet[b].nonce
                       /\ bet'[b].currency = bet[b].currency
    BY <1>8, ReadSeedBets
  <2>4. RollsDiffer'
    BY <1>8, <2>1, ReadSeedBets
  <2>5. QED
    BY <2>1, <2>2, <2>3, <2>4
<1>9. ASSUME NEW r \in Rotations, UpdateSeed(r) PROVE NonceInv'
  BY <1>9 DEF UpdateSeed
<1>10. ASSUME NEW r \in Rotations, RevealSeed(r) PROVE NonceInv'
  BY <1>10 DEF RevealSeed
<1>11. ASSUME NEW r \in Rotations, CommitSeed(r) PROVE NonceInv'
  BY <1>11 DEF CommitSeed
<1>12. ASSUME NEW r \in Rotations, SwapSeed(r) PROVE NonceInv'
  BY <1>12 DEF SwapSeed
<1>13. ASSUME NEW r \in Rotations, NEW c \in Currencies, ResetNonce(r, c) PROVE NonceInv'
  BY <1>13 DEF ResetNonce
<1>14. ASSUME NEW r \in Rotations, RedisFails(r) PROVE NonceInv'
  BY <1>14 DEF RedisFails
<1>15. ASSUME NEW r \in Rotations, Respond(r) PROVE NonceInv'
  BY <1>15 DEF Respond
<1>16. ASSUME NEW r \in Rotations, RotationFails(r) PROVE NonceInv'
  BY <1>16 DEF RotationFails
<1>17. ASSUME NEW b \in Bets, NEW c \in Currencies, TakeNonce(b, c) PROVE NonceInv'
  BY <1>17 DEF TakeNonce
<1>18. ASSUME NEW b \in Bets, Roll(b) PROVE NonceInv'
  <2>1. /\ UNCHANGED <<user, serverSeed, nonce, outdated>>
        /\ bet[b].stage = "seed" /\ bet'[b].stage = "rolled"
        /\ bet'[b].seed = serverSeed /\ bet'[b].during = bet[b].during
        /\ bet'[b].nonce = bet[b].nonce /\ bet'[b].currency = bet[b].currency
        /\ \A a \in Bets \ {b} : bet'[a] = bet[a]
    BY <1>18 DEF Roll
  <2>2. /\ ~Waiting(b)' /\ ~InUse(b) /\ (InUse(b)' => Waiting(b))
        /\ \A a \in Bets \ {b} : Waiting(a)' = Waiting(a) /\ InUse(a)' = InUse(a)
    BY <2>1
  <2>3. \A a \in Bets : Waiting(a)' \/ InUse(a)' => bet'[a].nonce <= nonce[bet'[a].currency]
    BY <2>1, <2>2
  <2>4. \A a, e \in Bets : a # e /\ Waiting(e)' /\ (Waiting(a)' \/ InUse(a)')
          => bet'[a].currency # bet'[e].currency \/ bet'[a].nonce # bet'[e].nonce
    BY <2>1, <2>2
  <2>5. ASSUME NEW a \in Bets \ {b}, Current(a), Waiting(b), bet[a].seed = serverSeed,
               serverSeed \notin outdated
        PROVE  bet[a].currency # bet[b].currency \/ bet[a].nonce # bet[b].nonce
    BY <2>5
  <2>6. RollsDiffer'
    BY <2>1, <2>5
  <2>7. QED
    BY <2>1, <2>3, <2>4, <2>6
<1>19. CASE UNCHANGED vars
  BY <1>19 DEF vars
<1>20. QED
  BY <1>1, <1>2, <1>3, <1>4, <1>5, <1>6, <1>7, <1>8, <1>9, <1>10,
     <1>11, <1>12, <1>13, <1>14, <1>15, <1>16, <1>17, <1>18, <1>19
     DEF Next, SignIn, Rotate, Bet

(* A session is set after the seed, which is never removed.                *)
LEMMA NextSession ==
  ASSUME TypeOK, StartInv, SessionInv, [Next]_vars PROVE SessionInv'
<1> USE ProcessesAssumption DEF TypeOK, StartInv, SessionInv, InProgress, Seeds,
      Goto, SetSeed, Fault, LoginAt, RotationAt, keys, history, vars
<1>1. ASSUME NEW l \in Logins, FindUser(l) PROVE SessionInv'
  BY <1>1 DEF FindUser
<1>2. ASSUME NEW l \in Logins, CreateUser(l) PROVE SessionInv'
  BY <1>2 DEF CreateUser
<1>3. ASSUME NEW l \in Logins, CreateRefused(l) PROVE SessionInv'
  BY <1>3 DEF CreateRefused
<1>4. ASSUME NEW l \in Logins, RestoreSeed(l) PROVE SessionInv'
  BY <1>4 DEF RestoreSeed
<1>5. ASSUME NEW l \in Logins, SetSession(l) PROVE SessionInv'
  BY <1>5 DEF SetSession
<1>6. ASSUME NEW l \in Logins, LoginFails(l) PROVE SessionInv'
  BY <1>6 DEF LoginFails
<1>7. ASSUME NEW r \in Rotations, TurnAway(r) PROVE SessionInv'
  BY <1>7 DEF TurnAway
<1>8. ASSUME NEW r \in Rotations, ReadSeed(r) PROVE SessionInv'
  BY <1>8 DEF ReadSeed
<1>9. ASSUME NEW r \in Rotations, UpdateSeed(r) PROVE SessionInv'
  BY <1>9 DEF UpdateSeed
<1>10. ASSUME NEW r \in Rotations, RevealSeed(r) PROVE SessionInv'
  BY <1>10 DEF RevealSeed
<1>11. ASSUME NEW r \in Rotations, CommitSeed(r) PROVE SessionInv'
  BY <1>11 DEF CommitSeed
<1>12. ASSUME NEW r \in Rotations, SwapSeed(r) PROVE SessionInv'
  BY <1>12 DEF SwapSeed
<1>13. ASSUME NEW r \in Rotations, NEW c \in Currencies, ResetNonce(r, c) PROVE SessionInv'
  BY <1>13 DEF ResetNonce
<1>14. ASSUME NEW r \in Rotations, RedisFails(r) PROVE SessionInv'
  BY <1>14 DEF RedisFails
<1>15. ASSUME NEW r \in Rotations, Respond(r) PROVE SessionInv'
  BY <1>15 DEF Respond
<1>16. ASSUME NEW r \in Rotations, RotationFails(r) PROVE SessionInv'
  BY <1>16 DEF RotationFails
<1>17. ASSUME NEW b \in Bets, NEW c \in Currencies, TakeNonce(b, c) PROVE SessionInv'
  BY <1>17 DEF TakeNonce
<1>18. ASSUME NEW b \in Bets, Roll(b) PROVE SessionInv'
  BY <1>18 DEF Roll
<1>19. CASE UNCHANGED vars
  BY <1>19 DEF vars
<1>20. QED
  BY <1>1, <1>2, <1>3, <1>4, <1>5, <1>6, <1>7, <1>8, <1>9, <1>10,
     <1>11, <1>12, <1>13, <1>14, <1>15, <1>16, <1>17, <1>18, <1>19
     DEF Next, SignIn, Rotate, Bet

(* A seed reaches Redis, a sign-in or a roll only from where it is         *)
(* covered; a commitment is not withdrawn.                                 *)
LEMMA NextCovered ==
  ASSUME TypeOK, SessionInv, CoveredInv, [Next]_vars PROVE CoveredInv'
<1> USE ProcessesAssumption DEF TypeOK, SessionInv, CoveredInv, Covered, Rolled,
      Seeds, Goto, SetSeed, Fault, LoginAt, RotationAt, keys, history, vars
<1>1. ASSUME NEW l \in Logins, FindUser(l) PROVE CoveredInv'
  BY <1>1 DEF FindUser
<1>2. ASSUME NEW l \in Logins, CreateUser(l) PROVE CoveredInv'
  <2>1. /\ user'.active = l /\ audit'.committed = audit.committed \cup {l}
        /\ login'[l].stage = "restore" /\ login'[l].seed = login[l].seed
        /\ \A k \in Logins \ {l} : login'[k] = login[k]
    BY <1>2 DEF CreateUser
  <2>2. \A s : Covered(s) => Covered(s)'
    BY <1>2, <2>1 DEF CreateUser
  <2>3. Covered(l)'
    BY <2>1
  <2>4. login[l].seed = l
    BY <1>2, CreatesOwnSeed
  <2>5. QED
    BY <1>2, <2>1, <2>2, <2>3, <2>4 DEF CreateUser
<1>3. ASSUME NEW l \in Logins, CreateRefused(l) PROVE CoveredInv'
  BY <1>3 DEF CreateRefused
<1>4. ASSUME NEW l \in Logins, RestoreSeed(l) PROVE CoveredInv'
  BY <1>4 DEF RestoreSeed
<1>5. ASSUME NEW l \in Logins, SetSession(l) PROVE CoveredInv'
  BY <1>5 DEF SetSession
<1>6. ASSUME NEW l \in Logins, LoginFails(l) PROVE CoveredInv'
  BY <1>6 DEF LoginFails
<1>7. ASSUME NEW r \in Rotations, TurnAway(r) PROVE CoveredInv'
  BY <1>7 DEF TurnAway
<1>8. ASSUME NEW r \in Rotations, ReadSeed(r) PROVE CoveredInv'
  <2>1. UNCHANGED <<user, audit, serverSeed, login, torn>>
    BY <1>8 DEF ReadSeed
  <2>2. rotation[r].stage = "idle" /\ \A s : Covered(s) => Covered(s)'
    BY <1>8, <2>1, ReadSeedRotation DEF ReadSeed
  <2>3. \A b \in Bets : /\ bet'[b].stage = bet[b].stage
                       /\ bet'[b].seed = bet[b].seed
    BY <1>8, ReadSeedBets
  <2>4. QED
    BY <1>8, <2>1, <2>2, <2>3, ReadSeedRotation
<1>9. ASSUME NEW r \in Rotations, UpdateSeed(r) PROVE CoveredInv'
  BY <1>9 DEF UpdateSeed
<1>10. ASSUME NEW r \in Rotations, RevealSeed(r) PROVE CoveredInv'
  BY <1>10 DEF RevealSeed
<1>11. ASSUME NEW r \in Rotations, CommitSeed(r) PROVE CoveredInv'
  BY <1>11 DEF CommitSeed
<1>12. ASSUME NEW r \in Rotations, SwapSeed(r) PROVE CoveredInv'
  BY <1>12 DEF SwapSeed
<1>13. ASSUME NEW r \in Rotations, NEW c \in Currencies, ResetNonce(r, c) PROVE CoveredInv'
  BY <1>13 DEF ResetNonce
<1>14. ASSUME NEW r \in Rotations, RedisFails(r) PROVE CoveredInv'
  BY <1>14 DEF RedisFails
<1>15. ASSUME NEW r \in Rotations, Respond(r) PROVE CoveredInv'
  BY <1>15 DEF Respond
<1>16. ASSUME NEW r \in Rotations, RotationFails(r) PROVE CoveredInv'
  BY <1>16 DEF RotationFails
<1>17. ASSUME NEW b \in Bets, NEW c \in Currencies, TakeNonce(b, c) PROVE CoveredInv'
  BY <1>17 DEF TakeNonce
<1>18. ASSUME NEW b \in Bets, Roll(b) PROVE CoveredInv'
  BY <1>18 DEF Roll
<1>19. CASE UNCHANGED vars
  BY <1>19 DEF vars
<1>20. QED
  BY <1>1, <1>2, <1>3, <1>4, <1>5, <1>6, <1>7, <1>8, <1>9, <1>10,
     <1>11, <1>12, <1>13, <1>14, <1>15, <1>16, <1>17, <1>18, <1>19
     DEF Next, SignIn, Rotate, Bet

-----------------------------------------------------------------------------
(* The inductive step, of all parts at once.                               *)
LEMMA NextInv == Inv /\ [Next]_vars => Inv'
<1> SUFFICES ASSUME Inv, [Next]_vars PROVE Inv'
  OBVIOUS
<1>1. QED
  BY NextType, NextFresh, NextStart, NextSecret, NextRetired, NextSession, NextCovered,
     NextAudit, NextRolls, NextNonces DEF Inv

(* The inductive invariant holds in every reachable state.                 *)
THEOREM Invariance == Spec => []Inv
<1>1. QED
  BY InitInv, NextInv, PTL DEF Spec

(* Rows, keys and handlers keep their shapes, and a handler that is under  *)
(* way carries a seed.                                                     *)
THEOREM SeedTypesCorrect == Spec => []TypeOK
<1>1. Inv => TypeOK
  BY DEF Inv
<1>2. QED
  BY <1>1, Invariance, PTL

(* The seed that sign-ins restore was never revealed, however many         *)
(* rotations, sign-ins and failures overlap.                               *)
THEOREM ActiveSeedStaysSecret == Spec => []ActiveSeedIsSecret
<1>1. Inv => ActiveSeedIsSecret
  BY DEF Inv, SecretInv, ActiveSeedIsSecret
<1>2. QED
  BY <1>1, Invariance, PTL

(* A bet rolls with a seed the player was told before only if the seed was *)
(* set outdated or its replacement failed: no other order of steps does it.*)
THEOREM ToldSeedsStayRetired == Spec => []ToldSeedsAreRetired
<1>1. Inv => ToldSeedsAreRetired
  BY DEF Inv, RetiredInv
<1>2. QED
  BY <1>1, Invariance, PTL

(* Every roll's seed is committed to, about to be, or its rotation was cut *)
(* off between the update of the row and the commitment.                   *)
THEOREM RolledSeedsCommitted == Spec => []RolledSeedsAreCommitted
<1>1. Inv => RolledSeedsAreCommitted
  BY DEF Inv, CoveredInv, Covered, RolledSeedsAreCommitted
<1>2. QED
  BY <1>1, Invariance, PTL

(* Two rolls of a currency share seed and nonce only if one of the bets    *)
(* overlapped a rotation, or the seed was set outdated.                    *)
THEOREM RollsAreDifferent == Spec => []RollsDiffer
<1>1. Inv => RollsDiffer
  BY DEF Inv, NonceInv
<1>2. QED
  BY <1>1, Invariance, PTL

(* At rest the audit has one open commitment, the active seed's, unless a  *)
(* rotation was cut off or two replaced one seed.                          *)
THEOREM AuditIsComplete == Spec => []OneOpenCommitment
<1>1. ASSUME Inv PROVE OneOpenCommitment
  <2> SUFFICES ASSUME AtRest, user.active # NoSeed, torn = {}, ~clash
               PROVE  audit.committed \ audit.revealed = {user.active}
    BY DEF OneOpenCommitment
  <2>1. \A r \in Rotations : rotation[r].stage \notin {"reveal", "commit"}
    BY DEF AtRest, Rotating, InProgress
  <2>2. Announced = audit.committed /\ \A s : Closed(s) <=> s \in audit.revealed
    BY <2>1 DEF Announced, Closed
  <2>3. QED
    BY <1>1, <2>2 DEF Inv, AuditInv
<1>2. QED
  BY <1>1, Invariance, PTL
=============================================================================
