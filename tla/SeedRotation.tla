----------------------------- MODULE SeedRotation -----------------------------
(***************************************************************************)
(* The server seed of one player: created when the player signs in for the *)
(* first time (auth-user.service.ts), replaced and revealed by a rotation  *)
(* (pf.routes.ts), used with a nonce by every bet (ws.handler.ts).         *)
(*                                                                         *)
(* PostgreSQL holds the active seed and the audit of commitments, Redis a  *)
(* copy of the seed and, for each currency, the nonce.  Sign-ins,          *)
(* rotations and bets run at the same time on the cluster's workers, and   *)
(* each of their queries and Redis commands is a step of its own.          *)
(*                                                                         *)
(* Simplifications: a fresh seed is named by the process that creates it,  *)
(* since random seeds do not repeat; a commitment is named by its seed; a  *)
(* bet is its nonce and its seed (BetEscrow has the rest); every sign-in   *)
(* brings a challenge of its own and a good signature.                     *)
(***************************************************************************)
EXTENDS Naturals, FiniteSets

CONSTANTS
  Logins,       \* the sign-ins of the player
  Rotations,    \* the requests to rotate the seed
  Bets,         \* the bets
  Currencies,   \* a nonce key of the player for each
  NoSeed,       \* a key or a row that is absent
  MaxFaults     \* bound: steps that fail, handlers that die

ASSUME ProcessesAssumption ==
  /\ Logins \cap Rotations = {}
  /\ NoSeed \notin Logins \cup Rotations
ASSUME CurrenciesAssumption == Currencies # {}
ASSUME BoundsAssumption == MaxFaults \in Nat

Seeds == Logins \cup Rotations

VARIABLES
  user,       \* the player's row in PostgreSQL
  audit,      \* seed_commitment_audit: what is committed, what is revealed
  serverSeed, \* user:{id}:serverSeed in Redis
  nonce,      \* user:{id}:nonce:* in Redis
  session,    \* session:{id} in Redis
  login,      \* where each sign-in stands, and the seed it carries
  rotation,   \* where each rotation stands, the seed it replaces, its keys
  bet,        \* each bet's currency, nonce and seed
  told,       \* the seeds that answers have revealed to the player
  outdated,   \* history: seeds set in Redis when PostgreSQL had another
  unreplaced, \* history: seeds whose replacement in Redis failed
  torn,       \* history: new seeds of rotations cut off before the commitment
  clash,      \* history: a rotation replaced a seed that was not active, or
              \* revealed one before its commitment was there
  faults      \* history: failures so far

keys == <<serverSeed, nonce>>
history == <<outdated, unreplaced, torn, clash>>
vars == <<user, audit, keys, session, login, rotation, bet, told, history, faults>>

-----------------------------------------------------------------------------
LoginStage == {"idle", "create", "restore", "session", "over"}
RotationStage == {"idle", "update", "reveal", "commit", "swap", "reset", "respond",
                  "over"}
BetStage == {"idle", "seed", "rolled"}

InProgress(stage) == stage \notin {"idle", "over"}
Rotating == \E r \in Rotations : InProgress(rotation[r].stage)

LoginAt(l, stage) == login[l].stage = stage
RotationAt(r, stage) == rotation[r].stage = stage

Init ==
  /\ user = [active |-> NoSeed, previous |-> NoSeed]
  /\ audit = [committed |-> {}, revealed |-> {}]
  /\ serverSeed = NoSeed
  /\ nonce = [c \in Currencies |-> 0]
  /\ session = FALSE
  /\ login = [l \in Logins |-> [stage |-> "idle", seed |-> NoSeed]]
  /\ rotation = [r \in Rotations |-> [stage |-> "idle", seed |-> NoSeed, left |-> {}]]
  /\ bet = [b \in Bets |-> [stage |-> "idle", currency |-> CHOOSE c \in Currencies : TRUE,
                            nonce |-> 0, seed |-> NoSeed, during |-> FALSE,
                            knew |-> FALSE]]
  /\ told = {}
  /\ outdated = {} /\ unreplaced = {} /\ torn = {} /\ clash = FALSE
  /\ faults = 0

-----------------------------------------------------------------------------
(* A sign-in: upsertUserSessionByWallet.                                   *)

\* Mutation: a row that is not there passes for one.
FindAnyUser(l) ==
  /\ LoginAt(l, "idle")
  /\ login' = [login EXCEPT ![l] = [stage |-> "restore", seed |-> user.active]]
  /\ UNCHANGED <<user, audit, keys, session, rotation, bet, told, history, faults>>

(* The challenge is consumed, the signature good; the player's row is read.*)
FindUser(l) ==
  /\ LoginAt(l, "idle")
  /\ login' = [login EXCEPT ![l] = IF user.active = NoSeed
                                     THEN [stage |-> "create", seed |-> l]
                                     ELSE [stage |-> "restore", seed |-> user.active]]
  /\ UNCHANGED <<user, audit, keys, session, rotation, bet, told, history, faults>>

\* Mutation: the wallet address has no unique index.
CreateUserTwice(l) ==
  /\ LoginAt(l, "create")
  /\ user' = [user EXCEPT !.active = l]
  /\ audit' = [audit EXCEPT !.committed = @ \cup {l}]
  /\ login' = [login EXCEPT ![l].stage = "restore"]
  /\ UNCHANGED <<keys, session, rotation, bet, told, history, faults>>

(* createUserWithWallets: user, commitment and wallets in one transaction. *)
CreateUser(l) ==
  /\ LoginAt(l, "create") /\ user.active = NoSeed
  /\ user' = [user EXCEPT !.active = l]
  /\ audit' = [audit EXCEPT !.committed = @ \cup {l}]
  /\ login' = [login EXCEPT ![l].stage = "restore"]
  /\ UNCHANGED <<keys, session, rotation, bet, told, history, faults>>

(* Another sign-in has created the wallet since: its unique index makes    *)
(* the transaction roll back, and the answer is an error.                  *)
CreateRefused(l) ==
  /\ LoginAt(l, "create") /\ user.active # NoSeed
  /\ login' = [login EXCEPT ![l].stage = "over"]
  /\ UNCHANGED <<user, audit, keys, session, rotation, bet, told, history, faults>>

(* The seed in Redis, with the note whether it is the active one.          *)
SetSeed(s) ==
  /\ serverSeed' = s
  /\ outdated' = IF s = user.active THEN outdated ELSE outdated \cup {s}

\* Mutation: the nonces are set to 0 as well, although Redis holds them.
RestoreNonces(l) ==
  /\ LoginAt(l, "restore")
  /\ SetSeed(login[l].seed)
  /\ nonce' = [c \in Currencies |-> 0]
  /\ login' = [login EXCEPT ![l].stage = "session"]
  /\ UNCHANGED <<user, audit, session, rotation, bet, told, unreplaced, torn, clash,
                 faults>>

(* initUserRedisState: the seed is set whatever Redis holds; a nonce only  *)
(* if absent, which is a nonce of 0.                                       *)
RestoreSeed(l) ==
  /\ LoginAt(l, "restore")
  /\ SetSeed(login[l].seed)
  /\ login' = [login EXCEPT ![l].stage = "session"]
  /\ UNCHANGED <<user, audit, nonce, session, rotation, bet, told, unreplaced, torn,
                 clash, faults>>

SetSession(l) ==
  /\ LoginAt(l, "session")
  /\ session' = TRUE
  /\ login' = [login EXCEPT ![l].stage = "over"]
  /\ UNCHANGED <<user, audit, keys, rotation, bet, told, history, faults>>

Fault == faults < MaxFaults /\ faults' = faults + 1

(* A query or a command rejects, or the worker dies.                       *)
LoginFails(l) ==
  /\ InProgress(login[l].stage)
  /\ Fault
  /\ login' = [login EXCEPT ![l].stage = "over"]
  /\ UNCHANGED <<user, audit, keys, session, rotation, bet, told, history>>

-----------------------------------------------------------------------------
(* A rotation: POST /api/pf/rotate-seed.                                   *)

Goto(r, stage) == rotation' = [rotation EXCEPT ![r].stage = stage]

(* No session, the limiter, no seed in Redis, or no answer of the service  *)
(* that makes the new seed: the request ends before it changes anything.   *)
TurnAway(r) ==
  /\ RotationAt(r, "idle")
  /\ Goto(r, "over")
  /\ UNCHANGED <<user, audit, keys, session, login, bet, told, history, faults>>

(* The session is checked, the request admitted, and the seed read from    *)
(* Redis; bets that are being set up now overlap the rotation.             *)
ReadSeed(r) ==
  /\ RotationAt(r, "idle") /\ session /\ serverSeed # NoSeed
  /\ rotation' = [rotation EXCEPT ![r].stage = "update", ![r].seed = serverSeed]
  /\ bet' = [b \in Bets |-> [bet[b] EXCEPT !.during = @ \/ bet[b].stage = "seed"]]
  /\ UNCHANGED <<user, audit, keys, session, login, told, history, faults>>

(* updateServerSeed: unconditional.                                        *)
UpdateSeed(r) ==
  /\ RotationAt(r, "update")
  /\ user' = [active |-> r, previous |-> rotation[r].seed]
  /\ clash' = (clash \/ user.active # rotation[r].seed)
  /\ Goto(r, "reveal")
  /\ UNCHANGED <<audit, keys, session, login, bet, told, outdated, unreplaced, torn,
                 faults>>

\* Mutation: the WHERE clause forgets the commitment: every open row of
\* the player is revealed.
RevealAll(r) ==
  /\ RotationAt(r, "reveal")
  /\ audit' = [audit EXCEPT !.revealed = audit.committed]
  /\ Goto(r, "commit")
  /\ UNCHANGED <<user, keys, session, login, bet, told, history, faults>>

(* revealSeedInAudit: the open row of the commitment, if there is one.     *)
RevealSeed(r) ==
  /\ RotationAt(r, "reveal")
  /\ audit' = [audit EXCEPT !.revealed = @ \cup ({rotation[r].seed} \cap audit.committed)]
  /\ clash' = (clash \/ rotation[r].seed \notin audit.committed)
  /\ Goto(r, "commit")
  /\ UNCHANGED <<user, keys, session, login, bet, told, outdated, unreplaced, torn, faults>>

\* Mutation: the commitment of the replaced seed is inserted.
CommitOldSeed(r) ==
  /\ RotationAt(r, "commit")
  /\ audit' = [audit EXCEPT !.committed = @ \cup {rotation[r].seed}]
  /\ Goto(r, "swap")
  /\ UNCHANGED <<user, keys, session, login, bet, told, history, faults>>

(* insertSeedCommitment.                                                   *)
CommitSeed(r) ==
  /\ RotationAt(r, "commit")
  /\ audit' = [audit EXCEPT !.committed = @ \cup {r}]
  /\ Goto(r, "swap")
  /\ UNCHANGED <<user, keys, session, login, bet, told, history, faults>>

\* Mutation: Redis keeps its seed until the next sign-in.
SkipSwap(r) ==
  /\ RotationAt(r, "swap")
  /\ rotation' = [rotation EXCEPT ![r].stage = "reset", ![r].left = Currencies]
  /\ UNCHANGED <<user, audit, keys, session, login, bet, told, history, faults>>

(* The new seed is set in Redis, and the player's nonce keys are scanned.  *)
SwapSeed(r) ==
  /\ RotationAt(r, "swap")
  /\ SetSeed(r)
  /\ rotation' = [rotation EXCEPT ![r].stage = "reset", ![r].left = Currencies]
  /\ UNCHANGED <<user, audit, nonce, session, login, bet, told, unreplaced, torn, clash,
                 faults>>

(* One command of the pipeline that sets the nonces to 0; commands of      *)
(* others may come between two of them.                                    *)
ResetNonce(r, c) ==
  /\ RotationAt(r, "reset") /\ c \in rotation[r].left
  /\ nonce' = [nonce EXCEPT ![c] = 0]
  /\ rotation' = [rotation EXCEPT ![r].left = @ \ {c},
                                  ![r].stage = IF rotation[r].left = {c} THEN "respond"
                                               ELSE @]
  /\ UNCHANGED <<user, audit, serverSeed, session, login, bet, told, history, faults>>

(* Redis fails: that is logged, and the rotation goes on to its answer.    *)
RedisFails(r) ==
  /\ rotation[r].stage \in {"swap", "reset"}
  /\ Fault
  /\ unreplaced' = IF RotationAt(r, "swap") THEN unreplaced \cup {rotation[r].seed}
                                            ELSE unreplaced
  /\ Goto(r, "respond")
  /\ UNCHANGED <<user, audit, keys, session, login, bet, told, outdated, torn, clash>>

(* The player is told the replaced seed.                                   *)
Respond(r) ==
  /\ RotationAt(r, "respond")
  /\ told' = told \cup {rotation[r].seed}
  /\ Goto(r, "over")
  /\ UNCHANGED <<user, audit, keys, session, login, bet, history, faults>>

(* A query rejects and the answer is an error, or the worker dies: what    *)
(* was done before stays.                                                  *)
RotationFails(r) ==
  /\ InProgress(rotation[r].stage)
  /\ Fault
  /\ torn' = IF rotation[r].stage \in {"reveal", "commit"} THEN torn \cup {r} ELSE torn
  /\ Goto(r, "over")
  /\ UNCHANGED <<user, audit, keys, session, login, bet, told, outdated, unreplaced,
                 clash>>

-----------------------------------------------------------------------------
(* A bet: the escrow script and the GET of the seed are sent together, and *)
(* are two commands for Redis.                                             *)

TakeNonce(b, c) ==
  /\ bet[b].stage = "idle" /\ session
  /\ nonce' = [nonce EXCEPT ![c] = @ + 1]
  /\ bet' = [bet EXCEPT ![b] = [@ EXCEPT !.stage = "seed", !.currency = c,
                                        !.nonce = nonce'[c], !.during = Rotating]]
  /\ UNCHANGED <<user, audit, serverSeed, session, login, rotation, told, history, faults>>

(* The seed answers; the roll is a function of seed and nonce.             *)
Roll(b) ==
  /\ bet[b].stage = "seed"
  /\ bet' = [bet EXCEPT ![b].stage = "rolled", ![b].seed = serverSeed,
                        ![b].knew = serverSeed \in told]
  /\ UNCHANGED <<user, audit, keys, session, login, rotation, told, history, faults>>

-----------------------------------------------------------------------------
SignIn(l) ==
  \/ FindUser(l) \/ CreateUser(l) \/ CreateRefused(l) \/ RestoreSeed(l)
  \/ SetSession(l) \/ LoginFails(l)

Rotate(r) ==
  \/ TurnAway(r) \/ ReadSeed(r) \/ UpdateSeed(r) \/ RevealSeed(r) \/ CommitSeed(r)
  \/ SwapSeed(r) \/ (\E c \in Currencies : ResetNonce(r, c)) \/ RedisFails(r)
  \/ Respond(r) \/ RotationFails(r)

Bet(b) == (\E c \in Currencies : TakeNonce(b, c)) \/ Roll(b)

Next ==
  \/ \E l \in Logins : SignIn(l)
  \/ \E r \in Rotations : Rotate(r)
  \/ \E b \in Bets : Bet(b)

Spec == Init /\ [][Next]_vars

-----------------------------------------------------------------------------
(* Rows, keys and handlers are of the shapes the code gives them, and a    *)
(* handler that is under way carries a seed.                               *)
TypeOK ==
  /\ user \in [active : Seeds \cup {NoSeed}, previous : Seeds \cup {NoSeed}]
  /\ audit \in [committed : SUBSET Seeds, revealed : SUBSET Seeds]
  /\ serverSeed \in Seeds \cup {NoSeed}
  /\ nonce \in [Currencies -> Nat]
  /\ session \in BOOLEAN
  /\ login \in [Logins -> [stage : LoginStage, seed : Seeds \cup {NoSeed}]]
  /\ rotation \in [Rotations -> [stage : RotationStage, seed : Seeds \cup {NoSeed},
                                 left : SUBSET Currencies]]
  /\ \A l \in Logins : InProgress(login[l].stage) => login[l].seed \in Seeds
  /\ \A r \in Rotations : InProgress(rotation[r].stage) => rotation[r].seed \in Seeds
  /\ bet \in [Bets -> [stage : BetStage, currency : Currencies, nonce : Nat,
                       seed : Seeds \cup {NoSeed}, during : BOOLEAN, knew : BOOLEAN]]
  /\ told \subseteq Seeds
  /\ outdated \subseteq Seeds /\ unreplaced \subseteq Seeds /\ torn \subseteq Seeds
  /\ clash \in BOOLEAN
  /\ faults \in 0..MaxFaults

Rolled(b) == bet[b].stage = "rolled"

(* The active seed of PostgreSQL, from which a sign-in restores Redis, was *)
(* never revealed, to the player or in the audit: whatever rotations,      *)
(* sign-ins and failures overlap.                                          *)
ActiveSeedIsSecret == user.active \notin told \cup audit.revealed

(* Two rolls of a currency have the same seed and nonce, and so the same   *)
(* outcome for the same client seed, only if one of the bets overlapped a  *)
(* rotation (which swaps the seed before it resets the nonces), or the seed*)
(* was set in Redis when PostgreSQL had a newer one.                       *)
SameRoll(a, b) ==
  /\ bet[a].currency = bet[b].currency
  /\ bet[a].seed = bet[b].seed /\ bet[a].nonce = bet[b].nonce
RollsDiffer ==
  \A a, b \in Bets : /\ a # b /\ Rolled(a) /\ Rolled(b) /\ SameRoll(a, b)
                     => bet[a].during \/ bet[b].during \/ bet[a].seed \in outdated

(* A bet rolls with a seed the player was told before only if a handler    *)
(* had set that seed in Redis although PostgreSQL had a newer one, or its  *)
(* replacement in Redis had failed.                                        *)
ToldSeedsAreRetired ==
  \A b \in Bets : bet[b].knew => bet[b].seed \in outdated \cup unreplaced

(* Every roll's seed is committed to in the audit: or its rotation is about*)
(* to insert the commitment, or was cut off before it could.               *)
RolledSeedsAreCommitted ==
  \A b \in Bets : Rolled(b) =>
    \/ bet[b].seed \in audit.committed \cup torn
    \/ \E r \in Rotations : r = bet[b].seed /\ rotation[r].stage \in {"reveal", "commit"}

(* At rest the audit has one open commitment, that of the active seed, so  *)
(* that every earlier seed's rolls can be verified: unless a rotation was  *)
(* cut off before its commitment, or replaced a seed that was not active   *)
(* (two rotations read the same seed, or Redis had an old one), or one that*)
(* a sign-in had put into Redis before its commitment was inserted.        *)
AtRest == ~Rotating /\ \A l \in Logins : ~InProgress(login[l].stage)
OneOpenCommitment ==
  AtRest /\ user.active # NoSeed /\ torn = {} /\ ~clash
    => audit.committed \ audit.revealed = {user.active}

(* init-user-safe.lua:42: "Server seed always updated (managed by auth     *)
(* server, not race-prone)."  No bet rolls with a seed that a rotation has *)
(* revealed to the player before.                                          *)
NoRollWithToldSeed == \A b \in Bets : ~bet[b].knew
=============================================================================
