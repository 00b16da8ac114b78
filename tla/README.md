# DiceTilt in TLA+

Specifications of the parts of DiceTilt that move money or guard a limit, the
TLC configurations that check them on small instances, and TLAPS proofs of the
properties that matter most, for every size of the system. Paths below are
relative to the repository; `gateway` is `services/api-gateway/src`.

Run a check with `tlc -config BetEscrow.cfg MCBetEscrow`, the proofs with
`tlapm BetEscrowProofs.tla`. `PROJECT.json` maps every definition to the lines
it models and lists runs, mutants, findings, hazards and theorems.

## 1. The system

| Part | State it keeps | Operations | Talks to |
|---|---|---|---|
| Bet handler (`gateway/ws.handler.ts`, `lua/*.lua`) | in Redis: `balance`, `escrowed`, `nonce` per player and currency; in memory: the handlers' locals | place a bet, settle, release, dead-letter | Redis scripts, the provably-fair service (HTTP), Kafka `BetResolved` and the dead-letter topic |
| WebSocket slots (`ws.handler.ts`, `redis.service.ts`) | in Redis: `ws:conns:{user}` with a time to live; in memory: `clients` | reserve, register, release, flush at start | Redis |
| Cluster primary (`gateway/index.ts`) | the set of workers | fork, respawn, shut down | its workers |
| Ledger consumer (`services/ledger-consumer`) | PostgreSQL: a row per bet, deposit, withdrawal, and `wallets.balance`; at the brokers: committed offsets | insert a batch of bets, a deposit, a withdrawal; credit Redis | Kafka (three topics), PostgreSQL, Redis |
| Withdrawal route, payout worker | the Redis balance; the on-chain payout; a set of paid ids in memory | deduct, request, refund; pay, report | Redis, Kafka, the Treasury contract |
| EVM listener | `scanHead`, an epoch, a bounded set of transaction hashes | scan history, scan a block, reconnect, purge after a chain reset | the chain, Kafka, PostgreSQL |
| Seed rotation (`gateway/pf.routes.ts`) | the server seed in PostgreSQL and Redis, nonces, the commitment audit | rotate, reveal | provably-fair service, PostgreSQL, Redis |
| Authentication, hydration | challenges and sessions in Redis, users in PostgreSQL | challenge, verify, create or restore a player | PostgreSQL, Redis |
| Rate limiter (`rate-limit.lua`) | a counter per subject and window | count, refuse | Redis |
| Provably-fair service, live updates, Treasury, schema, frontend, monitoring | none of their own, or as named above | | |

What is hard in it:

* **Interleaving.** Every `await` of a handler is a point where another bet of
  the same player, on this worker or another, takes steps. Money is safe only
  as far as single Lua scripts make it so.
* **Calls that fail or are sent twice.** The Redis client gives up after some
  retries; it also sends again what was in flight when a connection dropped,
  and the scripts are not idempotent. Loops retry on top of that.
* **Nobody waits.** Settlement, release and the Kafka sends run after the
  player has the answer.
* **Crashes.** A worker takes its handlers with it; the primary forks another
  that knows nothing of them, and that begins by deleting the slot counters.
* **At-least-once delivery.** Offsets are resolved and committed by hand; the
  client resolves the end of a batch by itself; three topics are in no order
  with one another.

What makes each part correct: section 3 for the parts that are modelled, and
the plan (section 6) for the others. The hazards, each at its line with the
properties that cover it, are in `PROJECT.json`.

## 2. The modules

| Module | Models |
|---|---|
| `RedisWallet` | the three wallet scripts, each as one operator from wallet to wallet |
| `UnitSums` | the sum of a function, by counting |
| `BetEscrow` | a bet from the limiter to its end: handlers, Redis, producer, crashes |
| `WagerAccount` | the abstract account that `BetEscrow` implements |
| `WsSlots` | the handshake, the slot counter, flush, expiry, crashes |
| `LedgerConsumer` | topics, batches, offsets, both stores, every failure between them, and the login that restores a lost balance |
| `Withdrawal` | the withdrawal route, its message, the payout worker, the chain |
| `SeedRotation` | sign-ins, seed rotations and the rolls of bets; the commitment audit |
| `EvmListener` | the chain and its resets, the listener's connections and scans, the purge |
| `MCBetEscrow`, `MCWsSlots`, `MCLedgerConsumer`, `MCWithdrawal`, `MCSeedRotation`, `MCEvmListener` | instances for TLC (symmetry, amounts) |
| `UnitSumsProofs`, `BetEscrowProofs`, `BetAccountProofs`, `SeedRotationProofs`, `WsSlotsProofs`, `WithdrawalProofs`, `LedgerConsumerProofs`, `EvmListenerProofs` | theorems and proofs |

### Bet escrow: `RedisWallet`, `BetEscrow`, `WagerAccount`

One player, one currency: the keys of different players and currencies never
meet in a script. A handler is a process per bet; `pc` is where it stands:

    idle -> setup -> compute -> settle  -> settled | stuck
              |  |       +----> release -> refunded | abandoned
              |  +------------> release      (no seed)
              +-> rejected

`setup` is the `Promise.all` of the escrow script and the seed lookup, `compute`
the call of the provably-fair service, `settle` and `release` the two retry
loops. `rejected` also ends a bet whose setup failed *although its script ran*.
Any stage but an end may become `crashed`.

A Redis call is three steps: `call[b]` becomes `"sent"`, the server runs the
script (`RunEscrow`, `RunSettle`, `RunRelease`: the only actions that touch the
wallet), and the handler sees `"answered"`; or the client gives up
(`RejectCall`). `LoseReply` is the connection that drops after the script ran,
so that the client sends it once more; a call that is then rejected is one
whose caller believes it failed and which took effect. `runs` counts how often
each script took effect for a bet and exists only to state properties.

### WebSocket slots: `WsSlots`

One player. `stage[c]` follows the connection through the `AUTH` frame, the
session check and the reservation; `open` is whether its socket is still open,
which the asynchronous handshake does not look at again. The `close` handler
exists only from `Register` on, so a socket that closed before keeps its slot.
`FlushScan` and `FlushDelete` are the two halves of a starting worker's flush.
The deletion is not awaited by the code, but its own worker's later commands
use the same connection, so that only siblings come between: as in the model.
An absent key and a counter at zero are one state, as both scripts treat them.

A release is a call like any other: it runs (`RunRelease`), and its reply
arrives (`ReleaseReturns`) or is lost (`LoseReply`), upon which the client sends
it `again` and the script takes a slot that another connection holds (`doubles`
counts these). A granted reservation whose reply is lost runs again too, and
leaves its first slot taken; so do a release that rejects and a worker that dies
(`orphans` counts these slots, until the counter is wiped).

### Ledger: `LedgerConsumer`

One player and currency, so one partition per topic. `position` is what the
consumer has resolved, `committed` what the brokers keep; `Restart` forgets the
first. A batch is worked off slice by slice (bets) or message by message, with
the commit after each as a step of its own, so that a crash, an error or a lost
answer of PostgreSQL can come between any two of insert, credit, publish,
resolve and commit. `hot` is the player's balance in Redis, without the
wagers of open bets. The gateway's scripts move it: `Take` (a bet is escrowed, a
withdrawal deducted), `Settle`, and `GiveBack` (a release, a credit-back).
The handler of a bet starts its settlement and its message together and waits
for neither, so the message (`PublishTaken`) may reach the brokers, and be
recorded, before the settlement or after it; a withdrawal's comes when it is
mined, and may come although the amount was credited back. `marred` collects
the events whose handling failed or was cut off; `resent` the deposits whose
credit was sent twice.

Redis may lose the balance key (`LoseKey`). Three things put it back: the credit
of a deposit (`AddToRedis`, the absent branch of `DEPOSIT_CREDIT_LUA`); a
login, which reads PostgreSQL (`LoginReads`) and sets the key some awaits later
if it is absent then (`LoginRestores`); and a settlement, a release or a
credit-back, which take an absent balance for 0 and leave their own amount in
it (`AddBack`), so that no login restores the rest. `stale` records that what
was put back missed an event PostgreSQL had not seen, or saw only after the
login read, or was such an amount alone.

### Withdrawals: `Withdrawal`

Two processes and a topic between them. The route's handler of a request is in
`stage`: `new -> deduct -> produce -> accepted`, or `-> credit` when the send
rejects, or `over`. Its Redis calls are those of `BetEscrow`. A message on its
way is in `wire`, and is stored or dropped whatever its sender believes: a send
that rejects after, or before, the brokers store the message is the case the
code does not tell apart. The worker takes a request (`Begin`, or `Skip` when
`completedThisRun` has it) through `submit`, `wait` and `report`; an error
anywhere is swallowed and the message counts as handled. `committed` trails
`position`, so that a restart or a rebalance delivers again what was not
committed; a restart also empties `completedThisRun`. `txs` is the chain:
transactions pay or revert in the order of their nonces, whether or not the
worker still looks. `marred` are requests whose handling threw or was cut off.

### Seeds: `SeedRotation`

One player, since all keys and rows carry the user id. A sign-in goes `idle ->
(create ->) restore -> session -> over` through `upsertUserSessionByWallet`,
carrying the seed it read or made; a rotation goes `idle -> update -> reveal ->
commit -> swap -> reset -> respond -> over` through the route of `pf.routes.ts`,
one step per query and per Redis command, since bets of the player run on other
workers in between; a bet takes its nonce (the escrow script) and its seed (the
GET beside it) in two steps. A seed is named by the process that makes it. The
audit is two sets, committed and revealed: the schema's trigger lets a row be
revealed once and never deleted. `outdated`, `unreplaced`, `torn` and `clash`
record the overlaps and failures the properties except: a seed set in Redis
when PostgreSQL had another, a replacement in Redis that failed, a rotation
that was cut off before its commitment, and two rotations of the same seed.

### Deposits: `EvmListener`

`worker[e]` is what connection `e` (`listenerEpoch`) does: `head -> max
(-> delete -> sum -> commit) -> history`, then for each event of the scan
`each -> lookup -> send -> track`, and from then on `idle -> query -> each` for
each announced block. `poller` is the provider's poll: its first answer after
the block handler is registered is where it starts and is announced to nobody;
from then on it announces each number once (`Poll`), and the handler takes the
announcements in order (`Block`). A range whose query failed (`QueryFails`) is
therefore scanned again with the *next* block, not before. A connection that was
replaced (`Stale`) goes on until it
next looks at the epoch, at the same time as its successor. `purge` is the
transaction of `purgeStaleChainData` under PostgreSQL's READ COMMITTED: the
DELETE dooms the rows there are, the UPDATE sums what is committed when it
begins, and writes when it has the wallet's row. The ledger consumer may commit
in between; `exact` says whether it did. The ledger itself is two atomic steps
(`Record`, `RecordLoss`): its failures are in `LedgerConsumer`. The process may
also start on a database that has the row of a deposit of an earlier chain
(`LaterStart`), which is what the purge is for.

`excuse` says why a deposit was passed over since the head was last read. One of
the reasons, `remembered`, deserves notice: the memory of transactions survives
a reset of the chain, so that a deposit whose row was purged, or that is mined
anew under the same hash, is dropped until the process restarts, although the
purge is there to prevent just that (`evm-listener/src/index.ts:147-152`).
`NothingOverlooked` allows it after a reset only. Another, `astray`, is the time
between a reset and the next connection: a provider that polls over HTTP may
not notice the reset, and blocks at or below `scanHead` are not scanned.

## 3. The runs

| Run | Shows |
|---|---|
| `bet_escrow` | safety of the bet, with crashes, failing calls and one lost reply |
| `bet_reliable` | without lost replies: `BetEscrow` implements `WagerAccount`; every roll ends |
| `ws_slots` | the cap, the exactness of the counter, no slots taken for nobody, that slots come back |
| `ledger` | each event counts once, the stores agree at rest, nothing is passed over in silence, and under fairness every event gets its row or failed |
| `withdrawal` | nothing is paid that was not taken, twice only by redelivery; what was accepted is paid |
| `seed_rotation` | the active seed is secret, rolls differ, the audit is complete, up to named overlaps |
| `evm_listener` | each deposit counts once, none is overlooked without a reason, replaced handlers stop, every deposit is dealt with in the end or waits for the next block |
| `bet_stranded`, `ws_flush`, `ledger_commit`, `withdrawal_refunded`, `seed_returns` | a statement of the repository that the code does not keep (section 5) |

Properties of the bet. `EscrowBacked`: the escrow key is exactly the sum of
open wagers, so that the clamp `math.max(0, ...)` in the scripts never hides a
shortfall. `Conservation`: balance and escrow are the deposit plus what settled
bets won and lost. Both hold as long as no reply is lost; `DriftBounded` says
what a lost reply costs: at most one wager or payout each. `OneOutcome`: a bet
is never both paid and given back, and neither unless its wager was taken, lost
replies included. `NonceNeverReused`: no two rolls share a nonce.
`PublishedBetsCount`: what the ledger is told was wagered and not refunded.
`DeadLettersAreHeld`: who settles a dead letter by hand does not pay twice.
`ImplementsAccount` is the refinement; a bet's fate is read off the scripts that
took effect for it. `RolledBetsEnd` is liveness.

Properties of the slots. `CountIsHolders`: without faults and wipes the counter
is the number of connections that hold a slot. `CapHolds`: at most `Limit`
sockets, at most `Limit` more for each wipe of the counter (a flush or an
expiry), and one more for each release that ran twice. `NoPhantomSlots`: the
counter exceeds the holders by no more than the slots that faults left taken, so
that no path of the code counts a connection that was never let in, or counts
one twice. `SlotsReturn`: once the player's sockets have all closed, the counter
comes down to zero without the help of its time to live, unless a fault or a
socket that closed before its registration (`Stranded`) left a slot taken, or a
new socket opens.

Properties of the ledger. `CanonicalBalance` is the formula of `db/init.sql:29`.
`CreditedOnce`: Redis is credited for a deposit only after its row is written,
and once. `StoresConverge`: when every bet is settled or released, and every
message that is due was published and handled without a failure, both stores
hold the same balance, whatever the order of scripts and messages, and after a
loss of the Redis key too, unless what was put back was stale: the conditional
SET of `init-user-safe.lua` keeps a login from overwriting bets, it does not
make the balance it read complete, and it comes too late when a settlement has
created the key. A message that is never published, or a bet that is never
settled, is outside it: `BetEscrow` has those. `NothingPassedOver` and
`EventuallyRecorded`: an event that has no row in the end is one whose handling
failed, or that followed a failed slice in its batch. The weaker side of these
is deliberate: the consumer does not retry what failed (section 5), and the
properties say exactly what it loses.

Properties of withdrawals. `PaidWasTaken`: a payout on chain was deducted from
the balance before, by whatever path its message came. `PaidOncePerDelivery`:
the retries inside one delivery never pay twice, since only an error that
precedes the transaction is retried; so only a redelivery can. `PaidOncePerRun`:
within one run of the worker not even that, unless the first handling threw
(`completedThisRun` is told last, after the report: when the report's send
throws and the group rebalances before the commit, the same process does pay
twice, which the comment at `evm-payout-worker/src/index.ts:48` does not
mention). `ReportsArePaid` and `PaidIsReported`: the ledger hears exactly of
what was paid, as far as no handling threw. `AcceptedArePaid`: what was answered
with 202 is paid in the end, unless its handling threw or was cut off.

Properties of seeds. `ActiveSeedIsSecret`: whatever overlaps or fails, the seed
in PostgreSQL, which sign-ins restore and the next rotation commits to, was
never revealed. `RollsDiffer`: two rolls of one currency share seed and nonce
only if one of the bets overlapped a rotation (which swaps the seed before it
resets the nonces, so that a bet in between takes a nonce of the new seed that
comes round again) or the seed was set when it was outdated.
`ToldSeedsAreRetired`: no bet rolls with a seed the player had been told, but
for outdated seeds and failed replacements. `RolledSeedsAreCommitted` and
`OneOpenCommitment`: every roll can be verified against the audit, in which a
rotation that ran alone and to its end leaves one open row. All speak of one
currency: the nonces of two currencies run separately under one seed, so that a
bet in each with equal nonce and client seed rolls the same, by design.

Properties of deposits. `CanonicalBalance`: however often a deposit is published
the balance counts it once, and the purge writes what the rows add up to unless
the consumer committed in the middle of it, or the clamp at zero acted.
`NothingOverlooked`: at rest, every deposit up to the head has its row, is on
its way, or was passed over for a reason since the head was read: so a failed
scan is repeated, and the scan of history meets that of blocks without a gap.
`StaleHandlersStop`: a replaced connection publishes at most the deposit it had
in hand. `DepositsAreRecorded` is the same as `NothingOverlooked` for the whole
chain, in the end, but for the blocks above the head that wait for the next
block (`AwaitsBlock`): those the first poll found, or whose query failed. On the
development chain, which mines only when a transaction comes
(`docker/anvil-entrypoint.sh:9`), that may take until somebody makes one.

### Bounds

| Run | Instance | Why enough |
|---|---|---|
| `bet_escrow`, `bet_reliable` | 2 bets, 2 workers, wagers 1 and 2, payouts 0 and 3, deposit 2, 2 attempts, 1 or 0 lost replies | the balance covers one large or two small wagers, so that bets race and are refused; a payout differs from every wager; both retry and exhaustion occur; a crash hits one bet and spares the other. The theorems lift the bounds. |
| `ws_slots` | 3 connections, 2 workers, limit 1, 1 fault | the cap is reached and refused, a wiped counter lets a second connection in and a release of the first hits it; a release that is sent again takes the second's slot and lets the third in; workers start one after the other |
| `ledger` | 3 bets in slices of 2 (1 -> 2, 1 -> 1, 3 -> 0), a deposit of 1, a withdrawal of 3, opening balance 1, 1 login, 1 failure anywhere | a full and a partial slice, batches of any length, a duplicate by redelivery, a loss and a withdrawal that only winnings or the deposit cover, so that PostgreSQL refuses them when those are missing; a failed slice has one after it that it cuts off; the lost key is put back by the login, the deposit, a settlement, a release or a credit-back, before or after bets reach the ledger |
| `withdrawal` | 2 requests (1 and 2), opening balance 2, 1 process of the gateway, 1 retry, 1 fault (lost reply, restart or rebalance); rejected calls and sends, crashes of the gateway and swallowed errors without bound | one request is refused when the other holds its amount; both reach the worker when the first was credited back though its message was stored; one redelivery, in the same run or the next |
| `seed_rotation` | 2 sign-ins, 2 rotations, 2 bets, 2 currencies, 1 failure | two first sign-ins race for the row; a sign-in and a rotation, or two rotations, overlap in every order; two bets are the two sides of a repeated roll; the reset of the nonces is cut between two keys |
| `evm_listener` | 2 deposits of 1 and 2, opening balance 0, a chain of 2 blocks, a memory of 1 transaction, 3 epochs, 1 lost bet, 1 reset, 1 failure | the memory evicts; a scan has two events, so that a handler can be replaced between them; the reset goes to height 0 or 1 and deposits are mined anew in either order; 3 epochs are one reconnection (a lost connection counts twice); a block is found by the first poll or announced, and a query fails on the last block or before it; a lost bet takes the balance that a purge deletes, so that its clamp acts |

`MaxLostReplies`, `MaxFaults`, `MaxPublished`, `MaxLogins`, `MaxHeight`,
`MaxEpoch`, `MaxLost`, `MaxResets` and `MaxAttempts` appear in the
guards; the last is the program's own (`creditMaxAttempts`). The runs say
`CHECK_DEADLOCK FALSE` because players send finitely many bets, connections and
events, after which nothing is left to do.

### Fairness

`BetEscrow`: weak fairness of each handler (the event loop runs what is ready),
of each call (the server runs it or the client rejects it), of the seed's
answer and of each send (the producer delivers or rejects). None for a player,
a crash or a lost reply. `WsSlots`: handlers and Redis calls, nothing else: no
client, no start of a worker, no AUTH timer, and not the time to live of the
counter, which would bring it to zero whatever the handlers did.
`LedgerConsumer`: the consumer takes
a step when it has one, and its fetches come round to each topic (strong
fairness, since a fetch is possible only between two batches). `Withdrawal`: the
worker and the chain go on; the gateway and the brokers owe nothing, since
`AcceptedArePaid` begins with a message that is stored. `EvmListener`: the
process takes a step when it can (its timer fires, its calls are answered or
fail, its provider polls), and the consumer consumes. Nothing makes the chain
mine: no block is owed after the last one, so `DepositsAreRecorded` excepts what
waits for the next block instead of assuming that one comes. `SeedRotation` has no fairness; a request owes nothing after it ended.

## 4. What is proved

`BetEscrowProofs` proves, for any finite set of bets, any workers, wagers,
payouts, deposit, attempts and lost replies:

| Theorem | Property |
|---|---|
| `TypeCorrect` | `TypeOK` |
| `OneOutcomeHolds` | `OneOutcome` |
| `NoncesNeverReused` | `NonceNeverReused` |
| `PublishedBetsCounted` | `PublishedBetsCount` |
| `DeadLettersHeld` | `DeadLettersAreHeld` |
| `EscrowAlwaysBacked` | `EscrowBacked` |
| `MoneyConserved` | `Conservation` |

from `BetsAssumption` (finitely many bets), `AmountsAssumption` (wagers are
positive, payouts and the deposit natural numbers) and `BoundsAssumption`.

None of the properties is inductive by itself. `EscrowBacked` fails in one step
from a state where a settlement is outstanding for a bet that was settled
already, or where the escrow script of a granted bet is outstanding still. The
inductive invariant `Inv` therefore adds what makes such states unreachable:

* `StageInv`: which scripts can have run, and whether a call can be
  outstanding, by the stage of the handler;
* `NonceInv`: granted bets hold different nonces, all at most the counter;
* `MessageInv`: what a message in flight or delivered says of its bet;
* `FreshInv`: without lost replies, an outstanding script has not run yet.

`Control` is these with `TypeOK`; `Inv` adds the two sums. The proof that a
step preserves a conjunct has a step per action. The sums are changed by the
three scripts only (`QuietStep` for all others); `NoClamp` is the heart of it:
a held wager is at most the escrow key, because the key is a sum that contains
it, so the clamp does not act and the subtraction is exact. Sums are
cardinalities of sets of units (`UnitSums`), about which `UnitSumsProofs` shows
what is needed: a sum is a natural number, changes by what one summand changes,
is at least each summand, and over two disjoint sets is the sum of both. It also
holds the facts that a finite set of numbers has a least and a greatest.

`BetAccountProofs` goes on from there.

| Theorem | States | Hypotheses beside those of `BetEscrowProofs` |
|---|---|---|
| `Refinement` | `Spec /\ [](lost = 0) => ImplementsAccount` | none |
| `ReliableRefinement` | `Spec => ImplementsAccount` | no reply can be lost (`MaxLostReplies = 0`) |
| `DriftIsBounded` | `Spec => []DriftBounded` | there is an upper limit on the amounts |

The refinement does not hold with lost replies, which is the point of
`bet_escrow`: a script that runs twice takes what the account takes once.
`ScriptOrStill` divides the steps: a step runs one script, or leaves wallet and
history alone (`Still`), which is a stutter of the account. `EscrowReserves`,
`SettlePays` and `ReleaseRefunds` map each script to its action of
`WagerAccount`; they need the wallet to hold exactly what the history says
(`Invariance`, with `NoClamp`), and `PlacedInv`: the amounts a handler has in
hand are those of its bet.

`DriftBounded` allows one largest amount of error per lost reply. It is far from
inductive: when a reply is lost nothing has drifted yet; the error comes with
the second run of the script, or, because the clamp of `settle-bet.lua` hides
the difference for a time, only when the escrow key has run out under wagers
that are still held. `DriftInv` therefore counts three things together. `Due` is
the lost replies whose second run is over or never comes; `Shortfall` is by how much the held
wagers exceed the escrow key; and `Drift`, with the shortfall counted as drift
already, stays within `Due` amounts. A lost reply raises `lost` and the calls yet
to be repeated (`Repeats`) alike; a second run moves one from `Repeats` to
`Due`; a clamped payment turns shortfall into drift. An upper limit on amounts
exists in the code (`src/packages/shared-types/src/validation.ts:9` allows no
wager above 50, which bounds the payouts), and for any finite sets of amounts.

`SeedRotationProofs` proves every invariant of the run `seed_rotation`, for any
sign-ins, rotations, bets, currencies and number of failures:

| Theorem | Property |
|---|---|
| `SeedTypesCorrect` | `TypeOK` |
| `ActiveSeedStaysSecret` | `ActiveSeedIsSecret` |
| `ToldSeedsStayRetired` | `ToldSeedsAreRetired` |
| `RolledSeedsCommitted` | `RolledSeedsAreCommitted` |
| `RollsAreDifferent` | `RollsDiffer` |
| `AuditIsComplete` | `OneOpenCommitment` |

from `ProcessesAssumption` (a fresh seed is named by the process that makes it,
so that two processes never make the same), `CurrenciesAssumption` (there is a
currency) and `BoundsAssumption`. Here too the properties rest on what handlers
carry between two of their steps:

* `FreshInv`: nobody holds the seed of a rotation that has not yet updated the
  row, so that `UpdateSeed` never makes a revealed seed the active one;
* `StartInv` and `SessionInv`: no rotation and no bet before the player's row,
  the session and the seed in Redis are there;
* `SecretInv`: a seed that a rotation is about to reveal is not the active one;
* `RetiredInv`: the seed left in Redis when a rotation answers is not the one
  it tells, unless an outdated sign-in put it there or the swap failed;
* `CoveredInv`: seeds in the row, in Redis, in a sign-in that restores and in a
  roll are committed to, or their rotation is on its way to the commitment;
* `AuditInv`: counting, from the update of the row on, the replaced seed as
  closed and the new one as committed to, the active seed is the one that is
  open: the four steps of a rotation count as one;
* `RollInv`: a bet that overlaps no rotation has its nonce and its seed while
  no rotation is under way; and once a rotation resets the nonces, such a bet's
  seed is neither active nor, unless outdated, in Redis;
* `NonceInv`: while its seed is in use, such a bet's nonce is at most the
  counter, so the next bet draws another.

`WsSlotsProofs` proves the invariants of the run `ws_slots`, for any finite set
of connections, any workers, limit and number of faults: `SlotTypesCorrect`
(`TypeOK`), `CountStaysExact` (`CountIsHolders`), `PhantomsBounded`
(`NoPhantomSlots`) and `CapAlwaysHolds` (`CapHolds`), from `ConnsAssumption` and
`LimitAssumption`. `CapHolds` speaks of
open sockets, but a slot is held before (granted) and after (being released)
too, and only the bound on all holders is inductive: there are at most
`count + Limit * wipes + doubles` (`SlotInv`), since a wipe forgets at most
`Limit` of them and a release that runs twice one. `CallInv` (a call belongs to the stage its handler waits in) says that a
connection holds a slot in one way at a time.

`WithdrawalProofs` proves the invariants of the run `withdrawal`, for any finite
set of requests, any amounts, processes, retries and faults, from the
assumptions of `Withdrawal`:

| Theorem | Property |
|---|---|
| `PayoutTypesCorrect` | `TypeOK` |
| `PayoutsWereTaken` | `PaidWasTaken` |
| `DeliveriesPayOnce` | `PaidOncePerDelivery` |
| `RunsPayOnce` | `PaidOncePerRun` |
| `ReportsWerePaid` | `ReportsArePaid` |
| `PayoutsAreReported` | `PaidIsReported` |

A step is the route's or the worker's (`StepKinds`), and neither touches the
other's state beyond the topic: so the invariant has a part for the route and
parts for the worker. `TakenInv` follows an amount from the granted deduction
along the message to the transaction. `HandlerInv` says what a handler has in
hand between its awaits. `OnceInv` is what makes `completedThisRun` work: a
transaction of this run is in hand, or its request is known to the run, or is
marred; so a handler that is about to submit for a request that is not marred
has no transaction of this run behind it. `DeliveryInv` gives a delivery that
has not submitted yet one transaction to its credit. Both speak of all
transactions, the reverted ones too, which the worker does not tell apart when
it submits.

`LedgerConsumerProofs` proves the invariants of the run `ledger`, for any finite
set of events, any amounts, and any number of copies, restarts and faults, from
`EventsAssumption`, `AmountsAssumption` and `BoundsAssumption`:

| Theorem | Property |
|---|---|
| `TypeCorrect` | `TypeOK` |
| `BalanceIsCanonical` | `CanonicalBalance` |
| `NothingIsPassedOver` | `NothingPassedOver` |
| `DepositsCreditedOnce` | `CreditedOnce` |
| `StoresAgree` | `StoresConverge` |

`TypeOK` says more than shapes here: that the balance is a natural number rests
on the CHECK of the table. `CanonicalBalance` is inductive with the types, by
the unique keys: an insert of an event that has a row changes nothing. The
others are not. A batch carries an event from insert to credit to commit, and
may be cut off at each: `BatchInv` keeps it within its topic, `PassedInv` says
of the offset *in memory* and of the next message in hand what
`NothingPassedOver` says of the committed one, and `CreditInv` that a deposit
about to be credited was not credited before (the row, new in this handling, is
what tells). `StoresConverge` compares two stores that no step changes together;
the proof gives each its own account. `HotInv`: unless something went wrong,
Redis holds the opening balance, what was settled or credited, less what was
taken and not given back. `CanonicalBalance`: PostgreSQL holds the sum of the
rows. `RowsInv`: the rows are among what was taken or credited, but for the
deposit in hand and those that failed; `PublishedInv`: and among what was
published. When everything is consumed and no bet is open, these are the same
events: a taken event that was not given back has its row (`PassedInv`), one
that was given back was not published and has none, and a bet that has a row was
settled.

`EvmListenerProofs` proves the invariants of the run `evm_listener`, for any
deposits and amounts, any height, connections, cache size, resets and faults,
from `DepositsAssumption`, `AmountsAssumption` and `BoundsAssumption`:

| Theorem | Property |
|---|---|
| `TypeCorrect` | `TypeOK` |
| `BalanceIsCanonical` | `CanonicalBalance` |
| `ScansAreComplete` | `NothingOverlooked` |
| `StaleHandlersEnd` | `StaleHandlersStop` |

`NothingOverlooked` speaks of the current connection when it is idle. Its
inductive form `ScanInv` follows a connection through its scan: of the blocks up
to its head, what is not accounted for (published, recorded or excused) is among
its tasks. Two further parts carry the excuse `remembered`, which counts only
after a reset of the chain. Without one, what the cache remembers was
published (`MemoryInv`), and a purge never begins, because no report speaks of a
block beyond the head that the connection read (`HeightInv`, across all
connections, the replaced ones included), which needs that no block is announced
that the chain has not (`ToldInv`: only the current connection is polled for,
and what it was told dates from after its head was read). `EpochInv` says that only the current
connection is not yet live, and `LateInv` that a replaced one which published
has that event in hand and takes up no other.

Every safety property of the passing runs and the refinement are thus stated by
a theorem. Only model-checked are the five liveness properties (`RolledBetsEnd`,
`SlotsReturn`, `EventuallyRecorded`, `AcceptedArePaid`,
`DepositsAreRecorded`): the prover does not handle fairness and `ENABLED`. The
runs that expect a violation have nothing to prove.

## 5. Where the code differs from what the repository says

* `bet_stranded`. README.md:60 says wagers are released on error, that a release
  that fails goes to the dead-letter queue, and that no funds vanish silently.
  When the seed lookup fails, the handler rejects the bet without looking at
  the escrow script, which ran or will run: its wager stays in escrow and no
  message tells of it. (A release whose attempts are spent ends the same way:
  `releaseEscrowWithRetry` logs and returns; only a failed *settlement* is
  dead-lettered.)
* `ws_flush`. `redis.service.ts:308` says no connection exists when counters
  are flushed. Each worker flushes, respawned ones included.
* `ledger_commit`. kafka-event-topology.md:320 says offsets are committed only
  after the insert. The offset of a failed message is not resolved, but the
  next success, or the end of the batch, resolves past it. The run shows it
  without any fault: a loss or a withdrawal that only winnings cover is
  published before the bet that won them, the balance CHECK refuses it, and it
  is never tried again.
* `withdrawal_refunded`. `withdraw.routes.ts:96` says that the withdrawal whose
  publish failed never reached the payout worker. A send also rejects when the
  acknowledgement is lost after the brokers stored the message: the amount is
  credited back and paid on chain. No fault of the worker or of Redis is needed.
* `seed_returns`. `init-user-safe.lua:42` says the seed's update is not
  race-prone. A sign-in that read the seed before a rotation sets it in Redis
  after the rotation revealed it; bets then roll with a seed the player knows,
  until the next sign-in or rotation.

## 6. Plan

What is left, in this order.

1. An abstract `Payout` (a request is deducted, then paid once, credited back or
   forfeited) that `Withdrawal` implements without restarts and with sends that
   reject only what was not stored.
2. `EvmListener` composed with `LedgerConsumer`, in place of the atomic `Record`
   of the one and the `PublishDeposit` of the other.

## 7. What is not modelled

Not modelled by intent: the provably-fair hash (stateless; its answer and its
failure are in `BetEscrow`), live updates (no stored state), schemas, logging,
metrics, configuration, the frontend, containers and dashboards, development
routes. Amounts are whole units: the rounding of Lua's `tostring` is not
modelled. A graceful shutdown of a worker is not told apart from its death.
In `LedgerConsumer`: malformed messages (skipped by the code with their offset
resolved), the first start of a consumer group, lost replies of the gateway's
scripts (in `BetEscrow` and `Withdrawal`), and the escrow key, whose loss the
clamps of the scripts hide. In `SeedRotation`: the expiry of challenges and
sessions, and the loss of Redis keys; a nonce key that is lost while the seed
stays begins again at 0 (`init-user-safe.lua:25`), so that rolls repeat without
any rotation, which `RollsDiffer` therefore does not show to be impossible. In
`EvmListener`: the withdrawals the purge deletes with the deposits (their rows
are gone and their amounts return to the balance, as with deposits), and the
balance in Redis, which the purge does not touch. The rate limiter is not
modelled beyond its refusal: its window of twice the rate at a boundary is
accepted in `documentation/database-schema.md:414`.
In `Withdrawal`: malformed messages and requests of another chain (skipped by
the worker), and the bets that share the balance. The behaviour of the Redis
and Kafka clients (`LoseReply`, `RejectCall`, `Fetch`, `BatchReturns`, `Commit`
of `Withdrawal`, `Rejoin`) is modelled from their use in the code and marked external.
