------------------------------- MODULE WsSlots -------------------------------
(***************************************************************************)
(* The cap on a player's WebSocket connections.  The gateway's workers     *)
(* share a Redis counter, ws:conns:{userId}: a connection reserves a slot  *)
(* during its handshake (ws-conn-reserve.lua) and gives it back when its   *)
(* socket closes (ws-conn-release.lua).  A worker that starts deletes the  *)
(* counters it finds, and each counter expires some time after the last    *)
(* reservation.                                                            *)
(*                                                                         *)
(* One player.  The handshake is asynchronous: the socket may close, its   *)
(* worker die or the counter be wiped between any two of its steps.  Redis *)
(* calls are sent, run and answered as in BetEscrow: when a reply is lost, *)
(* the client sends the call again, and its script runs twice.  The        *)
(* deleted or expired key and the counter 0 are the same state, as both    *)
(* scripts make them.                                                      *)
(***************************************************************************)
EXTENDS Integers, FiniteSets

CONSTANTS
  Conns,       \* the connections the player opens
  Workers,     \* the processes of the gateway's cluster
  Limit,       \* config.maxWsConnectionsPerUser
  MaxFaults    \* bound: lost replies, failed releases and worker crashes

ASSUME ConnsAssumption == IsFiniteSet(Conns)
ASSUME LimitAssumption == Limit \in Nat \ {0} /\ MaxFaults \in Nat

VARIABLES
  count,    \* the counter in Redis, 0 when the key is absent
  stage,    \* where the handshake of each connection stands
  open,     \* the connections whose socket is open
  host,     \* the worker that serves each connection
  call,     \* each connection's Redis script call
  worker,   \* the workers: "starting", "scanned" or "up"
  faults,   \* history: lost replies, failed releases and crashes
  wipes,    \* history: times a counter above 0 was deleted or expired
  doubles,  \* history: slots taken by a release that ran a second time
  orphans   \* history: slots that faults left taken, since the last wipe

strays == <<doubles, orphans>>
vars == <<count, stage, open, host, call, worker, faults, wipes, strays>>

-----------------------------------------------------------------------------
Stage == {"none", "auth", "session", "reserve", "live", "gone"}
CallState == {"none", "reserve", "granted", "denied", "failed", "release", "released",
              "again"}
NoWorker == "none"

(* The connections in the worker's client map whose socket is open.        *)
Live == {c \in Conns : stage[c] = "live" /\ c \in open}

(* Connections that hold a slot: granted, registered, or closed with the   *)
(* release still on its way.                                               *)
Holders == {c \in Conns : call[c] \in {"granted", "release"} \/ stage[c] = "live"}

(* Registered although the socket had closed: nothing releases the slot.   *)
Stranded == {c \in Conns : stage[c] = "live" /\ c \notin open}

Init ==
  /\ count = 0
  /\ stage = [c \in Conns |-> "none"]
  /\ open = {}
  /\ host = [c \in Conns |-> NoWorker]
  /\ call = [c \in Conns |-> "none"]
  /\ worker = [w \in Workers |-> "starting"]
  /\ faults = 0
  /\ wipes = 0
  /\ doubles = 0 /\ orphans = 0

Enter(c, s) == stage' = [stage EXCEPT ![c] = s]
Call(c, s) == call' = [call EXCEPT ![c] = s]

(* The worker closes the socket: ws.close().                               *)
HangUp(c) == Enter(c, "gone") /\ open' = open \ {c}

-----------------------------------------------------------------------------
(* The handshake.                                                          *)

Connect(c, w) ==
  /\ stage[c] = "none" /\ worker[w] = "up"
  /\ Enter(c, "auth")
  /\ open' = open \cup {c}
  /\ host' = [host EXCEPT ![c] = w]
  /\ UNCHANGED <<count, call, worker, faults, wipes, strays>>

(* The timer for the AUTH frame fires, or the frame is not one that        *)
(* verifies.                                                               *)
AuthFails(c) ==
  /\ stage[c] = "auth" /\ c \in open
  /\ HangUp(c)
  /\ UNCHANGED <<count, host, call, worker, faults, wipes, strays>>

AuthFrame(c) ==
  /\ stage[c] = "auth" /\ c \in open
  /\ Enter(c, "session")
  /\ UNCHANGED <<count, open, host, call, worker, faults, wipes, strays>>

(* checkSession: the session is active, and a slot is asked for.           *)
SessionActive(c) ==
  /\ stage[c] = "session"
  /\ Enter(c, "reserve")
  /\ Call(c, "reserve")
  /\ UNCHANGED <<count, open, host, worker, faults, wipes, strays>>

SessionRefused(c) ==
  /\ stage[c] = "session"
  /\ HangUp(c)
  /\ UNCHANGED <<count, host, call, worker, faults, wipes, strays>>

(* A slot was granted: the connection enters the client map and only now   *)
(* gets the handler that will release the slot.  A socket that closed in   *)
(* the meantime does not emit `close` again.                               *)
Register(c) ==
  /\ stage[c] = "reserve" /\ call[c] = "granted"
  /\ Enter(c, "live")
  /\ Call(c, "none")
  /\ UNCHANGED <<count, open, host, worker, faults, wipes, strays>>

\* Mutation: every refused connection releases a slot, which it never had.
TurnAwayReleasing(c) ==
  /\ stage[c] = "reserve" /\ call[c] \in {"denied", "failed"}
  /\ HangUp(c)
  /\ Call(c, "release")
  /\ UNCHANGED <<count, host, worker, faults, wipes, strays>>

(* Over the limit, or the call rejected (fail closed).                     *)
TurnAway(c) ==
  /\ stage[c] = "reserve" /\ call[c] \in {"denied", "failed"}
  /\ HangUp(c)
  /\ Call(c, "none")
  /\ UNCHANGED <<count, host, worker, faults, wipes, strays>>

\* Mutation: the close handler only forgets the connection.
PeerClosesNoRelease(c) ==
  /\ c \in open
  /\ open' = open \ {c}
  /\ IF stage[c] \in {"live", "auth"} THEN Enter(c, "gone") ELSE UNCHANGED stage
  /\ UNCHANGED <<count, host, call, worker, faults, wipes, strays>>

(* The socket closes.  The handler of a registered connection releases its *)
(* slot, without waiting; the handler of a handshake still under way does  *)
(* not notice.                                                             *)
PeerCloses(c) ==
  /\ c \in open
  /\ open' = open \ {c}
  /\ CASE stage[c] = "live" -> Enter(c, "gone") /\ Call(c, "release")
       [] stage[c] = "auth" -> Enter(c, "gone") /\ UNCHANGED call
       [] OTHER             -> UNCHANGED <<stage, call>>
  /\ UNCHANGED <<count, host, worker, faults, wipes, strays>>

-----------------------------------------------------------------------------
(* Redis.                                                                  *)

\* Mutation: the limit is compared before the increment.
OverLimitBefore(n) == n > Limit

OverLimit(n) == n + 1 > Limit

\* Mutation: the INCR of a refused reservation is not undone.
RunReserveKeeping(c) ==
  /\ call[c] = "reserve"
  /\ Call(c, IF OverLimit(count) THEN "denied" ELSE "granted")
  /\ count' = count + 1
  /\ UNCHANGED <<stage, open, host, worker, faults, wipes, strays>>

(* ws-conn-reserve.lua: the INCR of a reservation over the limit is undone.*)
RunReserve(c) ==
  /\ call[c] = "reserve"
  /\ IF OverLimit(count) THEN Call(c, "denied") /\ UNCHANGED count
                         ELSE Call(c, "granted") /\ count' = count + 1
  /\ UNCHANGED <<stage, open, host, worker, faults, wipes, strays>>

\* What ws-conn-release.lua leaves: nothing is taken from an absent counter.
Take(n) == IF n > 0 THEN n - 1 ELSE 0

(* ws-conn-release.lua.  When it runs a second time it takes the slot of   *)
(* another connection.                                                     *)
RunRelease(c) ==
  /\ call[c] \in {"release", "again"}
  /\ Call(c, "released")
  /\ count' = Take(count)
  /\ doubles' = IF call[c] = "again" /\ count > 0 THEN doubles + 1 ELSE doubles
  /\ UNCHANGED <<stage, open, host, worker, faults, wipes, orphans>>

ReleaseReturns(c) ==
  /\ call[c] = "released"
  /\ Call(c, "none")
  /\ UNCHANGED <<count, stage, open, host, worker, faults, wipes, strays>>

(* The reply of a script is lost, and the client sends the call again: a   *)
(* reservation that was granted leaves its first slot taken.               *)
LoseReply(c) ==
  /\ call[c] \in {"granted", "denied", "released"} /\ faults < MaxFaults
  /\ Call(c, IF call[c] = "released" THEN "again" ELSE "reserve")
  /\ faults' = faults + 1
  /\ orphans' = IF c \in Holders THEN orphans + 1 ELSE orphans
  /\ UNCHANGED <<count, stage, open, host, worker, wipes, doubles>>

(* The retries of a reservation are spent.                                 *)
RejectReserve(c) ==
  /\ call[c] = "reserve"
  /\ Call(c, "failed")
  /\ UNCHANGED <<count, stage, open, host, worker, faults, wipes, strays>>

(* A release rejects: it is logged, and a slot it had not given back yet   *)
(* stays taken.                                                            *)
RejectRelease(c) ==
  /\ call[c] \in {"release", "again"} /\ faults < MaxFaults
  /\ Call(c, "none")
  /\ faults' = faults + 1
  /\ orphans' = IF c \in Holders THEN orphans + 1 ELSE orphans
  /\ UNCHANGED <<count, stage, open, host, worker, wipes, doubles>>

Wipe ==
  /\ count' = 0
  /\ wipes' = IF count > 0 THEN wipes + 1 ELSE wipes
  /\ orphans' = 0

(* The counter's time to live runs out: every successful reservation       *)
(* restarted it, no connection that merely lasts does.                     *)
Expire ==
  /\ count > 0
  /\ Wipe
  /\ UNCHANGED <<stage, open, host, call, worker, faults, doubles>>

-----------------------------------------------------------------------------
(* Workers.  flushStaleWsConnCounters scans for counters, and deletes what *)
(* the scan has found; then the worker listens.                            *)

FlushScan(w) ==
  /\ worker[w] = "starting"
  /\ worker' = [worker EXCEPT ![w] = IF count > 0 THEN "scanned" ELSE "up"]
  /\ UNCHANGED <<count, stage, open, host, call, faults, wipes, strays>>

FlushDelete(w) ==
  /\ worker[w] = "scanned"
  /\ worker' = [worker EXCEPT ![w] = "up"]
  /\ Wipe
  /\ UNCHANGED <<stage, open, host, call, faults, doubles>>

(* The scan or the deletion fails: logged, and the worker starts anyway.   *)
FlushFails(w) ==
  /\ worker[w] \in {"starting", "scanned"}
  /\ worker' = [worker EXCEPT ![w] = "up"]
  /\ UNCHANGED <<count, stage, open, host, call, faults, wipes, strays>>

(* Worker w dies with its sockets and calls; the primary forks another.    *)
Crash(w) ==
  LET here == {c \in Conns : host[c] = w}
  IN /\ worker[w] = "up" /\ faults < MaxFaults
     /\ worker' = [worker EXCEPT ![w] = "starting"]
     /\ stage' = [c \in Conns |-> IF c \in here THEN "gone" ELSE stage[c]]
     /\ open' = open \ here
     /\ call' = [c \in Conns |-> IF c \in here THEN "none" ELSE call[c]]
     /\ faults' = faults + 1
     /\ orphans' = orphans + Cardinality(Holders \cap here)
     /\ UNCHANGED <<count, host, wipes, doubles>>

-----------------------------------------------------------------------------
Handshake(c) ==
  SessionActive(c) \/ SessionRefused(c) \/ Register(c) \/ TurnAway(c)

Redis(c) == \/ RunReserve(c) \/ RunRelease(c) \/ ReleaseReturns(c)
            \/ RejectReserve(c) \/ RejectRelease(c)

Start(w) == FlushScan(w) \/ FlushDelete(w) \/ FlushFails(w)

Next ==
  \/ \E c \in Conns, w \in Workers : Connect(c, w)
  \/ \E c \in Conns : \/ AuthFails(c) \/ AuthFrame(c) \/ Handshake(c)
                      \/ PeerCloses(c) \/ Redis(c) \/ LoseReply(c)
  \/ \E w \in Workers : Start(w) \/ Crash(w)
  \/ Expire

Spec == Init /\ [][Next]_vars

(* Handlers run, and Redis answers or the client gives up.  Clients, the   *)
(* workers' starts and the time to live owe nothing.                       *)
Fairness == \A c \in Conns : WF_vars(Handshake(c)) /\ WF_vars(Redis(c))

FairSpec == Spec /\ Fairness

-----------------------------------------------------------------------------
(* The counter stays within the limit, and so on.                          *)
TypeOK ==
  /\ count \in 0..Limit
  /\ stage \in [Conns -> Stage]
  /\ open \subseteq Conns
  /\ host \in [Conns -> Workers \cup {NoWorker}]
  /\ call \in [Conns -> CallState]
  /\ worker \in [Workers -> {"starting", "scanned", "up"}]
  /\ faults \in 0..MaxFaults
  /\ wipes \in Nat /\ doubles \in Nat /\ orphans \in Nat

(* Without faults and wipes the counter is the number of holders: no       *)
(* interleaving of handshakes and closing sockets counts one twice or      *)
(* releases the slot of another.                                           *)
CountIsHolders == faults = 0 /\ wipes = 0 => count = Cardinality(Holders)

(* The cap: no more than Limit sockets are served at once, but for two     *)
(* causes.  Each wipe of the counter lets in at most Limit more, however   *)
(* the releases of connections from before it hit the new counter; and     *)
(* each release that ran a second time lets in one.                        *)
CapHolds == Cardinality(Live) <= Limit * (1 + wipes) + doubles

(* No phantom slots (config.ts:60): beyond the connections that hold one,  *)
(* the counter counts only what a fault left taken - one slot for a        *)
(* granted reservation or a release that was cut off, and what a worker    *)
(* held that died - and a wipe forgets those.                              *)
NoPhantomSlots == count <= Cardinality(Holders) + orphans

(* A player whose sockets have all closed gets every slot back without     *)
(* waiting for the time to live, unless a fault left one taken or a socket *)
(* closed before its registration.                                         *)
SlotsReturn ==
  (open = {}) ~> (count = 0 \/ open # {} \/ orphans > 0 \/ Stranded # {})

(* redis.service.ts:308 says flushing is safe because "No in-flight        *)
(* connections exist yet (container just started)".  Each worker flushes,  *)
(* its siblings may serve connections already.                             *)
FlushFindsNoConnections == [][\A w \in Workers : FlushDelete(w) => Live = {}]_vars
=============================================================================
