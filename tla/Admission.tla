----------------------------- MODULE Admission -----------------------------
(***************************************************************************)
(* The shared admission authority of a public worker                       *)
(* (drift/server/admission.py) and the inference streams of the connection *)
(* handlers that use it (drift/server/handler.py, rpc_inference and        *)
(* _managed_session).                                                      *)
(*                                                                         *)
(* The records live in a manager process behind one lock, so what is done  *)
(* under the lock is one step.  What is done before it is a step of its    *)
(* own: the clock is read before the lock is asked for.  Taking the lock   *)
(* may time out, which happens at most MaxFaults times in a behaviour.     *)
(*                                                                         *)
(* A session costs Unit tokens; rates are tokens per tick of the clock.    *)
(* A route's random generation token is the identity of its stream.        *)
(***************************************************************************)
EXTENDS Integers, FiniteSetsExt

CONSTANTS Streams, Peers, SessionNames, NoName,
          MaxActive, MaxPerPeer, MaxTracked, PeerTtl,
          Unit, GlobalRate, GlobalBurst, PeerRate, PeerBurst,
          MaxClock,   \* bound: last instant
          MaxStall,   \* bound: ticks between reading the clock and holding the lock
          MaxLockFaults   \* bound: lock timeouts

(* What AdmissionPolicy accepts.                                           *)
ASSUME PolicyAssumption ==
  /\ {MaxActive, MaxPerPeer, MaxTracked, Unit, GlobalRate, GlobalBurst,
      PeerRate, PeerBurst, PeerTtl} \subseteq Nat \ {0}
  /\ MaxPerPeer <= MaxActive /\ MaxActive <= MaxTracked
  /\ PeerTtl * PeerRate >= PeerBurst * Unit

PeerRecord == [active : Nat, tokens : Nat, updated : Nat, seen : Nat]

ASSUME BoundsAssumption ==
  /\ {MaxClock, MaxStall, MaxLockFaults} \subseteq Nat
  /\ IsFiniteSet(Streams) /\ IsFiniteSet(Peers) /\ IsFiniteSet(SessionNames)
  /\ NoName \notin Streams \cup Peers /\ NoName \notin PeerRecord

VARIABLES
  clock,    \* time.monotonic()
  health,   \* the health record, written outside the lock
  global,   \* the aggregate record
  peers,    \* the record of each tracked peer
  routes,   \* the stream registered under each session name
  streamPc, peer, \* of each stream: where it is, who opened it
  opened,   \* of each stream: the instant acquire read
  closed,   \* of each stream: the instant _release read
  lockFaults

admissionVars == <<clock, health, global, peers, routes, streamPc, peer, opened, closed, lockFaults>>

Healthy == health /\ global.healthy
Tracked == {p \in Peers : peers[p] # NoName}
Routed == {n \in SessionNames : routes[n] # NoName}

StreamGoto(s, p) == streamPc' = [streamPc EXCEPT ![s] = p]

(* Streams that hold a lease the records have to show.                     *)
HasLease == {"leased", "routed", "unroute_failed", "unroute_mark", "closing",
             "releasing", "release_failed"}
Live == {s \in Streams : streamPc[s] \in HasLease}
-----------------------------------------------------------------------------
(* Fault model: the bucket is not capped at its burst.                     *)
RefillUncapped(tokens, updated, now, rate, burst) == tokens + (now - updated) * rate

(* _refill, for an instant that is not before the last update.             *)
Refill(tokens, updated, now, rate, burst) ==
  Min({burst * Unit, tokens + (now - updated) * rate})

(* Fault model: the age of a peer record is not looked at.                 *)
PruneAnyIdle(now) ==
  LET idle == {p \in Tracked : peers[p].active = 0}
  IN  IF Cardinality(Tracked) < MaxTracked \/ idle = {}
      THEN {Tracked}
      ELSE {Tracked \ {p} : p \in idle}

(* _prune_inactive_peers: at the limit, an idle peer that was seen longest *)
(* ago and at least PeerTtl ago goes.  One is enough, because the limit is *)
(* never exceeded.  Records seen at the same instant go by their hash.     *)
Prune(now) ==
  LET old == {p \in Tracked : peers[p].active = 0 /\ now - peers[p].seen >= PeerTtl}
  IN  IF Cardinality(Tracked) < MaxTracked \/ old = {}
      THEN {Tracked}
      ELSE {Tracked \ {p} : p \in {q \in old : \A r \in old : peers[q].seen <= peers[r].seen}}

(* rpc_inference reads the clock in acquire for peer p.                    *)
Open(s, p) ==
  /\ streamPc[s] = "new"
  /\ peer' = [peer EXCEPT ![s] = p]
  /\ opened' = [opened EXCEPT ![s] = clock]
  /\ StreamGoto(s, "acquiring")
  /\ UNCHANGED <<clock, health, global, peers, routes, closed, lockFaults>>

(* The lock cannot be had, the authority is unhealthy, or another handler  *)
(* has already stored a later instant: rejected, and not counted.          *)
RefuseUnavailable(s) ==
  /\ streamPc[s] = "acquiring"
  /\ \/ ~Healthy /\ UNCHANGED lockFaults
     \/ opened[s] < global.updated /\ UNCHANGED lockFaults
     \/ lockFaults < MaxLockFaults /\ lockFaults' = lockFaults + 1
  /\ StreamGoto(s, "rejected")
  /\ UNCHANGED <<clock, health, global, peers, routes, peer, opened, closed>>

(* Both ceilings and both buckets allow the session: it is counted and a   *)
(* lease returned.                                                         *)
Admit(s, tracked, tokens, mine) ==
  /\ global.active < MaxActive /\ mine.active < MaxPerPeer
  /\ tokens >= Unit /\ mine.tokens >= Unit
  /\ global' = [global EXCEPT !.active = @ + 1, !.tokens = tokens - Unit,
                              !.updated = opened[s], !.accepted = @ + 1]
  /\ peers' = [p \in Peers |->
       IF p = peer[s]
       THEN [active |-> mine.active + 1, tokens |-> mine.tokens - Unit,
             updated |-> opened[s], seen |-> opened[s]]
       ELSE IF p \in tracked THEN peers[p] ELSE NoName]
  /\ StreamGoto(s, "leased")

(* _reject: the refilled bucket is stored and the rejection counted; the   *)
(* peer's record is left as it was, a new one is not stored.               *)
Overload(s, tracked, tokens, full) ==
  /\ full
  /\ global' = [global EXCEPT !.tokens = tokens, !.updated = opened[s], !.rejected = @ + 1]
  /\ peers' = [p \in Peers |-> IF p \in tracked THEN peers[p] ELSE NoName]
  /\ StreamGoto(s, "rejected")

(* Fault model: the health of the authority is not looked at.              *)
MayAcquireUnhealthy(s) == opened[s] >= global.updated

MayAcquire(s) == Healthy /\ opened[s] >= global.updated

(* acquire, once it holds the lock.                                        *)
Acquire(s) ==
  /\ streamPc[s] = "acquiring" /\ MayAcquire(s)
  /\ LET now == opened[s]
         known == peer[s] \in Tracked
         tokens == Refill(global.tokens, global.updated, now, GlobalRate, GlobalBurst)
         old == peers[peer[s]]
         mine == IF known
                 THEN [active |-> old.active,
                       tokens |-> Refill(old.tokens, old.updated, now, PeerRate, PeerBurst)]
                 ELSE [active |-> 0, tokens |-> PeerBurst * Unit]
     IN  \E tracked \in IF known THEN {Tracked} ELSE Prune(now) :
           IF ~known /\ Cardinality(tracked) >= MaxTracked
           THEN Overload(s, tracked, tokens, TRUE)
           ELSE \/ Admit(s, tracked, tokens, mine)
                \/ Overload(s, tracked, tokens,
                            \/ global.active >= MaxActive \/ mine.active >= MaxPerPeer
                            \/ tokens < Unit \/ mine.tokens < Unit)
  /\ UNCHANGED <<clock, health, routes, peer, opened, closed, lockFaults>>
-----------------------------------------------------------------------------
(* The first request names a session: register_session publishes its route *)
Register(s, n) ==
  /\ streamPc[s] = "leased" /\ Healthy
  /\ routes[n] = NoName /\ Cardinality(Routed) < MaxActive
  /\ routes' = [routes EXCEPT ![n] = s]
  /\ StreamGoto(s, "routed")
  /\ UNCHANGED <<clock, health, global, peers, peer, opened, closed, lockFaults>>

(* The stream ends without a route: no first request in time, an invalid   *)
(* request, a session without a name, a name that is taken, a registration *)
(* that is refused or times out, an error or a cancellation.               *)
EndUnrouted(s) ==
  /\ streamPc[s] = "leased"
  /\ StreamGoto(s, "closing")
  /\ UNCHANGED <<clock, health, global, peers, routes, peer, opened, closed, lockFaults>>

(* The stream ends: unregister_session removes exactly its generation, and *)
(* poisons the authority when it finds another.                            *)
Unregister(s) ==
  /\ streamPc[s] = "routed"
  /\ LET mine == {n \in SessionNames : routes[n] = s} IN
     IF mine # {}
     THEN /\ routes' = [n \in SessionNames |-> IF n \in mine THEN NoName ELSE routes[n]]
          /\ UNCHANGED <<health, global>>
     ELSE /\ health' = FALSE
          /\ global' = [global EXCEPT !.healthy = FALSE]
          /\ UNCHANGED routes
  /\ StreamGoto(s, "closing")
  /\ UNCHANGED <<clock, peers, peer, opened, closed, lockFaults>>

(* The lock times out in unregister_session or in _release.                *)
AuthorityTimeout(s) ==
  /\ lockFaults < MaxLockFaults
  /\ lockFaults' = lockFaults + 1
  /\ \/ streamPc[s] = "routed" /\ StreamGoto(s, "unroute_failed")
     \/ streamPc[s] = "releasing" /\ StreamGoto(s, "release_failed")
  /\ UNCHANGED <<clock, health, global, peers, routes, peer, opened, closed>>

(* mark_unhealthy: the health record first, without the lock ...           *)
Poison(s) ==
  /\ \/ streamPc[s] = "unroute_failed" /\ StreamGoto(s, "unroute_mark")
     \/ streamPc[s] = "release_failed" /\ StreamGoto(s, "release_mark")
  /\ health' = FALSE
  /\ UNCHANGED <<clock, global, peers, routes, peer, opened, closed, lockFaults>>

(* ... then both records under the lock, if it can be had.                 *)
Mark(s) ==
  /\ \/ streamPc[s] = "unroute_mark" /\ StreamGoto(s, "closing")
     \/ streamPc[s] = "release_mark" /\ StreamGoto(s, "done")
  /\ \/ /\ health' = FALSE
        /\ global' = [global EXCEPT !.healthy = FALSE]
        /\ UNCHANGED lockFaults
     \/ /\ lockFaults < MaxLockFaults
        /\ lockFaults' = lockFaults + 1
        /\ UNCHANGED <<health, global>>
  /\ UNCHANGED <<clock, peers, routes, peer, opened, closed>>

(* _release reads the clock.                                               *)
CloseStream(s) ==
  /\ streamPc[s] = "closing"
  /\ closed' = [closed EXCEPT ![s] = clock]
  /\ StreamGoto(s, "releasing")
  /\ UNCHANGED <<clock, health, global, peers, routes, peer, opened, lockFaults>>

(* _release, once it holds the lock: both counts go down, or an impossible *)
(* transition makes the authority unhealthy.                               *)
Release(s) ==
  /\ streamPc[s] = "releasing"
  /\ LET p == peer[s] IN
     IF global.active < 1 \/ peers[p] = NoName \/ peers[p].active < 1
     THEN /\ global' = [global EXCEPT !.healthy = FALSE]
          /\ UNCHANGED peers
     ELSE /\ global' = [global EXCEPT !.active = @ - 1]
          /\ peers' = [peers EXCEPT ![p].active = @ - 1, ![p].seen = closed[s]]
  /\ StreamGoto(s, "done")
  /\ UNCHANGED <<clock, health, routes, peer, opened, closed, lockFaults>>

(* Time passes.  An operation holds the lock or gives up within MaxStall.  *)
Tick ==
  /\ clock < MaxClock
  /\ \A s \in Streams :
       /\ streamPc[s] = "acquiring" => clock - opened[s] < MaxStall
       /\ streamPc[s] = "releasing" => clock - closed[s] < MaxStall
  /\ clock' = clock + 1
  /\ UNCHANGED <<health, global, peers, routes, streamPc, peer, opened, closed, lockFaults>>
-----------------------------------------------------------------------------
AdmissionInit ==
  /\ clock = 0 /\ health = TRUE
  /\ global = [active |-> 0, tokens |-> GlobalBurst * Unit, updated |-> 0,
               accepted |-> 0, rejected |-> 0, healthy |-> TRUE]
  /\ peers = [p \in Peers |-> NoName]
  /\ routes = [n \in SessionNames |-> NoName]
  /\ streamPc = [s \in Streams |-> "new"]
  /\ peer = [s \in Streams |-> NoName]
  /\ opened = [s \in Streams |-> 0] /\ closed = [s \in Streams |-> 0]
  /\ lockFaults = 0

AdmissionNext ==
  \/ \E s \in Streams :
       \/ \E p \in Peers : Open(s, p)
       \/ RefuseUnavailable(s) \/ Acquire(s)
       \/ \E n \in SessionNames : Register(s, n)
       \/ Unregister(s) \/ EndUnrouted(s) \/ AuthorityTimeout(s) \/ Poison(s) \/ Mark(s)
       \/ CloseStream(s) \/ Release(s)
  \/ Tick

AdmissionSpec == AdmissionInit /\ [][AdmissionNext]_admissionVars
-----------------------------------------------------------------------------
(* Types of the variables.                                                 *)
AdmissionTypeOK ==
  /\ clock \in 0..MaxClock /\ health \in BOOLEAN
  /\ global \in [active : Nat, tokens : Nat, updated : 0..clock,
                 accepted : Nat, rejected : Nat, healthy : BOOLEAN]
  /\ global.tokens <= GlobalBurst * Unit
  /\ peers \in [Peers -> PeerRecord \cup {NoName}]
  /\ \A p \in Tracked :
       /\ peers[p].updated <= clock /\ peers[p].seen <= clock
       /\ peers[p].tokens <= PeerBurst * Unit
  /\ routes \in [SessionNames -> Streams \cup {NoName}]
  /\ streamPc \in [Streams -> HasLease \cup {"new", "acquiring", "rejected", "release_mark", "done"}]
  /\ peer \in [Streams -> Peers \cup {NoName}]
  /\ opened \in [Streams -> 0..clock] /\ closed \in [Streams -> 0..clock]
  /\ lockFaults \in 0..MaxLockFaults

(* While the authority is healthy its counts are those of the live leases, *)
(* of the worker and of every peer; a pruned peer has none.  A release     *)
(* that is lost to a lock timeout is covered: health goes first.           *)
LeasesExact ==
  Healthy =>
    /\ global.active = Cardinality(Live)
    /\ \A p \in Peers :
         Cardinality({s \in Live : peer[s] = p}) = IF p \in Tracked THEN peers[p].active ELSE 0

(* What docs/PUBLIC_ALPHA_OPERATIONS.md asks of every healthy sample, and  *)
(* the per-peer ceiling.                                                   *)
SampleBounds ==
  Healthy =>
    /\ global.active <= MaxActive
    /\ Cardinality(Routed) <= global.active
    /\ Cardinality(Tracked) <= MaxTracked
    /\ \A p \in Tracked : peers[p].active <= MaxPerPeer

(* Of the streams in S, no more are admitted in any interval than a bucket *)
(* of that burst and rate allows.                                          *)
RateHolds(S, rate, burst) ==
  \A a, b \in 0..MaxClock :
    a <= b => Cardinality({s \in S : opened[s] \in a..b}) * Unit <= burst * Unit + rate * (b - a)

Admitted == {s \in Streams : streamPc[s] \in HasLease \cup {"release_mark", "done"}}

(* The worker's rate and each peer's hold over every interval of time,     *)
(* although a peer's record may be pruned and made anew with a full bucket *)
(* in the meantime.                                                        *)
RatesHold ==
  /\ RateHolds(Admitted, GlobalRate, GlobalBurst)
  /\ \A p \in Peers : RateHolds({s \in Admitted : peer[s] = p}, PeerRate, PeerBurst)

(* No interleaving makes the authority unhealthy: every transition it      *)
(* calls impossible is, and so is every mismatch of a route's generation.  *)
AuthorityHealthy == lockFaults = 0 => Healthy

(* All of it: counts, sample bounds and rates hold, and only a lock        *)
(* timeout makes the authority unhealthy.                                  *)
AdmissionExact == LeasesExact /\ SampleBounds /\ RatesHold /\ AuthorityHealthy

(* An unhealthy authority stays so until the worker is restarted, and      *)
(* neither admits a stream nor registers a session's route.                *)
FailsClosed ==
  [][~Healthy => ~Healthy' /\ global'.accepted = global.accepted
                 /\ \A n \in SessionNames : routes'[n] \in {routes[n], NoName}]_admissionVars
=============================================================================
