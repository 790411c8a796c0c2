---------------------------- MODULE ModelManager ----------------------------
(***************************************************************************)
(* The residency manager of the local node (drift/node/model_manager.py).  *)
(*                                                                         *)
(* HTTP threads call load() and keep a lease for as long as the request    *)
(* runs, control threads call unload(), and one thread runs shutdown().    *)
(* They synchronise on the manager's re-entrant lock with its condition    *)
(* variable _capacity_changed, and on one load_lock per model.  A critical *)
(* section under the manager's lock is one action here; the two slow calls *)
(* made outside of it, loader() and runtime.close(), end in actions of     *)
(* their own, so every other thread may run while they are under way.      *)
(*                                                                         *)
(* Abstractions: a runtime is a number; a request has already been mapped  *)
(* to its model (resolution reads, and never changes, this state); the     *)
(* time stamps last_used_at become the order in which they were written.   *)
(* "degraded" is only ever computed for a snapshot and "downloading" is    *)
(* never assigned, so neither is a stored state.                           *)
(***************************************************************************)
EXTENDS Integers, FiniteSets, Sequences

CONSTANTS Models,      \* the configured models
          Requests,    \* threads that serve inference requests
          Admins,      \* threads that serve unload requests
          MaxLoaded,   \* max_loaded_models
          MaxLoads,    \* bound: load() calls in a behaviour
          MaxUnloads,  \* bound: unload() calls in a behaviour
          None         \* Python's None

Shut == "shutdown"                      \* the thread that runs shutdown()
Threads == Requests \cup Admins \cup {Shut}
RuntimeIds == 1..MaxLoads               \* one per call of load()

ASSUME ModelsAssumption == IsFiniteSet(Models) /\ None \notin Models
ASSUME ThreadsAssumption ==
  /\ IsFiniteSet(Requests) /\ IsFiniteSet(Admins)
  /\ Requests \cap Admins = {}
  /\ Shut \notin Requests \cup Admins
  /\ None \notin Requests \cup Admins \cup {Shut}
ASSUME BoundsAssumption ==
  /\ MaxLoaded \in Nat \ {0}
  /\ MaxLoads \in Nat /\ MaxUnloads \in Nat
  /\ None \notin Nat

VARIABLES
  state,        \* _ModelRecord.state
  runtime,      \* _ModelRecord.runtime
  active,       \* _ModelRecord.active_requests
  closeFailed,  \* _ModelRecord.close_failed
  older,        \* order of last_used_at: <<a, b>> when a's is before b's
  loadLock,     \* holder of _ModelRecord.load_lock
  closed,       \* ModelManager._closed
  pc,           \* where each thread is
  tgt,          \* the record a thread works on
  cand,         \* the record a thread in _reserve_runtime_slot evicts
  held,         \* the runtime a thread holds in a local variable or lease
  life,         \* what became of each runtime object
  made,         \* the model a runtime object was loaded for
  loads,        \* load() calls made so far
  unloads,      \* unload() calls made so far
  toClose       \* records the shutdown loop has still to visit

records == <<state, runtime, active, closeFailed, older>>
locals  == <<tgt, cand, held>>
rest    == <<made, loads, unloads, toClose>>
vars == <<records, loadLock, closed, pc, locals, life, rest>>
-----------------------------------------------------------------------------
(* ModelState, without the two values no code path stores.                 *)
States == {"known", "loading", "ready", "unavailable", "unloading", "stopping"}

RequestPcs == {"idle", "enter", "reserve", "waiting", "evicting", "loading",
               "publish", "abandon", "leased", "released"}
AdminPcs == {"idle", "unload", "closing"}
ShutPcs == {"start", "visit", "closing", "callbacks", "done"}

(* _resident_count_locked: a record counts while it has a runtime and      *)
(* while one is being created or closed.                                   *)
Resident == {m \in Models : runtime[m] # None \/ state[m] \in {"loading", "unloading"}}

(* Fault model: a leased runtime may be evicted.                           *)
IdleOrLeased(target) == {m \in Models \ {target} : runtime[m] # None /\ state[m] = "ready"}

(* The records _reserve_runtime_slot may evict to make room for target.    *)
Idle(target) == {m \in Models \ {target} :
                   runtime[m] # None /\ active[m] = 0 /\ state[m] = "ready"}

(* The candidate: the idle record that was used least recently.            *)
LeastRecent(c, S) == \A m \in S \ {c} : <<c, m>> \in older

(* Writing record.last_used_at = time.time(): m is now the last of all.    *)
Touch(m) == older' = {p \in older : p[1] # m} \cup ((Models \ {m}) \X {m})

(* The program counters after t moves to p, without and with the           *)
(* notify_all() that wakes every thread waiting for capacity.              *)
Goto(t, p) == pc' = [pc EXCEPT ![t] = p]
GotoAndNotify(t, p) ==
  pc' = [x \in Threads |-> IF x = t THEN p
                           ELSE IF pc[x] = "waiting" THEN "reserve" ELSE pc[x]]

Unlock(m) == loadLock' = [loadLock EXCEPT ![m] = None]
-----------------------------------------------------------------------------
(* _lease_locked                                                           *)
Lease(t, m, r) ==
  /\ active' = [active EXCEPT ![m] = @ + 1]
  /\ held' = [held EXCEPT ![t] = r]
  /\ Touch(m)

(* load(identifier), up to the load_lock: _record_for refuses once closed. *)
StartLoad(t, m) ==
  /\ pc[t] = "idle" /\ ~closed /\ loads < MaxLoads
  /\ loads' = loads + 1
  /\ tgt' = [tgt EXCEPT ![t] = m]
  /\ Goto(t, "enter")
  /\ UNCHANGED <<records, loadLock, closed, cand, held, life, made, unloads, toClose>>

(* load(): the load_lock is taken and the record examined.  Refused when   *)
(* closed or when the runtime failed its cleanup; a resident runtime is    *)
(* leased at once; otherwise the lock is kept and a slot is sought.        *)
EnterLoad(t) ==
  LET m == tgt[t] IN
  /\ pc[t] = "enter" /\ loadLock[m] = None
  /\ \/ /\ closed \/ (runtime[m] # None /\ closeFailed[m])
        /\ Goto(t, "idle")
        /\ UNCHANGED <<records, loadLock, held>>
     \/ /\ ~closed /\ runtime[m] # None /\ ~closeFailed[m]
        /\ Lease(t, m, runtime[m])
        /\ Goto(t, "leased")
        /\ UNCHANGED <<state, runtime, closeFailed, loadLock>>
     \/ /\ ~closed /\ runtime[m] = None
        /\ loadLock' = [loadLock EXCEPT ![m] = t]
        /\ Goto(t, "reserve")
        /\ UNCHANGED <<records, held>>
  /\ UNCHANGED <<closed, tgt, cand, life, rest>>

(* _reserve_runtime_slot raises: the manager was closed, or the only thing *)
(* in the way is a runtime whose cleanup failed.                           *)
ReserveRaises(t) ==
  /\ pc[t] = "reserve"
  /\ \/ closed
     \/ /\ Cardinality(Resident) >= MaxLoaded
        /\ Idle(tgt[t]) = {}
        /\ \E m \in Models : closeFailed[m]
  /\ Unlock(tgt[t])
  /\ Goto(t, "idle")
  /\ UNCHANGED <<records, closed, locals, life, rest>>

(* _reserve_runtime_slot: there is room.                                   *)
ReserveSlot(t) ==
  /\ pc[t] = "reserve" /\ ~closed
  /\ Cardinality(Resident) < MaxLoaded
  /\ state' = [state EXCEPT ![tgt[t]] = "loading"]
  /\ GotoAndNotify(t, "loading")
  /\ UNCHANGED <<runtime, active, closeFailed, older, loadLock, closed,
                 locals, life, rest>>

(* _reserve_runtime_slot: no room, but an idle runtime to evict.  The      *)
(* runtime is taken out of the record; the record's load_lock is not held. *)
EvictBegin(t) ==
  /\ pc[t] = "reserve" /\ ~closed
  /\ Cardinality(Resident) >= MaxLoaded
  /\ \E c \in Idle(tgt[t]) :
       /\ LeastRecent(c, Idle(tgt[t]))
       /\ cand' = [cand EXCEPT ![t] = c]
       /\ held' = [held EXCEPT ![t] = runtime[c]]
       /\ life' = [life EXCEPT ![runtime[c]] = "closing"]
       /\ runtime' = [runtime EXCEPT ![c] = None]
       /\ state' = [state EXCEPT ![c] = "unloading"]
  /\ Goto(t, "evicting")
  /\ UNCHANGED <<active, closeFailed, older, loadLock, closed, tgt, rest>>

(* _reserve_runtime_slot: neither, so wait on _capacity_changed.           *)
WaitForCapacity(t) ==
  /\ pc[t] = "reserve" /\ ~closed
  /\ Cardinality(Resident) >= MaxLoaded
  /\ Idle(tgt[t]) = {}
  /\ \A m \in Models : ~closeFailed[m]
  /\ Goto(t, "waiting")
  /\ UNCHANGED <<records, loadLock, closed, locals, life, rest>>

(* The evicted runtime's close() returned.                                 *)
EvictDone(t) ==
  LET c == cand[t] IN
  /\ pc[t] = "evicting"
  /\ state' = [state EXCEPT ![c] = "known"]
  /\ closeFailed' = [closeFailed EXCEPT ![c] = FALSE]
  /\ life' = [life EXCEPT ![held[t]] = "closed"]
  /\ held' = [held EXCEPT ![t] = None]
  /\ GotoAndNotify(t, "reserve")
  /\ UNCHANGED <<runtime, active, older, loadLock, closed, tgt, cand, rest>>

(* The evicted runtime's close() raised: the runtime goes back into its    *)
(* record and load() raises ModelUnloadError.                              *)
EvictFailed(t) ==
  LET c == cand[t] IN
  /\ pc[t] = "evicting"
  /\ state' = [state EXCEPT ![c] = "unavailable"]
  /\ runtime' = [runtime EXCEPT ![c] = held[t]]
  /\ closeFailed' = [closeFailed EXCEPT ![c] = TRUE]
  /\ life' = [life EXCEPT ![held[t]] = "failed"]
  /\ held' = [held EXCEPT ![t] = None]
  /\ Unlock(tgt[t])
  /\ GotoAndNotify(t, "idle")
  /\ UNCHANGED <<active, older, closed, tgt, cand, rest>>

(* loader() returned a runtime, not yet published.                         *)
LoaderReturns(t) ==
  /\ pc[t] = "loading"
  /\ \E r \in RuntimeIds :
       /\ life[r] = "absent" /\ \A q \in 1..(r-1) : life[q] # "absent"
       /\ life' = [life EXCEPT ![r] = "open"]
       /\ made' = [made EXCEPT ![r] = tgt[t]]
       /\ held' = [held EXCEPT ![t] = r]
  /\ Goto(t, "publish")
  /\ UNCHANGED <<records, loadLock, closed, tgt, cand, loads, unloads, toClose>>

(* loader() raised.                                                        *)
LoaderRaises(t) ==
  /\ pc[t] = "loading"
  /\ state' = [state EXCEPT ![tgt[t]] = IF closed THEN "stopping" ELSE "unavailable"]
  /\ Unlock(tgt[t])
  /\ GotoAndNotify(t, "idle")
  /\ UNCHANGED <<runtime, active, closeFailed, older, closed, locals, life, rest>>

(* load(): publish the runtime and lease it, unless shutdown won the race. *)
Publish(t) ==
  LET m == tgt[t] IN
  /\ pc[t] = "publish"
  /\ \/ /\ closed
        /\ state' = [state EXCEPT ![m] = "stopping"]
        /\ Goto(t, "abandon")
        /\ UNCHANGED <<runtime, active, closeFailed, older, loadLock, held>>
     \/ /\ ~closed
        /\ runtime' = [runtime EXCEPT ![m] = held[t]]
        /\ state' = [state EXCEPT ![m] = "ready"]
        /\ closeFailed' = [closeFailed EXCEPT ![m] = FALSE]
        /\ Lease(t, m, held[t])
        /\ Unlock(m)
        /\ GotoAndNotify(t, "leased")
  /\ UNCHANGED <<closed, tgt, cand, life, rest>>

(* load(): close the runtime that was not published; close() may raise,    *)
(* and load() raises either way.                                           *)
Abandon(t) ==
  /\ pc[t] = "abandon"
  /\ \E end \in {"closed", "failed"} : life' = [life EXCEPT ![held[t]] = end]
  /\ held' = [held EXCEPT ![t] = None]
  /\ Unlock(tgt[t])
  /\ Goto(t, "idle")
  /\ UNCHANGED <<records, closed, tgt, cand, rest>>

(* Fault model: a release that does not notify the waiting threads.        *)
ReleaseSilently(t) ==
  LET m == tgt[t] IN
  /\ pc[t] = "leased"
  /\ active' = [active EXCEPT ![m] = IF @ > 0 THEN @ - 1 ELSE @]
  /\ IF active[m] > 0 THEN Touch(m) ELSE UNCHANGED older
  /\ held' = [held EXCEPT ![t] = None]
  /\ Goto(t, "released")
  /\ UNCHANGED <<state, runtime, closeFailed, loadLock, closed, tgt, cand,
                 life, rest>>

(* LoadedModel.release -> _release_lease                                   *)
Release(t) ==
  LET m == tgt[t] IN
  /\ pc[t] = "leased"
  /\ active' = [active EXCEPT ![m] = IF @ > 0 THEN @ - 1 ELSE @]
  /\ IF active[m] > 0 THEN Touch(m) ELSE UNCHANGED older
  /\ held' = [held EXCEPT ![t] = None]
  /\ GotoAndNotify(t, "released")
  /\ UNCHANGED <<state, runtime, closeFailed, loadLock, closed, tgt, cand,
                 life, rest>>

(* Fault model: release() without the _released flag that makes the second *)
(* call harmless.                                                          *)
ReleaseTwice(t) ==
  /\ pc[t] = "released"
  /\ active' = [active EXCEPT ![tgt[t]] = @ - 1]
  /\ Goto(t, "idle")
  /\ UNCHANGED <<state, runtime, closeFailed, older, loadLock, closed, locals, life, rest>>

(* Fault model: the same, with _release_lease's own guard against zero.    *)
ReleaseTwiceGuarded(t) ==
  /\ pc[t] = "released"
  /\ active' = [active EXCEPT ![tgt[t]] = IF @ > 0 THEN @ - 1 ELSE @]
  /\ Goto(t, "idle")
  /\ UNCHANGED <<state, runtime, closeFailed, older, loadLock, closed, locals, life, rest>>

(* LoadedModel.release called again by an error or cancellation path:      *)
(* _released makes it a no-op.  The thread then takes its next request.    *)
ReleaseAgain(t) ==
  /\ pc[t] = "released"
  /\ Goto(t, "idle")
  /\ UNCHANGED <<records, loadLock, closed, locals, life, rest>>
-----------------------------------------------------------------------------
(* unload(identifier), up to the load_lock.                                *)
StartUnload(t, m) ==
  /\ pc[t] = "idle" /\ ~closed /\ unloads < MaxUnloads
  /\ unloads' = unloads + 1
  /\ tgt' = [tgt EXCEPT ![t] = m]
  /\ Goto(t, "unload")
  /\ UNCHANGED <<records, loadLock, closed, cand, held, life, made, loads, toClose>>

(* unload(): refused when closed, in use or failed; nothing to do when not *)
(* resident; otherwise the runtime is taken and closed under load_lock.    *)
EnterUnload(t) ==
  LET m == tgt[t] IN
  /\ pc[t] = "unload" /\ loadLock[m] = None
  /\ IF closed \/ active[m] > 0 \/ closeFailed[m] \/ runtime[m] = None
     THEN /\ Goto(t, "idle")
          /\ UNCHANGED <<state, runtime, loadLock, held, life>>
     ELSE /\ held' = [held EXCEPT ![t] = runtime[m]]
          /\ life' = [life EXCEPT ![runtime[m]] = "closing"]
          /\ runtime' = [runtime EXCEPT ![m] = None]
          /\ state' = [state EXCEPT ![m] = "unloading"]
          /\ loadLock' = [loadLock EXCEPT ![m] = t]
          /\ Goto(t, "closing")
  /\ UNCHANGED <<active, closeFailed, older, closed, tgt, cand, rest>>

(* unload(): close() returned.                                             *)
UnloadDone(t) ==
  LET m == tgt[t] IN
  /\ pc[t] = "closing"
  /\ state' = [state EXCEPT ![m] = "known"]
  /\ closeFailed' = [closeFailed EXCEPT ![m] = FALSE]
  /\ life' = [life EXCEPT ![held[t]] = "closed"]
  /\ held' = [held EXCEPT ![t] = None]
  /\ Unlock(m)
  /\ GotoAndNotify(t, "idle")
  /\ UNCHANGED <<runtime, active, older, closed, tgt, cand, rest>>

(* unload(): close() raised.                                               *)
UnloadFailed(t) ==
  LET m == tgt[t] IN
  /\ pc[t] = "closing"
  /\ runtime' = [runtime EXCEPT ![m] = held[t]]
  /\ state' = [state EXCEPT ![m] = "unavailable"]
  /\ closeFailed' = [closeFailed EXCEPT ![m] = TRUE]
  /\ life' = [life EXCEPT ![held[t]] = "failed"]
  /\ held' = [held EXCEPT ![t] = None]
  /\ Unlock(m)
  /\ GotoAndNotify(t, "idle")
  /\ UNCHANGED <<active, older, closed, tgt, cand, rest>>
-----------------------------------------------------------------------------
(* shutdown(): close the manager and wake every waiter.                    *)
ShutdownBegin ==
  /\ pc[Shut] = "start"
  /\ closed' = TRUE
  /\ state' = [m \in Models |-> "stopping"]
  /\ toClose' = Models
  /\ GotoAndNotify(Shut, "visit")
  /\ UNCHANGED <<runtime, active, closeFailed, older, loadLock, locals, life, made, loads, unloads>>

(* Fault model: shutdown() passes over a record that is in use.            *)
ShutdownVisitIdle(m) ==
  /\ pc[Shut] = "visit" /\ m \in toClose /\ loadLock[m] = None
  /\ IF runtime[m] = None \/ active[m] > 0
     THEN /\ toClose' = toClose \ {m}
          /\ UNCHANGED <<runtime, loadLock, tgt, held, life, pc>>
     ELSE /\ loadLock' = [loadLock EXCEPT ![m] = Shut]
          /\ tgt' = [tgt EXCEPT ![Shut] = m]
          /\ held' = [held EXCEPT ![Shut] = runtime[m]]
          /\ life' = [life EXCEPT ![runtime[m]] = "closing"]
          /\ runtime' = [runtime EXCEPT ![m] = None]
          /\ Goto(Shut, "closing")
          /\ UNCHANGED toClose
  /\ UNCHANGED <<state, active, closeFailed, older, closed, cand, made, loads, unloads>>

(* shutdown(): visit one record under its load_lock, taking its runtime.   *)
(* The code visits them in registration order, the model in any order.     *)
ShutdownVisit(m) ==
  /\ pc[Shut] = "visit" /\ m \in toClose /\ loadLock[m] = None
  /\ IF runtime[m] = None
     THEN /\ toClose' = toClose \ {m}
          /\ UNCHANGED <<runtime, loadLock, tgt, held, life, pc>>
     ELSE /\ loadLock' = [loadLock EXCEPT ![m] = Shut]
          /\ tgt' = [tgt EXCEPT ![Shut] = m]
          /\ held' = [held EXCEPT ![Shut] = runtime[m]]
          /\ life' = [life EXCEPT ![runtime[m]] = "closing"]
          /\ runtime' = [runtime EXCEPT ![m] = None]
          /\ Goto(Shut, "closing")
          /\ UNCHANGED toClose
  /\ UNCHANGED <<state, active, closeFailed, older, closed, cand, made, loads, unloads>>

(* shutdown(): close() returned, or raised and was logged.                 *)
ShutdownClosed ==
  /\ pc[Shut] = "closing"
  /\ \E end \in {"closed", "failed"} : life' = [life EXCEPT ![held[Shut]] = end]
  /\ held' = [held EXCEPT ![Shut] = None]
  /\ toClose' = toClose \ {tgt[Shut]}
  /\ Unlock(tgt[Shut])
  /\ Goto(Shut, "visit")
  /\ UNCHANGED <<records, closed, tgt, cand, made, loads, unloads>>

(* shutdown(): every record was visited; the service callbacks run.        *)
ShutdownCallbacks ==
  /\ pc[Shut] = "visit" /\ toClose = {}
  /\ Goto(Shut, "done")
  /\ UNCHANGED <<records, loadLock, closed, locals, life, rest>>
-----------------------------------------------------------------------------
Init ==
  /\ state = [m \in Models |-> "known"]
  /\ runtime = [m \in Models |-> None]
  /\ active = [m \in Models |-> 0]
  /\ closeFailed = [m \in Models |-> FALSE]
  /\ older = {}
  /\ loadLock = [m \in Models |-> None]
  /\ closed = FALSE
  /\ pc = [t \in Threads |-> IF t = Shut THEN "start" ELSE "idle"]
  /\ tgt = [t \in Threads |-> None]
  /\ cand = [t \in Threads |-> None]
  /\ held = [t \in Threads |-> None]
  /\ life = [r \in RuntimeIds |-> "absent"]
  /\ made = [r \in RuntimeIds |-> None]
  /\ loads = 0 /\ unloads = 0
  /\ toClose = {}

(* One step of a request thread that is inside load() or holds a lease.    *)
RequestStep(t) ==
  \/ EnterLoad(t) \/ ReserveRaises(t) \/ ReserveSlot(t) \/ EvictBegin(t)
  \/ WaitForCapacity(t) \/ EvictDone(t) \/ EvictFailed(t)
  \/ LoaderReturns(t) \/ LoaderRaises(t) \/ Publish(t) \/ Abandon(t)
  \/ Release(t) \/ ReleaseAgain(t)

(* One step of a control thread that is inside unload().                   *)
AdminStep(t) == EnterUnload(t) \/ UnloadDone(t) \/ UnloadFailed(t)

(* One step of shutdown() once it has begun.                               *)
ShutdownStep ==
  \/ \E m \in Models : ShutdownVisit(m)
  \/ ShutdownClosed
  \/ ShutdownCallbacks

Next ==
  \/ \E t \in Requests : RequestStep(t) \/ \E m \in Models : StartLoad(t, m)
  \/ \E t \in Admins : AdminStep(t) \/ \E m \in Models : StartUnload(t, m)
  \/ ShutdownBegin
  \/ ShutdownStep

Spec == Init /\ [][Next]_vars

(* A thread that can run does run: the operating system schedules every    *)
(* thread, a loader and a close() end, and a request gives its lease back. *)
(* Nothing obliges a client to send a request or the node to be shut down. *)
Fairness ==
  /\ \A t \in Requests : WF_vars(RequestStep(t))
  /\ \A t \in Admins : WF_vars(AdminStep(t))
  /\ WF_vars(ShutdownStep)

FairSpec == Spec /\ Fairness
-----------------------------------------------------------------------------
(* Types of the variables.                                                 *)
TypeOK ==
  /\ state \in [Models -> States]
  /\ runtime \in [Models -> RuntimeIds \cup {None}]
  /\ active \in [Models -> Nat]
  /\ closeFailed \in [Models -> BOOLEAN]
  /\ older \subseteq Models \X Models
  /\ loadLock \in [Models -> Threads \cup {None}]
  /\ closed \in BOOLEAN
  /\ pc \in [Threads -> RequestPcs \cup AdminPcs \cup ShutPcs]
  /\ tgt \in [Threads -> Models \cup {None}]
  /\ cand \in [Threads -> Models \cup {None}]
  /\ held \in [Threads -> RuntimeIds \cup {None}]
  /\ life \in [RuntimeIds -> {"absent", "open", "closing", "closed", "failed"}]
  /\ made \in [RuntimeIds -> Models \cup {None}]
  /\ loads \in 0..MaxLoads /\ unloads \in 0..MaxUnloads
  /\ toClose \subseteq Models

(* Requests that hold a lease on model m.                                  *)
Lessees(m) == {t \in Requests : pc[t] = "leased" /\ tgt[t] = m}

(* A request never computes on a runtime that was closed, or is being      *)
(* closed, under it: until shutdown() begins, eviction and unload() only   *)
(* take runtimes nobody leases, whatever interleaves with load().          *)
LeaseSafety ==
  ~closed => \A t \in Requests :
               pc[t] = "leased" => life[held[t]] \notin {"absent", "closing", "closed"}

(* A runtime that failed its cleanup is quarantined until the node is      *)
(* restarted: load() never hands it to a request.                          *)
FailedNeverLeased ==
  ~closed => \A t \in Requests : pc[t] = "leased" => life[held[t]] # "failed"

(* active_requests, the number eviction and unload() decide by, is exactly *)
(* the number of leases handed out and not given back, although release()  *)
(* may be called twice for one lease.                                      *)
LeaseAccounting == \A m \in Models : active[m] = Cardinality(Lessees(m))

(* Runtime objects that occupy memory, and those about to.                 *)
LiveRuntimes == {r \in RuntimeIds : life[r] \in {"open", "closing", "failed"}}
Loaders == {t \in Requests : pc[t] = "loading"}

(* max_loaded_models is a hard limit on simultaneous client runtimes: the  *)
(* ones that exist, open or not yet successfully closed, and the ones a    *)
(* loader is creating never exceed it.  True for the default limit of one; *)
(* with two, load() may set a record to "loading" while EvictBegin's close *)
(* of its old runtime is under way, and the record then counts once for    *)
(* two runtimes.                                                           *)
HardBudget == Cardinality(LiveRuntimes) + Cardinality(Loaders) <= MaxLoaded

(* Once shutdown() is over and no thread is inside the manager, no runtime *)
(* it ever loaded is still open.                                           *)
ShutdownReleasesAll ==
  /\ pc[Shut] = "done"
  /\ \A t \in Requests \cup Admins : pc[t] = "idle"
  => \A r \in RuntimeIds : life[r] # "open"

(* Of every runtime ever loaded: it counts against the limit, is never     *)
(* leased again after a failed close, and does not survive shutdown().     *)
RuntimesAccounted == FailedNeverLeased /\ HardBudget /\ ShutdownReleasesAll

(* Every call of load() ends, by a lease or by an exception: no wakeup is  *)
(* lost, and nobody waits for capacity for ever when leases are given back.*)
LoadsEnd == \A t \in Requests : pc[t] # "idle" ~> pc[t] = "idle"

(* shutdown() ends, whatever is loading, waiting or closing as it begins.  *)
ShutdownEnds == closed ~> pc[Shut] = "done"

(* Both: nobody inside the manager waits for ever.                         *)
CallsEnd == LoadsEnd /\ ShutdownEnds
=============================================================================
