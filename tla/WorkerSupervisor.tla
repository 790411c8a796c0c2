-------------------------- MODULE WorkerSupervisor --------------------------
(***************************************************************************)
(* The supervisor of a node's contribution workers                         *)
(* (drift/node/worker_supervisor.py).                                      *)
(*                                                                         *)
(* One monitor thread restarts, suspends and resumes worker processes      *)
(* under a weekly schedule and resource budgets.  A suspension stops the   *)
(* process in a thread of its own, without the supervisor's lock.  API     *)
(* threads start, pause and restart workers, the placement service         *)
(* replaces launches, the policy store reconfigures all of them, and       *)
(* shutdown stops everything.  Every section under the lock is one step,   *)
(* but for the monitor's, which is one step per worker.                    *)
(*                                                                         *)
(* All workers share one VRAM pool.  Bandwidth and power are one           *)
(* measurement per worker.  Logs, counters and messages are left out.      *)
(***************************************************************************)
EXTENDS Integers, Functions, FiniteSetsExt

CONSTANTS NumWorkers,
          Launches,     \* the launches a worker may be given
          Pool,         \* VRAM that the workers share
          Callers,      \* API threads
          Ops,          \* what is asked of the supervisor
          ScheduleSet,  \* whether there is a weekly schedule
          MaxFailures,  \* bound: processes that cannot be started or stopped
          MaxEvents     \* bound: requests, crashes, turns of schedule and load

Workers == 1..NumWorkers
PidsOf(w) == LET k == Cardinality(Callers) + 4 IN (k * (w - 1) + 1)..(k * w)
Pids == UNION {PidsOf(w) : w \in Workers}

ASSUME SupervisorAssumption ==
  /\ NumWorkers \in Nat \ {0} /\ {Pool, MaxFailures, MaxEvents} \subseteq Nat
  /\ IsFiniteSet(Callers)
  /\ Launches \subseteq [admitted : BOOLEAN, vram : 0..Pool, restart : BOOLEAN]
  /\ Launches # {}
  /\ Ops \subseteq {"start", "start_running", "pause", "restart", "replace", "reconfigure", "shutdown"}
  /\ ScheduleSet \in BOOLEAN

VARIABLES
  rec,      \* _records
  alive,    \* worker processes that run
  open,     \* the schedule admits contribution
  over,     \* workers whose bandwidth or power exceeds the budget
  mon,      \* start_service and then the monitor thread
  caller,   \* API threads in _pause_worker and restart_worker
  shut,     \* shutdown
  failures, events

vars == <<rec, alive, open, over, mon, caller, shut, failures, events>>

(* _WorkerRecord; process 0 is None, stop is the process that the          *)
(* suspension thread stops, cool the wait before a restart.                *)
NewRecord(l, auto) ==
  [launch |-> l, st |-> "paused", want |-> auto /\ l.admitted, byOperator |-> FALSE,
   proc |-> 0, sched |-> FALSE, res |-> FALSE, stop |-> 0, cool |-> FALSE]

Locked == mon.pc \in {"start", "body"}
Closed == shut.pc # "no"
Runs(r) == r.proc \in alive
Put(w, r) == rec' = [rec EXCEPT ![w] = r]
Fails == failures < MaxFailures /\ failures' = failures + 1

NewPid(w) ==
  Min(PidsOf(w) \ (alive \cup {rec[w].proc, rec[w].stop, shut.p} \cup {caller[c].p : c \in Callers}))
-----------------------------------------------------------------------------
(* The VRAM that the launches of some workers reserve.                     *)
Vram(S) == SumFunctionOnSet([w \in Workers |-> rec[w].launch.vram], S)

(* Fault model: a worker that is being stopped is not counted.             *)
ReservedRunning(w) == Vram({x \in Workers \ {w} : Runs(rec[x]) /\ rec[x].st = "running"})

(* _resource_status_locked: the VRAM of the other running workers, and the *)
(* worker's measurements.                                                  *)
Reserved(w) == Vram({x \in Workers \ {w} : Runs(rec[x])})
Resources(w, r) == Reserved(w) + r.launch.vram <= Pool /\ w \notin over

(* Fault model: the exit of a worker is noticed only when it is not wanted. *)
RefreshedUnwanted(r) ==
  IF r.proc = 0 \/ r.st = "stopping" \/ Runs(r) \/ r.want THEN r
  ELSE [r EXCEPT !.proc = 0, !.st = "paused"]

(* _refresh_locked: an exit that nobody asked for is a crash.              *)
Refreshed(r) ==
  IF r.proc = 0 \/ r.st = "stopping" \/ Runs(r) THEN r
  ELSE [r EXCEPT !.proc = 0, !.cool = @ \/ r.want,
                 !.st = IF r.want THEN "crashed" ELSE "paused"]

(* _spawn_locked.  A worker that may not run now is deferred if the caller *)
(* says so, else it is no longer wanted and WorkerPolicyError is raised.   *)
SpawnLocked(w, r, deferSchedule, deferResources, raises) ==
  LET refused(defer) == [r EXCEPT !.st = "paused", !.want = @ /\ defer]
  IN
  IF ~r.launch.admitted
  THEN raises /\ Put(w, [r EXCEPT !.want = FALSE]) /\ UNCHANGED <<alive, failures>>
  ELSE IF ~open
  THEN /\ raises = ~deferSchedule
       /\ Put(w, [refused(deferSchedule) EXCEPT !.sched = deferSchedule /\ r.want])
       /\ UNCHANGED <<alive, failures>>
  ELSE IF ~Resources(w, r)
  THEN /\ raises = ~deferResources
       /\ Put(w, [refused(deferResources) EXCEPT !.res = deferResources /\ r.want])
       /\ UNCHANGED <<alive, failures>>
  ELSE IF Closed \/ Runs(r)
  THEN raises = Closed /\ Put(w, r) /\ UNCHANGED <<alive, failures>>
  ELSE /\ ~raises
       /\ \/ /\ Fails
             /\ Put(w, [r EXCEPT !.proc = 0, !.st = "crashed", !.cool = TRUE])
             /\ UNCHANGED alive
          \/ /\ Put(w, [r EXCEPT !.proc = NewPid(w), !.st = "running", !.sched = FALSE, !.res = FALSE])
             /\ alive' = alive \cup {NewPid(w)}
             /\ UNCHANGED failures

(* _suspend_locked: the process is stopped in a thread of its own.         *)
Suspended(r) ==
  IF r.stop # 0 THEN r
  ELSE IF r.proc = 0 THEN [r EXCEPT !.st = "paused"]
  ELSE [r EXCEPT !.st = "stopping", !.stop = r.proc]
-----------------------------------------------------------------------------
(* start_service starts what is to be started, one worker after another.   *)
StartService ==
  /\ mon.pc = "start"
  /\ LET w == mon.i IN
     IF rec[w].want THEN SpawnLocked(w, rec[w], TRUE, TRUE, FALSE)
     ELSE UNCHANGED <<rec, alive, failures>>
  /\ mon' = IF mon.i = NumWorkers THEN [mon EXCEPT !.pc = "wait"] ELSE [mon EXCEPT !.i = @ + 1]
  /\ UNCHANGED <<open, over, caller, shut>>

(* The monitor reads the schedule before it takes the lock.                *)
MonitorRead ==
  /\ mon.pc = "wait"
  /\ mon' = IF Closed THEN [mon EXCEPT !.pc = "ended"]
            ELSE [pc |-> "ready", seen |-> open, i |-> 1]
  /\ UNCHANGED <<rec, alive, open, over, caller, shut, failures>>

(* What the monitor does with one worker: it may spawn it, which raises    *)
(* when the schedule has been closed since it was read.                    *)
MonitorTurn(w, raises) ==
  LET r == Refreshed(rec[w])
      just(x) == Put(w, x) /\ ~raises /\ UNCHANGED <<alive, failures>>
      resume(x) == IF x.want THEN SpawnLocked(w, x, FALSE, TRUE, raises) ELSE just(x)
      stopping == r.stop # 0 \/ r.proc # 0
  IN
  IF ~mon.seen
  THEN just(IF r.want /\ (r.proc # 0 \/ r.st = "paused")
            THEN Suspended([r EXCEPT !.sched = TRUE]) ELSE r)
  ELSE IF r.sched
  THEN IF stopping THEN just(r) ELSE resume([r EXCEPT !.sched = FALSE])
  ELSE IF ~Resources(w, r) /\ r.want /\ Runs(r)
  THEN just(Suspended([r EXCEPT !.res = TRUE]))
  ELSE IF r.res
  THEN IF stopping \/ ~Resources(w, r) THEN just(r) ELSE resume([r EXCEPT !.res = FALSE])
  ELSE IF r.want /\ r.proc = 0 /\ r.launch.restart /\ ~r.cool
  THEN resume(r)
  ELSE just(r)

(* An exception ends the monitor thread.                                   *)
MonitorStep ==
  /\ mon.pc \in {"ready", "body"}
  /\ \E raises \in BOOLEAN :
       /\ MonitorTurn(mon.i, raises)
       /\ mon' = IF raises THEN [mon EXCEPT !.pc = "dead"]
                 ELSE IF mon.i = NumWorkers THEN [mon EXCEPT !.pc = "wait"]
                 ELSE [mon EXCEPT !.pc = "body", !.i = @ + 1]
  /\ UNCHANGED <<open, over, caller, shut>>

(* _finish_suspension, when the process has ended or cannot be stopped.    *)
FinishSuspension(w) ==
  LET r == rec[w] IN
  /\ ~Locked /\ r.stop # 0
  /\ IF r.stop \notin alive
     THEN /\ Put(w, [r EXCEPT !.proc = IF @ = r.stop THEN 0 ELSE @, !.st = "paused", !.stop = 0])
          /\ UNCHANGED failures
     ELSE /\ Fails
          /\ Put(w, [r EXCEPT !.sched = FALSE, !.res = FALSE, !.st = "crashed", !.stop = 0])
  /\ UNCHANGED <<alive, open, over, mon, caller, shut>>
-----------------------------------------------------------------------------
(* start_worker.                                                           *)
StartWorker(w) ==
  LET r == rec[w] IN
  /\ ~Locked
  /\ \E raises \in BOOLEAN :
       SpawnLocked(w, IF r.launch.admitted THEN [r EXCEPT !.byOperator = FALSE, !.want = TRUE] ELSE r,
                   FALSE, FALSE, raises)
  /\ UNCHANGED <<open, over, mon, shut>>

Start(w) ==
  /\ \/ "start" \in Ops /\ ~Runs(rec[w])
     \/ "start_running" \in Ops /\ Runs(rec[w])
  /\ StartWorker(w)
  /\ UNCHANGED caller

Idle == [pc |-> "idle", w |-> 1, p |-> 0, again |-> FALSE]

(* What follows a pause: restart_worker starts the worker again.           *)
Paused(c) == caller' = [caller EXCEPT ![c] = IF @.again THEN [@ EXCEPT !.pc = "start", !.p = 0] ELSE Idle]
PauseRaises(c) == caller' = [caller EXCEPT ![c] = Idle]

(* _pause_worker up to the place where it waits for the process to end.    *)
PauseWorker(c, w, operator, again) ==
  LET r == [rec[w] EXCEPT !.byOperator = @ \/ operator, !.want = FALSE, !.sched = FALSE, !.res = FALSE]
      waits(pc, p) == caller' = [caller EXCEPT ![c] = [pc |-> pc, w |-> w, p |-> p, again |-> again]]
  IN
  /\ ~Locked /\ caller[c].pc = "idle"
  /\ (IF again THEN "restart" ELSE "pause") \in Ops
  /\ IF r.stop # 0 THEN Put(w, r) /\ waits("join", r.stop)
     ELSE IF r.proc # 0 THEN Put(w, [r EXCEPT !.st = "stopping"]) /\ waits("term", r.proc)
     ELSE /\ Put(w, [r EXCEPT !.st = "paused"])
          /\ IF again THEN waits("start", 0) ELSE UNCHANGED caller
  /\ UNCHANGED <<alive, open, over, mon, shut, failures>>

(* Fault model: the record is cleared whatever its process is by now.      *)
PauseStopsClears(c) ==
  LET w == caller[c].w p == caller[c].p r == rec[w] IN
  /\ ~Locked /\ caller[c].pc = "term" /\ p \notin alive
  /\ Put(w, [r EXCEPT !.proc = 0, !.st = "paused"])
  /\ Paused(c)
  /\ UNCHANGED <<alive, open, over, mon, shut, failures>>

(* The process has ended, or cannot be stopped.                            *)
PauseStops(c) ==
  LET w == caller[c].w p == caller[c].p r == rec[w] IN
  /\ ~Locked /\ caller[c].pc = "term"
  /\ IF p \notin alive
     THEN /\ Put(w, [r EXCEPT !.proc = IF @ = p THEN 0 ELSE @, !.st = "paused"])
          /\ Paused(c) /\ UNCHANGED failures
     ELSE /\ Fails
          /\ Put(w, [r EXCEPT !.st = "crashed"])
          /\ PauseRaises(c)
  /\ UNCHANGED <<alive, open, over, mon, shut>>

(* The suspension thread has ended, or does not end in time.               *)
PauseJoins(c) ==
  LET w == caller[c].w IN
  /\ caller[c].pc = "join"
  /\ IF rec[w].stop # caller[c].p
     THEN /\ ~Locked
          /\ IF rec[w].proc # 0 THEN PauseRaises(c) /\ UNCHANGED rec
             ELSE Put(w, [rec[w] EXCEPT !.st = "paused"]) /\ Paused(c)
          /\ UNCHANGED failures
     ELSE Fails /\ PauseRaises(c) /\ UNCHANGED rec
  /\ UNCHANGED <<alive, open, over, mon, shut>>

(* restart_worker, after the pause.                                        *)
RestartStarts(c) ==
  /\ caller[c].pc = "start"
  /\ StartWorker(caller[c].w)
  /\ PauseRaises(c)
-----------------------------------------------------------------------------
Busy(r) == r.want \/ r.proc # 0 \/ r.stop # 0 \/ r.st = "stopping"

(* replace_launch gives an idle worker another launch and starts it,       *)
(* unless the operator has paused it.                                      *)
ReplaceLaunch(w, l, start) ==
  LET r == Refreshed(rec[w])
      new == [r EXCEPT !.launch = l, !.sched = FALSE, !.res = FALSE,
                       !.want = start /\ ~r.byOperator /\ l.admitted]
  IN
  /\ "replace" \in Ops /\ ~Locked /\ ~Closed
  /\ IF Busy(r) THEN Put(w, r) /\ UNCHANGED <<alive, failures>>
     ELSE IF new.want THEN SpawnLocked(w, new, TRUE, TRUE, FALSE)
     ELSE Put(w, new) /\ UNCHANGED <<alive, failures>>
  /\ UNCHANGED <<open, over, mon, caller, shut>>

(* reconfigure replaces all launches while every worker is idle.  It       *)
(* refreshes the records up to the first busy one.  When the policy cannot *)
(* be persisted, only the refresh takes effect.                            *)
Reconfigure(ls, persists) ==
  LET fresh == [w \in Workers |-> Refreshed(rec[w])]
      busy == {w \in Workers : Busy(fresh[w])}
  IN
  /\ "reconfigure" \in Ops /\ ~Locked /\ ~Closed
  /\ rec' = IF busy # {} THEN [w \in Workers |-> IF w <= Min(busy) THEN fresh[w] ELSE rec[w]]
            ELSE IF persists
            THEN [w \in Workers |-> [fresh[w] EXCEPT !.launch = ls[w], !.sched = FALSE, !.res = FALSE]]
            ELSE fresh
  /\ UNCHANGED <<alive, open, over, mon, caller, shut, failures>>
-----------------------------------------------------------------------------
(* shutdown: nothing is wanted any more.                                   *)
Shutdown ==
  /\ "shutdown" \in Ops /\ ~Locked /\ shut.pc = "no"
  /\ rec' = [w \in Workers |-> [rec[w] EXCEPT !.want = FALSE, !.sched = FALSE, !.res = FALSE]]
  /\ shut' = [shut EXCEPT !.pc = "join", !.threads = [w \in Workers |-> rec[w].stop]]
  /\ UNCHANGED <<alive, open, over, mon, caller, failures>>

Joined(w) == shut.threads[w] = 0 \/ rec[w].stop # shut.threads[w]

(* It waits for the suspension threads, for a bounded time.                *)
ShutdownJoins ==
  /\ shut.pc = "join"
  /\ IF \A w \in Workers : Joined(w) THEN UNCHANGED failures ELSE Fails
  /\ shut' = [shut EXCEPT !.pc = "stop"]
  /\ UNCHANGED <<rec, alive, open, over, mon, caller>>

ShutdownNext == shut' = [shut EXCEPT !.pc = "stop", !.i = @ + 1, !.p = 0]

(* Fault model: a worker that is being paused is left to its pause.        *)
ShutdownStopsOthers ==
  LET w == shut.i IN
  /\ shut.pc = "stop" /\ w \in Workers
  /\ IF Joined(w) /\ rec[w].proc # 0 /\ rec[w].st # "stopping"
     THEN /\ ~Locked
          /\ Put(w, [rec[w] EXCEPT !.st = "stopping"])
          /\ shut' = [shut EXCEPT !.pc = "term", !.p = rec[w].proc]
     ELSE ShutdownNext /\ UNCHANGED rec
  /\ UNCHANGED <<alive, open, over, mon, caller, failures>>

(* It stops the processes one by one.                                      *)
ShutdownStops ==
  LET w == shut.i IN
  /\ shut.pc = "stop" /\ w \in Workers
  /\ IF Joined(w) /\ rec[w].proc # 0
     THEN /\ ~Locked
          /\ Put(w, [rec[w] EXCEPT !.st = "stopping"])
          /\ shut' = [shut EXCEPT !.pc = "term", !.p = rec[w].proc]
     ELSE ShutdownNext /\ UNCHANGED rec
  /\ UNCHANGED <<alive, open, over, mon, caller, failures>>

ShutdownStopped ==
  /\ shut.pc = "term" /\ ~Locked
  /\ IF shut.p \notin alive
     THEN /\ Put(shut.i, [rec[shut.i] EXCEPT !.proc = 0, !.st = "paused"])
          /\ UNCHANGED failures
     ELSE Fails /\ UNCHANGED rec
  /\ ShutdownNext
  /\ UNCHANGED <<alive, open, over, mon, caller>>

ShutdownDone ==
  /\ shut.pc = "stop" /\ shut.i > NumWorkers
  /\ shut' = [shut EXCEPT !.pc = "done"]
  /\ UNCHANGED <<rec, alive, open, over, mon, caller, failures>>
-----------------------------------------------------------------------------
(* A process ends, by itself or because it is told to.                     *)
Condemned == {rec[w].stop : w \in Workers} \cup {caller[c].p : c \in {d \in Callers : caller[d].pc = "term"}}
             \cup {shut.p}

Exits(p) == p \in Condemned /\ alive' = alive \ {p} /\ UNCHANGED <<rec, open, over, mon, caller,
                                                                   shut, failures>>
Crashes(p) == alive' = alive \ {p} /\ UNCHANGED <<rec, open, over, mon, caller, shut, failures>>

(* snapshots refreshes every record.                                       *)
Snapshots ==
  /\ ~Locked
  /\ rec' = [w \in Workers |-> Refreshed(rec[w])]
  /\ UNCHANGED <<alive, open, over, mon, caller, shut, failures>>

(* The clock and the measurements.                                         *)
BackoffEnds(w) ==
  /\ rec[w].cool
  /\ Put(w, [rec[w] EXCEPT !.cool = FALSE])
  /\ UNCHANGED <<alive, open, over, mon, caller, shut, failures>>

ScheduleTurns ==
  /\ ScheduleSet
  /\ open' = ~open
  /\ UNCHANGED <<rec, alive, over, mon, caller, shut, failures>>

Measure(w) ==
  /\ over' = IF w \in over THEN over \ {w} ELSE over \cup {w}
  /\ UNCHANGED <<rec, alive, open, mon, caller, shut, failures>>
-----------------------------------------------------------------------------
Init ==
  /\ \E l \in [Workers -> Launches], auto \in SUBSET Workers :
       rec = [w \in Workers |-> NewRecord(l[w], w \in auto)]
  /\ alive = {} /\ over = {}
  /\ open \in (IF ScheduleSet THEN BOOLEAN ELSE {TRUE})
  /\ mon = [pc |-> "start", seen |-> FALSE, i |-> 1]
  /\ caller = [c \in Callers |-> Idle]
  /\ shut = [pc |-> "no", i |-> 1, p |-> 0, threads |-> [w \in Workers |-> 0]]
  /\ failures = 0 /\ events = 0

Threads ==
  \/ StartService \/ MonitorRead \/ MonitorStep
  \/ \E w \in Workers : FinishSuspension(w)
  \/ \E c \in Callers : PauseStops(c) \/ PauseJoins(c) \/ RestartStarts(c)
  \/ ShutdownJoins \/ ShutdownStops \/ ShutdownStopped \/ ShutdownDone

Requests ==
  \/ \E w \in Workers : Start(w)
  \/ \E c \in Callers, w \in Workers, operator, again \in BOOLEAN :
       (again => operator) /\ PauseWorker(c, w, operator, again)
  \/ \E w \in Workers, l \in Launches, start \in BOOLEAN : ReplaceLaunch(w, l, start)
  \/ \E ls \in [Workers -> Launches], persists \in BOOLEAN : Reconfigure(ls, persists)

Events ==
  \/ Requests
  \/ \E p \in alive : Crashes(p)
  \/ \E w \in Workers : Measure(w)
  \/ ScheduleTurns

Passes == (\E p \in alive : Exits(p)) \/ (\E w \in Workers : BackoffEnds(w))

Next ==
  \/ (Threads \/ Shutdown \/ Snapshots \/ Passes) /\ UNCHANGED events
  \/ events < MaxEvents /\ events' = events + 1 /\ Events

Spec == Init /\ [][Next]_vars

(* Threads go on, a process that is killed ends, and time passes.  The     *)
(* monitor leaves the lock free between its rounds, so that those who wait *)
(* for it get it.                                                          *)
FairSpec ==
  /\ Spec
  /\ WF_vars((StartService \/ MonitorRead \/ MonitorStep) /\ UNCHANGED events)
  /\ \A w \in Workers : SF_vars(FinishSuspension(w) /\ UNCHANGED events)
  /\ \A c \in Callers : SF_vars((PauseStops(c) \/ PauseJoins(c) \/ RestartStarts(c)) /\ UNCHANGED events)
  /\ WF_vars(Passes /\ UNCHANGED events)
-----------------------------------------------------------------------------
Record == [launch : Launches, st : {"paused", "running", "stopping", "crashed"},
           want : BOOLEAN, byOperator : BOOLEAN, proc : {0} \cup Pids,
           sched : BOOLEAN, res : BOOLEAN, stop : {0} \cup Pids, cool : BOOLEAN]

(* Types of the variables.                                                 *)
TypeOK ==
  /\ rec \in [Workers -> Record]
  /\ alive \subseteq Pids /\ open \in BOOLEAN /\ over \subseteq Workers
  /\ mon \in [pc : {"start", "wait", "ready", "body", "dead", "ended"}, seen : BOOLEAN, i : Workers]
  /\ caller \in [Callers -> [pc : {"idle", "join", "term", "start"}, w : Workers,
                             p : {0} \cup Pids, again : BOOLEAN]]
  /\ shut \in [pc : {"no", "join", "stop", "term", "done"}, i : 1..(NumWorkers + 1),
               p : {0} \cup Pids, threads : [Workers -> {0} \cup Pids]]
  /\ failures \in 0..MaxFailures /\ events \in 0..MaxEvents

(* Every running process is the process of exactly one worker: no restart, *)
(* however it interleaves with a stop that is under way, forgets one.      *)
NoOrphans == \A p \in alive : Cardinality({w \in Workers : rec[w].proc = p}) = 1

(* All of it: the records stay within their types, and know every process. *)
ProcessesKnown == TypeOK /\ NoOrphans

(* The processes that run never reserve more VRAM than the pool has.       *)
VramWithinPool == Vram({w \in Workers : Runs(rec[w])}) <= Pool

(* After shutdown no process runs.                                         *)
ShutdownStopsAll == shut.pc = "done" /\ failures = 0 => alive = {}

(* While the monitor thread lives, a worker that may run, is wanted and is *)
(* not left alone after a crash does not stay stopped.                     *)
Resumes ==
  \A w \in Workers :
    []<>(\/ Runs(rec[w]) \/ ~rec[w].want \/ Closed \/ mon.pc = "dead"
         \/ ~open \/ ~Resources(w, rec[w])
         \/ ~(rec[w].launch.restart \/ rec[w].sched \/ rec[w].res))

(* Only requests and shutdown take back the intent to run a worker: the    *)
(* monitor never does.                                                     *)
IntentRetained ==
  [][MonitorStep => \A w \in Workers : rec[w].want => rec'[w].want]_vars
=============================================================================
