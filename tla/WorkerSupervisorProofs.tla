----------------------- MODULE WorkerSupervisorProofs -----------------------
(***************************************************************************)
(* Proofs about WorkerSupervisor, for every number of workers and threads, *)
(* every pool and every set of launches.                                   *)
(*                                                                         *)
(* Every step is one of two kinds (StepCases): Quiet, where no process is  *)
(* started and only one that has ended is forgotten, or Spawns(w), where   *)
(* worker w, which does not run, starts a process of its own within the    *)
(* pool, before shutdown.  So a running process stays the one in its       *)
(* worker's record (Known), which gives NoOrphans, and the sum of what the *)
(* running workers reserve grows only by what the pool still had.          *)
(*                                                                         *)
(* For shutdown, the suspension that was under way when it began is the    *)
(* last one for its process (JoinsLast): once it has ended, its worker's   *)
(* process is another or none.  So the workers stay joined while shutdown  *)
(* goes over them, and those it has been through stay stopped (Sweeps).    *)
(***************************************************************************)
EXTENDS WorkerSupervisor, SumTheorems

(* Workers draw their processes from finite sets that do not meet.         *)
LEMMA PidsFacts ==
  /\ \A w \in Workers : PidsOf(w) \in SUBSET (Nat \ {0}) /\ IsFiniteSet(PidsOf(w))
  /\ \A w \in Workers : Cardinality(PidsOf(w)) = Cardinality(Callers) + 4
  /\ \A v, w \in Workers : v # w => PidsOf(v) \cap PidsOf(w) = {}
  <1> DEFINE k == Cardinality(Callers) + 4
  <1>1. k \in Nat \ {0} /\ NumWorkers \in Nat
    BY SupervisorAssumption, FS_CardinalityType
  <1>2. \A w \in Workers : w \in Nat \ {0} /\ PidsOf(w) = (k * (w - 1) + 1)..(k * w)
    BY <1>1 DEF Workers, PidsOf
  <1> HIDE DEF k
  <1>3. ASSUME NEW w \in Workers PROVE k * (w - 1) \in Nat /\ k * w = k * (w - 1) + k
    <2>1. w \in Nat /\ w - 1 \in Nat
      BY <1>2
    <2>2. QED
      BY <1>1, <2>1
  <1>4. ASSUME NEW w \in Workers PROVE PidsOf(w) \in SUBSET (Nat \ {0})
    <2> DEFINE m == k * (w - 1)
    <2>1. m \in Nat /\ PidsOf(w) = (m + 1)..(m + k)
      BY <1>2, <1>3
    <2> HIDE DEF m
    <2>2. QED
      BY <1>1, <2>1
  <1>5. ASSUME NEW w \in Workers
        PROVE  IsFiniteSet(PidsOf(w)) /\ Cardinality(PidsOf(w)) = k
    <2> DEFINE m == k * (w - 1)
    <2>1. m \in Nat /\ PidsOf(w) = (m + 1)..(m + k)
      BY <1>2, <1>3
    <2> HIDE DEF m
    <2> DEFINE lo == m + 1  hi == m + k
    <2>2. lo \in Int /\ hi \in Int /\ ~(lo > hi) /\ hi - lo + 1 = k
      BY <1>1, <2>1
    <2>3. PidsOf(w) = lo..hi
      BY <2>1
    <2> HIDE DEF lo, hi
    <2>4. IsFiniteSet(lo..hi) /\ Cardinality(lo..hi) = IF lo > hi THEN 0 ELSE hi - lo + 1
      BY <2>2, FS_Interval
    <2>5. QED
      BY <2>2, <2>3, <2>4
  <1>6. ASSUME NEW v \in Workers, NEW w \in Workers, v < w
        PROVE  PidsOf(v) \cap PidsOf(w) = {}
    <2>1. \A x, y, z \in Nat : y <= z => x * y \in Nat /\ x * y <= x * z
      OBVIOUS
    <2>2. k \in Nat /\ v \in Nat /\ w - 1 \in Nat /\ v <= w - 1
      BY <1>1, <1>2, <1>6
    <2>3. k * v \in Nat /\ k * v <= k * (w - 1)
      BY <2>1, <2>2
    <2> DEFINE a == k * v  b == k * (w - 1)  c == k * (v - 1)  d2 == k * w
    <2>4. a \in Nat /\ b \in Nat /\ c \in Nat /\ d2 \in Nat /\ a <= b
      BY <1>1, <1>3, <2>3
    <2>5. PidsOf(v) = (c + 1)..a /\ PidsOf(w) = (b + 1)..d2
      BY <1>2
    <2> HIDE DEF a, b, c, d2
    <2>6. QED
      BY <2>4, <2>5
  <1>7. QED
    BY <1>2, <1>4, <1>5, <1>6 DEF k
-----------------------------------------------------------------------------
(* A worker's processes are its own, the record names the one that runs,   *)
(* and shutdown stops the process that its worker had.                     *)
Owned == \A w \in Workers : {rec[w].proc, rec[w].stop} \subseteq {0} \cup PidsOf(w)
Known == \A w \in Workers : \A p \in alive \cap PidsOf(w) : rec[w].proc = p
ShutKnows == shut.pc = "term" => shut.i \in Workers /\ rec[shut.i].proc \in {0, shut.p}

(* None (0) is no process.                                                 *)
LEMMA ZeroIsNoPid == 0 \notin Pids
  BY PidsFacts DEF Pids

(* A process that is free for worker w exists: those in use among its own  *)
(* are the one it has, the one that is being stopped, and one for each     *)
(* thread.                                                                 *)
LEMMA NewPidIsFree ==
  ASSUME TypeOK, Owned, Known, NEW w \in Workers
  PROVE  NewPid(w) \in PidsOf(w) \ alive
  <1> DEFINE ps == {caller[c].p : c \in Callers}
             used == ps \cup {rec[w].proc} \cup {rec[w].stop} \cup {shut.p}
             free == PidsOf(w) \ (alive \cup {rec[w].proc, rec[w].stop, shut.p} \cup ps)
  <1>1. IsFiniteSet(ps) /\ Cardinality(ps) <= Cardinality(Callers)
    <2> DEFINE f == [c \in Callers |-> caller[c].p]
    <2>1. f \in Surjection(Callers, ps)
      BY DEF Surjection
    <2>2. IsFiniteSet(Callers)
      BY SupervisorAssumption
    <2> HIDE DEF ps, f
    <2>3. QED
      BY <2>1, <2>2, FS_Surjection, Zenon
  <1>2. IsFiniteSet(used) /\ Cardinality(used) <= Cardinality(Callers) + 3
    <2> HIDE DEF ps
    <2>1. \A S, x : IsFiniteSet(S) => /\ IsFiniteSet(S \cup {x})
                                      /\ Cardinality(S \cup {x}) <= Cardinality(S) + 1
      <3> SUFFICES ASSUME NEW S, NEW x, IsFiniteSet(S)
                   PROVE  IsFiniteSet(S \cup {x}) /\ Cardinality(S \cup {x}) <= Cardinality(S) + 1
        OBVIOUS
      <3>1. Cardinality(S) \in Nat
        BY FS_CardinalityType
      <3>2. /\ IsFiniteSet(S \cup {x})
            /\ Cardinality(S \cup {x}) = IF x \in S THEN Cardinality(S) ELSE Cardinality(S) + 1
        BY FS_AddElement
      <3>3. QED
        BY <3>1, <3>2
    <2>2. \A S : IsFiniteSet(S) => Cardinality(S) \in Nat
      BY FS_CardinalityType
    <2> DEFINE s1 == ps \cup {rec[w].proc}  s2 == s1 \cup {rec[w].stop}  s3 == s2 \cup {shut.p}
    <2>3. IsFiniteSet(s1) /\ Cardinality(s1) <= Cardinality(ps) + 1
      BY <1>1, <2>1
    <2> HIDE DEF s1
    <2>4. IsFiniteSet(s2) /\ Cardinality(s2) <= Cardinality(s1) + 1
      BY <2>1, <2>3
    <2> HIDE DEF s2
    <2>5. IsFiniteSet(s3) /\ Cardinality(s3) <= Cardinality(s2) + 1
      BY <2>1, <2>4
    <2>6. s3 = used
      BY DEF s1, s2
    <2> HIDE DEF s3, used
    <2>7. {Cardinality(ps), Cardinality(s1), Cardinality(s2), Cardinality(s3), Cardinality(Callers)} \subseteq Nat
      BY <1>1, <2>2, <2>3, <2>4, <2>5, SupervisorAssumption
    <2>8. QED
      BY <1>1, <2>3, <2>4, <2>5, <2>6, <2>7
  <1>3. alive \cap PidsOf(w) \subseteq used
    BY DEF Known
  <1>4. free # {}
    <2> SUFFICES ASSUME free = {} PROVE FALSE
      OBVIOUS
    <2>1. PidsOf(w) \subseteq used
      BY <1>3
    <2> HIDE DEF free, used, ps
    <2>2. Cardinality(PidsOf(w)) <= Cardinality(used)
      BY <1>2, <2>1, FS_Subset
    <2>3. Cardinality(used) \in Nat /\ Cardinality(Callers) \in Nat
      BY <1>2, FS_CardinalityType, SupervisorAssumption
    <2>4. QED
      BY <1>2, <2>2, <2>3, PidsFacts
  <1>5. free \in SUBSET Nat
    BY PidsFacts
  <1>6. Min(free) \in free
    <2> HIDE DEF free
    <2>1. QED
      BY <1>4, <1>5, LeastNumber DEF Min
  <1>7. NewPid(w) = Min(free)
    BY DEF NewPid
  <1>8. QED
    BY <1>6, <1>7
-----------------------------------------------------------------------------
(* A suspension goes on, begins, or ends: then its process is forgotten,   *)
(* unless it could not be stopped.                                         *)
Stops(w, q) ==
  \/ q.stop = rec[w].stop
  \/ rec[w].stop = 0 /\ q.stop = rec[w].proc
  \/ q.stop = 0 /\ (q.proc # rec[w].stop \/ failures < failures')

(* What a step does to the processes: either none is started and only a    *)
(* process that has ended is forgotten, or one worker starts one.          *)
Quiet ==
  /\ alive' \subseteq alive /\ failures <= failures'
  /\ \A w \in Workers :
       /\ rec'[w].proc = rec[w].proc \/ (rec'[w].proc = 0 /\ ~Runs(rec[w]))
       /\ Stops(w, rec'[w])
       /\ Runs(rec[w]) => rec'[w].launch = rec[w].launch

Spawns(w) ==
  /\ ~Closed /\ UNCHANGED shut
  /\ ~Runs(rec[w])
  /\ rec'[w].proc \in PidsOf(w) \ alive /\ alive' = alive \cup {rec'[w].proc}
  /\ rec'[w].stop = rec[w].stop
  /\ \A x \in Workers \ {w} : rec'[x] = rec[x]
  /\ Reserved(w) + rec'[w].launch.vram <= Pool

(* The record that _spawn_locked is called with: the worker's own, but for *)
(* intent, marks and, when the worker does not run, process and launch.    *)
From(w, r) ==
  /\ r \in Record
  /\ r.proc = rec[w].proc \/ (r.proc = 0 /\ ~Runs(rec[w]))
  /\ r.stop = rec[w].stop
  /\ Runs(rec[w]) => r.launch = rec[w].launch

(* The count of failures only grows, within its bound.                     *)
LEMMA FailsCounts ==
  ASSUME TypeOK, Fails \/ UNCHANGED failures
  PROVE  failures' \in 0..MaxFailures /\ failures <= failures' /\ (Fails => failures < failures')
  BY SupervisorAssumption DEF TypeOK, Fails

(* _spawn_locked, whatever it decides, is one of the two kinds of step.    *)
LEMMA SpawnCases ==
  ASSUME TypeOK, Owned, Known, NEW w \in Workers, NEW r, From(w, r),
         NEW defS \in BOOLEAN, NEW defR \in BOOLEAN, NEW raises \in BOOLEAN,
         SpawnLocked(w, r, defS, defR, raises), UNCHANGED shut
  PROVE  /\ rec' \in [Workers -> Record] /\ alive' \subseteq Pids /\ failures' \in 0..MaxFailures
         /\ Quiet \/ Spawns(w)
  <1> USE DEF TypeOK
  <1>0. 0 \notin alive
    BY ZeroIsNoPid
  <1>1. ASSUME NEW q \in Record, q.proc = r.proc, q.stop = r.stop, q.launch = r.launch,
               Put(w, q), UNCHANGED <<alive, failures>>
        PROVE  rec' \in [Workers -> Record] /\ alive' \subseteq Pids /\ failures' \in 0..MaxFailures /\ Quiet
    BY <1>0, <1>1 DEF Put, Quiet, From, Stops, TypeOK
  <1>2. CASE ~r.launch.admitted
    <2>1. [r EXCEPT !.want = FALSE] \in Record
      BY DEF From, Record
    <2>2. QED
      BY <1>1, <1>2, <2>1 DEF SpawnLocked, Record, From
  <1> DEFINE refused(d) == [r EXCEPT !.st = "paused", !.want = @ /\ d]
  <1>3. CASE r.launch.admitted /\ ~open
    <2> DEFINE q == [refused(defS) EXCEPT !.sched = defS /\ r.want]
    <2>1. q \in Record /\ q.proc = r.proc /\ q.stop = r.stop /\ q.launch = r.launch
      BY ZenonT(40) DEF From, Record
    <2>2. Put(w, q) /\ UNCHANGED alive /\ UNCHANGED failures
      BY <1>3 DEF SpawnLocked
    <2>3. QED
      BY <1>1, <2>1, <2>2
  <1>4. CASE r.launch.admitted /\ open /\ ~Resources(w, r)
    <2> DEFINE q == [refused(defR) EXCEPT !.res = defR /\ r.want]
    <2>1. q \in Record /\ q.proc = r.proc /\ q.stop = r.stop /\ q.launch = r.launch
      BY ZenonT(40) DEF From, Record
    <2>2. Put(w, q) /\ UNCHANGED alive /\ UNCHANGED failures
      BY <1>4 DEF SpawnLocked
    <2>3. QED
      BY <1>1, <2>1, <2>2
  <1>5. CASE r.launch.admitted /\ open /\ Resources(w, r) /\ (Closed \/ Runs(r))
    BY <1>1, <1>5 DEF SpawnLocked, From
  <1>6. CASE r.launch.admitted /\ open /\ Resources(w, r) /\ ~(Closed \/ Runs(r))
    <2>1. ~Runs(rec[w])
      BY <1>6 DEF From, Runs
    <2>2. CASE Fails /\ Put(w, [r EXCEPT !.proc = 0, !.st = "crashed", !.cool = TRUE]) /\ UNCHANGED alive
      <3> DEFINE q == [r EXCEPT !.proc = 0, !.st = "crashed", !.cool = TRUE]
      <3>1. q \in Record /\ q.proc = 0 /\ q.stop = r.stop
        BY DEF From, Record
      <3>2. failures' \in 0..MaxFailures /\ failures <= failures'
        BY <2>2, FailsCounts
      <3>3. rec' = [rec EXCEPT ![w] = q]
        BY <2>2 DEF Put
      <3> HIDE DEF q
      <3>4. QED
        BY <2>1, <2>2, <3>1, <3>2, <3>3 DEF Quiet, From, Stops, TypeOK
    <2>3. CASE /\ Put(w, [r EXCEPT !.proc = NewPid(w), !.st = "running", !.sched = FALSE, !.res = FALSE])
               /\ alive' = alive \cup {NewPid(w)}
               /\ UNCHANGED failures
      <3> DEFINE q == [r EXCEPT !.proc = NewPid(w), !.st = "running", !.sched = FALSE, !.res = FALSE]
      <3>1. NewPid(w) \in PidsOf(w) \ alive /\ NewPid(w) \in Pids
        BY NewPidIsFree DEF Pids
      <3> HIDE DEF NewPid
      <3>2. q \in Record /\ q.proc = NewPid(w) /\ q.stop = r.stop /\ q.launch = r.launch
        BY <3>1 DEF From, Record
      <3>3. rec' = [rec EXCEPT ![w] = q]
        BY <2>3 DEF Put
      <3> HIDE DEF q
      <3>4. rec' \in [Workers -> Record] /\ alive' \subseteq Pids
        BY <2>3, <3>1, <3>2, <3>3
      <3>5. Reserved(w) + r.launch.vram <= Pool
        BY <1>6 DEF Resources
      <3>6. Spawns(w)
        BY <1>6, <2>1, <2>3, <3>1, <3>2, <3>3, <3>5 DEF Spawns, From
      <3>7. QED
        BY <2>3, <3>4, <3>6
    <2>4. QED
      BY <1>6, <2>2, <2>3 DEF SpawnLocked
  <1>7. QED
    BY <1>2, <1>3, <1>4, <1>5, <1>6

(* _refresh_locked forgets nothing but a process that has ended.           *)
LEMMA RefreshedFrom ==
  ASSUME TypeOK, NEW w \in Workers
  PROVE  From(w, Refreshed(rec[w])) /\ Refreshed(rec[w]).launch = rec[w].launch
  <1> DEFINE r == rec[w]
             q == [r EXCEPT !.proc = 0, !.cool = @ \/ r.want, !.st = IF r.want THEN "crashed" ELSE "paused"]
  <1>1. r \in Record
    BY DEF TypeOK
  <1>2. q \in Record /\ q.proc = 0 /\ q.stop = r.stop /\ q.launch = r.launch
    BY <1>1 DEF Record
  <1>3. Refreshed(r) = r \/ (Refreshed(r) = q /\ ~Runs(r))
    BY DEF Refreshed
  <1> HIDE DEF q
  <1>4. QED
    BY <1>1, <1>2, <1>3 DEF From

(* A record is changed, and no process is started.                         *)
LEMMA PutCases ==
  ASSUME TypeOK, NEW w \in Workers, NEW q \in Record, Put(w, q), UNCHANGED alive,
         q.proc = rec[w].proc \/ (q.proc = 0 /\ ~Runs(rec[w])),
         Stops(w, q), Fails \/ UNCHANGED failures,
         Runs(rec[w]) => q.launch = rec[w].launch
  PROVE  rec' \in [Workers -> Record] /\ alive' \subseteq Pids /\ failures' \in 0..MaxFailures /\ Quiet
  <1>1. \A x \in Workers \ {w} : rec'[x] = rec[x]
    BY DEF Put, TypeOK
  <1>2. rec'[w] = q
    BY DEF Put, TypeOK
  <1>3. failures' \in 0..MaxFailures /\ failures <= failures'
    BY FailsCounts
  <1>4. QED
    BY <1>1, <1>2, <1>3 DEF TypeOK, Put, Quiet, Stops

(* What a step leaves behind: variables of their types, and processes      *)
(* started or forgotten as above.                                          *)
Typed == TypeOK' /\ (Quiet \/ \E w \in Workers : Spawns(w))

(* The types of what the supervisor's records and processes are not about. *)
Elsewhere ==
  /\ open' \in BOOLEAN /\ over' \subseteq Workers
  /\ mon' \in [pc : {"start", "wait", "ready", "body", "dead", "ended"}, seen : BOOLEAN, i : Workers]
  /\ caller' \in [Callers -> [pc : {"idle", "join", "term", "start"}, w : Workers,
                              p : {0} \cup Pids, again : BOOLEAN]]
  /\ shut' \in [pc : {"no", "join", "stop", "term", "done"}, i : 1..(NumWorkers + 1),
                p : {0} \cup Pids, threads : [Workers -> {0} \cup Pids]]
  /\ events' \in 0..MaxEvents

(* start_service and the monitor thread, whether or not they raise.        *)
LEMMA MonitorCases ==
  ASSUME TypeOK, Owned, Known, events' \in 0..MaxEvents, StartService \/ MonitorRead \/ MonitorStep
  PROVE  Typed /\ UNCHANGED shut
  <1>1. mon.i \in Workers /\ rec[mon.i] \in Record
    BY DEF TypeOK
  <1>2. 1 \in Workers /\ (mon.i # NumWorkers => mon.i + 1 \in Workers)
    BY <1>1, SupervisorAssumption DEF Workers
  <1>3. CASE StartService
    <2> DEFINE w == mon.i
    <2>1. Elsewhere /\ UNCHANGED shut
      BY <1>2, <1>3 DEF StartService, Elsewhere, TypeOK
    <2>2. CASE rec[w].want
      <3>1. SpawnLocked(w, rec[w], TRUE, TRUE, FALSE)
        BY <1>3, <2>2 DEF StartService
      <3>2. From(w, rec[w])
        BY <1>1 DEF From
      <3>3. QED
        BY <1>1, <2>1, <3>1, <3>2, SpawnCases DEF Typed, Elsewhere, TypeOK
    <2>3. CASE ~rec[w].want
      BY <1>3, <2>1, <2>3 DEF StartService, Typed, Elsewhere, TypeOK, Quiet, Stops
    <2>4. QED
      BY <2>2, <2>3
  <1>4. CASE MonitorRead
    BY <1>2, <1>4 DEF MonitorRead, Typed, TypeOK, Quiet, Stops
  <1>5. CASE MonitorStep
    <2> DEFINE w == mon.i  r == Refreshed(rec[w])
    <2>1. Elsewhere /\ UNCHANGED shut
      BY <1>1, <1>2, <1>5 DEF MonitorStep, Elsewhere, TypeOK
    <2>2. PICK raises \in BOOLEAN : MonitorTurn(w, raises)
      BY <1>5 DEF MonitorStep
    <2>3. From(w, r) /\ r.launch = rec[w].launch /\ r \in Record
      BY <1>1, RefreshedFrom DEF From
    <2> HIDE DEF r
    <2>4. ASSUME NEW x \in Record, x.proc = r.proc, x.launch = r.launch,
                 x.stop = r.stop \/ (r.stop = 0 /\ x.stop = r.proc),
                 Put(w, x), UNCHANGED <<alive, failures>>
          PROVE  Typed
      <3>1. Stops(w, x)
        BY <2>3, <2>4 DEF From, Stops
      <3>2. rec' \in [Workers -> Record] /\ alive' \subseteq Pids /\ Quiet
        BY <1>1, <2>3, <2>4, <3>1, PutCases DEF From, Stops
      <3>3. QED
        BY <2>1, <2>4, <3>2 DEF Typed, Elsewhere, TypeOK
    <2>5. ASSUME NEW x \in Record, x.proc = r.proc, x.launch = r.launch, x.stop = r.stop,
                 SpawnLocked(w, x, FALSE, TRUE, raises)
          PROVE  Typed
      <3>1. From(w, x)
        BY <2>3, <2>5 DEF From
      <3>2. /\ rec' \in [Workers -> Record] /\ alive' \subseteq Pids /\ failures' \in 0..MaxFailures
            /\ Quiet \/ Spawns(w)
        BY <1>1, <2>1, <2>5, <3>1, SpawnCases
      <3>3. QED
        BY <1>1, <2>1, <3>2 DEF Typed, Elsewhere, TypeOK
    <2> DEFINE just(x) == Put(w, x) /\ ~raises /\ UNCHANGED <<alive, failures>>
               resume(x) == IF x.want THEN SpawnLocked(w, x, FALSE, TRUE, raises) ELSE just(x)
    <2>6. just(r) => Typed
      BY <2>3, <2>4
    <2>7. ASSUME NEW x \in Record, x.proc = r.proc, x.launch = r.launch, x.stop = r.stop, resume(x)
          PROVE  Typed
      BY <2>4, <2>5, <2>7
    <2>8. ASSUME NEW x \in Record, x.proc = r.proc, x.launch = r.launch, x.stop = r.stop, just(Suspended(x))
          PROVE  Typed
      <3>1. /\ Suspended(x) \in Record /\ Suspended(x).proc = r.proc /\ Suspended(x).launch = r.launch
            /\ Suspended(x).stop = r.stop \/ (r.stop = 0 /\ Suspended(x).stop = r.proc)
        BY <2>8 DEF Suspended, Record
      <3>2. QED
        BY <2>4, <2>8, <3>1
    <2> DEFINE s == [r EXCEPT !.sched = TRUE]  t == [r EXCEPT !.res = TRUE]
               u == [r EXCEPT !.sched = FALSE]  v == [r EXCEPT !.res = FALSE]
    <2>9. \A x \in {s, t, u, v} : x \in Record /\ x.proc = r.proc /\ x.launch = r.launch /\ x.stop = r.stop
      BY <2>3 DEF Record
    <2>10. just(r) \/ just(Suspended(s)) \/ just(Suspended(t)) \/ resume(u) \/ resume(v) \/ resume(r)
      BY <2>2 DEF MonitorTurn, r
    <2> HIDE DEF just, resume, s, t, u, v
    <2>11. QED
      BY <2>1, <2>3, <2>6, <2>7, <2>8, <2>9, <2>10
  <1>6. QED
    BY <1>3, <1>4, <1>5

(* start_worker, called by the API or by restart_worker.                   *)
LEMMA StartCases ==
  ASSUME TypeOK, Owned, Known, NEW w \in Workers, StartWorker(w), Elsewhere
  PROVE  Typed /\ UNCHANGED shut
  <1> DEFINE r == rec[w]
             x == IF r.launch.admitted THEN [r EXCEPT !.byOperator = FALSE, !.want = TRUE] ELSE r
  <1>1. From(w, x)
    <2>1. r \in Record
      BY DEF TypeOK
    <2>2. x \in Record /\ x.proc = r.proc /\ x.stop = r.stop /\ x.launch = r.launch
      BY <2>1 DEF Record
    <2>3. QED
      BY <2>2 DEF From
  <1> HIDE DEF x
  <1>2. PICK raises \in BOOLEAN : SpawnLocked(w, x, FALSE, FALSE, raises)
    BY DEF StartWorker, x
  <1>3. UNCHANGED shut
    BY DEF StartWorker
  <1>4. /\ rec' \in [Workers -> Record] /\ alive' \subseteq Pids /\ failures' \in 0..MaxFailures
        /\ Quiet \/ Spawns(w)
    BY <1>1, <1>2, <1>3, SpawnCases
  <1>5. QED
    BY <1>3, <1>4 DEF Typed, Elsewhere, TypeOK

(* What follows the wait in _pause_worker and restart_worker.              *)
LEMMA CallerCases ==
  ASSUME TypeOK, Owned, Known, events' \in 0..MaxEvents, NEW c \in Callers,
         PauseStops(c) \/ PauseJoins(c) \/ RestartStarts(c)
  PROVE  Typed /\ UNCHANGED shut
  <1> DEFINE w == caller[c].w  r == rec[w]
  <1>1. w \in Workers /\ r \in Record
    BY DEF TypeOK
  <1>2. Idle \in [pc : {"idle", "join", "term", "start"}, w : Workers, p : {0} \cup Pids, again : BOOLEAN]
    BY SupervisorAssumption DEF Idle, Workers
  <1>3. ASSUME PauseRaises(c) \/ Paused(c)
        PROVE  caller' \in [Callers -> [pc : {"idle", "join", "term", "start"}, w : Workers,
                                        p : {0} \cup Pids, again : BOOLEAN]]
    <2>1. CASE caller' = [caller EXCEPT ![c] = Idle]
      BY <1>2, <2>1 DEF TypeOK
    <2>2. CASE caller' = [caller EXCEPT ![c] = [@ EXCEPT !.pc = "start", !.p = 0]]
      <3> DEFINE n == [caller[c] EXCEPT !.pc = "start", !.p = 0]
      <3>0. caller[c] \in [pc : {"idle", "join", "term", "start"}, w : Workers, p : {0} \cup Pids, again : BOOLEAN]
        BY DEF TypeOK
      <3>1. n \in [pc : {"idle", "join", "term", "start"}, w : Workers, p : {0} \cup Pids, again : BOOLEAN]
        BY <3>0
      <3>2. caller' = [caller EXCEPT ![c] = n]
        BY <2>2
      <3> HIDE DEF n
      <3>3. QED
        BY <3>1, <3>2 DEF TypeOK
    <2>3. QED
      BY <1>3, <2>1, <2>2 DEF PauseRaises, Paused
  <1>4. 0 \notin alive
    BY ZeroIsNoPid DEF TypeOK
  <1>5. CASE PauseStops(c)
    <2>1. Elsewhere /\ UNCHANGED shut
      BY <1>3, <1>5 DEF PauseStops, Elsewhere, TypeOK
    <2>2. CASE caller[c].p \notin alive
      <3> DEFINE q == [r EXCEPT !.proc = IF @ = caller[c].p THEN 0 ELSE @, !.st = "paused"]
      <3>1. q \in Record /\ q.stop = r.stop /\ q.launch = r.launch /\ (q.proc = r.proc \/ (q.proc = 0 /\ ~Runs(r)))
        BY <1>1, <2>2 DEF Record, Runs
      <3>2. Put(w, q) /\ UNCHANGED <<alive, failures>>
        BY <1>5, <2>2 DEF PauseStops
      <3> HIDE DEF q
      <3>3. QED
        BY <1>1, <2>1, <3>1, <3>2, PutCases DEF Typed, Elsewhere, TypeOK, Stops
    <2>3. CASE caller[c].p \in alive
      <3> DEFINE q == [r EXCEPT !.st = "crashed"]
      <3>1. q \in Record /\ q.stop = r.stop /\ q.launch = r.launch /\ q.proc = r.proc
        BY <1>1 DEF Record
      <3>2. Put(w, q) /\ UNCHANGED alive /\ Fails
        BY <1>5, <2>3 DEF PauseStops
      <3> HIDE DEF q
      <3>3. QED
        BY <1>1, <2>1, <3>1, <3>2, PutCases DEF Typed, Elsewhere, TypeOK, Stops
    <2>4. QED
      BY <2>2, <2>3
  <1>6. CASE PauseJoins(c)
    <2>1. Elsewhere /\ UNCHANGED <<shut, alive>> /\ (Fails \/ UNCHANGED failures)
      BY <1>3, <1>6 DEF PauseJoins, Elsewhere, TypeOK
    <2>2. CASE UNCHANGED rec
      BY <2>1, <2>2, FailsCounts DEF Typed, Elsewhere, TypeOK, Quiet, Stops
    <2>3. CASE Put(w, [r EXCEPT !.st = "paused"])
      <3> DEFINE q == [r EXCEPT !.st = "paused"]
      <3>1. q \in Record /\ q.stop = r.stop /\ q.launch = r.launch /\ q.proc = r.proc
        BY <1>1 DEF Record
      <3> HIDE DEF q
      <3>2. Put(w, q)
        BY <2>3 DEF q
      <3>3. QED
        BY <1>1, <2>1, <3>1, <3>2, PutCases DEF Typed, Elsewhere, TypeOK, Stops
    <2>4. QED
      BY <1>6, <2>2, <2>3 DEF PauseJoins
  <1>7. CASE RestartStarts(c)
    <2>1. Elsewhere /\ StartWorker(w)
      BY <1>3, <1>7 DEF RestartStarts, StartWorker, Elsewhere, TypeOK
    <2>2. QED
      BY <1>1, <2>1, StartCases
  <1>8. QED
    BY <1>5, <1>6, <1>7

(* The requests of API, placement service and policy store.                *)
LEMMA RequestCases ==
  ASSUME TypeOK, Owned, Known, events' \in 0..MaxEvents, Requests
  PROVE  Typed /\ UNCHANGED shut
  <1>1. ASSUME NEW w \in Workers, Start(w) PROVE Typed /\ UNCHANGED shut
    <2>1. Elsewhere /\ StartWorker(w)
      BY <1>1 DEF Start, StartWorker, Elsewhere, TypeOK
    <2>2. QED
      BY <2>1, StartCases
  <1>2. ASSUME NEW c \in Callers, NEW w \in Workers, NEW operator \in BOOLEAN, NEW again \in BOOLEAN,
               PauseWorker(c, w, operator, again)
        PROVE  Typed /\ UNCHANGED shut
    <2> DEFINE r == [rec[w] EXCEPT !.byOperator = @ \/ operator, !.want = FALSE, !.sched = FALSE, !.res = FALSE]
    <2>1. r \in Record /\ r.proc = rec[w].proc /\ r.stop = rec[w].stop /\ r.launch = rec[w].launch
      <3> DEFINE b == rec[w].byOperator \/ operator
      <3>1. rec[w] \in Record
        BY DEF TypeOK
      <3>2. b \in BOOLEAN
        OBVIOUS
      <3>3. r = [rec[w] EXCEPT !.byOperator = b, !.want = FALSE, !.sched = FALSE, !.res = FALSE]
        OBVIOUS
      <3> HIDE DEF b, r
      <3>4. QED
        BY <3>1, <3>2, <3>3 DEF Record
    <2>2. PICK q \in {r, [r EXCEPT !.st = "stopping"], [r EXCEPT !.st = "paused"]} : Put(w, q)
      BY <1>2 DEF PauseWorker
    <2>3. caller' \in [Callers -> [pc : {"idle", "join", "term", "start"}, w : Workers,
                                   p : {0} \cup Pids, again : BOOLEAN]]
      <3> HIDE DEF r
      <3>1. r.stop \in {0} \cup Pids /\ r.proc \in {0} \cup Pids
        BY <2>1 DEF Record
      <3>2. QED
        BY <1>2, <3>1 DEF PauseWorker, TypeOK, r
    <2>4. Elsewhere /\ UNCHANGED <<shut, alive, failures>>
      BY <1>2, <2>3 DEF PauseWorker, Elsewhere, TypeOK
    <2>5. q \in Record /\ q.proc = rec[w].proc /\ q.stop = rec[w].stop /\ q.launch = rec[w].launch
      BY <2>1, <2>2, ZenonT(40) DEF Record
    <2>6. QED
      BY <2>2, <2>4, <2>5, PutCases DEF Typed, Elsewhere, TypeOK, Stops
  <1>3. ASSUME NEW w \in Workers, NEW l \in Launches, NEW start \in BOOLEAN, ReplaceLaunch(w, l, start)
        PROVE  Typed /\ UNCHANGED shut
    <2> DEFINE r == Refreshed(rec[w])
               new == [r EXCEPT !.launch = l, !.sched = FALSE, !.res = FALSE,
                                !.want = start /\ ~r.byOperator /\ l.admitted]
    <2>1. From(w, r) /\ r.launch = rec[w].launch /\ r \in Record
      BY RefreshedFrom DEF From
    <2>2. Elsewhere /\ UNCHANGED shut
      BY <1>3 DEF ReplaceLaunch, Elsewhere, TypeOK
    <2>3. l.admitted \in BOOLEAN
      BY SupervisorAssumption
    <2> HIDE DEF r
    <2>4. CASE Busy(r)
      <3>1. Put(w, r) /\ UNCHANGED <<alive, failures>>
        BY <1>3, <2>4 DEF ReplaceLaunch, r
      <3>2. QED
        BY <2>1, <2>2, <3>1, PutCases DEF Typed, Elsewhere, TypeOK, From, Stops
    <2>5. CASE ~Busy(r)
      <3>1. new \in Record /\ new.proc = r.proc /\ new.stop = r.stop
        BY <2>1, <2>3 DEF Record
      <3>2. ~Runs(rec[w])
        <4>1. r.proc = 0 /\ 0 \notin alive
          BY <2>5, ZeroIsNoPid DEF Busy, TypeOK
        <4>2. QED
          BY <2>1, <4>1 DEF From, Runs
      <3>3. From(w, new)
        BY <2>1, <3>1, <3>2 DEF From
      <3>4. CASE new.want
        <4>1. SpawnLocked(w, new, TRUE, TRUE, FALSE)
          BY <1>3, <2>5, <3>4 DEF ReplaceLaunch, r
        <4> HIDE DEF new
        <4>2. /\ rec' \in [Workers -> Record] /\ alive' \subseteq Pids /\ failures' \in 0..MaxFailures
              /\ Quiet \/ Spawns(w)
          BY <2>2, <3>3, <4>1, SpawnCases
        <4>3. QED
          BY <2>2, <4>2 DEF Typed, Elsewhere, TypeOK
      <3>5. CASE ~new.want
        <4>1. Put(w, new) /\ UNCHANGED <<alive, failures>>
          BY <1>3, <2>5, <3>5 DEF ReplaceLaunch, r
        <4> HIDE DEF new
        <4>2. QED
          BY <2>2, <3>3, <4>1, PutCases DEF Typed, Elsewhere, TypeOK, From, Stops
      <3>6. QED
        BY <3>4, <3>5
    <2>6. QED
      BY <2>4, <2>5
  <1>4. ASSUME NEW ls \in [Workers -> Launches], NEW persists \in BOOLEAN, Reconfigure(ls, persists)
        PROVE  Typed /\ UNCHANGED shut
    <2> DEFINE fresh == [w \in Workers |-> Refreshed(rec[w])]
               busy == {w \in Workers : Busy(fresh[w])}
               idle == [w \in Workers |-> [fresh[w] EXCEPT !.launch = ls[w], !.sched = FALSE, !.res = FALSE]]
    <2>1. Elsewhere /\ UNCHANGED <<shut, alive, failures>>
      BY <1>4 DEF Reconfigure, Elsewhere, TypeOK
    <2>2. \A w \in Workers : fresh[w] \in Record /\ From(w, fresh[w]) /\ fresh[w].launch = rec[w].launch
      BY RefreshedFrom DEF From
    <2> HIDE DEF fresh
    <2>3. CASE rec' = idle /\ busy = {}
      <3>1. \A w \in Workers : /\ idle[w] \in Record /\ idle[w].proc = fresh[w].proc
                               /\ idle[w].stop = fresh[w].stop
        BY <2>2 DEF Record
      <3>2. \A w \in Workers : ~Runs(rec[w])
        <4> SUFFICES ASSUME NEW w \in Workers PROVE ~Runs(rec[w])
          OBVIOUS
        <4>1. fresh[w].proc = 0 /\ 0 \notin alive
          BY <2>3, ZeroIsNoPid DEF Busy, TypeOK
        <4>2. QED
          BY <2>2, <4>1 DEF From, Runs
      <3>3. rec' \in [Workers -> Record]
        BY <2>3, <3>1
      <3>4. \A w \in Workers : rec'[w].proc = fresh[w].proc /\ rec'[w].stop = fresh[w].stop
        BY <2>3, <3>1
      <3>5. Quiet
        BY <2>1, <2>2, <3>2, <3>4 DEF Quiet, From, Stops, TypeOK
      <3>6. QED
        BY <2>1, <3>3, <3>5 DEF Typed, Elsewhere, TypeOK
    <2>4. CASE \A w \in Workers : rec'[w] \in {fresh[w], rec[w]} /\ rec' \in [Workers -> Record]
      <3>1. Quiet
        BY <2>1, <2>2, <2>4 DEF Quiet, From, TypeOK, Stops
      <3>2. QED
        BY <2>1, <2>4, <3>1, SupervisorAssumption DEF Typed, Elsewhere, TypeOK, Workers
    <2>5. QED
      <3>1. \/ rec' = [w \in Workers |-> IF w <= Min(busy) THEN fresh[w] ELSE rec[w]]
            \/ rec' = idle /\ busy = {}
            \/ rec' = fresh
        BY <1>4 DEF Reconfigure, fresh
      <3> HIDE DEF busy, idle
      <3>2. fresh \in [Workers -> Record] /\ rec \in [Workers -> Record]
        BY <2>2 DEF fresh, TypeOK
      <3>3. QED
        BY <2>3, <2>4, <3>1, <3>2
  <1>5. QED
    BY <1>1, <1>2, <1>3, <1>4 DEF Requests

(* The steps of shutdown.                                                  *)
LEMMA ShutdownCases ==
  ASSUME TypeOK, Owned, Known, ShutKnows, events' \in 0..MaxEvents,
         Shutdown \/ ShutdownJoins \/ ShutdownStops \/ ShutdownStopped \/ ShutdownDone
  PROVE  Typed /\ ShutKnows'
  <1> DEFINE ShutType == [pc : {"no", "join", "stop", "term", "done"}, i : 1..(NumWorkers + 1),
                          p : {0} \cup Pids, threads : [Workers -> {0} \cup Pids]]
  <1>1. shut \in ShutType /\ NumWorkers \in Nat \ {0} /\ Workers = 1..NumWorkers
    BY SupervisorAssumption DEF TypeOK, Workers
  <1>2. ASSUME shut.i \in Workers, ShutdownNext PROVE shut' \in ShutType /\ shut'.pc = "stop"
    <2> DEFINE j == shut.i + 1
    <2>1. j \in 1..(NumWorkers + 1)
      BY <1>1, <1>2
    <2>2. shut' = [shut EXCEPT !.pc = "stop", !.i = j, !.p = 0]
      BY <1>2 DEF ShutdownNext
    <2> HIDE DEF j
    <2>3. QED
      BY <1>1, <2>1, <2>2
  <1>3. 0 \notin alive
    BY ZeroIsNoPid DEF TypeOK
  <1>4. CASE Shutdown
    <2> DEFINE q(w) == [rec[w] EXCEPT !.want = FALSE, !.sched = FALSE, !.res = FALSE]
    <2>1. \A w \in Workers : /\ rec[w] \in Record /\ q(w) \in Record /\ q(w).proc = rec[w].proc
                             /\ q(w).stop = rec[w].stop /\ q(w).launch = rec[w].launch
      <3>1. \A w \in Workers : rec[w] \in Record
        BY DEF TypeOK
      <3>2. QED
        BY <3>1 DEF Record
    <2>2. rec' = [w \in Workers |-> q(w)]
      BY <1>4 DEF Shutdown
    <2>3. rec' \in [Workers -> Record] /\ \A w \in Workers : rec'[w] = q(w)
      BY <2>1, <2>2
    <2>4. [w \in Workers |-> rec[w].stop] \in [Workers -> {0} \cup Pids]
      BY <2>1 DEF Record
    <2>5. shut' \in ShutType /\ shut'.pc = "join"
      BY <1>1, <1>4, <2>4 DEF Shutdown
    <2> HIDE DEF q
    <2>6. Quiet
      <3>1. UNCHANGED <<alive, failures>> /\ failures <= failures'
        BY <1>4, FailsCounts DEF Shutdown
      <3>2. \A w \in Workers : Stops(w, rec'[w])
        BY <2>1, <2>3 DEF Stops
      <3>3. QED
        BY <2>1, <2>3, <3>1, <3>2 DEF Quiet
    <2>7. QED
      BY <1>4, <2>3, <2>5, <2>6 DEF Shutdown, Typed, TypeOK, ShutKnows
  <1>5. CASE ShutdownJoins
    <2>1. failures' \in 0..MaxFailures /\ failures <= failures'
      BY <1>5, FailsCounts DEF ShutdownJoins
    <2>2. shut' \in ShutType /\ shut'.pc = "stop"
      BY <1>1, <1>5 DEF ShutdownJoins
    <2>3. QED
      BY <1>5, <2>1, <2>2 DEF ShutdownJoins, Typed, TypeOK, ShutKnows, Quiet, Stops
  <1>6. CASE ShutdownStops
    <2> DEFINE w == shut.i  q == [rec[w] EXCEPT !.st = "stopping"]
    <2>1. w \in Workers /\ rec[w] \in Record
      BY <1>6 DEF ShutdownStops, TypeOK
    <2>2. CASE Put(w, q) /\ shut' = [shut EXCEPT !.pc = "term", !.p = rec[w].proc]
      <3>1. q \in Record /\ q.proc = rec[w].proc /\ q.stop = rec[w].stop /\ q.launch = rec[w].launch
        BY <2>1 DEF Record
      <3>2. shut' \in ShutType /\ shut'.i = w /\ shut'.p = rec[w].proc
        BY <1>1, <2>1, <2>2 DEF Record
      <3>3. UNCHANGED <<alive, open, over, mon, caller, failures>>
        BY <1>6 DEF ShutdownStops
      <3> HIDE DEF q
      <3>4. rec' \in [Workers -> Record] /\ alive' \subseteq Pids /\ Quiet
        BY <2>1, <2>2, <3>1, <3>3, PutCases DEF Stops
      <3>5. ShutKnows'
        BY <2>1, <2>2, <3>1, <3>2 DEF Put, ShutKnows, TypeOK
      <3>6. QED
        BY <3>2, <3>3, <3>4, <3>5 DEF Typed, TypeOK
    <2>3. CASE ShutdownNext /\ UNCHANGED rec
      BY <1>2, <1>6, <2>1, <2>3 DEF ShutdownStops, Typed, TypeOK, ShutKnows, Quiet, Stops
    <2>4. QED
      BY <1>6, <2>2, <2>3 DEF ShutdownStops
  <1>7. CASE ShutdownStopped
    <2> DEFINE w == shut.i  q == [rec[w] EXCEPT !.proc = 0, !.st = "paused"]
    <2>1. w \in Workers /\ rec[w] \in Record /\ rec[w].proc \in {0, shut.p}
      BY <1>7 DEF ShutdownStopped, ShutKnows, TypeOK
    <2>2. shut' \in ShutType /\ ShutKnows'
      BY <1>2, <1>7, <2>1 DEF ShutdownStopped, ShutKnows
    <2>3. UNCHANGED <<alive, open, over, mon, caller>> /\ (Fails \/ UNCHANGED failures)
      BY <1>7 DEF ShutdownStopped
    <2>4. CASE shut.p \notin alive /\ Put(w, q)
      <3>1. q \in Record /\ q.proc = 0 /\ q.stop = rec[w].stop /\ q.launch = rec[w].launch
        BY <2>1 DEF Record
      <3>2. ~Runs(rec[w])
        BY <1>3, <2>1, <2>4 DEF Runs
      <3> HIDE DEF q
      <3>3. rec' \in [Workers -> Record] /\ alive' \subseteq Pids /\ failures' \in 0..MaxFailures /\ Quiet
        BY <2>1, <2>3, <2>4, <3>1, <3>2, PutCases DEF Stops
      <3>4. QED
        BY <2>2, <2>3, <3>3 DEF Typed, TypeOK
    <2>5. CASE UNCHANGED rec
      BY <2>2, <2>3, <2>5, FailsCounts DEF Typed, TypeOK, Quiet, Stops
    <2>6. QED
      BY <1>7, <2>4, <2>5 DEF ShutdownStopped
  <1>8. CASE ShutdownDone
    <2>1. shut' \in ShutType /\ shut'.pc = "done"
      BY <1>1, <1>8 DEF ShutdownDone
    <2>2. QED
      BY <1>8, <2>1 DEF ShutdownDone, Typed, TypeOK, ShutKnows, Quiet, Stops
  <1>9. QED
    BY <1>4, <1>5, <1>6, <1>7, <1>8

(* Suspension threads, exits, crashes, snapshots, clock and measurements.  *)
LEMMA WorldCases ==
  ASSUME TypeOK, Owned, Known, events' \in 0..MaxEvents,
         \/ \E w \in Workers : FinishSuspension(w) \/ BackoffEnds(w) \/ Measure(w)
         \/ \E p \in alive : Exits(p) \/ Crashes(p)
         \/ Snapshots \/ ScheduleTurns
  PROVE  Typed /\ UNCHANGED shut
  <1>1. ASSUME NEW w \in Workers, FinishSuspension(w) PROVE Typed /\ UNCHANGED shut
    <2> DEFINE r == rec[w]
    <2>1. r \in Record
      BY DEF TypeOK
    <2>2. Elsewhere /\ UNCHANGED <<shut, alive>>
      BY <1>1 DEF FinishSuspension, Elsewhere, TypeOK
    <2>3. CASE r.stop \notin alive
      <3> DEFINE q == [r EXCEPT !.proc = IF @ = r.stop THEN 0 ELSE @, !.st = "paused", !.stop = 0]
      <3>1. /\ q \in Record /\ q.stop = 0 /\ q.launch = r.launch
            /\ q.proc = r.proc \/ (q.proc = 0 /\ ~Runs(r))
            /\ q.proc # r.stop
        BY <1>1, <2>1, <2>3 DEF Record, Runs, FinishSuspension
      <3>2. Put(w, q) /\ UNCHANGED failures
        BY <1>1, <2>3 DEF FinishSuspension
      <3> HIDE DEF q
      <3>3. QED
        BY <2>2, <3>1, <3>2, PutCases DEF Typed, Elsewhere, TypeOK, Stops
    <2>4. CASE r.stop \in alive
      <3> DEFINE q == [r EXCEPT !.sched = FALSE, !.res = FALSE, !.st = "crashed", !.stop = 0]
      <3>1. q \in Record /\ q.stop = 0 /\ q.launch = r.launch /\ q.proc = r.proc
        BY <2>1 DEF Record
      <3>2. Put(w, q) /\ Fails /\ failures < failures'
        BY <1>1, <2>4, FailsCounts DEF FinishSuspension
      <3> HIDE DEF q
      <3>3. QED
        BY <2>2, <3>1, <3>2, PutCases DEF Typed, Elsewhere, TypeOK, Stops
    <2>5. QED
      BY <2>3, <2>4
  <1>2. ASSUME NEW w \in Workers, BackoffEnds(w) PROVE Typed /\ UNCHANGED shut
    <2> DEFINE q == [rec[w] EXCEPT !.cool = FALSE]
    <2>1. q \in Record /\ q.stop = rec[w].stop /\ q.launch = rec[w].launch /\ q.proc = rec[w].proc
      <3>1. rec[w] \in Record
        BY DEF TypeOK
      <3>2. QED
        BY <3>1 DEF Record
    <2>2. Put(w, q) /\ Elsewhere /\ UNCHANGED <<shut, alive, failures>>
      BY <1>2 DEF BackoffEnds, Elsewhere, TypeOK
    <2> HIDE DEF q
    <2>3. QED
      BY <2>1, <2>2, PutCases DEF Typed, Elsewhere, TypeOK, Stops
  <1>3. ASSUME NEW w \in Workers, Measure(w) PROVE Typed /\ UNCHANGED shut
    BY <1>3 DEF Measure, Typed, TypeOK, Quiet, Stops
  <1>4. ASSUME NEW p \in alive, Exits(p) \/ Crashes(p) PROVE Typed /\ UNCHANGED shut
    BY <1>4 DEF Exits, Crashes, Typed, TypeOK, Quiet, Stops
  <1>5. CASE Snapshots
    <2>1. \A w \in Workers : From(w, Refreshed(rec[w])) /\ Refreshed(rec[w]).launch = rec[w].launch
      BY RefreshedFrom
    <2>2. rec' = [w \in Workers |-> Refreshed(rec[w])] /\ UNCHANGED <<alive, open, over, mon, caller, shut, failures>>
      BY <1>5 DEF Snapshots
    <2>3. rec' \in [Workers -> Record] /\ Quiet
      BY <2>1, <2>2 DEF From, Quiet, Stops, TypeOK
    <2>4. QED
      BY <2>2, <2>3 DEF Typed, TypeOK
  <1>6. CASE ScheduleTurns
    BY <1>6 DEF ScheduleTurns, Typed, TypeOK, Quiet, Stops
  <1>7. QED
    BY <1>1, <1>2, <1>3, <1>4, <1>5, <1>6

(* Shutdown remembers the suspensions under way, waits for them, and goes  *)
(* over the workers once, leaving none that runs unless it cannot stop it. *)
ShutSteps ==
  \/ UNCHANGED shut
  \/ /\ shut.pc = "no" /\ shut'.pc = "join" /\ shut'.i = shut.i
     /\ \A w \in Workers : shut'.threads[w] = rec'[w].stop
  \/ /\ shut.pc # "no" /\ shut'.threads = shut.threads
     /\ \/ /\ shut.pc = "join" /\ shut'.pc = "stop" /\ shut'.i = shut.i
           /\ failures < failures' \/ \A w \in Workers : Joined(w)
        \/ shut.pc = "stop" /\ shut'.pc = "term" /\ shut'.i = shut.i
        \/ /\ shut.pc \in {"stop", "term"} /\ shut'.pc = "stop" /\ shut'.i = shut.i + 1
           /\ shut.i \in Workers
           /\ failures < failures' \/ ~Joined(shut.i) \/ rec'[shut.i].proc \notin alive'
        \/ shut.pc = "stop" /\ shut'.pc = "done" /\ shut'.i = shut.i /\ shut.i > NumWorkers

(* The steps of shutdown go through its phases in order.                   *)
LEMMA ShutdownSteps ==
  ASSUME TypeOK, ShutKnows,
         Shutdown \/ ShutdownJoins \/ ShutdownStops \/ ShutdownStopped \/ ShutdownDone
  PROVE  ShutSteps
  <1>1. 0 \notin alive
    BY ZeroIsNoPid DEF TypeOK
  <1>2. CASE Shutdown
    <2>1. \A w \in Workers : rec[w] \in Record
      BY DEF TypeOK
    <2>2. rec' = [w \in Workers |-> [rec[w] EXCEPT !.want = FALSE, !.sched = FALSE, !.res = FALSE]]
      BY <1>2 DEF Shutdown
    <2>3. \A w \in Workers : rec'[w].stop = rec[w].stop
      BY <2>1, <2>2 DEF Record
    <2>4. QED
      BY <1>2, <2>3 DEF Shutdown, ShutSteps, TypeOK
  <1>3. CASE ShutdownJoins
    BY <1>3, FailsCounts DEF ShutdownJoins, ShutSteps, TypeOK
  <1>4. CASE ShutdownStops
    BY <1>1, <1>4 DEF ShutdownStops, ShutdownNext, ShutSteps, TypeOK
  <1>5. CASE ShutdownStopped
    <2>1. shut.i \in Workers /\ rec[shut.i] \in Record
      BY <1>5 DEF ShutdownStopped, ShutKnows, TypeOK
    <2>2. Fails \/ rec'[shut.i].proc = 0
      <3>1. ASSUME Put(shut.i, [rec[shut.i] EXCEPT !.proc = 0, !.st = "paused"])
            PROVE  rec'[shut.i].proc = 0
        BY <2>1, <3>1 DEF Put, TypeOK, Record
      <3>2. QED
        BY <1>5, <3>1 DEF ShutdownStopped
    <2>3. failures < failures' \/ rec'[shut.i].proc \notin alive'
      BY <1>1, <1>5, <2>2, FailsCounts DEF ShutdownStopped
    <2>4. QED
      BY <1>5, <2>1, <2>3 DEF ShutdownStopped, ShutdownNext, ShutSteps, TypeOK
  <1>6. CASE ShutdownDone
    BY <1>6 DEF ShutdownDone, ShutSteps, TypeOK
  <1>7. QED
    BY <1>2, <1>3, <1>4, <1>5, <1>6

(* Every step, in the three respects that the invariants depend on.        *)
LEMMA StepCases ==
  ASSUME TypeOK, Owned, Known, ShutKnows, [Next]_vars
  PROVE  Typed /\ ShutKnows' /\ ShutSteps
  <1>1. ASSUME Typed, UNCHANGED shut PROVE ShutKnows' /\ ShutSteps
    <2>1. CASE Quiet
      BY <1>1, <2>1 DEF Quiet, ShutKnows, ShutSteps, TypeOK
    <2>2. CASE \E w \in Workers : Spawns(w)
      BY <1>1, <2>2 DEF Spawns, ShutKnows, Closed, ShutSteps
    <2>3. QED
      BY <1>1, <2>1, <2>2 DEF Typed
  <1>2. CASE UNCHANGED vars
    BY <1>1, <1>2 DEF vars, Typed, TypeOK, Quiet, Stops
  <1>3. CASE Next
    <2>1. events' \in 0..MaxEvents
      BY <1>3, SupervisorAssumption DEF Next, TypeOK
    <2>2. CASE StartService \/ MonitorRead \/ MonitorStep
      BY <1>1, <2>1, <2>2, MonitorCases
    <2>3. CASE \E c \in Callers : PauseStops(c) \/ PauseJoins(c) \/ RestartStarts(c)
      BY <1>1, <2>1, <2>3, CallerCases
    <2>4. CASE Requests
      BY <1>1, <2>1, <2>4, RequestCases
    <2>5. CASE Shutdown \/ ShutdownJoins \/ ShutdownStops \/ ShutdownStopped \/ ShutdownDone
      BY <2>1, <2>5, ShutdownCases, ShutdownSteps
    <2>6. CASE \/ \E w \in Workers : FinishSuspension(w) \/ BackoffEnds(w) \/ Measure(w)
               \/ \E p \in alive : Exits(p) \/ Crashes(p)
               \/ Snapshots \/ ScheduleTurns
      BY <1>1, <2>1, <2>6, WorldCases
    <2>7. QED
      BY <1>3, <2>2, <2>3, <2>4, <2>5, <2>6 DEF Next, Threads, Events, Passes
  <1>4. QED
    BY <1>2, <1>3
-----------------------------------------------------------------------------
(* What the proofs of the properties start from, and keep.                 *)
LEMMA InitialProcesses ==
  ASSUME Init
  PROVE  TypeOK /\ Owned /\ Known /\ ShutKnows
  <1>1. PICK l \in [Workers -> Launches], auto \in SUBSET Workers :
          rec = [w \in Workers |-> NewRecord(l[w], w \in auto)]
    BY DEF Init
  <1>2. ASSUME NEW w \in Workers
        PROVE  /\ NewRecord(l[w], w \in auto) \in Record
               /\ NewRecord(l[w], w \in auto).proc = 0 /\ NewRecord(l[w], w \in auto).stop = 0
    <2>1. l[w] \in Launches /\ l[w].admitted \in BOOLEAN
      BY SupervisorAssumption
    <2>2. QED
      BY <2>1 DEF NewRecord, Record
  <1>3. rec \in [Workers -> Record] /\ \A w \in Workers : rec[w].proc = 0 /\ rec[w].stop = 0
    BY <1>1, <1>2
  <1>4. 1 \in Workers /\ 1 \in 1..(NumWorkers + 1)
    BY SupervisorAssumption DEF Workers
  <1>5. open \in BOOLEAN
    BY DEF Init
  <1>6. TypeOK
    BY <1>3, <1>4, <1>5, SupervisorAssumption DEF Init, TypeOK, Idle
  <1>7. QED
    BY <1>3, <1>6 DEF Init, Owned, Known, ShutKnows

(* Records keep naming the processes that run.                             *)
LEMMA ProcessesStay ==
  ASSUME TypeOK, Owned, Known, Typed
  PROVE  Owned' /\ Known'
  <1>1. 0 \notin alive
    BY ZeroIsNoPid DEF TypeOK
  <1>2. CASE Quiet
    <2>1. Owned'
      BY <1>2 DEF Quiet, Stops, Owned
    <2>2. Known'
      BY <1>2 DEF Quiet, Known, Runs
    <2>3. QED
      BY <2>1, <2>2
  <1>3. ASSUME NEW w \in Workers, Spawns(w) PROVE Owned' /\ Known'
    <2>1. Owned'
      BY <1>3 DEF Spawns, Owned
    <2>2. ASSUME NEW x \in Workers, NEW p \in alive' \cap PidsOf(x) PROVE rec'[x].proc = p
      <3>1. CASE x = w
        <4>1. p \in alive => rec[w].proc = p
          BY <2>2, <3>1 DEF Known
        <4>2. p \notin alive
          BY <1>3, <4>1 DEF Spawns, Runs
        <4>3. QED
          BY <1>3, <2>2, <3>1, <4>2 DEF Spawns
      <3>2. CASE x # w
        <4>1. p \in alive
          BY <1>3, <2>2, <3>2, PidsFacts DEF Spawns
        <4>2. QED
          BY <1>3, <2>2, <3>2, <4>1 DEF Spawns, Known
      <3>3. QED
        BY <3>1, <3>2
    <2>3. Known'
      BY <2>2 DEF Known
    <2>4. QED
      BY <2>1, <2>3
  <1>4. QED
    BY <1>2, <1>3 DEF Typed

(* A process that its worker's record names is named by no other record.   *)
LEMMA KnownAreNoOrphans ==
  ASSUME TypeOK, Owned, Known
  PROVE  ProcessesKnown
  <1>1. ASSUME NEW p \in alive PROVE Cardinality({w \in Workers : rec[w].proc = p}) = 1
    <2>1. PICK w \in Workers : p \in PidsOf(w)
      BY DEF TypeOK, Pids
    <2>2. p # 0
      BY ZeroIsNoPid DEF TypeOK
    <2>3. \A v \in Workers : rec[v].proc = p => v = w
      BY <2>1, <2>2, PidsFacts DEF Owned
    <2>4. {v \in Workers : rec[v].proc = p} = {w}
      BY <2>1, <2>3 DEF Known
    <2>5. QED
      BY <2>4, FS_Singleton
  <1>2. QED
    BY <1>1 DEF ProcessesKnown, NoOrphans

(* A worker is started only where its launch fits beside those of all the  *)
(* workers that run, and a launch is replaced only while nothing of it     *)
(* runs.                                                                   *)
LEMMA VramStays ==
  ASSUME TypeOK, TypeOK', Owned, Known, Typed, VramWithinPool
  PROVE  VramWithinPool'
  <1> DEFINE f == [w \in Workers |-> rec[w].launch.vram]
             g == [w \in Workers |-> rec'[w].launch.vram]
             On == {w \in Workers : Runs(rec[w])}
             OnNext == {w \in Workers : rec'[w].proc \in alive'}
  <1>1. IsFiniteSet(Workers)
    BY SupervisorAssumption, FS_Interval DEF Workers
  <1>2. \A S \in SUBSET Workers : IsFiniteSet(S)
    BY <1>1, FS_Subset
  <1>3. Pool \in Nat /\ \A w \in Workers : f[w] \in Nat /\ g[w] \in Nat
    <2>1. Pool \in Nat /\ \A l \in Launches : l.vram \in Nat
      BY SupervisorAssumption
    <2>2. \A w \in Workers : rec[w] \in Record /\ rec'[w] \in Record
      BY DEF TypeOK
    <2>3. \A w \in Workers : rec[w].launch \in Launches /\ rec'[w].launch \in Launches
      BY <2>2 DEF Record
    <2>4. QED
      BY <2>1, <2>3
  <1>4. Vram(On) = SumFunctionOnSet(f, On) /\ Vram(On) <= Pool
    BY DEF Vram, VramWithinPool
  <1>5. VramWithinPool' <=> SumFunctionOnSet(g, OnNext) <= Pool
    BY DEF VramWithinPool, Vram, Runs
  <1>6. 0 \notin alive
    BY ZeroIsNoPid DEF TypeOK
  <1>7. CASE Quiet
    <2>1. OnNext \subseteq On
      BY <1>6, <1>7 DEF Quiet, Runs
    <2>2. \A w \in OnNext : g[w] \in Int /\ g[w] = f[w]
      BY <1>3, <1>7, <2>1 DEF Quiet
    <2> HIDE DEF f, g, On, OnNext
    <2>3. OnNext \in SUBSET On /\ On \in SUBSET Workers /\ OnNext \in SUBSET Workers
      BY <2>1 DEF On, OnNext
    <2>4. SumFunctionOnSet(g, OnNext) = SumFunctionOnSet(f, OnNext)
      BY <1>2, <2>2, <2>3, SumOfSame
    <2>5. SumFunctionOnSet(f, OnNext) <= SumFunctionOnSet(f, On)
      BY <1>2, <1>3, <2>3, SumOfMore
    <2>6. SumFunctionOnSet(f, OnNext) \in Int /\ SumFunctionOnSet(f, On) \in Int
      BY <1>2, <1>3, <2>3, SumIsInt
    <2>7. QED
      BY <1>3, <1>4, <1>5, <2>4, <2>5, <2>6
  <1>8. ASSUME NEW w \in Workers, Spawns(w) PROVE VramWithinPool'
    <2>1. w \notin On
      BY <1>8 DEF Spawns
    <2>2. On = {x \in Workers \ {w} : Runs(rec[x])}
      BY <2>1
    <2>3. Reserved(w) = SumFunctionOnSet(f, On)
      BY <2>2 DEF Reserved, Vram
    <2>4. \A x \in Workers \ {w} : rec[x].proc # rec'[w].proc
      BY <1>8, PidsFacts DEF Spawns, Owned
    <2>5. OnNext = On \cup {w}
      BY <1>8, <2>1, <2>4 DEF Spawns, Runs
    <2>6. \A x \in On : g[x] \in Int /\ g[x] = f[x]
      BY <1>3, <1>8, <2>1 DEF Spawns
    <2>7. g[w] = rec'[w].launch.vram
      OBVIOUS
    <2> HIDE DEF f, g, On, OnNext
    <2>8. On \in SUBSET Workers
      BY DEF On
    <2>9. SumFunctionOnSet(g, On) = SumFunctionOnSet(f, On)
      BY <1>2, <2>6, <2>8, SumOfSame
    <2>10. SumFunctionOnSet(g, OnNext) = g[w] + SumFunctionOnSet(g, On)
      <3>1. IsFiniteSet(On) /\ \A y \in On \cup {w} : g[y] \in Int
        BY <1>2, <1>3, <2>6, <2>8
      <3>2. SumFunctionOnSet(g, On \cup {w}) = g[w] + SumFunctionOnSet(g, On)
        BY <2>1, <3>1, SumWith
      <3>3. QED
        BY <2>5, <3>2
    <2>11. Reserved(w) + g[w] <= Pool /\ Reserved(w) \in Int
      <3>1. IsFiniteSet(On) /\ \A y \in On : f[y] \in Int
        BY <1>2, <1>3, <2>8
      <3>2. SumFunctionOnSet(f, On) \in Int
        BY <3>1, SumIsInt
      <3>3. QED
        BY <1>8, <2>3, <2>7, <3>2 DEF Spawns
    <2>12. QED
      BY <1>3, <1>5, <2>3, <2>9, <2>10, <2>11
  <1>9. QED
    BY <1>7, <1>8 DEF Typed
-----------------------------------------------------------------------------
(* A suspension that shutdown found under way ends with its process, if it *)
(* ends at all; when all have been waited for, no worker begins another    *)
(* one; and the workers that shutdown has been through do not run.         *)
JoinsLast ==
  Closed /\ failures = 0 =>
    \A w \in Workers : shut.threads[w] # 0 =>
      rec[w].stop = shut.threads[w] \/ rec[w].proc # shut.threads[w]
Sweeps ==
  shut.pc \in {"stop", "term", "done"} /\ failures = 0 =>
    \A w \in Workers : Joined(w) /\ (w < shut.i => ~Runs(rec[w]))
Turns ==
  /\ shut.pc \in {"no", "join"} => shut.i = 1
  /\ shut.pc = "done" => shut.i = NumWorkers + 1

(* What shutdown has waited for or stopped is not started again.           *)
LEMMA SweepsStay ==
  ASSUME TypeOK, TypeOK', Typed, ShutSteps, JoinsLast, Sweeps, Turns
  PROVE  JoinsLast' /\ Sweeps' /\ Turns'
  <1>1. failures \in Nat /\ failures' \in Nat /\ NumWorkers \in Nat /\ shut.i \in Nat /\ 0 \notin alive
    BY ZeroIsNoPid, SupervisorAssumption DEF TypeOK
  <1>2. Turns'
    BY SupervisorAssumption DEF TypeOK, ShutSteps, Turns
  <1>3. SUFFICES JoinsLast' /\ Sweeps'
    BY <1>2
  <1>4. CASE \E w \in Workers : Spawns(w)
    BY <1>4 DEF Spawns, Closed, JoinsLast, Sweeps
  <1>5. CASE Quiet
    <2>1. ASSUME NEW w \in Workers, failures' = 0, ~Runs(rec[w]) PROVE ~Runs(rec[w])'
      BY <1>1, <1>5, <2>1 DEF Quiet, Runs
    <2>2. ASSUME NEW w \in Workers, failures' = 0, Closed, shut'.threads = shut.threads, shut.threads[w] # 0
          PROVE  /\ rec'[w].stop = shut'.threads[w] \/ rec'[w].proc # shut'.threads[w]
                 /\ rec[w].stop # shut.threads[w] => rec'[w].stop # shut'.threads[w]
      <3>1. failures = 0 /\ ~(failures < failures')
        BY <1>1, <1>5, <2>2 DEF Quiet
      <3>2. rec[w].stop = shut.threads[w] \/ rec[w].proc # shut.threads[w]
        BY <2>2, <3>1 DEF JoinsLast
      <3>3. Stops(w, rec'[w]) /\ (rec'[w].proc = rec[w].proc \/ rec'[w].proc = 0)
        BY <1>5 DEF Quiet
      <3>4. QED
        BY <2>2, <3>1, <3>2, <3>3 DEF Stops
    <2>3. JoinsLast'
      BY <2>2 DEF JoinsLast, Closed, ShutSteps
    <2>4. ASSUME NEW w \in Workers, failures' = 0, Closed, shut'.threads = shut.threads, Joined(w)
          PROVE  Joined(w)'
      BY <2>2, <2>4 DEF Joined
    <2>5. ASSUME failures' = 0, shut'.pc \in {"stop", "term", "done"}, NEW w \in Workers
          PROVE  Joined(w)' /\ (w < shut'.i => ~Runs(rec[w])')
      <3>1. failures = 0 /\ ~(failures < failures')
        BY <1>1, <1>5, <2>5 DEF Quiet
      <3>2. Closed /\ shut'.threads = shut.threads
        BY <2>5 DEF ShutSteps, Closed
      <3>3. Joined(w)
        BY <2>5, <3>1 DEF ShutSteps, Sweeps
      <3>4. w < shut'.i => ~Runs(rec[w])'
        <4>1. CASE shut.pc = "join"
          <5>1. shut'.i = 1
            BY <2>5, <4>1 DEF ShutSteps, Turns
          <5>2. QED
            BY <5>1 DEF Workers
        <4>2. CASE shut.pc # "join" /\ w < shut.i
          BY <2>1, <2>5, <3>1, <4>2 DEF ShutSteps, Sweeps
        <4>3. CASE shut.pc # "join" /\ ~(w < shut.i) /\ w < shut'.i
          <5>1. /\ w = shut.i /\ shut.pc \in {"stop", "term"}
                /\ ~Joined(w) \/ rec'[w].proc \notin alive'
            BY <1>1, <2>5, <3>1, <4>3 DEF ShutSteps, Workers
          <5>2. QED
            BY <3>3, <5>1 DEF Runs
        <4>4. QED
          BY <4>1, <4>2, <4>3
      <3>5. QED
        BY <2>4, <2>5, <3>2, <3>3, <3>4
    <2>6. Sweeps'
      BY <2>5 DEF Sweeps
    <2>7. QED
      BY <2>3, <2>6
  <1>6. QED
    BY <1>4, <1>5 DEF Typed
-----------------------------------------------------------------------------
(* The inductive invariant.                                                *)
SupervisorInv ==
  /\ TypeOK /\ Owned /\ Known /\ VramWithinPool
  /\ ShutKnows /\ JoinsLast /\ Sweeps /\ Turns

(* It holds initially, and every step keeps it.                            *)
LEMMA SupervisorInvHolds == Spec => []SupervisorInv
  <1>1. Init => SupervisorInv
    <2> SUFFICES ASSUME Init PROVE SupervisorInv
      OBVIOUS
    <2>1. TypeOK /\ Owned /\ Known /\ ShutKnows
      BY InitialProcesses
    <2>2. VramWithinPool
      <3>1. {w \in Workers : Runs(rec[w])} = {}
        BY DEF Init, Runs
      <3>2. Vram({}) = 0
        BY SumOfEmpty DEF Vram
      <3>3. QED
        BY <3>1, <3>2, SupervisorAssumption DEF VramWithinPool
    <2>3. JoinsLast /\ Sweeps /\ Turns
      BY DEF Init, JoinsLast, Sweeps, Turns, Closed
    <2>4. QED
      BY <2>1, <2>2, <2>3 DEF SupervisorInv
  <1>2. SupervisorInv /\ [Next]_vars => SupervisorInv'
    <2> SUFFICES ASSUME SupervisorInv, [Next]_vars PROVE SupervisorInv'
      OBVIOUS
    <2> USE DEF SupervisorInv
    <2>1. Typed /\ ShutKnows' /\ ShutSteps
      BY StepCases
    <2>2. TypeOK'
      BY <2>1 DEF Typed
    <2>3. Owned' /\ Known'
      BY <2>1, ProcessesStay
    <2>4. VramWithinPool'
      BY <2>1, <2>2, VramStays
    <2>5. JoinsLast' /\ Sweeps' /\ Turns'
      BY <2>1, <2>2, SweepsStay
    <2>6. QED
      BY <2>1, <2>2, <2>3, <2>4, <2>5
  <1>3. QED
    BY <1>1, <1>2, PTL DEF Spec

(* The records stay within their types, and every process that runs is     *)
(* known to exactly one worker, however starts, stops, crashes and         *)
(* suspensions interleave.                                                 *)
THEOREM EveryProcessKnown == Spec => []ProcessesKnown
  <1>1. SupervisorInv => ProcessesKnown
    BY KnownAreNoOrphans DEF SupervisorInv
  <1>2. QED
    BY <1>1, SupervisorInvHolds, PTL

(* The launches of the workers that run never reserve more VRAM than the   *)
(* pool that they share: _spawn_locked counts those that are stopping, and *)
(* no launch is replaced while its process runs.                           *)
THEOREM PoolSuffices == Spec => []VramWithinPool
  <1>1. SupervisorInv => VramWithinPool
    BY DEF SupervisorInv
  <1>2. QED
    BY <1>1, SupervisorInvHolds, PTL

(* When shutdown returns and every process could be stopped, none runs:    *)
(* the suspension threads it waited for have cleared their processes, and  *)
(* no worker that it has been through is started again.                    *)
THEOREM ShutdownLeavesNone == Spec => []ShutdownStopsAll
  <1>1. SupervisorInv => ShutdownStopsAll
    <2> SUFFICES ASSUME SupervisorInv, shut.pc = "done", failures = 0, NEW p \in alive PROVE FALSE
      BY DEF ShutdownStopsAll
    <2>1. PICK w \in Workers : p \in PidsOf(w)
      BY DEF SupervisorInv, TypeOK, Pids
    <2>2. rec[w].proc = p
      BY <2>1 DEF SupervisorInv, Known
    <2>3. shut.i = NumWorkers + 1
      BY DEF SupervisorInv, Turns
    <2>4. w < shut.i
      BY <2>3, SupervisorAssumption DEF Workers
    <2>5. ~Runs(rec[w])
      BY <2>4 DEF SupervisorInv, Sweeps
    <2>6. QED
      BY <2>2, <2>5 DEF Runs
  <1>2. QED
    BY <1>1, SupervisorInvHolds, PTL
=============================================================================
