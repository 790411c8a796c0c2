---------------------------- MODULE EdgeMeasurement ----------------------------
(***************************************************************************)
(* A supervised edge measurement: the supervisor starts one contained      *)
(* child, waits for it and for everything it spawned                       *)
(* (node/edge_supervisor.py), the child loads, generates, closes the       *)
(* runtime and waits for its cleanup (node/edge_benchmark.py), and the     *)
(* command accepts the record or refuses it (cli/run_edge_benchmark.py).   *)
(* Containment is a process group or a job object, whose closing kills.    *)
(* Bound: MaxMeasureFaults failures, crashes and interrupts; a time limit  *)
(* may pass whenever the code waits.                                       *)
(***************************************************************************)
EXTENDS Integers, FiniteSets

CONSTANTS
  Spawned,            \* the processes the child's runtime starts
  MaxMeasureFaults

ASSUME MeasurementAssumption == MaxMeasureFaults \in Nat

VARIABLES
  emJob,        \* containment is a job object, otherwise a process group
  emSup,        \* where the supervisor is
  emChild,      \* the child: where it is, "dead" when it has not been reaped
  emAlive,      \* spawned processes that run
  emClosed,     \* the runtime's close was called without an error
  emClean,      \* what the child observed of its own cleanup
  emResult,     \* the file the child wrote
  emForced,     \* containment had to be forced
  emProved,     \* and the supervisor saw it empty
  emRecord,     \* what the command reports
  emFaults

emVars == <<emJob, emSup, emChild, emAlive, emClosed, emClean, emResult, emForced, emProved, emRecord, emFaults>>
emSupervisor == <<emSup, emForced, emProved, emRecord>>
emRuntime == <<emAlive, emClosed, emClean, emResult>>

Gone == {"none", "exited"}
ChildRuns == emChild \notin Gone \cup {"dead"}

MeasurementInit ==
  /\ emJob \in BOOLEAN
  /\ emSup = "spawn" /\ emChild = "none" /\ emAlive = {}
  /\ emClosed = FALSE /\ emClean = FALSE /\ emResult = "none"
  /\ emForced = FALSE /\ emProved = FALSE /\ emRecord = "none"
  /\ emFaults = 0

Fault == emFaults < MaxMeasureFaults /\ emFaults' = emFaults + 1

-----------------------------------------------------------------------------
(* The child.  It may crash at any point, and what it spawned may not.     *)

ChildGoto(from, to) == emChild = from /\ emChild' = to

\* The specification arrives on stdin; the loader opens a DHT and its daemon.
Load ==
  /\ ChildGoto("fed", "loaded")
  /\ emAlive' = Spawned
  /\ UNCHANGED <<emJob, emSupervisor, emClosed, emClean, emResult, emFaults>>

\* generate() returns or raises; either way the runtime is closed.
Measure ==
  \/ /\ ChildGoto("loaded", "measured") /\ UNCHANGED emFaults
     /\ UNCHANGED <<emJob, emSupervisor, emRuntime>>
  \/ /\ ChildGoto("loaded", "broken") /\ Fault
     /\ UNCHANGED <<emJob, emSupervisor, emRuntime>>

CloseRuntime ==
  /\ emChild \in {"measured", "broken"} /\ ~emClosed
  /\ \/ emClosed' = TRUE /\ UNCHANGED <<emFaults, emChild>>
     \/ /\ Fault /\ UNCHANGED emClosed
        /\ emChild' = IF emChild = "measured" THEN "unclosed" ELSE "failing"
  /\ UNCHANGED <<emJob, emSupervisor, emAlive, emClean, emResult>>

\* A process of the runtime ends after close(), or is killed by its parent-death signal.
End(h) ==
  /\ h \in emAlive /\ (emClosed \/ ~ChildRuns) /\ emAlive' = emAlive \ {h}
  /\ UNCHANGED <<emJob, emSupervisor, emChild, emClosed, emClean, emResult, emFaults>>

\* The cleanup observer is polled until everything is released or the deadline passes.
ObservedClean == emClosed /\ emAlive = {}
ObserveCleanup ==
  /\ \/ emClosed /\ emChild = "measured" /\ emChild' = "writing"
     \/ emClosed /\ emChild = "broken" /\ emChild' = "failing"
     \/ emChild = "unclosed" /\ emChild' = "writing"
  /\ emClean' = ObservedClean
  /\ UNCHANGED <<emJob, emSupervisor, emAlive, emClosed, emResult, emFaults>>

\* The result, or the type of the error, replaces the file atomically; then the child exits.
Write ==
  /\ emChild \in {"writing", "failing"} /\ emChild' = "dead"
  /\ emResult' = IF emChild = "writing" THEN "result" ELSE "error"
  /\ UNCHANGED <<emJob, emSupervisor, emAlive, emClosed, emClean, emFaults>>

ChildCrashes ==
  /\ ChildRuns /\ emChild # "suspended" /\ Fault /\ emChild' = "dead"
  /\ UNCHANGED <<emJob, emSupervisor, emRuntime>>

-----------------------------------------------------------------------------
(* The supervisor.                                                         *)

SupGoto(from, to) == emSup = from /\ emSup' = to
RefuseRecord(from) == SupGoto(from, "closing") /\ emRecord' = "refused"
Contained == emChild \notin Gone \/ emAlive # {}

Spawn ==
  /\ SupGoto("spawn", "contain")
  /\ emChild' = IF emJob THEN "suspended" ELSE "started"
  /\ UNCHANGED <<emJob, emRuntime, emForced, emProved, emRecord, emFaults>>

\* A child that cannot be contained is killed before it runs.
Contain ==
  \/ /\ SupGoto("contain", "feed") /\ emChild' = IF emChild = "suspended" THEN "started" ELSE emChild
     /\ UNCHANGED <<emRecord, emFaults>>
     /\ UNCHANGED <<emJob, emRuntime, emForced, emProved>>
  \/ /\ emJob /\ Fault /\ RefuseRecord("contain") /\ emChild' = "exited"
     /\ UNCHANGED <<emJob, emRuntime, emForced, emProved>>

Feed ==
  \/ /\ ChildGoto("started", "fed") /\ SupGoto("feed", "wait")
     /\ UNCHANGED <<emJob, emRuntime, emForced, emProved, emRecord, emFaults>>
  \/ /\ Fault \/ (emChild = "dead" /\ UNCHANGED emFaults)
     /\ SupGoto("feed", "forceFeed") /\ emForced' = TRUE
     /\ UNCHANGED <<emJob, emRuntime, emChild, emProved, emRecord>>

\* Mutant: a child that runs too long is awaited all the same.
AwaitForever ==
  /\ emChild = "dead" /\ SupGoto("wait", "grace") /\ emChild' = "exited"
  /\ UNCHANGED <<emJob, emRuntime, emForced, emProved, emRecord, emFaults>>

\* poll() reaps a child that has died; a child that runs too long is not awaited.
Await ==
  \/ /\ emChild = "dead" /\ SupGoto("wait", "grace") /\ emChild' = "exited"
     /\ UNCHANGED <<emJob, emRuntime, emForced, emProved, emRecord, emFaults>>
  \/ /\ ChildRuns /\ SupGoto("wait", "forceLate") /\ emForced' = TRUE
     /\ UNCHANGED <<emJob, emRuntime, emChild, emProved, emRecord, emFaults>>

\* What the child spawned has a grace period to exit.
Grace ==
  \/ /\ ~Contained /\ SupGoto("grace", "read") /\ emProved' = TRUE
     /\ UNCHANGED <<emForced, emFaults>>
     /\ UNCHANGED <<emJob, emRuntime, emChild, emRecord>>
  \/ /\ Contained /\ SupGoto("grace", "forceGrace") /\ emForced' = TRUE
     /\ UNCHANGED <<emJob, emRuntime, emChild, emProved, emRecord, emFaults>>

\* _force_containment_exit(): a process group still has its dead leader as a member until
\* poll() reaps it, which comes after the waits.
ForceExit ==
  /\ emSup \in {"forceFeed", "forceLate", "forceGrace"}
  /\ emAlive' = {} /\ emChild' = "exited"
  /\ emProved' = (emJob \/ emChild = "exited")
  /\ emSup' = IF emSup = "forceGrace" THEN "read" ELSE "closing"
  /\ emRecord' = IF emSup = "forceGrace" THEN emRecord ELSE "refused"
  /\ UNCHANGED <<emJob, emClosed, emClean, emResult, emForced, emFaults>>

\* Mutant: the child's own evidence is not asked for.
PassedUnobserved == emProved /\ ~emForced
\* _schema_v3(): the child's own evidence and the supervisor's decide.
Passed == emClean /\ emProved /\ ~emForced

Read ==
  /\ SupGoto("read", "closing")
  /\ emRecord' = IF emResult = "result" THEN (IF Passed THEN "passed" ELSE "failed") ELSE "refused"
  /\ UNCHANGED <<emJob, emRuntime, emChild, emForced, emProved, emFaults>>

\* An interrupt of the command leaves through the finally clause.
Interrupt ==
  /\ emSup \notin {"spawn", "closing", "over"} /\ Fault
  /\ emSup' = "closing" /\ emRecord' = "refused"
  /\ UNCHANGED <<emJob, emRuntime, emChild, emForced, emProved>>

\* Closing the last handle of a job object kills its members; a process group is left alone.
CloseContainment ==
  /\ SupGoto("closing", "over")
  /\ IF emJob THEN emAlive' = {} /\ emChild' = "exited" ELSE UNCHANGED <<emAlive, emChild>>
  /\ UNCHANGED <<emJob, emClosed, emClean, emResult, emForced, emProved, emRecord, emFaults>>

-----------------------------------------------------------------------------
ChildStep == Load \/ Measure \/ CloseRuntime \/ ObserveCleanup \/ Write
SupervisorStep == Spawn \/ Contain \/ Feed \/ Await \/ Grace \/ ForceExit \/ Read \/ CloseContainment

MeasurementNext == ChildStep \/ SupervisorStep \/ ChildCrashes \/ Interrupt \/ \E h \in Spawned : End(h)

MeasurementSpec == MeasurementInit /\ [][MeasurementNext]_emVars

-----------------------------------------------------------------------------
MeasurementTypeOK ==
  /\ {emJob, emClosed, emClean, emForced, emProved} \subseteq BOOLEAN
  /\ emSup \in {"spawn", "contain", "feed", "wait", "grace", "forceFeed", "forceLate", "forceGrace",
                "read", "closing", "over"}
  /\ emChild \in Gone \cup {"suspended", "started", "fed", "loaded", "measured", "broken", "unclosed",
                            "writing", "failing", "dead"}
  /\ emAlive \subseteq Spawned /\ emResult \in {"none", "result", "error"}
  /\ emRecord \in {"none", "refused", "failed", "passed"} /\ emFaults \in 0..MaxMeasureFaults

\* A record that passes was made by a child that is gone with everything it spawned,
\* that released its runtime by itself and was not killed ("A contained process or DHT
\* child that survives still fails cleanup").
AcceptedIsClean ==
  emRecord = "passed" => ~Contained /\ emClosed /\ emResult = "result" /\ ~emForced

\* A measurement is at its end, even if the child or something it spawned hangs
\* (edge_supervisor.py:422-446).
MeasurementOver == emSup = "over"
=============================================================================
