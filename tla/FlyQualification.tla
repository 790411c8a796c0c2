--------------------------- MODULE FlyQualification ---------------------------
(***************************************************************************)
(* The recovery qualification on Fly: the adapter that provisions one      *)
(* bootstrap and four workers and destroys them                            *)
(* (scripts/fly_qualification_adapter.py), and the gate that interrupts a  *)
(* worker in the middle of a generation                                    *)
(* (scripts/qualify_model_multimachine.py).  A create request that times   *)
(* out may still be carried out; a machine that is not in the private      *)
(* state file is found by its run tag only.                                *)
(***************************************************************************)
EXTENDS Naturals, Sequences, FiniteSets

CONSTANT MaxFlyFaults   \* bound on failures, kills and lost answers
ASSUME FlyAssumption == MaxFlyFaults \in Nat

VARIABLES
  fpc,      \* where the adapter or the gate is
  idx,      \* the resource being provisioned
  box,      \* the machine of each resource at the provider
  flight,   \* creates that were given up and may still be carried out
  strays,   \* machines that appeared after the cleanup had finished
  recs,     \* the records in memory
  file,     \* the private state file
  caller,   \* who runs the cleanup: "provision" or "control"
  todo, proven, scans,   \* cleanup: tracked machines to resolve, the destroyed ones, clean scans
  before, after, victim, \* gate: the routes and the interrupted worker
  verdict,  \* gate: the result of the report
  flyFaults

flyVars == <<fpc, idx, box, flight, strays, recs, file, caller, todo, proven, scans,
             before, after, victim, verdict, flyFaults>>
cleanupLocals == <<caller, todo, proven, scans>>
gateLocals == <<before, after, victim>>

Layout == <<"bootstrap-a", "worker-a", "worker-b", "worker-c", "worker-d">>
Resources == {Layout[j] : j \in 1..Len(Layout)}
Workers == Resources \ {"bootstrap-a"}
FirstHalf == {"worker-a", "worker-c"}    \* the first half of the blocks
SecondHalf == {"worker-b", "worker-d"}     \* the second half
Confirmations == 3
Active(r) == box[r] \in {"created", "started", "stopped"}
Routes == {{f, b} : f \in {w \in FirstHalf : box[w] = "started"}, b \in {w \in SecondHalf : box[w] = "started"}}

FlyInit ==
  /\ fpc = "provision" /\ idx = 1
  /\ box \in [Resources -> {"none", "started"}]
  /\ Cardinality({r \in Resources : box[r] = "started"}) <= 1   \* of an earlier attempt
  /\ flight = {} /\ strays = {} /\ recs = {}
  /\ file = [status |-> "none", records |-> {}]
  /\ caller = "none" /\ todo = {} /\ proven = {} /\ scans = 0
  /\ before = {} /\ after = {} /\ victim = "none"
  /\ verdict = "none" /\ flyFaults = 0

FlyFault == flyFaults < MaxFlyFaults /\ flyFaults' = flyFaults + 1

\* What the gate believes of a control command's one line of output: this run,
\* this command, this worker, and everything it was told to do.
AckValid(a, action, r) ==
  /\ a.action = action
  /\ action = "interrupt" => a.resource = r /\ a.exited
  /\ action = "cleanup" => a.destroyed = Resources /\ a.remaining = {}

(***************************************************************************)
(* cleanup_run.                                                            *)
(***************************************************************************)
BeginCleanup(who, records) ==
  /\ fpc' = "resolve" /\ caller' = who
  /\ recs' = records /\ todo' = records /\ proven' = {} /\ scans' = 0

\* The outer cleanup could not be proved, or the control command failed.
CleanupFails ==
  /\ fpc' = "over"
  /\ verdict' = IF caller = "control" THEN "failed" ELSE verdict

\* Each journaled machine is looked up and destroyed.  One that is already gone
\* stays unproven: absence alone does not say that this adapter destroyed it.
Resolve ==
  /\ fpc = "resolve" /\ todo # {}
  /\ \E r \in todo :
       \/ /\ todo' = todo \ {r} /\ UNCHANGED <<fpc, verdict, flyFaults>>
          /\ IF Active(r) THEN box' = [box EXCEPT ![r] = "gone"] /\ proven' = proven \cup {r}
             ELSE UNCHANGED <<box, proven>>
       \/ /\ FlyFault /\ CleanupFails /\ UNCHANGED <<todo, proven>>
          /\ box' \in {box} \cup IF Active(r) THEN {[box EXCEPT ![r] = "gone"]} ELSE {}
  /\ UNCHANGED <<idx, flight, strays, recs, file, caller, scans, gateLocals>>

\* Then everything with the run's tag, until it has been empty three times in a
\* row: a machine that appears in between starts the count again.
Scan ==
  /\ fpc = "resolve" /\ todo = {} /\ scans < Confirmations
  /\ LET found == {r \in Resources : Active(r)}
     IN  \/ /\ box' = [r \in Resources |-> IF r \in found THEN "gone" ELSE box[r]]
            /\ proven' = proven \cup (found \cap recs)
            /\ scans' = IF found = {} THEN scans + 1 ELSE 0
            /\ UNCHANGED <<fpc, verdict, flyFaults>>
         \/ /\ FlyFault /\ CleanupFails /\ UNCHANGED <<scans, proven>>
            /\ \E some \in SUBSET found :
                 box' = [r \in Resources |-> IF r \in some THEN "gone" ELSE box[r]]
  /\ UNCHANGED <<idx, flight, strays, recs, file, caller, todo, gateLocals>>

\* Every tracked machine must have been destroyed by this call.
CleanupEnds(passed) ==
  /\ fpc = "resolve" /\ todo = {} /\ scans = Confirmations
  /\ fpc' = "over"
  /\ IF recs \subseteq proven
     THEN /\ file' = [status |-> IF caller = "control" THEN "cleaned" ELSE "cleaned_after_failure",
                      records |-> recs]
          /\ verdict' = IF caller # "control" THEN verdict
                        ELSE IF AckValid([action |-> "cleanup", destroyed |-> proven, remaining |-> {}],
                                         "cleanup", "none") THEN passed ELSE "failed"
     ELSE UNCHANGED file /\ verdict' = IF caller = "control" THEN "failed" ELSE verdict
  /\ UNCHANGED <<idx, box, flight, strays, recs, cleanupLocals, gateLocals, flyFaults>>

(***************************************************************************)
(* provision: nothing with this run's tag may exist; then each machine is  *)
(* created, awaited, asked for its identity and journaled.                 *)
(***************************************************************************)
ListExisting ==
  /\ fpc = "provision"
  /\ fpc' = IF \E r \in Resources : Active(r) THEN "over" ELSE "create"
  /\ UNCHANGED <<idx, box, flight, strays, recs, file, cleanupLocals, gateLocals, verdict,
                 flyFaults>>

CreateMachine ==
  /\ fpc = "create"
  /\ LET r == Layout[idx]
     IN  \/ /\ box' = [box EXCEPT ![r] = "created"] /\ fpc' = "wait"
            /\ UNCHANGED <<flight, flyFaults, recs, cleanupLocals>>
         \/ /\ FlyFault /\ BeginCleanup("provision", recs)
            /\ \/ box' = [box EXCEPT ![r] = "created"] /\ UNCHANGED flight
               \/ flight' = flight \cup {r} /\ UNCHANGED box
               \/ UNCHANGED <<box, flight>>
  /\ UNCHANGED <<idx, strays, file, gateLocals, verdict>>

WaitStarted ==
  /\ fpc = "wait"
  /\ \/ /\ box[Layout[idx]] = "created" /\ box' = [box EXCEPT ![Layout[idx]] = "started"]
        /\ fpc' = "identity" /\ UNCHANGED <<flyFaults, recs, cleanupLocals>>
     \/ FlyFault /\ BeginCleanup("provision", recs) /\ UNCHANGED box
  /\ UNCHANGED <<idx, flight, strays, file, gateLocals, verdict>>

\* The identity is read over flyctl until the machine answers with one marker;
\* no two machines may have the same.
ReadPeerId ==
  /\ fpc = "identity"
  /\ \/ fpc' = "journal" /\ UNCHANGED <<flyFaults, recs, cleanupLocals>>
     \/ FlyFault /\ BeginCleanup("provision", recs)
  /\ UNCHANGED <<idx, box, flight, strays, file, gateLocals, verdict>>

\* The record is kept and the state file replaced; the last record makes it
\* ready and the topology and control plan are written.
Journal ==
  /\ fpc = "journal"
  /\ \/ LET now == recs \cup {Layout[idx]}
        IN  /\ recs' = now
            /\ IF idx < Len(Layout)
               THEN /\ idx' = idx + 1 /\ fpc' = "create"
                    /\ file' = [status |-> "provisioning", records |-> now]
               ELSE /\ UNCHANGED idx /\ fpc' = "gate"
                    /\ file' = [status |-> "ready", records |-> now]
            /\ UNCHANGED <<cleanupLocals, flyFaults>>
     \/ \* a repeated identity, or a write that fails after the record was kept
        /\ FlyFault /\ UNCHANGED idx
        /\ \E now \in {recs, recs \cup {Layout[idx]}} :
             /\ BeginCleanup("provision", now)
             /\ file' \in {file} \cup IF now = Resources THEN {[status |-> "ready", records |-> now]} ELSE {}
  /\ UNCHANGED <<box, flight, strays, gateLocals, verdict>>

(***************************************************************************)
(* The gate.  Whatever fails after the topology was loaded, the cleanup    *)
(* command runs once.                                                      *)
(***************************************************************************)
\* The state file must have reached the controller: five distinct resources,
\* one of them the bootstrap.
LoadState == file.status \in {"ready", "cleaned"} /\ file.records = Resources

ControlCleanup ==
  IF LoadState THEN BeginCleanup("control", file.records)
  ELSE fpc' = "over" /\ UNCHANGED <<recs, cleanupLocals>>

GateFails ==
  /\ verdict' = "failed" /\ ControlCleanup

\* Two routes that share no worker, each of which covers both halves, so that
\* every block is on two machines.
TopologyValid(routeOf) ==
  \A j \in {1, 2}, half \in {FirstHalf, SecondHalf} : \E w \in half : routeOf[w] = j

\* The topology and the cleanup command are read first; without them the gate
\* exits, and nothing is cleaned up.
GateLoad ==
  /\ fpc = "gate" /\ verdict = "none"
  /\ \E routeOf \in [Workers -> {1, 2}], command \in BOOLEAN :
       IF TopologyValid(routeOf) /\ command THEN fpc' = "coverage" /\ UNCHANGED verdict
       ELSE fpc' = "over" /\ verdict' = "failed"
  /\ UNCHANGED <<idx, box, flight, strays, recs, file, cleanupLocals, gateLocals, flyFaults>>

\* A passed matrix report for this source and model, with a report of its own
\* from a machine of its own for each of the four profiles.
MatrixReportValid(m) ==
  /\ m.passed /\ m.identity
  /\ \A p, q \in 1..4 : p # q => m.machine[p] # m.machine[q]

Matrices == [passed : BOOLEAN, identity : BOOLEAN, machine : {<<1, 2, 3, 4>>, <<1, 2, 3, 3>>}]

ControlPlanValid(commands) == commands = Workers

\* Control plan, matrix report and artifacts; then every block must be announced
\* by exactly its two workers.
Coverage ==
  /\ fpc = "coverage"
  /\ \E m \in Matrices, commands \in {Workers, Workers \ FirstHalf}, artifacts \in BOOLEAN :
       IF /\ ControlPlanValid(commands) /\ MatrixReportValid(m) /\ artifacts
          /\ \A w \in Workers : box[w] = "started"
       THEN fpc' = "generate" /\ UNCHANGED <<verdict, recs, cleanupLocals>>
       ELSE GateFails
  /\ UNCHANGED <<idx, box, flight, strays, file, gateLocals, flyFaults>>

\* The first token; the route must be split, and its first span is the victim.
ActiveSpans ==
  /\ fpc = "generate"
  /\ \/ /\ before' \in Routes
        /\ victim' = CHOOSE w \in before' : w \in FirstHalf
        /\ fpc' = "interrupt" /\ UNCHANGED <<verdict, recs, cleanupLocals, flyFaults>>
     \/ (FlyFault \/ (Routes = {} /\ UNCHANGED flyFaults))
        /\ GateFails /\ UNCHANGED <<before, victim>>
  /\ UNCHANGED <<idx, box, flight, strays, file, after>>

\* The control command hard-kills the victim: bound to this run and resource,
\* running before and stopped after.
HardKill ==
  /\ fpc = "interrupt"
  /\ \/ /\ box[victim] = "started" /\ box' = [box EXCEPT ![victim] = "stopped"]
        /\ AckValid([action |-> "interrupt", resource |-> victim, exited |-> box'[victim] = "stopped"],
                    "interrupt", victim)
        /\ fpc' = "recover" /\ UNCHANGED <<verdict, recs, cleanupLocals, flyFaults>>
     \/ /\ box[victim] # "started" /\ GateFails /\ UNCHANGED <<box, flyFaults>>
     \/ /\ FlyFault /\ GateFails
        /\ box' \in {box, [box EXCEPT ![victim] = "stopped"]}
  /\ UNCHANGED <<idx, flight, strays, file, gateLocals>>

\* Mutant: the recovered route is not compared with the victim.
AnyReplacement(route) == \E w \in route : w \in FirstHalf

\* The rest of the generation in the same session.  The client may still hold a
\* span on the victim, which the validation of the recovered route refuses.
ValidReplacement(route) ==
  /\ victim \notin route
  /\ \E w \in route : w \in FirstHalf

Recover(route) ==
  /\ fpc = "recover"
  /\ after' = route
  /\ IF ValidReplacement(route) THEN fpc' = "probe" /\ UNCHANGED <<verdict, recs, cleanupLocals>>
     ELSE GateFails
  /\ UNCHANGED <<idx, box, flight, strays, file, before, victim, flyFaults>>

\* The evidence: equal non-empty token lists, a clean request that is a prefix of
\* them and avoids the victim, and a session that advanced over what it replayed.
EvidenceValid(e) ==
  /\ e.parity /\ e.probeParity /\ victim \notin e.route
  /\ e.replayed > 0 /\ e.final > e.replayed

Evidences ==
  [parity : BOOLEAN, probeParity : BOOLEAN, replayed : 0..1, final : 1..2,
   route : {{f, b} : f \in FirstHalf, b \in SecondHalf}]

\* One clean request, token parity with the stock model, then the cleanup.
CleanProbe ==
  /\ fpc = "probe"
  /\ \E e \in Evidences : verdict' = IF EvidenceValid(e) THEN "passing" ELSE "failed"
  /\ ControlCleanup
  /\ UNCHANGED <<idx, box, flight, strays, file, gateLocals, flyFaults>>

GateResult == IF verdict = "passing" THEN "passed" ELSE "failed"

(***************************************************************************)
(* Around: machines stop by themselves, given-up creates are carried out,  *)
(* processes are killed, and an operator repeats the cleanup command.      *)
(***************************************************************************)
MachineStops(r) ==
  /\ box[r] = "started" /\ FlyFault /\ box' = [box EXCEPT ![r] = "stopped"]
  /\ UNCHANGED <<fpc, idx, flight, strays, recs, file, cleanupLocals, gateLocals, verdict>>

CreateLands(r) ==
  /\ r \in flight /\ flight' = flight \ {r}
  /\ box' = [box EXCEPT ![r] = "created"]
  /\ strays' = IF fpc = "over" \/ scans = Confirmations THEN strays \cup {r} ELSE strays
  /\ UNCHANGED <<fpc, idx, recs, file, cleanupLocals, gateLocals, verdict, flyFaults>>

Killed ==
  /\ fpc # "over" /\ FlyFault /\ fpc' = "over"
  /\ verdict' = IF caller = "control" THEN "failed" ELSE verdict
  /\ UNCHANGED <<idx, box, flight, strays, recs, file, cleanupLocals, gateLocals>>

CleanupAgain ==
  /\ fpc = "over" /\ LoadState /\ FlyFault
  /\ BeginCleanup("control", file.records)
  /\ verdict' = "failed"
  /\ UNCHANGED <<idx, box, flight, strays, file, gateLocals>>

FlyNext ==
  \/ ListExisting \/ CreateMachine \/ WaitStarted \/ ReadPeerId \/ Journal
  \/ GateLoad \/ Coverage
  \/ ActiveSpans \/ HardKill
  \/ \E route \in {{f, b} : f \in FirstHalf, b \in SecondHalf} :
       Recover(route)
  \/ CleanProbe
  \/ Resolve \/ Scan \/ CleanupEnds(GateResult)
  \/ \E r \in Resources : MachineStops(r) \/ CreateLands(r)
  \/ Killed \/ CleanupAgain

(***************************************************************************)
(* Properties.                                                             *)
(***************************************************************************)
FlyTypeOK ==
  /\ idx \in 1..Len(Layout)
  /\ box \in [Resources -> {"none", "created", "started", "stopped", "gone"}]
  /\ recs \subseteq Resources /\ todo \subseteq recs /\ proven \subseteq recs
  /\ scans \in 0..Confirmations /\ flyFaults \in 0..MaxFlyFaults

\* A state file that says "cleaned" is right: no machine of the run exists that
\* the provider had created before the last confirming scan, journaled or not.
CleanedMeansDestroyed ==
  file.status \in {"cleaned", "cleaned_after_failure"} =>
    \A r \in Resources : Active(r) => r \in strays

\* A gate that passed interrupted a worker of the first route, finished on the
\* other machine, and every machine it was given has been destroyed.
PassedRecovered ==
  verdict = "passed" =>
    /\ victim \in before /\ victim \notin after
    /\ file.status = "cleaned" /\ \A r \in Resources : box[r] = "gone" \/ r \in strays
=============================================================================
