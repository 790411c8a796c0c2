-------------------------- MODULE PackagedLifecycle --------------------------
\* The sixteen-phase life of the packaged Linux product on a clean host
\* (gate13_linux_packaged_lifecycle.py): audit, install, bootstrap, acquisition,
\* inference, contribution, pause, restart, replacement, crash, the two
\* uninstallations and the final cleanup, with the systemd units, credentials and
\* trees the run owns, and the controller that accepts its document
\* (gate13_packaged_lifecycle.py), and the download of a package
\* (gate13_download_artifact.py). Bounds: faults and acts of the person at the
\* desktop window (MaxPkFaults, MaxGuiActs).
EXTENDS Integers, Sequences, FiniteSets

CONSTANTS MaxPkFaults, MaxGuiActs
ASSUME PackagedAssumption == MaxPkFaults \in Nat /\ MaxGuiActs \in Nat

VARIABLES
  pkConfig,   \* the replacement: its kind, and how it compares with the original
  pkStep,     \* position in the program
  pkAlive,    \* units with processes in their cgroup
  pkOwned,    \* owner.owned
  pkTree,     \* what is installed, the data kept, and whether work_root exists
  pkSecrets,  \* native credential, active client keys, bootstrap key file
  pkNode,     \* the policy's sharing switch, its revision and the automatic worker
  pkSeen,     \* what the run remembers: policy revision, client keys, counts
  pkCreated,  \* credential_created
  pkStored,   \* history: the control token was stored and verified
  pkResult,
  pkError,    \* cleanup_error
  pkBudget    \* faults and window acts so far

pkVars == <<pkConfig, pkStep, pkAlive, pkOwned, pkTree, pkSecrets, pkNode, pkSeen,
            pkCreated, pkStored, pkResult, pkError, pkBudget>>
pkUnits == <<pkAlive, pkOwned>>
pkMemory == <<pkConfig, pkCreated, pkStored>>

--------------------------------------------------------------------------------
\* The program: every phase is a sequence of operations.
SelfTests == <<"self_test", "self_test", "self_test">>
Inference == <<"key_create", "complete", "key_revoke">>

CleanInstall == <<"no_credential", "extract">>
SignedBootstrap == <<"bootstrap">>
SelectedBytes == <<"cache_empty">>
VerifiedAcquisition == <<"acquire">>
LocalhostInference ==
  <<"store_token", "start", "baseline_create", "baseline_revoke", "baseline_list", "baseline_count">> \o Inference
BoundedContribution == <<"get_policy", "share", "await_worker">>
ContributionPause == <<"get_policy", "unshare", "await_pause">>
RestartCacheReuse == <<"stop", "same_cache", "start">> \o Inference \o <<"same_cache">>
ManualReplacement ==
  <<"stop", "same_cache", "count", "audit_replacement", "remove_install", "extract">>
    \o SelfTests \o <<"start">> \o Inference \o <<"same_cache", "count">>
Recovery == <<"fault_kill", "observe_fault", "start">> \o Inference \o <<"same_cache">>
UninstallRetain == <<"stop", "count", "remove_install", "same_cache", "count">>
RetainedDataReinstall ==
  <<"same_cache", "count", "extract", "start">> \o Inference \o <<"same_cache", "count">>
UninstallDelete == <<"stop", "remove_install", "remove_data", "clear_token">>
ProcessCleanup == <<"stop_all", "remove_work">>

Body ==
  <<"audit">> \o CleanInstall \o SelfTests \o SignedBootstrap \o SelectedBytes
    \o VerifiedAcquisition \o LocalhostInference \o BoundedContribution \o ContributionPause
    \o RestartCacheReuse \o ManualReplacement \o Recovery \o UninstallRetain
    \o RetainedDataReinstall \o UninstallDelete \o ProcessCleanup \o <<"validate">>
FinalSteps == <<"finally_units", "finally_token", "finally_trees">>
Program == Body \o FinalSteps
PkEnd == Len(Program) + 1

PkAt(op) == pkStep \in 1..Len(Program) /\ Program[pkStep] = op
Done == pkStep' = pkStep + 1 /\ UNCHANGED pkResult
Abort == pkStep' = Len(Body) + 1 /\ pkResult' = "failed"
PkFault == pkBudget.faults < MaxPkFaults /\ pkBudget' = [pkBudget EXCEPT !.faults = @ + 1]

PkInit ==
  /\ pkConfig \in [kind: {"upgrade", "reinstall"}, version: {"same", "newer"}, catalog: {"same", "other"}]
  /\ pkStep = 1
  /\ pkAlive = {} /\ pkOwned = {}
  /\ pkTree = [installed |-> "absent", data |-> {}, work |-> FALSE]
  /\ pkSecrets = [credential |-> FALSE, active |-> {}, file |-> FALSE]
  /\ pkNode = [sharing |-> FALSE, revision |-> 0, worker |-> "paused"]
  /\ pkSeen = [revision |-> 0, baseline |-> {}, failed |-> FALSE, counts |-> <<>>]
  /\ pkCreated = FALSE /\ pkStored = FALSE
  /\ pkResult = "running" /\ pkError = FALSE
  /\ pkBudget = [faults |-> 0, gui |-> 0]

--------------------------------------------------------------------------------
\* Packages. An audit of a release either proves it or raises.
Audit ==
  /\ PkAt("audit")
  /\ \/ Done /\ UNCHANGED pkBudget
     \/ Abort /\ PkFault
  /\ UNCHANGED <<pkMemory, pkUnits, pkTree, pkSecrets, pkNode, pkSeen, pkError>>

\* The replacement must have the original's catalog, and its version exactly when
\* it is a reinstallation.
ReplacementFits == pkConfig.catalog = "same" /\ (pkConfig.kind = "reinstall") = (pkConfig.version = "same")

AuditReplacement ==
  /\ PkAt("audit_replacement")
  /\ \/ ReplacementFits /\ Done /\ UNCHANGED pkBudget
     \/ ~ReplacementFits /\ Abort /\ UNCHANGED pkBudget
     \/ Abort /\ PkFault
  /\ UNCHANGED <<pkMemory, pkUnits, pkTree, pkSecrets, pkNode, pkSeen, pkError>>

NoCredential ==
  /\ PkAt("no_credential")
  /\ IF pkSecrets.credential THEN Abort /\ UNCHANGED pkTree ELSE Done /\ pkTree' = [pkTree EXCEPT !.work = TRUE]
  /\ UNCHANGED <<pkMemory, pkUnits, pkSecrets, pkNode, pkSeen, pkError, pkBudget>>

\* An extraction that fails removes what it wrote; an installation that does not
\* verify stays where it is until the run's cleanup.
Extract ==
  /\ PkAt("extract")
  /\ \/ /\ pkTree.installed = "absent"
        /\ pkTree' = [pkTree EXCEPT !.installed = "present"]
        /\ Done /\ UNCHANGED pkBudget
     \/ pkTree.installed # "absent" /\ Abort /\ UNCHANGED <<pkTree, pkBudget>>
     \/ /\ PkFault /\ Abort
        /\ \E left \in {"absent", "present"} : pkTree' = [pkTree EXCEPT !.installed = left]
  /\ UNCHANGED <<pkMemory, pkUnits, pkSecrets, pkNode, pkSeen, pkError>>

\* A unit that failed is stopped, or still owned because its end was not proved, or
\* runs outside the owner because its cgroup identity never appeared.
Leaves(unit) ==
  \/ UNCHANGED pkUnits
  \/ pkAlive' = pkAlive \cup {unit} /\ pkOwned' = pkOwned \cup {unit}
  \/ pkAlive' = pkAlive \cup {unit} /\ UNCHANGED pkOwned

\* A contained command, and what it makes when it ends well.
Captured(op, made) ==
  /\ PkAt(op)
  /\ \/ Done /\ pkTree' = [pkTree EXCEPT !.data = @ \cup made] /\ UNCHANGED <<pkUnits, pkBudget>>
     \/ /\ PkFault /\ Abort
        /\ Leaves("command")
        /\ \E partly \in SUBSET made : pkTree' = [pkTree EXCEPT !.data = @ \cup partly]
  /\ UNCHANGED <<pkMemory, pkSecrets, pkNode, pkSeen, pkError>>

SelfTest == Captured("self_test", {})
Bootstrap == Captured("bootstrap", {"config"})
Acquire == Captured("acquire", {"cache"})

CacheEmpty ==
  /\ PkAt("cache_empty")
  /\ IF "cache" \in pkTree.data THEN Abort ELSE Done
  /\ UNCHANGED <<pkMemory, pkUnits, pkTree, pkSecrets, pkNode, pkSeen, pkError, pkBudget>>

SameCache ==
  /\ PkAt("same_cache")
  /\ IF "cache" \in pkTree.data THEN Done ELSE Abort
  /\ UNCHANGED <<pkMemory, pkUnits, pkTree, pkSecrets, pkNode, pkSeen, pkError, pkBudget>>

--------------------------------------------------------------------------------
\* Credentials. A store whose verification fails has stored the token all the same.
StoreToken ==
  /\ PkAt("store_token")
  /\ \/ /\ Done /\ UNCHANGED pkBudget
        /\ pkSecrets' = [pkSecrets EXCEPT !.credential = TRUE]
        /\ pkCreated' = TRUE /\ pkStored' = TRUE
     \/ /\ Abort /\ PkFault
        /\ \E kept \in BOOLEAN : pkSecrets' = [pkSecrets EXCEPT !.credential = kept]
        /\ UNCHANGED <<pkCreated, pkStored>>
  /\ UNCHANGED <<pkConfig, pkUnits, pkTree, pkNode, pkSeen, pkError>>

ClearToken ==
  /\ PkAt("clear_token")
  /\ \/ /\ Done /\ UNCHANGED pkBudget
        /\ pkSecrets' = [pkSecrets EXCEPT !.credential = FALSE]
        /\ pkCreated' = FALSE
     \/ /\ Abort /\ PkFault
        /\ \E kept \in BOOLEAN : pkSecrets' = [pkSecrets EXCEPT !.credential = kept]
        /\ UNCHANGED pkCreated
  /\ UNCHANGED <<pkConfig, pkStored, pkUnits, pkTree, pkNode, pkSeen, pkError>>

SecretCount == (IF pkSecrets.credential THEN 1 ELSE 0) + Cardinality(pkSecrets.active) + (IF pkSecrets.file THEN 1 ELSE 0)

Count ==
  /\ PkAt("count")
  /\ Done
  /\ pkSeen' = [pkSeen EXCEPT !.counts = Append(@, SecretCount)]
  /\ UNCHANGED <<pkMemory, pkUnits, pkTree, pkSecrets, pkNode, pkError, pkBudget>>

--------------------------------------------------------------------------------
\* The product: one unit holding the window, its node, the workers and the daemon.
ProductUp == "product" \in pkAlive

\* A node with no active client key makes one, and leaves its secret in a file.
NodeKeys ==
  IF pkSecrets.active = {} THEN [pkSecrets EXCEPT !.active = {"bootstrap"}, !.file = TRUE] ELSE pkSecrets

StartProducts ==
  /\ PkAt("start")
  /\ \/ /\ Done /\ UNCHANGED pkBudget
        /\ pkAlive' = pkAlive \cup {"product"} /\ pkOwned' = pkOwned \cup {"product"}
     \/ Abort /\ PkFault /\ Leaves("product")
  /\ pkSecrets' = NodeKeys
  /\ UNCHANGED <<pkMemory, pkTree, pkNode, pkSeen, pkError>>

ProductGone == pkAlive' = pkAlive \ {"product"} /\ pkNode' = [pkNode EXCEPT !.worker = "paused"]

\* Mutant: a unit that had to be killed is taken as stopped.
StopProductsForced ==
  /\ PkAt("stop")
  /\ \/ ProductUp /\ ProductGone /\ pkOwned' = pkOwned \ {"product"} /\ Done /\ UNCHANGED pkBudget
     \/ ~ProductUp /\ Abort /\ UNCHANGED <<pkUnits, pkNode, pkBudget>>
     \/ ProductUp /\ Done /\ PkFault /\ pkOwned' = pkOwned \ {"product"} /\ (ProductGone \/ UNCHANGED <<pkAlive, pkNode>>)
  /\ UNCHANGED <<pkMemory, pkTree, pkSecrets, pkSeen, pkError>>

\* TERM to the window; a unit that had to be killed, or was dead already, fails the phase.
StopProducts ==
  /\ PkAt("stop")
  /\ \/ ProductUp /\ ProductGone /\ pkOwned' = pkOwned \ {"product"} /\ Done /\ UNCHANGED pkBudget
     \/ ~ProductUp /\ Abort /\ UNCHANGED <<pkUnits, pkNode, pkBudget>>
     \/ ProductUp /\ Abort /\ PkFault /\ UNCHANGED pkOwned /\ (ProductGone \/ UNCHANGED <<pkAlive, pkNode>>)
  /\ UNCHANGED <<pkMemory, pkTree, pkSecrets, pkSeen, pkError>>

FaultKill ==
  /\ PkAt("fault_kill")
  /\ IF ProductUp THEN ProductGone /\ pkOwned' = pkOwned \ {"product"} /\ Done ELSE Abort
     /\ UNCHANGED <<pkUnits, pkNode>>
  /\ UNCHANGED <<pkMemory, pkTree, pkSecrets, pkSeen, pkError, pkBudget>>

ObserveFault ==
  /\ PkAt("observe_fault")
  /\ IF ProductUp THEN Abort ELSE Done
  /\ UNCHANGED <<pkMemory, pkUnits, pkTree, pkSecrets, pkNode, pkSeen, pkError, pkBudget>>

--------------------------------------------------------------------------------
\* The client key the run keeps, made through the control API, replaces the node's
\* bootstrap key and its file.
BaselineCreate ==
  /\ PkAt("baseline_create")
  /\ \/ /\ ProductUp /\ pkSecrets.active = {"bootstrap"}
        /\ pkSecrets' = [pkSecrets EXCEPT !.active = @ \cup {"baseline"}]
        /\ Done /\ UNCHANGED pkBudget
     \/ (~ProductUp \/ pkSecrets.active # {"bootstrap"}) /\ Abort /\ UNCHANGED <<pkSecrets,
                                                                                 pkBudget>>
     \/ /\ ProductUp /\ PkFault /\ Abort
        /\ pkSecrets' = [pkSecrets EXCEPT !.active = @ \cup {"baseline"}]
  /\ UNCHANGED <<pkMemory, pkUnits, pkTree, pkNode, pkSeen, pkError>>

BaselineRevoke ==
  /\ PkAt("baseline_revoke")
  /\ IF ProductUp
       THEN pkSecrets' = [pkSecrets EXCEPT !.active = @ \ {"bootstrap"}, !.file = FALSE] /\ Done
       ELSE Abort /\ UNCHANGED pkSecrets
  /\ UNCHANGED <<pkMemory, pkUnits, pkTree, pkNode, pkSeen, pkError, pkBudget>>

\* The inventory must hold the baseline key alone; the count that follows reads the
\* node's own file, and must be three.
BaselineList ==
  /\ PkAt("baseline_list")
  /\ IF ProductUp /\ pkSecrets.active = {"baseline"} /\ ~pkSecrets.file THEN Done ELSE Abort
  /\ UNCHANGED <<pkMemory, pkUnits, pkTree, pkSecrets, pkNode, pkSeen, pkError, pkBudget>>

BaselineCount ==
  /\ PkAt("baseline_count")
  /\ IF SecretCount = 3 THEN Done ELSE Abort
  /\ UNCHANGED <<pkMemory, pkUnits, pkTree, pkSecrets, pkNode, pkSeen, pkError, pkBudget>>

\* One completion under a temporary key. A lost answer leaves a key whose identifier
\* the adapter does not know, and it finds it by its label.
KeyCreate ==
  /\ PkAt("key_create")
  /\ LET fit == ProductUp /\ pkSecrets.active # {} /\ "qualification" \notin pkSecrets.active
         begun == [pkSeen EXCEPT !.baseline = IF fit THEN pkSecrets.active ELSE {}, !.failed = TRUE]
         issued == [pkSecrets EXCEPT !.active = @ \cup {"qualification"}]
     IN \/ /\ fit /\ pkSecrets' = issued /\ UNCHANGED pkBudget
           /\ pkSeen' = [begun EXCEPT !.failed = FALSE]
        \/ fit /\ PkFault /\ pkSeen' = begun /\ pkSecrets' \in {issued, pkSecrets}
        \/ ~fit /\ pkSeen' = begun /\ UNCHANGED <<pkSecrets, pkBudget>>
  /\ Done
  /\ UNCHANGED <<pkMemory, pkUnits, pkTree, pkNode, pkError>>

Complete ==
  /\ PkAt("complete")
  /\ Done
  /\ \/ ProductUp /\ UNCHANGED <<pkSeen, pkBudget>>
     \/ ~ProductUp /\ pkSeen' = [pkSeen EXCEPT !.failed = TRUE] /\ UNCHANGED pkBudget
     \/ ProductUp /\ PkFault /\ pkSeen' = [pkSeen EXCEPT !.failed = TRUE]
  /\ UNCHANGED <<pkMemory, pkUnits, pkTree, pkSecrets, pkNode, pkError>>

Temporary == {k \in pkSecrets.active \ pkSeen.baseline : k = "qualification"}

KeyRevoke ==
  /\ PkAt("key_revoke")
  /\ LET may == ProductUp /\ pkSeen.baseline # {} /\ Cardinality(Temporary) = 1
         left == pkSecrets.active \ Temporary
     IN /\ pkSecrets' = IF may THEN [pkSecrets EXCEPT !.active = left] ELSE pkSecrets
        /\ IF may /\ left = pkSeen.baseline /\ ~pkSeen.failed THEN Done ELSE Abort
  /\ pkSeen' = [pkSeen EXCEPT !.baseline = {}, !.failed = FALSE]
  /\ UNCHANGED <<pkMemory, pkUnits, pkTree, pkNode, pkError, pkBudget>>

--------------------------------------------------------------------------------
\* The contribution policy is read, then written on condition that its revision has
\* not moved; the run then waits for the worker to follow.
GetPolicy ==
  /\ PkAt("get_policy")
  /\ IF ProductUp THEN Done ELSE Abort
  /\ pkSeen' = [pkSeen EXCEPT !.revision = pkNode.revision]
  /\ UNCHANGED <<pkMemory, pkUnits, pkTree, pkSecrets, pkNode, pkError, pkBudget>>

PutPolicy(op, sharing) ==
  /\ PkAt(op)
  /\ IF ProductUp /\ pkSeen.revision = pkNode.revision
       THEN Done /\ pkNode' = [pkNode EXCEPT !.sharing = sharing, !.revision = @ + 1]
       ELSE Abort /\ UNCHANGED pkNode
  /\ pkSeen' = [pkSeen EXCEPT !.revision = 0]
  /\ UNCHANGED <<pkMemory, pkUnits, pkTree, pkSecrets, pkError, pkBudget>>

Share == PutPolicy("share", TRUE)
Unshare == PutPolicy("unshare", FALSE)

AwaitWorker ==
  /\ PkAt("await_worker")
  /\ \/ ProductUp /\ pkNode.worker = "running" /\ Done /\ UNCHANGED pkBudget
     \/ (~ProductUp \/ ~pkNode.sharing) /\ Abort /\ UNCHANGED pkBudget
     \/ Abort /\ PkFault
  /\ UNCHANGED <<pkMemory, pkUnits, pkTree, pkSecrets, pkNode, pkSeen, pkError>>

AwaitPause ==
  /\ PkAt("await_pause")
  /\ \/ ProductUp /\ pkNode.worker = "paused" /\ Done /\ UNCHANGED pkBudget
     \/ (~ProductUp \/ pkNode.sharing) /\ Abort /\ UNCHANGED pkBudget
     \/ Abort /\ PkFault
  /\ UNCHANGED <<pkMemory, pkUnits, pkTree, pkSecrets, pkNode, pkSeen, pkError>>

\* The worker follows the switch; the product may die; the person at the window may
\* make a client key or throw the switch.
WorkerFollows ==
  /\ pkResult = "running" /\ ProductUp
  /\ pkNode.worker # IF pkNode.sharing THEN "running" ELSE "paused"
  /\ pkNode' = [pkNode EXCEPT !.worker = IF pkNode.sharing THEN "running" ELSE "paused"]
  /\ UNCHANGED <<pkMemory, pkStep, pkUnits, pkTree, pkSecrets, pkSeen, pkResult, pkError, pkBudget>>

ProductDies ==
  /\ pkResult = "running" /\ ProductUp /\ PkFault /\ ProductGone
  /\ UNCHANGED <<pkMemory, pkStep, pkOwned, pkTree, pkSecrets, pkSeen, pkResult, pkError>>

WindowActs ==
  /\ pkResult = "running" /\ ProductUp /\ pkBudget.gui < MaxGuiActs
  /\ pkBudget' = [pkBudget EXCEPT !.gui = @ + 1]
  /\ \/ pkSecrets' = [pkSecrets EXCEPT !.active = @ \cup {"window"}] /\ UNCHANGED pkNode
     \/ pkNode' = [pkNode EXCEPT !.sharing = ~@, !.revision = @ + 1] /\ UNCHANGED pkSecrets
  /\ UNCHANGED <<pkMemory, pkStep, pkUnits, pkTree, pkSeen, pkResult, pkError>>

--------------------------------------------------------------------------------
\* Uninstallation and the final cleanup inside the run.
RemoveInstall ==
  /\ PkAt("remove_install")
  /\ pkTree' = [pkTree EXCEPT !.installed = "absent"]
  /\ Done
  /\ UNCHANGED <<pkMemory, pkUnits, pkSecrets, pkNode, pkSeen, pkError, pkBudget>>

RemoveData ==
  /\ PkAt("remove_data")
  /\ pkTree' = [pkTree EXCEPT !.data = {}]
  /\ pkSecrets' = [pkSecrets EXCEPT !.active = {}, !.file = FALSE]
  /\ Done
  /\ UNCHANGED <<pkMemory, pkUnits, pkNode, pkSeen, pkError, pkBudget>>

\* stop_all: every owned unit in turn, whatever happened to the others.
StopEach(stopped) ==
  /\ pkAlive' = pkAlive \ stopped
  /\ pkOwned' = pkOwned \ stopped
  /\ pkNode' = IF "product" \in stopped THEN [pkNode EXCEPT !.worker = "paused"] ELSE pkNode

StopUnits ==
  /\ PkAt("stop_all")
  /\ StopEach(pkOwned)
  /\ Done
  /\ UNCHANGED <<pkMemory, pkTree, pkSecrets, pkSeen, pkError, pkBudget>>

RemoveWork ==
  /\ PkAt("remove_work")
  /\ IF pkTree.installed = "absent" /\ pkTree.data = {}
       THEN Done /\ pkTree' = [pkTree EXCEPT !.work = FALSE]
       ELSE Abort /\ UNCHANGED pkTree
  /\ UNCHANGED <<pkMemory, pkUnits, pkSecrets, pkNode, pkSeen, pkError, pkBudget>>

\* The controller binds the secret counts of the replacement, the uninstallation and
\* the reinstallation to each other.
CrossBound == \A i \in 1..Len(pkSeen.counts) : pkSeen.counts[i] = pkSeen.counts[1] /\ pkSeen.counts[i] >= 1

Validate ==
  /\ PkAt("validate")
  /\ pkStep' = pkStep + 1
  /\ pkResult' = IF CrossBound /\ Len(pkSeen.counts) = 6 THEN "passed" ELSE "failed"
  /\ UNCHANGED <<pkMemory, pkUnits, pkTree, pkSecrets, pkNode, pkSeen, pkError, pkBudget>>

\* The finally block: units, token, trees, each tried whatever the others did.
FinallyUnits ==
  /\ PkAt("finally_units")
  /\ \/ StopEach(pkOwned) /\ UNCHANGED <<pkError, pkBudget>>
     \/ /\ pkOwned # {} /\ PkFault /\ pkError' = TRUE
        /\ \E stopped \in SUBSET pkOwned : stopped # pkOwned /\ StopEach(stopped)
  /\ Done
  /\ UNCHANGED <<pkMemory, pkTree, pkSecrets, pkSeen>>

FinallyToken ==
  /\ PkAt("finally_token")
  /\ \/ pkCreated /\ pkSecrets' = [pkSecrets EXCEPT !.credential = FALSE] /\ UNCHANGED <<pkError, pkBudget>>
     \/ /\ pkCreated /\ PkFault /\ pkError' = TRUE
        /\ pkSecrets' \in {pkSecrets, [pkSecrets EXCEPT !.credential = FALSE]}
     \/ ~pkCreated /\ UNCHANGED <<pkSecrets, pkError, pkBudget>>
  /\ Done
  /\ UNCHANGED <<pkMemory, pkUnits, pkTree, pkNode, pkSeen>>

\* install, persistent and work root; the run's answer is then its document, its own
\* failure, or "lifecycle cleanup was not proved".
FinallyTrees ==
  /\ PkAt("finally_trees")
  /\ \/ /\ pkTree' = [installed |-> "absent", data |-> {}, work |-> FALSE]
        /\ pkSecrets' = [pkSecrets EXCEPT !.active = {}, !.file = FALSE]
        /\ UNCHANGED <<pkError, pkBudget>>
     \/ pkTree.work /\ PkFault /\ pkError' = TRUE /\ UNCHANGED <<pkTree, pkSecrets>>
  /\ pkStep' = PkEnd
  /\ pkResult' = IF pkError' THEN "unproved" ELSE pkResult
  /\ UNCHANGED <<pkMemory, pkUnits, pkNode, pkSeen>>

PkRun ==
  \/ Audit \/ AuditReplacement \/ NoCredential \/ Extract \/ SelfTest \/ Bootstrap \/ Acquire
  \/ CacheEmpty \/ SameCache \/ StoreToken \/ ClearToken \/ Count \/ StartProducts \/ StopProducts
  \/ FaultKill \/ ObserveFault \/ BaselineCreate \/ BaselineRevoke \/ BaselineList \/ BaselineCount
  \/ KeyCreate \/ Complete \/ KeyRevoke \/ GetPolicy \/ Share \/ Unshare \/ AwaitWorker \/ AwaitPause
  \/ RemoveInstall \/ RemoveData \/ StopUnits \/ RemoveWork \/ Validate
  \/ FinallyUnits \/ FinallyToken \/ FinallyTrees

PkNext == PkRun \/ WorkerFollows \/ ProductDies \/ WindowActs

\* The run is one thread; the worker follows the switch (worker_supervisor.py's monitor).
PkFairness == WF_pkVars(PkRun) /\ WF_pkVars(WorkerFollows)
PkSpec == PkInit /\ [][PkNext]_pkVars /\ PkFairness

--------------------------------------------------------------------------------
PkTypeOK ==
  /\ pkStep \in 1..PkEnd
  /\ pkAlive \subseteq {"command", "product"} /\ pkOwned \subseteq {"command", "product"}
  /\ pkTree.installed \in {"absent", "present"} /\ pkTree.data \subseteq {"config", "cache"}
  /\ pkSecrets.active \subseteq {"bootstrap", "baseline", "qualification", "window"}
  /\ pkNode.worker \in {"paused", "running"}
  /\ pkResult \in {"running", "failed", "passed", "unproved"}

\* A document is only printed from a clean host: no unit of the run has a process,
\* owned or not, nothing is installed or kept, and no credential of the product
\* remains. A failed run that does not say its cleanup was unproved has stopped all
\* it owned, removed its trees and cleared the token it had stored and verified
\* (run_from_config, gate13_linux_packaged_lifecycle.py:2661-2712).
EndedClean ==
  pkStep = PkEnd =>
    /\ pkResult = "passed" => pkAlive = {} /\ ~pkSecrets.credential
    /\ pkResult \in {"passed", "failed"} =>
         /\ pkOwned = {} /\ pkTree = [installed |-> "absent", data |-> {}, work |-> FALSE]
         /\ pkSecrets.active = {} /\ ~pkSecrets.file
         /\ pkStored => ~pkSecrets.credential

\* Nothing of the product is alive while it is being replaced or removed, and what
\* runs is in the owner's list unless the run has failed: no phase of an undisturbed
\* run can meet a process of an earlier one (start, run_capture, stop and fault_kill,
\* gate13_linux_packaged_lifecycle.py:884-1007).
NothingUnowned ==
  /\ pkResult \in {"running", "passed"} => pkAlive \subseteq pkOwned
  /\ PkAt("remove_install") \/ PkAt("remove_data") \/ PkAt("remove_work") => pkAlive = {}

\* The run always ends with an answer (the timeouts of every wait).
LifecycleEnds == <>(pkStep = PkEnd)

\* What the runbook and the accepted example say of a clean host: the sixteen phases
\* of a fitting replacement pass when nothing fails and nobody touches the window
\* (docs/PACKAGED_ALPHA_OPERATIONS.md:257-275).
CleanHostPasses ==
  pkStep = PkEnd /\ pkBudget = [faults |-> 0, gui |-> 0] /\ ReplacementFits => pkResult = "passed"

-----------------------------------------------------------------------------
(***************************************************************************)
(* The evidence of a packaged lifecycle (gate13_packaged_lifecycle.py): an *)
(* adapter runs sixteen phases on a host and records what it saw before    *)
(* and after each; the controller accepts the records in order, binds each *)
(* to the header and to the earlier ones, and makes the final document.    *)
(* The host is what the records count: product, selected artifacts in the  *)
(* cache, secrets, processes, workers.  Flags that only say "this check    *)
(* was made" are one field of the record.  Bounds: MaxDisturbances things  *)
(* that go wrong on the host or in the adapter, for good.                  *)
(***************************************************************************)
CONSTANT MaxDisturbances
ASSUME DocumentAssumption == MaxDisturbances \in Nat

VARIABLES
  ldHost,      \* what is on the host
  ldRecords,   \* the phases the controller has accepted
  ldResult,    \* "running", "passed" or "failed"
  ldStrikes,   \* disturbances so far
  ldStruck     \* history: retained data was disturbed while it had to be kept

ldVars == <<ldHost, ldRecords, ldResult, ldStrikes, ldStruck>>

Phases ==
  <<"package_verification", "clean_install", "packaged_self_tests", "signed_bootstrap", "selected_bytes",
    "verified_acquisition", "localhost_inference", "bounded_contribution", "contribution_pause",
    "restart_cache_reuse", "manual_replacement", "recovery", "uninstall_retain",
    "retained_data_reinstall", "uninstall_delete", "process_cleanup">>
Nothing == [product |-> FALSE, cached |-> FALSE, secrets |-> 0, processes |-> 0, workers |-> 0]

\* What a phase is there to do.
Does(phase, host) ==
  CASE phase = "clean_install"           -> [host EXCEPT !.product = TRUE]
    [] phase = "verified_acquisition"    -> [host EXCEPT !.cached = TRUE]
    [] phase = "localhost_inference"     -> [host EXCEPT !.secrets = 2, !.processes = 1]
    [] phase = "bounded_contribution"    -> [host EXCEPT !.workers = 1]
    [] phase = "contribution_pause"      -> [host EXCEPT !.workers = 0]
    [] phase = "uninstall_retain"        -> [host EXCEPT !.product = FALSE, !.processes = 0]
    [] phase = "retained_data_reinstall" -> [host EXCEPT !.product = TRUE, !.processes = 1]
    [] phase = "uninstall_delete"        -> Nothing
    [] OTHER                             -> host

\* What can go wrong with the host: the cache is lost, a secret is lost or one is added.
Disturbed(host) ==
  {[host EXCEPT !.cached = FALSE], [host EXCEPT !.secrets = @ + 1]}
    \cup (IF host.secrets > 0 THEN {[host EXCEPT !.secrets = @ - 1]} ELSE {})
    \* or a deletion that does not delete
    \cup (IF host = Nothing THEN {[host EXCEPT !.processes = 1], [host EXCEPT !.product = TRUE]} ELSE {})

-----------------------------------------------------------------------------
(* The validators: each record against the header and the earlier records. *)

\* Exact fields, passed, and every flag as it must be; about this package and model.
WellFormed(r) == r.flags /\ r.about = "this"
BytesOfSelection(p) == p[5].after
KeepsCache(p, r) == r.before.cached /\ r.after.cached

ValidPackageVerification(p, r) == WellFormed(r)
ValidCleanInstall(p, r) == WellFormed(r) /\ r.before = Nothing /\ r.after.product
ValidPackagedSelfTests(p, r) == WellFormed(r)
ValidSignedBootstrap(p, r) == WellFormed(r)
ValidSelectedBytes(p, r) == WellFormed(r) /\ ~r.before.cached
ValidVerifiedAcquisition(p, r) == WellFormed(r) /\ ~BytesOfSelection(p).cached /\ r.after.cached
ValidLocalhostInference(p, r) == WellFormed(r)
ValidBoundedContribution(p, r) == WellFormed(r) /\ r.after.workers = 1
ValidContributionPause(p, r) == WellFormed(r) /\ r.after.workers = 0
ValidRestartCacheReuse(p, r) == WellFormed(r) /\ KeepsCache(p, r)
ValidManualReplacement(p, r) ==
  /\ WellFormed(r) /\ KeepsCache(p, r) /\ r.before.secrets >= 1 /\ r.after.secrets = r.before.secrets
  /\ (r.kind = "reinstall") = (r.replacement = "same")
ValidRecovery(p, r) == WellFormed(r) /\ r.after.cached
KeepsSecrets(since, r) == r.before.secrets = since.after.secrets /\ r.after.secrets = since.after.secrets

\* Mutant: the counts are compared with each other and not with the replacement's.
UninstallRetainAlone(p, r) ==
  /\ WellFormed(r) /\ ~r.after.product /\ r.after.processes = 0
  /\ r.after.cached /\ r.before.secrets = r.after.secrets

ValidUninstallRetain(p, r) ==
  /\ WellFormed(r) /\ ~r.after.product /\ r.after.processes = 0
  /\ r.after.cached /\ KeepsSecrets(p[11], r)
ValidRetainedDataReinstall(p, r) == WellFormed(r) /\ KeepsCache(p, r) /\ KeepsSecrets(p[13], r)
ValidUninstallDelete(p, r) == WellFormed(r) /\ r.after = Nothing
ValidProcessCleanup(p, r) == WellFormed(r) /\ r.after = Nothing

Valid(p, r) ==
  CASE r.phase = Phases[1]  -> ValidPackageVerification(p, r)
    [] r.phase = Phases[2]  -> ValidCleanInstall(p, r)
    [] r.phase = Phases[3]  -> ValidPackagedSelfTests(p, r)
    [] r.phase = Phases[4]  -> ValidSignedBootstrap(p, r)
    [] r.phase = Phases[5]  -> ValidSelectedBytes(p, r)
    [] r.phase = Phases[6]  -> ValidVerifiedAcquisition(p, r)
    [] r.phase = Phases[7]  -> ValidLocalhostInference(p, r)
    [] r.phase = Phases[8]  -> ValidBoundedContribution(p, r)
    [] r.phase = Phases[9]  -> ValidContributionPause(p, r)
    [] r.phase = Phases[10] -> ValidRestartCacheReuse(p, r)
    [] r.phase = Phases[11] -> ValidManualReplacement(p, r)
    [] r.phase = Phases[12] -> ValidRecovery(p, r)
    [] r.phase = Phases[13] -> ValidUninstallRetain(p, r)
    [] r.phase = Phases[14] -> ValidRetainedDataReinstall(p, r)
    [] r.phase = Phases[15] -> ValidUninstallDelete(p, r)
    [] r.phase = Phases[16] -> ValidProcessCleanup(p, r)

-----------------------------------------------------------------------------
DocumentInit ==
  /\ ldHost = Nothing /\ ldRecords = <<>> /\ ldResult = "running" /\ ldStrikes = 0 /\ ldStruck = FALSE

Strike == ldStrikes < MaxDisturbances /\ ldStrikes' = ldStrikes + 1

\* The cache must last from the acquisition, the secrets from the replacement, to the
\* reinstallation on the retained data.
MustKeep(position) == [cached |-> position \in 6..13, secrets |-> position \in 11..13]
Loses(position, from, to) ==
  \/ MustKeep(position).cached /\ from.cached /\ ~to.cached
  \/ MustKeep(position).secrets /\ from.secrets # to.secrets

Accept(r) ==
  IF Len(ldRecords) < 16 /\ r.phase = Phases[Len(ldRecords) + 1] /\ Valid(ldRecords, r)
    THEN ldRecords' = Append(ldRecords, r) /\ UNCHANGED ldResult
    ELSE ldResult' = "failed" /\ UNCHANGED ldRecords

\* The adapter runs the next phase, or loses its place, and submits what it saw.
Submit ==
  /\ ldResult = "running" /\ Len(ldRecords) < 16
  /\ LET position == Len(ldRecords) + 1
         right == [phase |-> Phases[position], before |-> ldHost, after |-> Does(Phases[position], ldHost),
                   about |-> "this", flags |-> TRUE, kind |-> "reinstall", replacement |-> "same"]
     IN \/ /\ Accept(right) /\ ldHost' = right.after /\ UNCHANGED <<ldStrikes, ldStruck>>
        \/ /\ Strike
           /\ \E after \in Disturbed(right.after) :
                /\ Accept([right EXCEPT !.after = after]) /\ ldHost' = after
                /\ ldStruck' = (ldStruck \/ (position # 15 /\ Loses(position, right.after, after)))
        \/ /\ Strike /\ ldHost' = right.after /\ UNCHANGED ldStruck
           /\ \E r \in {[right EXCEPT !.phase = Phases[IF position = 16 THEN 1 ELSE position + 1]],
                        [right EXCEPT !.about = "other"], [right EXCEPT !.flags = FALSE],
                        [right EXCEPT !.kind = "upgrade"]} : Accept(r)

\* Between two phases.
Disturb ==
  /\ ldResult = "running" /\ Len(ldRecords) \in 1..13 /\ Strike
  /\ \E host \in Disturbed(ldHost) :
       ldHost' = host /\ ldStruck' = (ldStruck \/ Loses(Len(ldRecords), ldHost, host))
  /\ UNCHANGED <<ldRecords, ldResult>>

Finalize ==
  /\ ldResult = "running" /\ Len(ldRecords) = 16 /\ ldResult' = "passed"
  /\ UNCHANGED <<ldHost, ldRecords, ldStrikes, ldStruck>>

\* A document on paper is read once, within its size, with no repeated or unknown field,
\* and every phase of it is accepted again.
Revalidated == Len(ldRecords) = 16 /\ \A n \in 1..16 : Valid(SubSeq(ldRecords, 1, n - 1), ldRecords[n])

DocumentNext == Submit \/ Disturb \/ Finalize
DocumentSpec == DocumentInit /\ [][DocumentNext]_ldVars

-----------------------------------------------------------------------------
\* A document says more than its phases: it passed only if the selected artifacts stayed
\* from the acquisition, and the secrets from the replacement, to the reinstallation on
\* retained data, and nothing is left; reading it back accepts it
\* (LifecycleController.accept and finalize, validate_lifecycle_document).  A second
\* disturbance that undoes the first leaves no trace in the records.
DocumentProves == ldResult = "passed" => ~ldStruck /\ ldHost = Nothing /\ Revalidated

-----------------------------------------------------------------------------
(***************************************************************************)
(* The download of one exact package (gate13_download_artifact.py): the    *)
(* signed URL gives a wrapper, the wrapper holds the archive, the archive  *)
(* is hashed and committed under its name without replacing anything.      *)
(* Files are names for inodes, so that an invocation may remove or link a  *)
(* file that another one has made.  Bounds: each of Invocations runs once, *)
(* MaxTransfers answers are bad and MaxTransfers invocations are killed.   *)
(***************************************************************************)
CONSTANTS Invocations, MaxTransfers
ASSUME DownloadAssumption == MaxTransfers \in Nat

VARIABLES
  pdAt,      \* where each invocation is
  pdFile,    \* the inode behind each name
  pdBytes,   \* what each inode holds
  pdZip,     \* the wrapper an invocation has open
  pdFailed,  \* the invocations that have raised
  pdBad, pdKilled

pdVars == <<pdAt, pdFile, pdBytes, pdZip, pdFailed, pdBad, pdKilled>>
Absent == <<"none", "none">>
Inodes == Invocations \X {"wrapper", "partial"}
At(i, here, there) == pdAt[i] = here /\ pdAt' = [pdAt EXCEPT ![i] = there]
BadAnswer == pdBad < MaxTransfers /\ pdBad' = pdBad + 1
Raises(i) == pdAt' = [pdAt EXCEPT ![i] = "clean"] /\ pdFailed' = pdFailed \cup {i}

DownloadInit ==
  /\ pdAt = [i \in Invocations |-> "begin"] /\ pdZip = [i \in Invocations |-> Absent]
  /\ pdFile = [name \in {"wrapper", "partial", "target"} |-> Absent]
  /\ pdBytes = [inode \in Inodes |-> "none"] /\ pdFailed = {} /\ pdBad = 0 /\ pdKilled = {}

\* The configuration, the three names that must be absent, and the signed URL: an
\* invocation that is refused here has nothing to clean.
BeginDownload(i) ==
  /\ pdAt[i] = "begin"
  /\ IF \A name \in DOMAIN pdFile : pdFile[name] = Absent
       THEN \/ At(i, "begin", "request") /\ UNCHANGED <<pdFailed, pdBad>>
            \/ At(i, "begin", "over") /\ pdFailed' = pdFailed \cup {i} /\ BadAnswer
       ELSE At(i, "begin", "over") /\ pdFailed' = pdFailed \cup {i} /\ UNCHANGED pdBad
  /\ UNCHANGED <<pdFile, pdBytes, pdZip, pdKilled>>

\* O_EXCL: a file made under a name that is free, or the invocation raises.
OpenExclusive(i, name, there) ==
  IF pdFile[name] = Absent
    THEN /\ pdFile' = [pdFile EXCEPT ![name] = <<i, name>>]
         /\ pdBytes' = [pdBytes EXCEPT ![<<i, name>>] = "part"]
         /\ pdAt' = [pdAt EXCEPT ![i] = there] /\ UNCHANGED pdFailed
    ELSE Raises(i) /\ UNCHANGED <<pdFile, pdBytes>>

OpenWrapper(i) ==
  /\ pdAt[i] = "request"
  /\ \/ OpenExclusive(i, "wrapper", "transfer") /\ UNCHANGED pdBad
     \/ Raises(i) /\ BadAnswer /\ UNCHANGED <<pdFile, pdBytes>>
  /\ UNCHANGED <<pdZip, pdKilled>>

\* The answer has the announced length, or raises; its bytes are not hashed yet.
CopyWrapper(i) ==
  /\ pdAt[i] = "transfer"
  /\ \/ At(i, "transfer", "unwrap") /\ pdBytes' = [pdBytes EXCEPT ![<<i, "wrapper">>] = "exact"]
        /\ UNCHANGED <<pdFailed, pdBad>>
     \/ At(i, "transfer", "unwrap") /\ pdBytes' = [pdBytes EXCEPT ![<<i, "wrapper">>] = "wrong"]
        /\ BadAnswer /\ UNCHANGED pdFailed
     \/ Raises(i) /\ BadAnswer /\ UNCHANGED pdBytes
  /\ UNCHANGED <<pdFile, pdZip, pdKilled>>

\* Whatever file has the wrapper's name by now; one that is not a whole zip raises.
OpenArchive(i) ==
  /\ pdAt[i] = "unwrap"
  /\ LET wrapper == pdFile["wrapper"]
     IN IF wrapper # Absent /\ pdBytes[wrapper] \in {"exact", "wrong"}
          THEN OpenExclusive(i, "partial", "extract") /\ pdZip' = [pdZip EXCEPT ![i] = wrapper]
          ELSE Raises(i) /\ UNCHANGED <<pdFile, pdBytes, pdZip>>
  /\ UNCHANGED <<pdBad, pdKilled>>

ExtractArchive(i) ==
  /\ pdAt[i] = "extract"
  /\ pdBytes' = [pdBytes EXCEPT ![<<i, "partial">>] = pdBytes[pdZip[i]]]
  /\ IF pdBytes[pdZip[i]] = "exact" THEN At(i, "extract", "unwrapped") /\ UNCHANGED pdFailed ELSE Raises(i)
  /\ UNCHANGED <<pdFile, pdZip, pdBad, pdKilled>>

RemoveWrapper(i) ==
  /\ At(i, "unwrapped", "link") /\ pdFile' = [pdFile EXCEPT !["wrapper"] = Absent]
  /\ UNCHANGED <<pdBytes, pdZip, pdFailed, pdBad, pdKilled>>

\* link() never replaces; the name of the partial is then unlinked, and if that fails
\* the new name is taken back when it still is the same file.
LinkTarget(i) ==
  /\ pdAt[i] = "link"
  /\ IF pdFile["partial"] # Absent /\ pdFile["target"] = Absent
       THEN /\ At(i, "link", "unlink") /\ UNCHANGED pdFailed
            /\ pdFile' = [pdFile EXCEPT !["target"] = pdFile["partial"]]
       ELSE Raises(i) /\ UNCHANGED pdFile
  /\ UNCHANGED <<pdBytes, pdZip, pdBad, pdKilled>>

UnlinkPartial(i) ==
  /\ pdAt[i] = "unlink"
  /\ IF pdFile["partial"] # Absent
       THEN pdFile' = [pdFile EXCEPT !["partial"] = Absent] /\ At(i, "unlink", "clean") /\ UNCHANGED pdFailed
       ELSE pdFile' = [pdFile EXCEPT !["target"] = Absent] /\ Raises(i)
  /\ UNCHANGED <<pdBytes, pdZip, pdBad, pdKilled>>

\* finally: both temporary names are removed, whoever made them.  An unlink that fails
\* with an I/O error is left out: _remove would raise, and the partial would be skipped.
CleanWrapper(i) ==
  /\ At(i, "clean", "cleaned") /\ pdFile' = [pdFile EXCEPT !["wrapper"] = Absent]
  /\ UNCHANGED <<pdBytes, pdZip, pdFailed, pdBad, pdKilled>>
CleanPartial(i) ==
  /\ At(i, "cleaned", "over") /\ pdFile' = [pdFile EXCEPT !["partial"] = Absent]
  /\ UNCHANGED <<pdBytes, pdZip, pdFailed, pdBad, pdKilled>>

KillDownload(i) ==
  /\ pdAt[i] \notin {"begin", "over"} /\ Cardinality(pdKilled) < MaxTransfers
  /\ pdAt' = [pdAt EXCEPT ![i] = "over"] /\ pdKilled' = pdKilled \cup {i}
  /\ UNCHANGED <<pdFile, pdBytes, pdZip, pdFailed, pdBad>>

DownloadStep(i) ==
  \/ BeginDownload(i) \/ OpenWrapper(i) \/ CopyWrapper(i) \/ OpenArchive(i) \/ ExtractArchive(i)
  \/ RemoveWrapper(i) \/ LinkTarget(i) \/ UnlinkPartial(i) \/ CleanWrapper(i) \/ CleanPartial(i)
DownloadNext == \E i \in Invocations : DownloadStep(i) \/ KillDownload(i)
DownloadSpec == DownloadInit /\ [][DownloadNext]_pdVars

-----------------------------------------------------------------------------
\* Under the package's name there is nothing or the exact archive, and an invocation
\* that says it passed has left it there; once all have ended and none was killed, no
\* temporary file remains, if unlink works (download, _commit_no_replace).  Three
\* invocations at once break it: the finally block of one removes the partial of another
\* by its name, the third makes its own under that name, and the second links it before
\* it has been hashed.
PackageExact ==
  /\ pdFile["target"] # Absent => pdBytes[pdFile["target"]] = "exact"
  /\ (\E i \in Invocations \ (pdFailed \cup pdKilled) : pdAt[i] = "over") => pdFile["target"] # Absent
  /\ (pdKilled = {} /\ \A i \in Invocations : pdAt[i] = "over")
       => pdFile["wrapper"] = Absent /\ pdFile["partial"] = Absent
=============================================================================
