---------------------------- MODULE CloudLifecycle ----------------------------
(***************************************************************************)
(* The paid cloud runs: scripts/gcp_public_route_lifecycle.py ("route"),   *)
(* scripts/gcp_public_route_cache_lifecycle.py ("cache") and the           *)
(* qualification fleet of the cost guard's plan ("fleet"), which an        *)
(* operator executes phase by phase.  Each of them creates the resources   *)
(* of its plan, works, and has to leave nothing behind whatever fails: a   *)
(* provider command, the connection to the host, the tool itself.          *)
(*                                                                         *)
(* A command that fails may have taken effect, or may still take effect    *)
(* later: the client gives up after a time limit, the provider does not.   *)
(***************************************************************************)
EXTENDS CloudPlan, Integers, FiniteSets

CONSTANTS
  Workloads,     \* the workloads a behaviour may be about
  FleetRegions,  \* the regions of the fleet, in the order of the plan
  MaxFaults      \* bound on failures, retries, crashes and lost answers

ASSUME WorkloadsAssumption == Workloads \subseteq {"route", "cache", "fleet"}
ASSUME RegionsAssumption ==
  Len(FleetRegions) \in 1..2 /\ (HasFallback(FleetRegions) => Primary(FleetRegions) # Fallback(FleetRegions))
ASSUME FaultsAssumption == MaxFaults \in Nat

VARIABLES
  work,       \* the workload of this run
  pc, k,      \* control: the stage, and the position in its list of commands
  phase,      \* fleet: the profile in turn
  cloud,      \* the resources of the run that exist at the provider
  inflight,   \* creates that were given up and may still take effect
  late,       \* resources that appeared after their absence was verified
  host,       \* what is on the virtual machine
  secret,     \* the local credential file: "absent", "sentinel" or "token"
  fl,         \* the locals of the lifecycle function
  absent,     \* the positions of the absence checks that came back empty
  faults,     \* how many faults have happened
  calm,       \* nothing has gone wrong during the cleanup
  report      \* the evidence, once written

cloudVars == <<work, pc, k, phase, cloud, inflight, late, host, secret, fl, absent,
          faults, calm, report>>

provider == <<cloud, inflight, late>>
evidence == <<absent, report>>

NoReport == [result |-> "none"]

CreateList == CASE work = "route" -> RouteCreate
                [] work = "cache" -> CacheCreate
                [] work = "fleet" -> FleetCreate(FleetRegions)

CleanupList == CASE work = "route" -> RouteCleanup
                 [] work = "cache" -> CacheCleanup
                 [] work = "fleet" -> FleetCleanup(FleetRegions)

VerifyList == CASE work = "route" -> RouteVerify
                [] work = "cache" -> CacheVerify
                [] work = "fleet" -> FleetVerify(FleetRegions)

AllAbsent == absent = 1..Len(VerifyList)
Instances == {r \in cloud : Kind(r) = "instance"}
Reachable == {Res("instance"), Res("iap")} \subseteq cloud

Drill == <<"install", "boot", "start_primary", "start_standby", "health_start",
           "probe_primary", "probe_standby", "probe_auto", "stop_primary", "health_fallback",
           "probe_fallback", "restore", "health_restored", "probe_restored", "monitor">>

Stages == {"load", "preflight", "create", "await", "sec_prepare", "sec_upload", "sec_consume",
           "sec_clean", "warm", "policy", "phase_create", "phase_work", "phase_delete",
           "phase_verify", "fin_registry", "fin_stop", "fin_cleanup", "delete", "verify",
           "repo_delete", "repo_check", "protected", "report", "cut", "done"}
          \cup {Drill[i] : i \in 1..Len(Drill)}

CloudInit ==
  /\ work \in Workloads
  /\ pc = "load" /\ k = 1 /\ phase = 1
  /\ cloud = {} /\ inflight = {} /\ late = {}
  /\ host = FreshHost /\ secret = "absent"
  /\ fl = [created |-> FALSE, preflight |-> FALSE, pass |-> FALSE, failed |-> FALSE,
           local |-> TRUE, remote |-> TRUE, kind |-> "sentinel", err |-> "none",
           protected |-> FALSE, repoGone |-> FALSE, warmed |-> FALSE]
  /\ absent = {} /\ faults = 0 /\ calm = TRUE
  /\ report = NoReport

(***************************************************************************)
(* Control.                                                                *)
(***************************************************************************)
Goto(stage) == pc' = stage /\ k' = 1

Finally == {"phase_delete", "phase_verify", "fin_registry", "fin_stop", "fin_cleanup", "delete", "verify",
            "repo_delete", "repo_check"}

\* A step that goes wrong, and is counted.
Fault == /\ faults < MaxFaults
         /\ faults' = faults + 1
         /\ calm' = (calm /\ pc \notin Finally)

NoFault == UNCHANGED <<faults, calm>>

\* Where an exception of the try block goes: the finally clause, which cleans
\* up only what the run began to create.
FinallyStage ==
  IF ~fl.created THEN "protected"
  ELSE CASE work = "route" -> "fin_registry"
         [] work = "cache" /\ AllAbsent -> "repo_delete"
         [] OTHER -> "delete"

Raise == /\ Goto(FinallyStage)
         /\ absent' = IF FinallyStage = "delete" THEN {} ELSE absent

(***************************************************************************)
(* Before the first paid command.                                          *)
(***************************************************************************)
\* A file a plan names is the one on disk, byte for byte, and committed.
SourceBinding(f) == f.digest /\ f.size /\ f.committed

\* The publication evidence has the planned digest, names this role's model and
\* span, passed every verification, and its references are the planned ones.
Publication(p) == p.digest /\ p.role /\ p.verified /\ p.references

\* The authorization file is the one the cost guard would issue for this run
\* now, its ledger row allows the maximum, and everything it names is bound.
Files == [digest : BOOLEAN, size : BOOLEAN, committed : BOOLEAN]
Publications == [digest : BOOLEAN, role : BOOLEAN, verified : BOOLEAN, references : BOOLEAN]

RoutePlanBound(exact, ledger, f, p) ==
  work = "route" /\ exact /\ ledger /\ SourceBinding(f) /\ Publication(p)

CachePlanBound(exact, ledger, f, p) ==
  work = "cache" /\ exact /\ ledger /\ SourceBinding(f) /\ Publication(p)

LoadPlan ==
  /\ pc = "load"
  /\ \E exact, ledger \in BOOLEAN, f \in Files, p \in Publications :
       Goto(IF \/ RoutePlanBound(exact, ledger, f, p)
               \/ CachePlanBound(exact, ledger, f, p)
               \/ work = "fleet" /\ exact /\ ledger
            THEN "preflight" ELSE "done")
  /\ NoFault
  /\ UNCHANGED <<work, phase, provider, host, secret, fl, evidence>>

(***************************************************************************)
(* The preflights read the provider and change nothing.                    *)
(***************************************************************************)
\* The private image cache: the exact remote repository, nobody bound to it,
\* and each of the four image digests present.
RepositoryExact(e) == e.repository = "exact"
PolicyEmpty(e) == e.members = 0
CachedDigests(e) == e.digests = 4
PrivateArtifactCache(e) == RepositoryExact(e) /\ PolicyEmpty(e) /\ CachedDigests(e)

\* limit - usage of the single entry for a metric.
QuotaHeadroom(q) == q.limit - q.usage

BootstrapRunning(e) == e.bootstrap = "RUNNING"
PublicUpstreams(e) == e.upstreams = "public"
RepositoryList(e) == e.repository # "none"

NoneOf(list) == \A j \in 1..Len(list) : list[j] \notin cloud

RoutePreflight(e) ==
  /\ work = "route" /\ e.auth
  /\ PrivateArtifactCache(e) /\ e.machine
  /\ QuotaHeadroom(e.regional) >= 1 /\ QuotaHeadroom(e.global) >= 1
  /\ BootstrapRunning(e) /\ NoneOf(RouteVerify)

\* The cache must not exist yet: this run creates it.
CachePreflight(e) ==
  /\ work = "cache" /\ e.auth /\ PublicUpstreams(e) /\ BootstrapRunning(e)
  /\ NoneOf(CacheVerify) /\ e.apis /\ ~RepositoryList(e)

FleetPreflight(e) == work = "fleet" /\ e.auth

Environments ==
  LET quotas == {[limit |-> 0, usage |-> 0], [limit |-> 1, usage |-> 0], [limit |-> 1, usage |-> 1]}
  IN  [auth : BOOLEAN, repository : {"none", "exact", "other"}, members : 0..1, digests : {3, 4},
       machine : BOOLEAN, regional : quotas, global : quotas, bootstrap : {"RUNNING", "STOPPED"},
       upstreams : {"public", "private"}, apis : BOOLEAN]

Preflight ==
  /\ pc = "preflight"
  /\ \E e \in Environments :
       LET ok == RoutePreflight(e) \/ CachePreflight(e) \/ FleetPreflight(e)
       IN  /\ fl' = [fl EXCEPT !.created = ok, !.preflight = ok, !.failed = ~ok]
           /\ Goto(IF ok THEN "create" ELSE IF work = "fleet" THEN "done" ELSE "protected")
  /\ NoFault
  /\ UNCHANGED <<work, phase, provider, host, secret, evidence>>

(***************************************************************************)
(* Provider commands.                                                      *)
(***************************************************************************)
\* One create command: r exists if it succeeds; if it fails it may exist, or
\* may come to exist later.
CreateOk(r) ==
  /\ Needs(r, FleetRegions) \subseteq cloud
  /\ cloud' = cloud \cup With(r)
  /\ UNCHANGED <<inflight, late>> /\ NoFault

CreateFails(r) ==
  /\ Fault
  /\ \/ UNCHANGED <<cloud, inflight>>
     \/ /\ Needs(r, FleetRegions) \subseteq cloud
        /\ \/ cloud' = cloud \cup With(r) /\ UNCHANGED inflight
           \/ inflight' = inflight \cup {r} /\ UNCHANGED cloud
  /\ UNCHANGED late

\* One delete command: refused while another resource refers to it, an error if
\* there is no such resource, and like any command it may fail by itself.
DeleteOne(r) ==
  /\ \/ /\ r \in cloud /\ \A d \in cloud \ Gone(r) : ~Blocks(d, r, FleetRegions)
        /\ cloud' = cloud \ Gone(r)
        /\ host' = IF r = Res("instance") THEN FreshHost ELSE host
        /\ NoFault
     \/ /\ r \notin cloud \/ \E d \in cloud \ Gone(r) : Blocks(d, r, FleetRegions)
        /\ UNCHANGED <<cloud, host>> /\ NoFault
     \/ /\ r \in cloud /\ Fault /\ UNCHANGED <<cloud, host>>
  /\ UNCHANGED <<inflight, late>>

\* Every create command in turn; the first failure ends the run's own work.
Create ==
  /\ pc = "create"
  /\ \/ /\ CreateOk(CreateList[k])
        /\ IF k < Len(CreateList) THEN k' = k + 1 /\ UNCHANGED pc
           ELSE Goto(IF work = "fleet" THEN "phase_create" ELSE "await")
        /\ UNCHANGED <<fl, absent>>
     \/ CreateFails(CreateList[k]) /\ Raise /\ fl' = [fl EXCEPT !.failed = TRUE]
  /\ UNCHANGED <<work, phase, host, secret, report>>

\* The instance is described until it runs with the planned shape.
Await ==
  /\ pc = "await"
  /\ \/ Res("instance") \in cloud /\ NoFault
        /\ Goto(IF work = "route" THEN "install" ELSE "warm") /\ UNCHANGED absent
     \/ Fault /\ Raise
     \/ Res("instance") \notin cloud /\ NoFault /\ Raise
  /\ UNCHANGED <<work, phase, provider, host, secret, fl, report>>

(***************************************************************************)
(* The work of the route, on the host over an IAP tunnel.                  *)
(***************************************************************************)
\* One fixed action: its acknowledgement arrives, or something on the way
\* fails, before or after the action took effect.
HostStep(outcomes, onAck, onError) ==
  \/ /\ Reachable /\ NoFault
     /\ \E o \in outcomes : o.ok /\ host' = o.host
     /\ onAck
  \/ /\ IF Reachable THEN Fault ELSE NoFault
     /\ \/ UNCHANGED host
        \/ Reachable /\ \E o \in outcomes : host' = o.host
     /\ onError

NextInDrill(stage) == Drill[1 + CHOOSE i \in 1..Len(Drill) : Drill[i] = stage]

\* A sample is valid if it is fresh, names the exact manifest and block span,
\* reports every component healthy, and is later than the one before with no
\* counter moving backwards.
HealthFreshness == 2   \* the age limit, in ticks
HealthValid(s) == s.age \in 0..HealthFreshness /\ s.exact /\ s.healthy /\ s.advanced

\* Device, host memory, storage and log ceilings hold, no device memory belongs
\* to anybody else, and nothing restarted.
ResourcesValid(s) == s.within /\ s.unattributed = 0 /\ s.restarts = 0

Samples == [age : -1..3, exact : BOOLEAN, healthy : BOOLEAN, advanced : BOOLEAN,
            within : BOOLEAN, unattributed : 0..1, restarts : 0..1]

ValidSamples == {s \in Samples : HealthValid(s) /\ ResourcesValid(s)}

\* The host's health action, then every check of the sample.  A sample that is
\* refused has already been recorded on the host; where the caller retries, the
\* next one is compared with the record the refused one left.
SampleAccepted(requirePrimary) ==
  /\ requirePrimary => host.known["primary"] = "running"
  /\ ValidSamples # {} /\ Continuity(host)

Sample(stage, retries) ==
  /\ pc = stage
  /\ \/ /\ Reachable /\ NoFault
        /\ SampleAccepted(stage # "health_fallback")
        /\ \E o \in Health(host) : o.ok /\ host' = o.host
        /\ IF stage = "monitor"
             THEN /\ fl' = [fl EXCEPT !.pass = TRUE]
                  /\ Goto("fin_registry")
             ELSE Goto(NextInDrill(stage)) /\ UNCHANGED fl
        /\ UNCHANGED absent
     \/ /\ IF Reachable THEN Fault ELSE NoFault
        /\ \/ UNCHANGED host
           \/ Reachable /\ \E o \in Health(host) : host' = o.host
        /\ UNCHANGED fl
        /\ \/ Raise
           \/ retries /\ Reachable /\ UNCHANGED <<pc, k, absent>>
  /\ UNCHANGED <<work, phase, provider, secret, report>>

\* The other actions of the drill, in order: install the helpers and wait for
\* the boot script, start both routes, probe each and the automatic choice,
\* disable the primary, expect the standby, restore it, expect it again.
ProbeOf(stage) ==
  CASE stage = "probe_primary" -> "primary"
    [] stage = "probe_standby" -> "standby"
    [] OTHER -> "auto"

ExpectedOf(stage) ==
  IF stage \in {"probe_standby", "probe_fallback"} THEN "standby" ELSE "primary"

DrillOutcomes(stage) ==
  CASE stage = "install" -> {Ack(host)}
    [] stage = "boot" -> BootstrapPreflight(host)
    [] stage = "start_primary" -> Start(host, "primary")
    [] stage = "start_standby" -> Start(host, "standby")
    [] stage = "stop_primary" -> SetPrimary(host, FALSE, host.ident["primary"])
    [] stage = "restore" -> UNION {SetPrimary(host, TRUE, id) : id \in 0..1}
    [] OTHER -> {o \in Probe(host, ProbeOf(stage)) :
                   o.ok => Selected(host, ProbeOf(stage)) = ExpectedOf(stage)}

DrillStep(stage) ==
  /\ pc = stage
  /\ HostStep(DrillOutcomes(stage),
              /\ Goto(IF stage = "boot" THEN "sec_prepare" ELSE NextInDrill(stage))
              /\ UNCHANGED absent,
              Raise)
  /\ UNCHANGED <<work, phase, provider, secret, fl, report>>

\* Waiting for the boot script and for a helper upload is repeated until a
\* deadline; only a failure of the action itself is tried again.
AwaitBoot ==
  /\ pc \in {"install", "boot"} /\ Fault
  /\ UNCHANGED <<work, pc, k, phase, provider, host, secret, fl, evidence>>

(***************************************************************************)
(* The secret file: prepared on the host, written locally, copied, the     *)
(* local file removed, consumed by the host action, and the staging        *)
(* directory removed whatever happened.  First a sentinel, then the token. *)
(***************************************************************************)
SecretPrepare ==
  /\ pc = "sec_prepare"
  /\ HostStep(PrepareUpload(host), Goto("sec_upload") /\ fl' = [fl EXCEPT !.remote = FALSE],
              Goto("sec_clean") /\ fl' = [fl EXCEPT !.remote = FALSE, !.err = "other"])
  /\ UNCHANGED <<work, phase, provider, secret, evidence>>

\* scp of the private local file; the file is overwritten and removed in the
\* finally clause, and a removal that fails is an error of its own.
SecretUpload ==
  /\ pc = "sec_upload"
  /\ \/ /\ Reachable /\ NoFault /\ host' = [host EXCEPT !.upload = fl.kind]
        /\ Goto("sec_consume") /\ UNCHANGED <<fl, secret>>
     \/ /\ IF Reachable THEN Fault ELSE NoFault
        /\ host' \in {host} \cup IF Reachable THEN {[host EXCEPT !.upload = fl.kind]} ELSE {}
        /\ \/ fl' = [fl EXCEPT !.err = "other"] /\ UNCHANGED secret
           \/ fl' = [fl EXCEPT !.err = "local"] /\ secret' = fl.kind
        /\ Goto("sec_clean")
  /\ UNCHANGED <<work, phase, provider, evidence>>

SecretConsume ==
  /\ pc = "sec_consume"
  /\ HostStep(IF fl.kind = "token" THEN PrefetchImages(host) ELSE TransportSentinel(host),
              Goto("sec_clean") /\ UNCHANGED fl,
              Goto("sec_clean") /\ fl' = [fl EXCEPT !.err = "other"])
  /\ UNCHANGED <<work, phase, provider, secret, evidence>>

\* The staging directory is removed; if that fails, its error replaces the one
\* that led here.  Only the error for a local file that could not be removed
\* clears the flag about local credential material.
AfterSecret(err) ==
  IF err = "none"
    THEN /\ IF fl.kind = "token" THEN Goto("start_primary") ELSE Goto("sec_prepare")
         /\ fl' = [fl EXCEPT !.remote = TRUE, !.kind = "token"]
         /\ UNCHANGED absent
    ELSE /\ fl' = [fl EXCEPT !.local = (err # "local"), !.err = "none"]
         /\ Raise

SecretClean ==
  /\ pc = "sec_clean"
  /\ HostStep(RemoveUpload(host), AfterSecret(fl.err), AfterSecret("other"))
  /\ UNCHANGED <<work, phase, provider, secret, report>>

(***************************************************************************)
(* The work of the cache: wait for the builder's own acknowledgement, clean *)
(* the builder up, and check what is retained.                             *)
(***************************************************************************)
Warm ==
  /\ pc = "warm"
  /\ \/ /\ Res("instance") \in cloud /\ NoFault
        /\ fl' = [fl EXCEPT !.warmed = TRUE] /\ Goto("delete") /\ absent' = {}
     \/ /\ (Fault \/ (Res("instance") \notin cloud /\ NoFault))
        /\ fl' = [fl EXCEPT !.failed = TRUE] /\ Raise
  /\ UNCHANGED <<work, phase, provider, host, secret, report>>

\* The policy must be empty, all four digests cached, the repository exact and
\* the bootstrap peer running; then the repository is retained.
Policy ==
  /\ pc = "policy"
  /\ \/ /\ Res("reader") \notin cloud /\ Res("repository") \in cloud /\ NoFault
        /\ fl' = [fl EXCEPT !.pass = TRUE] /\ Goto("protected") /\ UNCHANGED absent
     \/ /\ Fault \/ (NoFault /\ Res("reader") \in cloud)
        /\ fl' = [fl EXCEPT !.failed = TRUE] /\ Raise
  /\ UNCHANGED <<work, phase, provider, host, secret, report>>

(***************************************************************************)
(* The phases of the fleet: one host is created, qualified, deleted and    *)
(* verified absent before the next one.                                    *)
(***************************************************************************)
PhaseHost == In("instance", Profiles[phase])

PhaseCreate ==
  /\ pc = "phase_create"
  /\ \/ CreateOk(PhaseHost) /\ Goto("phase_work") /\ UNCHANGED fl
     \/ CreateFails(PhaseHost) /\ Goto("phase_delete") /\ fl' = [fl EXCEPT !.failed = TRUE]
  /\ UNCHANGED <<work, phase, host, secret, evidence>>

PhaseWork ==
  /\ pc = "phase_work" /\ Goto("phase_delete")
  /\ \/ PhaseHost \in cloud /\ NoFault /\ UNCHANGED fl
     \/ (Fault \/ (PhaseHost \notin cloud /\ NoFault)) /\ fl' = [fl EXCEPT !.failed = TRUE]
  /\ UNCHANGED <<work, phase, provider, host, secret, evidence>>

PhaseDelete ==
  /\ pc = "phase_delete" /\ Goto("phase_verify") /\ DeleteOne(PhaseHost)
  /\ UNCHANGED <<work, phase, secret, fl, evidence>>

\* Both absence checks of the phase must be empty before the next host.
PhaseAbsent ==
  /\ pc = "phase_verify"
  /\ LET empty == {r \in cloud : r \in {PhaseVerify(Profiles[phase])[j] : j \in 1..2}} = {}
     IN  \/ /\ empty /\ ~fl.failed /\ NoFault /\ UNCHANGED fl
            /\ IF phase < Len(Profiles) THEN Goto("phase_create") /\ phase' = phase + 1
               ELSE Goto("delete") /\ UNCHANGED phase
         \/ /\ (~empty \/ fl.failed) /\ NoFault
            /\ fl' = [fl EXCEPT !.failed = TRUE] /\ Goto("delete") /\ UNCHANGED phase
         \/ /\ Fault /\ fl' = [fl EXCEPT !.failed = TRUE] /\ Goto("delete") /\ UNCHANGED phase
  /\ UNCHANGED <<work, provider, host, secret, evidence>>

(***************************************************************************)
(* The finally clause.                                                     *)
(***************************************************************************)
\* Route only: credentials, routes and containers, each attempt on its own.
FinRegistry ==
  /\ pc = "fin_registry"
  /\ HostStep(RemoveConfig(host), fl' = [fl EXCEPT !.remote = TRUE], UNCHANGED fl)
  /\ Goto("fin_stop")
  /\ UNCHANGED <<work, phase, provider, secret, evidence>>

FinHost(stage, next) ==
  /\ pc = stage
  /\ HostStep(IF stage = "fin_stop" THEN StopAll(host) ELSE Cleanup(host), TRUE, TRUE)
  /\ Goto(next)
  /\ UNCHANGED <<work, phase, provider, secret, fl, evidence>>

\* Every cleanup command is tried, whatever the ones before it did.
CleanupDelete ==
  /\ pc = "delete"
  /\ DeleteOne(CleanupList[k])
  /\ IF k < Len(CleanupList) THEN k' = k + 1 /\ UNCHANGED pc ELSE Goto("verify")
  /\ UNCHANGED <<work, phase, secret, fl, evidence>>

AfterVerify ==
  IF work # "cache" THEN "protected"
  ELSE IF fl.warmed /\ ~fl.failed THEN "policy" ELSE "repo_delete"

\* Every absence check is made; one that fails counts as not absent.  The cache
\* run's own cleanup is a stage that can fail, and then the finally clause does
\* it once more.
CleanupVerify ==
  /\ pc = "verify"
  /\ \/ NoFault /\ absent' = IF VerifyList[k] \in cloud THEN absent ELSE absent \cup {k}
     \/ Fault /\ UNCHANGED absent
  /\ IF k < Len(VerifyList) THEN k' = k + 1 /\ UNCHANGED <<pc, fl>>
     ELSE IF AfterVerify = "policy" /\ absent' # 1..Len(VerifyList)
       THEN Goto("delete") /\ fl' = [fl EXCEPT !.failed = TRUE]
     ELSE /\ Goto(AfterVerify)
          /\ fl' = [fl EXCEPT !.remote = fl.remote \/ absent' = 1..Len(VerifyList)]
  /\ UNCHANGED <<work, phase, provider, host, secret, report>>

\* Cache only, after a failure: the repository this run created goes too.
RepoDelete ==
  /\ pc = "repo_delete" /\ Goto("repo_check") /\ DeleteOne(Res("repository"))
  /\ UNCHANGED <<work, phase, secret, fl, evidence>>

RepoCheck ==
  /\ pc = "repo_check" /\ Goto("protected")
  /\ \/ NoFault /\ fl' = [fl EXCEPT !.repoGone = Res("repository") \notin cloud]
     \/ Fault /\ UNCHANGED fl
  /\ UNCHANGED <<work, phase, provider, host, secret, evidence>>

Protected(running) ==
  /\ pc = "protected" /\ Goto("report")
  /\ fl' = [fl EXCEPT !.protected = running]
  /\ NoFault
  /\ UNCHANGED <<work, phase, provider, host, secret, evidence>>

\* Credentials are reported removed when the local, the remote and the memory
\* copy are; a run passes only with a verified cleanup.  A cleanup that was cut
\* short has computed neither: the run fails, and its evidence still has the value
\* that registry_credentials_removed began with, True.
CredentialsRemoved == pc = "cut" \/ (fl.local /\ fl.remote)

WriteReport ==
  /\ pc \in {"report", "cut"} /\ Goto("done")
  /\ report' =
       [result |->
          IF CASE work = "route" -> pc = "report" /\ fl.pass /\ CredentialsRemoved /\ AllAbsent
                                    /\ (fl.preflight => fl.protected)
               [] work = "cache" -> fl.pass
               [] work = "fleet" -> ~fl.failed /\ AllAbsent
          THEN "passed" ELSE "failed",
        allAbsent |-> AllAbsent,
        removed |-> IF work = "route" THEN CredentialsRemoved ELSE AllAbsent,
        repoGone |-> fl.repoGone]
  /\ NoFault
  /\ UNCHANGED <<work, phase, provider, host, secret, fl, absent>>

(***************************************************************************)
(* What happens around the run.                                            *)
(***************************************************************************)
\* Mutant: at the end of its maximum run duration an instance is left alone.
ExpireNever(r) == r \in Instances /\ UNCHANGED cloudVars

\* The instance was created with a maximum run duration after which the
\* provider deletes it and its disk.
Expire(r) ==
  /\ r \in Instances
  /\ cloud' = cloud \ With(r)
  /\ host' = IF r = Res("instance") THEN FreshHost ELSE host
  /\ UNCHANGED <<work, pc, k, phase, inflight, late, secret, fl, evidence, faults, calm>>

\* A create that was given up takes effect, or turns out to be impossible.
Land(r) ==
  /\ r \in inflight /\ inflight' = inflight \ {r}
  /\ IF Needs(r, FleetRegions) \subseteq cloud
       THEN /\ cloud' = cloud \cup With(r)
            /\ late' = late \cup {x \in With(r) :
                         \E j \in 1..Len(VerifyList) :
                           VerifyList[j] = x /\ (j \in absent \/ pc \in {"report", "cut", "done"})}
       ELSE UNCHANGED <<cloud, late>>
  /\ calm' = FALSE
  /\ UNCHANGED <<work, pc, k, phase, host, secret, fl, evidence, faults>>

\* The process is killed: no finally clause, no evidence.
Crash ==
  /\ pc \notin {"load", "done"} /\ Fault /\ Goto("done")
  /\ UNCHANGED <<work, phase, provider, host, secret, fl, evidence>>

\* A second interrupt, during the finally clause of the route, skips the rest of
\* the cleanup and still writes the evidence.  Interrupted before the provider's
\* cleanup has returned, the list of absence checks is the initial one.
InterruptCleanup ==
  /\ work = "route"
  /\ \/ /\ pc \in {"fin_registry", "fin_stop", "fin_cleanup", "delete", "verify"}
        /\ absent' = {}
     \/ pc = "protected" /\ UNCHANGED absent
  /\ faults < MaxFaults /\ faults' = faults + 1 /\ calm' = FALSE
  /\ Goto("cut")
  /\ UNCHANGED <<work, phase, provider, host, secret, fl, report>>

Tool ==
  \/ LoadPlan
  \/ Preflight
  \/ Create \/ Await \/ AwaitBoot
  \/ SecretPrepare \/ SecretUpload \/ SecretConsume \/ SecretClean
  \/ \E stage \in {"install", "boot", "start_primary", "start_standby", "probe_primary",
                   "probe_standby", "probe_auto", "stop_primary", "probe_fallback", "restore",
                   "probe_restored"} : DrillStep(stage)
  \/ \E stage \in {"health_start", "health_restored"} : Sample(stage, TRUE)
  \/ \E stage \in {"health_fallback", "monitor"} : Sample(stage, FALSE)
  \/ Warm \/ Policy
  \/ PhaseCreate \/ PhaseWork \/ PhaseDelete \/ PhaseAbsent
  \/ FinRegistry \/ FinHost("fin_stop", "fin_cleanup") \/ FinHost("fin_cleanup", "delete")
  \/ CleanupDelete \/ CleanupVerify \/ RepoDelete \/ RepoCheck
  \/ \E running \in BOOLEAN : Protected(running)
  \/ WriteReport

Around ==
  \/ \E r \in Instances : Expire(r)
  \/ \E r \in inflight : Land(r)
  \/ Crash \/ InterruptCleanup

CloudNext == Tool \/ Around

CloudSpec ==
  /\ CloudInit /\ [][CloudNext]_cloudVars
  /\ WF_cloudVars(Tool)
  /\ WF_cloudVars(\E r \in Instances : Expire(r))
  /\ WF_cloudVars(\E r \in inflight : Land(r))

(***************************************************************************)
(* Properties.                                                             *)
(***************************************************************************)
Retained == {Res("repository"), Res("reader")}

CloudTypeOK ==
  /\ work \in Workloads /\ pc \in Stages /\ k \in 1..40 /\ phase \in 1..Len(Profiles)
  /\ host \in HostStates /\ secret \in {"absent", "sentinel", "token"}
  /\ absent \subseteq 1..Len(VerifyList) /\ faults \in 0..MaxFaults
  /\ calm \in BOOLEAN

\* What the evidence says about absence is true: when every check of the plan
\* came back empty, nothing of the run is left that costs money, apart from what
\* a given-up create brought back later and the repository the cache run keeps.
VerifiedMeansGone ==
  report # NoReport /\ report.allAbsent => cloud \ late \subseteq Retained

\* The cleanup of a run in which nothing goes wrong after the failure removes
\* everything, from whatever prefix of the creates exists: no command of the
\* cleanup is refused because a later one had to come first.
CleanupSuffices ==
  report # NoReport /\ fl.created /\ calm /\ inflight = {} => report.allAbsent

\* A run that passed leaves no credential, local or on a host, and nothing but
\* the retained repository, whose reader has been removed.
PassedIsClean ==
  report.result = "passed" =>
    /\ secret = "absent" /\ host.upload # "token" /\ ~host.config
    /\ cloud \ late \subseteq (IF work = "cache" THEN {Res("repository")} ELSE {})
    /\ work = "cache" => Res("repository") \in cloud

\* The fleet never pays for two hosts at once.
OneHostAtATime == work = "fleet" => Cardinality(Instances \ late) <= 1
=============================================================================
