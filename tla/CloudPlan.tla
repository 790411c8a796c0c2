------------------------------ MODULE CloudPlan ------------------------------
(***************************************************************************)
(* The provider plans of scripts/qualification_cost_guard.py: for each     *)
(* workload, the ordered create commands, the ordered cleanup commands and *)
(* the absence checks, over the resources the commands name.  Project,     *)
(* zone, labels and machine shapes are left out; what a later command      *)
(* needs from an earlier one is kept, because the order of the two lists   *)
(* is what the plans are about.  The second part are the actions of the    *)
(* controller that the plans install on the host.                          *)
(***************************************************************************)
EXTENDS Naturals, Sequences

Profiles == <<"windows-cpu", "linux-cpu", "windows-cuda", "linux-cuda">>

\* A resource by its kind and where it is: for the whole run, in a region, for a profile.
In(kind, where) == <<kind, where>>
Res(kind) == In(kind, "run")

(***************************************************************************)
(* The public route: one network with its subnet, two firewall rules and   *)
(* one instance whose boot disk goes with it.                              *)
(***************************************************************************)
RouteCreate ==
  <<Res("network"), Res("subnet"), Res("firewall"), Res("iap"), Res("instance")>>

\* Mutant: the subnet is deleted before the instance that uses it.
RouteCleanupSwapped ==
  <<Res("subnet"), Res("instance"), Res("iap"), Res("firewall"), Res("network")>>

RouteCleanup ==
  <<Res("instance"), Res("iap"), Res("firewall"), Res("subnet"), Res("network")>>

\* Mutant: the network itself is not looked for.
RouteVerifyShort ==
  <<Res("instance"), Res("disk"), Res("firewall"), Res("iap"), Res("subnet")>>

RouteVerify ==
  <<Res("instance"), Res("disk"), Res("firewall"), Res("iap"), Res("subnet"), Res("network")>>

(***************************************************************************)
(* The route cache: two services are enabled and stay enabled, the         *)
(* repository is kept after a pass and deleted by its own command after a  *)
(* failure, and the builder's identity reads it through a policy binding.  *)
(***************************************************************************)
CacheCreate ==
  <<Res("repository"), Res("account"), Res("reader"),
    Res("network"), Res("subnet"), Res("firewall"), Res("instance")>>

CacheCleanup ==
  <<Res("instance"), Res("reader"), Res("account"),
    Res("firewall"), Res("subnet"), Res("network")>>

CacheVerify ==
  <<Res("instance"), Res("disk"), Res("firewall"), Res("subnet"), Res("network"), Res("account")>>

(***************************************************************************)
(* The qualification fleet: one network with a subnet, a router, a         *)
(* reserved address and a NAT in each region, and one host at a time.      *)
(* There is one region, or a second one to fall back on.                   *)
(***************************************************************************)
Primary(regions) == regions[1]
HasFallback(regions) == Len(regions) = 2
Fallback(regions) == regions[2]

RegionCreate(g) == <<In("subnet", g), In("router", g), In("address", g), In("nat", g)>>

FleetCreate(regions) ==
  <<Res("network")>> \o RegionCreate(Primary(regions))
    \o (IF HasFallback(regions) THEN RegionCreate(Fallback(regions)) ELSE <<>>)
    \o <<Res("firewall")>>

\* The CUDA profile of Linux uses the fallback region when there is one.
ProfileRegion(regions, p) ==
  IF p = "linux-cuda" /\ HasFallback(regions) THEN Fallback(regions) ELSE Primary(regions)

PhaseVerify(p) == <<In("instance", p), In("disk", p)>>

RegionCleanup(g) == <<In("nat", g), In("router", g), In("subnet", g), In("address", g)>>

FleetCleanup(regions) ==
  <<Res("firewall")>>
    \o (IF HasFallback(regions) THEN RegionCleanup(Fallback(regions)) ELSE <<>>)
    \o RegionCleanup(Primary(regions)) \o <<Res("network")>>

RegionVerify(g) == <<In("router", g), In("subnet", g), In("address", g)>>

FleetVerify(regions) ==
  PhaseVerify(Profiles[1]) \o PhaseVerify(Profiles[2]) \o PhaseVerify(Profiles[3]) \o PhaseVerify(Profiles[4])
    \o <<Res("firewall")>> \o RegionVerify(Primary(regions))
    \o (IF HasFallback(regions) THEN RegionVerify(Fallback(regions)) ELSE <<>>)
    \o <<Res("network")>>

(***************************************************************************)
(* What the provider itself enforces (external): a command that creates a  *)
(* resource needs the ones it refers to, and a resource that another one   *)
(* refers to cannot be deleted.  The disk of an instance comes and goes    *)
(* with it, and the NAT goes with its router.                              *)
(***************************************************************************)
Kind(r) == r[1]

Needs(r, regions) ==
  CASE Kind(r) \in {"firewall", "iap", "router"} -> {Res("network")}
    [] Kind(r) = "subnet" -> {Res("network")}
    [] Kind(r) = "nat" -> {In("router", r[2]), In("address", r[2])}
    [] r = Res("instance") -> {Res("subnet")}
    [] Kind(r) = "instance" /\ r # Res("instance") -> {In("subnet", ProfileRegion(regions, r[2]))}
    [] Kind(r) = "reader" -> {Res("repository"), Res("account")}
    [] OTHER -> {}

\* The disk that comes with an instance.
With(r) == IF Kind(r) = "instance" THEN {r, In("disk", r[2])} ELSE {r}

\* What a delete command takes away with the resource it names.
Gone(r) == IF Kind(r) = "router" THEN {r, In("nat", r[2])} ELSE With(r)

\* A revoked binding and an identity are no obstacle to one another, and a
\* router may be deleted while it still has its NAT.
Blocks(d, r, regions) ==
  /\ r \in Needs(d, regions)
  /\ Kind(r) \notin {"account", "repository", "router"}

-----------------------------------------------------------------------------
(***************************************************************************)
(* The fixed actions of the public-route host controller                   *)
(* (scripts/gcp_public_route_host.py), as operators on the state that an   *)
(* action can leave on the virtual machine.  An action maps a host state   *)
(* to the set of its outcomes: whether it acknowledges success, and the    *)
(* host state it leaves.  A failure may come before or after the effect:   *)
(* every docker and file-system call of the script can fail by itself.     *)
(***************************************************************************)
\* The two co-located routes: Qwen is the primary, Gemma the standby.
Roles == {"primary", "standby"}

\* What an upload directory can hold; only "token" is a credential.
Uploads == {"absent", "empty", "sentinel", "token"}

NotSeen == 2

(***************************************************************************)
(* upload  the staging directory of the secret file under /var/tmp         *)
(* config  the docker credential directory under /run exists               *)
(* images  both immutable images are in the local inventory                *)
(* dir     the identity directory of a route exists                        *)
(* box     the container of a route runs                                   *)
(* known   the route's entry of the private state file                     *)
(* ident   the identity key the route's container presents                 *)
(* print   the fingerprint of it recorded by the last health action        *)
(***************************************************************************)
HostStates ==
  [upload : Uploads, config : BOOLEAN, images : BOOLEAN,
   dir : [Roles -> BOOLEAN], box : [Roles -> BOOLEAN],
   known : [Roles -> {"absent", "running", "stopped"}],
   ident : [Roles -> 0..1], print : [Roles -> 0..NotSeen]]

FreshHost ==
  [upload |-> "absent", config |-> FALSE, images |-> FALSE,
   dir |-> [r \in Roles |-> FALSE], box |-> [r \in Roles |-> FALSE],
   known |-> [r \in Roles |-> "absent"],
   ident |-> [r \in Roles |-> 0], print |-> [r \in Roles |-> NotSeen]]

Ack(h) == [ok |-> TRUE, host |-> h]
Err(h) == [ok |-> FALSE, host |-> h]

\* The boot script's readiness record, docker, the NVIDIA runtime and the driver
\* are compared with the pinned versions; nothing is written.
BootstrapPreflight(h) == {Ack(h), Err(h)}

\* An owner-only staging directory, which must not exist yet; a directory that
\* cannot be secured is removed again.
PrepareUpload(h) ==
  {Err(h)} \cup IF h.upload = "absent" THEN {Ack([h EXCEPT !.upload = "empty"])} ELSE {}

\* Idempotent removal of the staging directory.
RemoveUpload(h) == {Ack([h EXCEPT !.upload = "absent"]), Err(h)}

\* The uploaded file is read and, whatever the reading found, the directory is
\* removed before the action proper; a removal that fails fails the action.
ReadUpload(h, kind) ==
  {Err(h)} \cup {[ok |-> h.upload = kind, host |-> [h EXCEPT !.upload = "absent"]]}

\* The sentinel must decode to the fixed bytes.
TransportSentinel(h) ==
  UNION {{Err(o.host), o} : o \in ReadUpload(h, "sentinel")}

\* Log in and pull both images, then verify them; the credential directory is
\* removed on every path, and that removal may itself fail.
PrefetchImages(h) ==
  UNION {IF o.ok THEN {Ack([o.host EXCEPT !.config = FALSE, !.images = TRUE]),
                       Err([o.host EXCEPT !.config = FALSE]),
                       Err([o.host EXCEPT !.config = TRUE])}
                 ELSE {o} : o \in ReadUpload(h, "token")}

\* Docker logout and removal of the credential directory, if there is one.
RemoveConfig(h) ==
  {Ack([h EXCEPT !.config = FALSE])} \cup IF h.config THEN {Err(h)} ELSE {}

\* A route is started once: its identity directory must be new, its image
\* local; the state file is written after docker run, so a run that times out
\* leaves a directory, and perhaps a container, of no route.
Start(h, r) ==
  LET dirMade == [h EXCEPT !.dir[r] = TRUE]
      ran     == [dirMade EXCEPT !.box[r] = TRUE]
  IN  IF h.known[r] # "absent" \/ h.dir[r] THEN {Err(h)}
      ELSE {Err(dirMade)} \cup
           IF h.images THEN {Err(ran), Ack([ran EXCEPT !.known[r] = "running"])} ELSE {}

\* docker stop or start of the primary, then the state file.  A restarted
\* container presents whatever identity its directory then holds.
SetPrimary(h, running, id) ==
  LET boxed == [h EXCEPT !.box["primary"] = running, !.ident["primary"] = id]
  IN  {Err(h)} \cup
      IF h.known["primary"] = "absent" THEN {}
      ELSE {Err(boxed), Ack([boxed EXCEPT !.known["primary"] =
                                            IF running THEN "running" ELSE "stopped"])}

\* Identity continuity compares each running route's fingerprint with the one
\* recorded before, and records the new one whether or not they are equal.
Continuity(h) ==
  \A r \in Roles : h.known[r] = "running" => h.print[r] \in {NotSeen, h.ident[r]}

Recorded(h) ==
  [h EXCEPT !.print = [r \in Roles |-> IF h.known[r] = "running" THEN h.ident[r] ELSE h.print[r]]]

\* Both routes must be in the state file and every running one must answer; the
\* fingerprints are saved before the resources are sampled.
Health(h) ==
  {Err(h)} \cup
  IF \E r \in Roles : h.known[r] = "absent" THEN {}
  ELSE {Err(Recorded(h))} \cup
       IF \A r \in Roles : h.known[r] = "running" => h.box[r] THEN {Ack(Recorded(h))} ELSE {}

\* Automatic selection prefers the primary while the state file has it running.
Selected(h, selection) ==
  IF selection # "auto" THEN selection
  ELSE IF h.known["primary"] = "running" THEN "primary" ELSE "standby"

\* One inference against the selected route, in a throwaway container.
Probe(h, selection) ==
  {Err(h)} \cup IF h.known[Selected(h, selection)] = "running" THEN {Ack(h)} ELSE {}

\* docker stop of every running route in turn; the state file is written only
\* when all have stopped.
StopAll(h) ==
  LET running == {r \in Roles : h.known[r] = "running"}
  IN  {Ack([h EXCEPT !.box = [r \in Roles |-> h.box[r] /\ r \notin running],
                     !.known = [r \in Roles |-> IF r \in running THEN "stopped" ELSE h.known[r]]])}
      \cup {Err([h EXCEPT !.box = [r \in Roles |-> h.box[r] /\ r \notin S]]) : S \in SUBSET running}

\* The credentials, then every container of the state file, then the state
\* directory of the run, which holds the identity directories.
Cleanup(h) ==
  UNION {LET g == o.host
             listed == {r \in Roles : g.known[r] # "absent"}
         IN  IF ~o.ok THEN {o}
             ELSE {Err([g EXCEPT !.box = [r \in Roles |-> g.box[r] /\ r \notin S]])
                     : S \in SUBSET listed}
                  \cup {Ack([g EXCEPT !.box = [r \in Roles |-> g.box[r] /\ r \notin listed],
                                      !.dir = [r \in Roles |-> FALSE],
                                      !.known = [r \in Roles |-> "absent"]])}
         : o \in RemoveConfig(h)}
=============================================================================
