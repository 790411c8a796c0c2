---------------------------- MODULE MCNodeServices ----------------------------
(***************************************************************************)
(* The services around the runtime, side by side, on a small instance: the *)
(* desktop that owns a node, its window, the automatic worker of a node,   *)
(* its OpenAI gateway, its discovery, a supervised measurement, the        *)
(* artifact cache of the machine and the sizing of a server.  Each has its *)
(* own state; a behaviour is about one of those in Services.               *)
(***************************************************************************)
EXTENDS DesktopShell, DesktopWindow, AutomaticPlacement, Gateway, Discovery, EdgeMeasurement, ArtifactStore,
        ServerCapacity

CONSTANT Services

MCStaticScore == [o \in Offers |-> IF o = "a" THEN 0 ELSE 5]
MCWants == [r \in Requests |-> IF r = "r2" THEN "m2" ELSE "m1"]
MCGroupOf == [m \in {"m1", "m2"} |-> "g"]

VARIABLE service

nodeVars == <<service, dkVars, apVars, gwVars, dcVars, emVars, asVars, scVars, dwVars>>

\* Sound starts of three layers on a device of six units; and what else may be wrong, with
\* a public server, a private one, other devices and counts.
Plain ==
  [weight |-> [b \in Layers |-> 2], cache |-> [b \in Layers |-> 1], lora |-> 0, device |-> "cuda",
   devices |-> <<6>>, limit |-> 0, usable |-> TRUE, bf16 |-> TRUE, quant |-> Unset, manifest |-> Unset,
   fixed |-> {}, asked |-> 0, paged |-> FALSE, dry |-> FALSE, flaw |-> "none"]
MCStarts ==
  {[Plain EXCEPT !.weight = w, !.cache = c, !.quant = q, !.manifest = m, !.usable = u, !.fixed = f, !.limit = l,
                 !.paged = p] :
     w \in [Layers -> {2, 4}], c \in {<<1, 1, 1>>, <<2, 2, 2>>, <<1, 2, 1>>}, q \in {Unset, "nf4"}, m \in {Unset, "nf4", "none"},
     u \in BOOLEAN, f \in {{}, {1, 2}, {2, 3}}, l \in {0, 5}, p \in BOOLEAN}
  \cup {[Plain EXCEPT !.flaw = f, !.manifest = m, !.paged = p] : f \in Flaws, m \in {Unset, "nf4"}, p \in BOOLEAN}
  \cup {[Plain EXCEPT !.device = d, !.devices = ds, !.asked = a, !.limit = l, !.bf16 = b, !.lora = r, !.dry = y] :
          d \in {"cpu", "mps", "cuda"}, ds \in {<<6>>, <<4, 6>>, <<4, 7>>}, a \in {0, 1, 4}, l \in {0, 4},
          b \in BOOLEAN, r \in {0, 1}, y \in BOOLEAN}
  \cup {[Plain EXCEPT !.fixed = {1}, !.asked = 1], [Plain EXCEPT !.lora = 1, !.manifest = "nf4"],
        [Plain EXCEPT !.devices = <<6, 6>>, !.paged = TRUE]}

NodeInit ==
  /\ service \in Services
  /\ DkInit /\ (service # "desktop" => dkFile = "none" /\ dkNode[Headless] = "none")
  /\ PlacementInit /\ (service # "placement" => ~apSharing)
  /\ GatewayInit
  /\ DiscoveryInit /\ (service # "discovery" => dcNetwork = {})
  /\ MeasurementInit /\ (service # "measurement" => ~emJob)
  /\ StoreInit /\ WindowInit
  /\ (service # "store" =>
        asLeft = [p \in Processes |-> IF p \in Workers THEN Files ELSE {}] /\ Cached = {})
  /\ CapacityInit /\ (service # "capacity" => scArgs = Plain)

--------------------------------------------------------------------------------
DesktopStep ==
  /\ service = "desktop" /\ DkNext
  /\ UNCHANGED <<service, dwVars, apVars, gwVars, dcVars, emVars, asVars, scVars>>
WindowStep ==
  /\ service = "window" /\ WindowNext
  /\ UNCHANGED <<service, dkVars, apVars, gwVars, dcVars, emVars, asVars, scVars>>
PlacementStep ==
  /\ service = "placement" /\ PlacementNext
  /\ UNCHANGED <<service, dkVars, dwVars, gwVars, dcVars, emVars, asVars, scVars>>
GatewayStep ==
  /\ service = "gateway" /\ GatewayNext
  /\ UNCHANGED <<service, dkVars, dwVars, apVars, dcVars, emVars, asVars, scVars>>
DiscoveryStep ==
  /\ service = "discovery" /\ DiscoveryNext
  /\ UNCHANGED <<service, dkVars, dwVars, apVars, gwVars, emVars, asVars, scVars>>
MeasurementStep ==
  /\ service = "measurement" /\ MeasurementNext
  /\ UNCHANGED <<service, dkVars, dwVars, apVars, gwVars, dcVars, asVars, scVars>>
StoreStep ==
  /\ service = "store" /\ StoreNext
  /\ UNCHANGED <<service, dkVars, dwVars, apVars, gwVars, dcVars, emVars, scVars>>
CapacityStep ==
  /\ service = "capacity" /\ CapacityNext
  /\ UNCHANGED <<service, dkVars, dwVars, apVars, gwVars, dcVars, emVars, asVars>>

NodeNext ==
  \/ DesktopStep \/ WindowStep \/ PlacementStep \/ GatewayStep \/ DiscoveryStep \/ MeasurementStep
  \/ StoreStep \/ CapacityStep

\* Threads, timers and coroutines go on; a node that was started binds its port or ends.
DesktopFairness ==
  /\ \A d \in Desktops :
       /\ WF_dkVars(service = "desktop" /\ (Notify(d) \/ TryLock(d) \/ RemoveStale(d) \/ Listen(d)
                                              \/ BeginClose(d) \/ CloseSidecar(d)))
       /\ WF_dkVars(service = "desktop" /\ Refresh(d)) /\ WF_dkVars(service = "desktop" /\ BackoffEnds(d))
       /\ WF_dkVars(service = "desktop" /\ (TakeSnapshot(d) \/ Provision(d) \/ Refused(d)
                                              \/ Probe(d) \/ WaitReady(d)))
  /\ \A n \in NodeIds : WF_dkVars(service = "desktop" /\ NodeBinds(n))

\* The refresh timer fires every eight seconds, the pool runs what was submitted to it and
\* the event loop delivers the results, also below an open dialog.
WindowFairness ==
  /\ WF_dwVars(service = "window" /\ RefreshTimer)
  /\ \A s \in Slots : WF_dwVars(service = "window" /\ (PoolStep(s) \/ Deliver(s)))
  /\ \A w \in Shares : WF_dwVars(service = "window" /\ (StopEnds(w) \/ MonitorStarts(w)))

\* The placement thread runs every period whatever a round raised, and a policy update
\* that was accepted is carried out.
PlacementFairness ==
  /\ WF_apVars(service = "placement" /\ Reconcile)
  /\ WF_apVars(service = "placement" /\ PutApply)

GatewayFairness ==
  /\ WF_gwVars(service = "gateway" /\ StartJob)
  /\ \A r \in Requests :
       /\ WF_gwVars(service = "gateway" /\ EndPoll(r)) /\ WF_gwVars(service = "gateway" /\ Handle(r))
       /\ WF_gwVars(service = "gateway" /\ (EndLoad(r) \/ EndGenerate(r) \/ Record(r)))

\* The discovery thread gets the I/O lock that a publisher takes and gives back; the
\* event loop may serve for ever. A child may hang, its supervisor does not.
ThreadFairness ==
  /\ \A g \in Groups : SF_dcVars(service = "discovery" /\ GroupStep(g))
  /\ WF_dcVars(service = "discovery" /\ PublishStep)
  /\ WF_emVars(service = "measurement" /\ SupervisorStep)
  /\ \A p \in Processes : WF_asVars(service = "store" /\ LoadStep(p))

NodeSpec ==
  /\ NodeInit /\ [][NodeNext]_nodeVars
  /\ DesktopFairness /\ WindowFairness /\ PlacementFairness /\ GatewayFairness /\ ThreadFairness

--------------------------------------------------------------------------------
\* The types of seven of the services; of a server's sizing, MemoryFits and ManifestServed
\* say what matters.
ServicesTypeOK ==
  DkTypeOK /\ WindowTypeOK /\ PlacementTypeOK /\ GatewayTypeOK /\ DiscoveryTypeOK
  /\ MeasurementTypeOK /\ StoreTypeOK

\* What each service promises of its state: one desktop window and no node left by one
\* that closed, a window that never goes back and never overwrites a policy it has not
\* shown, no DHT left by discovery, no demand of one's own counted, only closed
\* windows published, a complete acquisition, a clean measurement, a server that fits.
ServicesSound ==
  /\ ServicesTypeOK /\ OneDesktop /\ NoDhtLeft /\ OwnDemandExcluded /\ OnlyClosedPublished
  /\ AcquisitionExact /\ AcceptedIsClean /\ MemoryFits /\ ManifestServed /\ WindowSound

\* Every service comes to rest, since each bound lets only so much happen to it: windows
\* are connected, the sharing switch has taken effect, accepted requests are answered,
\* discovery has recovered, the measurement is over and nobody waits for an artifact
\* lock (the loops of lifecycle.py, run_node.py, api/server.py, discovery.py,
\* edge_supervisor.py and model_manifest.py).
Settled ==
  /\ service = "desktop" => WindowConnected
  /\ service = "window" => WindowFollows
  /\ service = "placement" => SharingSettled
  /\ service = "gateway" => RequestsOver
  /\ service = "discovery" => CoverageRecovered
  /\ service = "measurement" => MeasurementOver
  /\ service = "store" => LoadsOver \/ ReaderWantsWriter
ServicesEnd == <>[]Settled

\* Every load comes to an end ("Re-check after acquiring the shared cache lock, then keep
\* the artifact alive through deserialization.", server/from_pretrained.py:279), also when
\* two workers of one machine find the same cache.
LoadsEnd == <>[](service = "store" => LoadsOver)
=============================================================================
