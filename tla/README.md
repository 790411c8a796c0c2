# CommunityAI in TLA+

CommunityAI runs large language models on a swarm of volunteers' machines.  A
client keeps a session over a chain of workers, each of which serves a range of
transformer blocks and holds the attention cache of that range.  A *node* on a
user's machine offers models over a local API and lends its hardware through
worker processes that it supervises; a desktop application owns the node.
Release engineering qualifies the software on paid cloud hosts and on clean
packaged installations.

This directory holds TLA+ models of the parts of that system in which several
threads, processes, files or machines meet, the TLC configurations that check
them on small instances, and proofs that TLAPS checks.  Paths below are relative
to the repository's `src/drift`, except `scripts/...`, `desktop/...`, `docs/...`
and `tests/...`.  `PROJECT.json` gives, for every definition, the source lines it
stands for, and lists the hazards the properties were written for.

## The system's parts

| Part | State | Operations | What is hard |
| --- | --- | --- | --- |
| Model manager, `node/model_manager.py` | one record per model, a closed flag | `load`, release of a lease, eviction, `unload`, `shutdown` | closing a runtime happens outside the lock; releases may come twice and from any thread |
| Attention cache, `server/memory_cache.py` | byte counters in shared memory, a cross-process lock and event, a pipe, tensors | `allocate_cache`, `use_cache`, `_free` | handler processes, executor threads and the runtime; timeouts and cancellation in the middle of a wait |
| Paged KV pool, `server/memory_cache.py`, `server/backend.py` | free list, block tables, page contents, a counter | admission, register, scatter, gather, truncate, reorder, free | pages copied in beam search, out-of-pages in the middle of a step, deferred frees |
| Admission, `server/admission.py` | token buckets and counts, session routes, health | `acquire`, `_release`, registration, `mark_unhealthy` | the clock is read before the lock is taken; a lock that times out; pruned records |
| Activation pushes, `server/handler.py` | queues per session and per handler process, the budget of pending pushes | `rpc_push`, the listener, outbound pushes | a push crosses processes while its session ends and another takes its name |
| Inference session, `client/inference_session.py` | a chain of server sessions with positions and histories | `step`, repair, replay, the `position` setter | servers fail before, after and between the requests of a replay |
| Sequence manager, `client/routing/` | table of spans, bans, an update thread | `update`, `make_sequence`, success and failure of requests, `rpc_info` | a table that is edited in place while a thread replaces it |
| Training, `client/sequential_autograd.py` | inputs and spans of a forward pass | forward, backward, retries | a backward span fails with half of the gradient back |
| Block selection, `server/block_selection.py` | announced spans | choosing blocks, deciding to move | servers decide on what others are about to change |
| Server lifecycle, `server/server.py` | module container, announcer, records in the DHT, health file | start, announce, rebalance, stop | a container ends while its announcer still writes |
| Task pools, `server/task_pool.py`, `server/runtime` | queue, token pipe, shared priority, ordered tasks | submit, order, take a batch | three channels for one task; handlers that die |
| Shared keys and values, `server/block_functions.py`, `models/gemma4` | keys and values per donor layer | donate, consume, across merged and separate blocks | donor and consumer on different servers, a failed span in between |
| Server sizing, `server/server.py` | number of blocks, cache, precision | choose blocks, estimate memory, check the manifest | a number chosen for one placement is used for another |
| Worker supervisor, `node/worker_supervisor.py` | one record per worker, its process, intent and suspension | monitor, suspension threads, control requests, shutdown | processes are stopped without the lock; a schedule that turns at any time |
| Automatic placement, `node/contribution_planner.py`, `cli/run_node.py` | plan, announced lease, the worker's launch | plan, announce, commit, reconcile; control requests | a lost announcement; requests in the middle of a round |
| Policy store, `node/policy_store.py`, `node/config_lock.py` | config file, its revision, the active policy | check, exchange, judge, restore | external writers and crashes between any two steps |
| Catalog, `node/catalog_bootstrap.py`, `model_catalog.py` | config, manifests, install lock, rollback state | fetch from mirrors, install | a crash between two files, two installers |
| Publication, `catalog_release.py` | a bundle and its backup | build, check, rename | a killed writer between two renames |
| Signed announcements, `protocol_identity.py` | watermarks and revocations, a history file | verify, record, persist | guards that share the file |
| API keys, `node/keys.py` | key file, records in memory | create, label, revoke, supply | failed writes, crashes |
| Discovery, `node/discovery.py` | one client DHT per group, coverage, demand | look up, publish, close | DHTs constructed while the node closes |
| OpenAI gateway, `api/server.py`, `node/route_metrics.py` | semaphore, executor threads, leases, windows | chat and streams, cancellation | a request is cancelled while its thread works |
| Edge measurement, `node/edge_supervisor.py` and companions | a contained child, its record | start, wait, contain, accept | the child, or what it spawned, hangs or survives |
| Artifact cache, `model_manifest.py`, `server/from_pretrained.py`, `utils/disk_cache.py` | files, partials, `blocks.lock` | verify, download, resume, promote, evict, read | two locks on one file, crashes |
| Desktop, `desktop/src/communityai_desktop` | instance lock and endpoint, sidecar, control credential | connect, start, restart, close, provision | a desktop that dies leaves lock, endpoint and node |
| Desktop window, `pyside_shell.py`, `controller.py`, `client.py` | what is shown, tasks, open dialogs | refresh, share, edit the policy, create, rename and revoke keys | dialogs run their own event loop while snapshots are rendered below; requests without an answer |
| Cloud runs, `scripts/gcp_public_route_*.py`, `scripts/qualification_cost_guard.py` | resources, phases, evidence, ledger | plan, create, deploy, clean up, prove absence; authorize | a create that lands after it was given up; operators side by side |
| Fly gate, `scripts/fly_qualification_adapter.py`, `scripts/qualify_model_multimachine.py` | machines, a journal, a run's answers | provision, interrupt, recover, clean up | an interrupt between a create and its journal entry |
| Packaged gate, `scripts/gate13_*.py` | units, trees, credentials, document, download | sixteen phases, cleanup, validation | any phase fails |

The rest (model families, weight conversion, command lines, HTTP wiring,
measurement, installers' build scripts) is numeric code, validation of data, or
wiring; see "What is not modelled".

How they meet: the node's HTTP threads lease runtimes from the model manager;
a runtime's client holds inference sessions over routes of the sequence manager;
a session's requests pass a worker's admission, then allocate attention cache,
then run through its task pools, and their outputs may be pushed to the next
worker.  Workers are processes of the supervisor, whose launches come from
the placement and whose budgets come from the policy store.  Discovery reads what the
servers' announcers write, through the replay guards, and feeds the placement.

## Modules

One module per part, each with its constants and their assumptions, its
variables, `Init`, one action per operation or handler, `Next` and its properties.

| Module | Models | An action is |
| --- | --- | --- |
| `ModelManager` | `ModelManager` | a critical section of the lock; `loader()` and `close()` end in actions of their own and may fail |
| `MemoryCache` | the contiguous cache | what a coroutine does between two awaits, divided where another process can see a counter |
| `PagedCache` | `PagedKVPool`; paged admission, the pipe, `_paged_inference_step` | one operation on block tables and page contents; otherwise as in `MemoryCache` |
| `Admission` | `AdmissionState`, the streams of `rpc_inference` | reading the clock, or one critical section |
| `ActivationPush` | pushes in `TransformerConnectionHandler` | a step of an event loop or of a listener thread |
| `InferenceSession` | `InferenceSession`, `_ServerInferenceSession` | one request, answer or failure; an activation is the token it belongs to, so that a wrong cache shows |
| `RouteTable` | `RemoteSequenceManager`, `_SequenceManagerUpdateThread` | an edit of the table, a step of the update thread, a hop of a route under construction |
| `SequentialAutograd` | `sequential_forward`, `sequential_backward` | one span's request; a tensor is the set of blocks it has passed |
| `BlockSelection` | `block_selection.py` and its use in `server.py` | one server's read, decision or announcement, one move of the simulation |
| `ServerLifecycle` | `Server`, `ModuleContainer`, `ModuleAnnouncerThread` | a step of the main, announcer or container thread |
| `TaskPool` | `PrioritizedTaskPool`, the runtime's loop | a put, a token, a priority, a receive, a batch, an answer |
| `SharedKv` | shared keys and values of `block_functions.py`, `backend.py` and `models/gemma4` | one span's part of a step |
| `ServerCapacity` | `_choose_num_blocks`, `_estimate_device_memory`, precision, placement | one decision of a server's constructor, then moves and sessions |
| `WorkerSupervisor` | `WorkerSupervisor` | a critical section; processes, schedule and measurements are the environment |
| `AutomaticPlacement` | the planner, `reconcile` and the control requests | a step of a round or of a request between two locks |
| `PolicyStore` | `PolicyStore`, `config_lock`, the supervisor's transaction | one file operation |
| `CatalogInstall` | `catalog_bootstrap.py`, the rollback guard | one fetch or file operation |
| `ReleaseBundle` | `catalog_release.py` | one check or file operation |
| `ReplayHistory` | `ReplayGuard`, rotation and revocation | one verification, with its write |
| `ApiKeys`, `KeyRegistry` | `keys.py`; the registry it promises | one mutation, file operation, crash |
| `Discovery` | the group threads, `publish_demand`, the node's start and close | what a thread does between two locks or DHT calls |
| `Gateway` | chat and stream requests, `RouteOutcomeTracker` | what a coroutine does between two awaits, the end of an executor job |
| `EdgeMeasurement` | supervisor, child, acceptance | one wait or exit |
| `ArtifactStore` | `ensure_path`, downloads, eviction, deserialization | a step between lock operations, a chunk |
| `DesktopShell` | `run`, the window's connection, `lifecycle.py`, `credentials.py` | one task of a pool thread or one step of the main thread |
| `DesktopWindow` | the window's tasks and dialogs, the control API as they use it | one click, one request, one result delivered |
| `CloudPlan`, `CloudLifecycle` | the plans of the three workloads and the host's deployment; their execution | one provider or host command |
| `CostGuard` | the ledger and the authorizations | one reading, or one row an operator writes |
| `FlyQualification` | the adapter and the gate | one provider call, one step of the gate |
| `PackagedLifecycle` | `gate13_linux_packaged_lifecycle.py`, the document it leaves (`gate13_packaged_lifecycle.py`) and the download of the package (`gate13_download_artifact.py`) | one step of a phase; one phase accepted or refused; one transfer or link operation |
| `ModelManagerProofs`, `WorkerSupervisorProofs` | | proofs about the module of that name |
| `SessionProofs` | | proofs about `Admission`, `ActivationPush` and `InferenceSession`, and about `MCServerSessions` |
| `CacheProofs` | | proofs about `MemoryCache` and `PagedCache` |
| `ServingProofs` | | proofs about `ServerLifecycle`, `TaskPool`, `BlockSelection`, `RouteTable`, `SequentialAutograd`, `SharedKv`, and about `MCServing` |
| `NodeProofs` | | proofs about `ApiKeys`, `PolicyStore`, `CatalogInstall`, `ReplayHistory`, `ReleaseBundle`, `ArtifactStore`, `Gateway`, `AutomaticPlacement`, `DesktopShell`, and about `MCNodeFiles` |
| `QualificationProofs` | | proofs about `CloudLifecycle` and its plans, `CostGuard`, `FlyQualification` and `PackagedLifecycle`, and about `MCQualification` |
| `SumTheorems` | | lemmas about finite sums, for the supervisor, the ledger, the caches and the push budget |

Five modules compose the parts that one process, machine or tool set has:
`MCServerSessions` (what a session meets on a worker, and its client), `MCServing`
(a swarm serving one model), `MCNodeFiles` (what a node keeps on disk),
`MCNodeServices` (the services around the runtime) and `MCQualification` (the
release tools).  Their parts share no state in the code either, so a behaviour is
one of the part chosen at the start, the other parts staying at their initial
states: the sum of the models, not their product.  Where parts do share state, one
module models them together: `PolicyStore` holds the supervisor's transaction,
`AutomaticPlacement` the worker's launch, `Gateway` the residency slot and the
metrics, `Discovery` the node's life, `CloudLifecycle` extends plans and host (`CloudPlan`).  An `MC`
module also defines what a configuration cannot write.

Operators under a comment that begins with "Fault model" or "Mutant" belong to no
specification: each is a definition with a plausible slip in it, and
`PROJECT.json` pairs it with the property that finds the slip, so that no
property holds vacuously.  A few properties appear in no run: they state what a
document says and the code does not do, and are discussed below.

## Runs

| Run | Instance | Properties and what they show |
| --- | --- | --- |
| `model_manager` | two models, two requests, an unload and a shutdown, budget one, three loads | `LeaseSafety`, `LeaseAccounting`: leases are exact and protect runtimes. `RuntimesAccounted`: a runtime counts until it is closed, is never leased after a failed cleanup, does not survive shutdown. `CallsEnd`: loads and shutdown end |
| `session_limits` | paged: four pages of two tokens, two sessions with two rows; admission: three streams of two peers, one record | `PagesExact`: no page has two owners, a row reads what was written to it, a drained pool knows its sessions. `AdmissionExact`: counts, samples and rates. `FailsClosed`: an unhealthy authority stays so, admits no stream and registers no session |
| `session_waits` | cache: two sessions, three allocations; pushes: two handlers, one name used by four sessions, five pushes; client: four overlapping servers, three failures | `BytesExact`: counters and tensors are exact and within the limit. `PushesExact`: slots are exact, no push reaches a later session. `RepairsExact`: the chain stays tiled, a repaired session computes as if nothing had failed. `WaitsEnd`: allocations, the push budget and steps end |
| `serving` | three servers over five blocks; one handler, two containers; four tasks in two pools; a caller and two peers; backward and forward over four blocks; five layers sharing keys and values | `ServerSound`: nothing of one container runs when the next is made, a record under a block's key names a span with the block, a waiting runtime is fed. `RoutesTile`, `GradientExact`, `ConsumersFed`. `ServingEnds`: servers exit, callers are released, simulations terminate |
| `supervisor` | two workers in a pool that cannot always hold both, one failure, two events | `ProcessesKnown`, `VramWithinPool`, `ShutdownStopsAll`: no process is lost, none overcommits the pool, none outlives shutdown. `Resumes`: wanted workers do not stay stopped |
| `node_files` | two nodes on one config; a rotated and revoked identity; two installers, three ladders; three keys; four releases | `FilesSound`: what is enforced was on disk, demand is in signed order. `EditsSurvive`: no unlocked edit is destroyed. `NeverDowngraded`. `FilesUsable`: configs, keys and bundles load after any kill. `KeysImplementRegistry`: `ApiKeys` refines `KeyRegistry` |
| `node_services` | two desktops and a headless node; a window with two workers and two keys, two clicks, one act of another client and one lost request; two offers; three requests, one a stream; one discovery group with two DHTs; two workers and an acquirer on two files; servers of three layers | `ServicesSound`: one desktop, no DHT left, own demand not counted, only closed windows published, acquisitions exact, measurements clean, memory fits (one device, layers alike or blocks fixed), no policy overwritten unseen, no view going back. `ServesAnnounced`, `RuntimeHeld`, `ReadersKeepFiles`, `SecretKept`. `ServicesEnd`: every service comes to rest in a good state |
| `qualification` | the three workloads over two regions with two faults; three runs that do not fit under the ceiling together; the Fly gate with two faults; packaged run, document and download with one or two faults | `CloudClean`: what the evidence says of absence is true, and a run that passed left no credential and nothing that costs money. `FlyRecovers`, `HostLeftClean`: what these tools say of absence and recovery is true. `QualSound`: a plan's cleanup suffices from every prefix, one host at a time. `SpendBounded`. `EvidenceExact`. `RunsEnd`: paid hosts go, runs end |
| `runtime_budget`, `mc_two_processes`, `replay_history`, `loads_deadlock` | three models and a budget of two; two handler processes; a pickled guard; two workers on two files | violations, see below |

### Why the bounds suffice

Two models and one slot make every load compete; the races of the model manager
need a load, an eviction and a release, or an unload, of the same record.  Three
allocations let one session come back while another waits and a third message
is in the pipe.  Pages of two tokens with three tokens per row give full and
half-full pages and a copy of each in a reorder, and four pages are too few for
two sessions, so steps run out.  One record for two peers forces pruning, and
three ticks outlast a record's lifetime of two.  Four generations of one name
let a push outlive its session twice.  Servers with ranges [0,4), [0,2), [1,3),
[2,4) let a span be replaced by several and a replacement be replaced again; the
replay chunk of two makes longer histories take several requests.

In `serving`, spans of different lengths over five blocks leave windows of
different weight, and a move of one server changes what is best for another.
Two containers are the least for what one leaves to the next.  Four tasks with
two urgencies, one too large for a batch, are an order within a pool, between
pools and across a batch limit.  Two peers over two blocks with every pair of
ranges let a route be of one or two spans, or be impossible.  Five failures and
four blocks let a backward span fail, be run forward again, and fail there.

Two workers that together exceed the pool make a start depend on a stop, and
two events are a schedule that closes and opens again, or a request that meets a
crash or a turn of the schedule.  What longer sequences can do to a process is
proved, not checked.

In `node_files`, two edits and an update are the shortest race of an exchange and
its judgement; a clock of three outlives the lifetime of every record; two
installers with two faults let the second find what the first one's death left.
In `node_services`, two desktops hand over while a node that nobody owns holds the
port; one click opens a form, an act of another client changes what it was filled
from, and a second click starts or pauses both workers, with an answer lost in between; three requests, one a stream, of two models on three threads occupy all of
them while a load waits; two workers and an acquirer on two files that do not fit
together make eviction necessary.  In `qualification`, two faults are a failure
and a failure of what handles it.

No symmetry is used: the instances are small, and most runs check temporal formulas.
Deadlock is checked in the supervisor's runs, whose monitor never stops; in the
others a behaviour may end, and that it does not end too early is what their
liveness properties say.

### Fairness

* `ModelManager`: every thread inside a call goes on, and `loader()` and `close()`
  return or raise.  A client releases its lease: without that a full node waits
  for ever, as the code's untimed wait says.
* `MemoryCache`: the event loop runs every ready coroutine, the runtime reads its
  pipe while there is work, holders free what they hold.  `ActivationPush`: the
  loops and listeners together go on.  `InferenceSession`: the caller's thread runs;
  closing a stream ends, and `max_retries` is finite.  Its default, None, retries
  without end, and no step would then have to end.
* `WorkerSupervisor`: the monitor runs, a killed process ends, back-off delays pass
  (weak).  Threads that wait for the lock get it in the pauses between the
  monitor's rounds, although it is taken again and again (strong).
* `MCServing`: the server's main, announcer and container threads, the client's
  update thread and a simulation under way go on (weak).  Peers, failures and
  callers are free.
* `MCNodeServices`: threads, timers and coroutines go on (weak); a node that was
  started binds its port or ends.  Discovery's group threads get the I/O lock that a
  publisher takes and gives back (strong).  Of a measured child nothing is
  assumed: it may hang.  A generation ends, as the executor's jobs do.
* `MCQualification`: the tool keeps going unless it is killed, the provider enforces
  the maximum run duration and carries out or drops what it was asked.

Every liveness property is of the form "always again" or "in the end for ever",
with the number of faults, requests and edits bounded: it says that each part
recovers once the environment falls silent, not that it does so under a
perpetual storm.

### Refinement

`KeyRegistry` says what the API key store promises: a key is unknown, then active,
then revoked; never the other way; and the last active key is not revoked.
`ApiKeys` has the records in memory, what they were before a change that may have to be
undone, the key file and the bootstrap secret's own file, with failing writes and
kills between any two steps.  Its mapping takes a key's status from the file; `KeysImplementRegistry`
checks that every step, crashes and failed writes included, is one step of the
registry or a stutter.

## Proofs

Every theorem holds for all values of the module's constants that its named
assumptions allow; there is no bound on threads, models, workers, streams, keys
or files other than that the sets are finite where they are counted.  The proofs about
the model manager and the supervisor have modules of their own, those about the two caches,
about what a session meets on a worker and its client, about a swarm that serves a model,
about a node's files and services, and about the release tools share one each.
Each component has one inductive invariant, a lemma for each of its conjuncts with one case per
action, and a temporal theorem that puts them together.  TLC checked each invariant on an instance before it was proved.

| Theorem | States | Under |
| --- | --- | --- |
| `ModelManagerProofs`: `TypeCorrect`, `AccountingCorrect`, `LeasesSafe` | `TypeOK`, `LeaseAccounting`, `LeaseSafety` | any budget |
| `ModelManagerProofs`: `OneRuntimeAccounted` | `RuntimesAccounted` | a budget of one, the default |
| `WorkerSupervisorProofs`: `EveryProcessKnown`, `PoolSuffices`, `ShutdownLeavesNone` | `ProcessesKnown`, `VramWithinPool`, `ShutdownStopsAll` | any pool and launches |
| `SessionProofs`: `WorkerIsGuarded`, `UnhealthyStaysClosed` | counts, samples, health and the global rate; `FailsClosed` (health, streams and session routes, not samples) | the policy's own checks |
| `SessionProofs`: `AdmissionIsExact` | `AdmissionExact`, with each peer's rate | one session per peer, or records that outlive a late release |
| `SessionProofs`: `PushesAreExact` | `PushesExact` | any handlers, names and limits |
| `CacheProofs`: `CountersExact` | `Accounting`, `TensorsExact` | any handler processes and sessions |
| `CacheProofs`: `BytesAreExact` | `BytesExact`, with the limit | one handler process, the default |
| `CacheProofs`: `PagesAreExact` | `PagesExact` | any pool, slots, rows and tokens |
| `CacheProofs`: `CacheTypesHold`, `PagedTypesHold` | `CacheTypeOK`, `PagedTypeOK` | any handler processes, pool and sessions |
| `SessionProofs`: `RepairsAreExact`, `SessionTypesHold` | `RepairsExact`, `SessionTypeOK` | any servers, model, chunk and number of failures |
| `SessionProofs`: `DroppedSessionsExact` | `CachesExact` | a caller that drops a session which raised |
| `SessionProofs`: `SessionsAreTyped` | `SessionsTypeOK`, of the composition | all the above, any parts |
| `SessionProofs`: `SessionsKeepPromises` | `PagesExact`, `PushesExact`, `RepairsExact`, `FailsClosed`, of the composition | all the above |
| `SessionProofs`: `SessionsKeepLimits` | `BytesExact`, `AdmissionExact`, of the composition | one handler process; the hypothesis of `AdmissionIsExact` |
| `ServingProofs`: `GenerationsAreClean`, `RecordsAreTruthful` | `CleanGenerations` (what runs, not what the DHT holds), `RecordsTruthful` (the span, not the state) | any handlers, spans and faults |
| `ServingProofs`: `RuntimeIsFed` | `RuntimeFed` | any pools and tasks |
| `ServingProofs`: `RoutesAreTiled` | `RoutesTile` | any blocks, peers, callers and tables |
| `ServingProofs`: `GradientIsExact`, `TrainTypesHold` | `GradientExact`, `TrainTypeOK` | any model, retries and number of failures |
| `ServingProofs`: `ConsumersAreFed` | `ConsumersFed` | any model and cuts; steps that are merged |
| `ServingProofs`: `ServingIsSound` | `ServerSound`, of the composition | all the above, any servers and swarm |
| `ServingProofs`: `ServingKeepsPromises` | `RoutesTile`, `GradientExact`, `ConsumersFed`, of the composition | the last for steps that are merged |
| `QualificationProofs`: `CeilingHolds` | `SpendBounded` | any proposals |
| `QualificationProofs`: `FlyAlwaysRecovers` | `FlyRecovers`, of the composition | any number of faults |
| `QualificationProofs`: `HostIsLeftClean` | `HostLeftClean`, of the composition | any faults and window acts |
| `QualificationProofs`: `EvidenceIsExact` | `EvidenceExact`, of the composition | one disturbance of the host, two downloads of a package |
| `QualificationProofs`: `PaidRunsClean` | `CloudClean`, of the composition | any workload, one or two regions, any number of faults |
| `QualificationProofs`: `QualAlwaysSound` | `QualSound`, `SpendBounded`, of the composition | the same; any runs, proposals and window acts |
| `NodeProofs`: `StoreIsRegistry`, `KeysAreDurable` | `KeysImplementRegistry`, `VerifyIsDurable` | any secrets |
| `NodeProofs`: `NoEditLost`, `PolicyIsEnforced` | `EditsSurvive`, `DiskIsEnforced` | one store or more, any policies; of the file, no torn exchange and no I/O error on the displaced document |
| `NodeProofs`: `NoDowngrade`, `ConfigComplete` | `NeverDowngraded`, `ConfigUsable` | any catalogs, ladders, trust roots and mirrors |
| `NodeProofs`: `DemandStaysOrdered` | `DemandOrdered` | any keys, lifetimes, skew and restarts |
| `NodeProofs`: `BundleIsKept` | `PublishedLoads` | any releases |
| `NodeProofs`: `FilesAreSound`, `FilesStayUsable` | `FilesSound`, `FilesUsable`, of the composition | all of the node's files above |
| `NodeProofs`: `FilesKeepPromises` | `EditsSurvive`, `NeverDowngraded`, `KeysImplementRegistry`, of the composition | the same |
| `NodeProofs`: `ReadersAreSafe`, `AcquisitionIsExact` | `ReadersKeepFiles`, `AcquisitionExact` | any files, sizes and disks |
| `NodeProofs`: `RuntimeIsHeld`, `PublishedIsClosed` | `RuntimeHeld`, `OnlyClosedPublished` | any requests, models and threads |
| `NodeProofs`: `AnnouncedBeforeServed`, `PlacementIsTyped` | `ServesAnnounced`, `PlacementTypeOK` | any offers and losses |
| `NodeProofs`: `SecretIsKept`, `OneInstance`, `DesktopIsTyped` | `SecretKept`, `OneDesktop`, `DkTypeOK` | any desktop processes |
| `NodeProofs`: `WindowIsSound` | `WindowSound` | any slots, keys, acts and lost requests |
| `NodeProofs`: `DiscoveryIsSound` | `NoDhtLeft`, `OwnDemandExcluded` | any groups, models and faults |
| `NodeProofs`: `AcceptedMeasurementIsClean` | `AcceptedIsClean` | any faults |
| `NodeProofs`: `ServersFit` | `MemoryFits`, `ManifestServed` | any model and arguments; the first for one device, and fixed blocks or layers with equal caches |
| `NodeProofs`: `ServicesAreSound` | `ServicesSound`, of the composition | all of the services above |
| `NodeProofs`: `ServicesKeepPromises` | `RuntimeHeld`, `ServesAnnounced`, `ReadersKeepFiles`, `SecretKept`, of the composition | the same |

**Model manager.**  `LeaseSafety` is not inductive.  That an eviction or an unload picks
a record with `active = 0` says that nobody holds a lease only if the count is exact,
hence `LeaseAccounting`.  That the record's runtime is not leased by way of another
record, and is not the one another thread is about to publish or to close, needs to
know where every runtime is referred to: `References` says that a runtime belongs
to the record it was made for and that the threads that hold it do so in the phases
where they may.  `ProgramCounters` says which thread may be where and what it has in
hand there.

`RuntimesAccounted` is false for larger budgets (run `runtime_budget`), so its
theorem has the hypothesis `MaxLoaded = 1`, which is the default of
`max_loaded_models` (`node/config.py:583`).  `BudgetInv` says why one is enough: at most
one runtime exists or is being made (`OneRuntime`); its record counts as resident
until it is closed, so that there is room for no other (`Counted`); a runtime that
failed to close keeps its record out of reach (`Quarantined`); an open one is in its
record or with the thread that publishes it (`Owned`); and shutdown leaves none
behind in a record it has visited (`Visited`).

**Worker supervisor.**  `StepCases` shows that each of the many steps, seen from the
processes, is one of two kinds: it starts none and forgets only processes that have
ended, or one worker that does not run starts a process of its own, within what the pool
has left.  From this follow that a running process is the one its record names
(`Known`), and that the sum of the running launches grows only by what was free.
`ShutdownStopsAll` needs to know about suspensions that were under way when shutdown
began: each is the last for its process (`JoinsLast`), so the workers that shutdown has
been through stay stopped (`Sweeps`).

**Sums.**  The induction theorems of the library take an operator as a parameter, which no
installed prover can instantiate.  `SubsetInduction` states the same with a set of sets,
by well-foundedness of the strict subset ordering, and `SumTheorems` derives from it
what a sum over a finite set does when one term changes or the set grows.

**Admission.**  A rate is about the whole past; a record has only a number of tokens.
`Within` joins them: counted from any instant, the streams admitted since and the
tokens left are worth no more than the burst and what the rate has given since.  A
refill, an admission and the pruning of a record keep it, the last because a bucket
as old as that would be full.  That is where the hypothesis of `AdmissionIsExact` comes from.
`AdmissionPolicy` requires (`server/admission.py:94`) that a record lives as long as its
bucket takes to refill, but `_release` stores as `last_seen` the time it read before
it waited for the lock, so a record can be pruned earlier than that by the length of the
wait.  With this check alone and two sessions per peer TLC finds a peer that exceeds
its rate after 22 steps.  The theorem asks for one session per peer, or for
`PeerRate * (PeerTtl - MaxStall) >= PeerBurst * Unit`; the default policy (a burst
that refills in four seconds, records that live for 300, a lock that is waited for at most
one) satisfies the latter.  `WorkerIsGuarded` needs no such hypothesis.

**Activation pushes.**  To the pushes that exist and to their count every step is one of four
kinds (`HeldCases`): nothing, one more of both, one less of both, or a push that passes from
one handler to another.  A lost release makes the authority unhealthy, and then nothing is
claimed.  A loop that has a push in hand owes no slot (`OneAtATime`), so none is given back
twice, and the count covers what is owed (`OwedIsCounted`), so no release finds it at zero.
The other way to poison the authority is a route that is not one's own; `Owns` says that a
registered session's route names its handler and its generation, so `FinishSession` always
finds it.  A name gets a new generation only where it has no session, and its queue is empty
then, as a queue holds nothing but its session's generation (`NoStaleDelivery`).

**Inference session.**  `SessionInv` has three parts.  `Types` and `Placed` hold always: the
chain covers the blocks, its sessions hold what they have cached, and the index, the block
to repair from and the phase fit each other.  `Clean` holds until a call raises.
It says that the spans which have answered the step under way hold it (`AnsweredHold`);
that those to be asked hold the text before it or, if they replace a failed span, nothing
yet (`OthersAwait`); that a failed span leaves its history with the step's tokens at the
end (`Broken`); and that the next one is in step, or new with the whole text to be
replayed to it, from its own history or from what the span before it answered (`Ready`).
A repair replaces one span by a route
of new ones.  That the result is again a tiling, and that the replayed prefix is
cut off where the replaced span ended, needs to know that no span of a tiling overlaps a
later one (`TilesInOrder`), which is proved by taking the least later span that it
overlaps.  After a step has raised `Clean` is false, and what then goes wrong is below;
`DroppedSessionsExact` shows that it takes a caller that goes on with the session.

**Server lifecycle.**  Each container's threads share a `ServerInfo` and the flags of the
server.  `PartsFit` says, by the place of the main thread, what of the container there is:
handlers, pools and the announcer are gone before another one is chosen, although shutdown
runs in threads that may die on the way.  `KeysFit` says that while an announcer runs its keys
are those of the span in `ServerInfo`, from which every record it sends is put together in several
reads; records stay truthful for that reason.

**Task pools.**  The runtime chooses a pool by a token in its pipe and then takes a task from its
queue, so a token without a task would block all pools.  A handler puts the task first and
sends the token afterwards, and may die in between: `Counted` says that tokens and tasks put but not yet
counted never exceed the tasks that are queued.  `Covered` adds that a queue has each of its tasks
once and that a stop message is the last.  Stamps are distinct (`Stamped`), so that a batch
takes the foremost tasks and leaves the others as they were.

**Routes.**  `RouteInv`: the tables hold only announcements of allowed peers (`TableFits`), and
what a caller has built so far is contiguous from the first block (`Contiguous`); a
caller that has its route has come to the last (`Arrived`).  The table may change between two
hops, as a hop only depends on where the one before it ended.

**Training.**  `TrainInv`: in the backward pass the gradient has come back to some block,
and the spans that are kept tile the blocks before it, each with the input it had
(`BackTo`, `Took`).  A backward request that failed runs a forward pass from where its span
begins (`Underway`); what that pass took tiles the span, so that its spans but the last
continue the kept ones (`TookBoth`) and its last one is the next to go back through.  The
requests' results are sequences of blocks; that two runs over adjacent blocks join to one
is proved for any length (`ForwardJoins`, `BackwardJoins`).

**Shared keys and values.**  `KvInv`: what the client carries, and the dictionary of the
span under way, have the keys and values of this step for every donor that has been
passed, and nothing of another step (`FedTo`).  The assumption on the model is that a
sharing layer has a donor before it (`DonorsFirst`).  The theorem is about merged steps;
in longer ones a consumer may go without (see below).

**Attention cache.**  `CountersInv` says what is on its way through the pipe: the
tensors the runtime will have once it has drained the pipe are those of the handles that
are held (`LiveInPipe`), and no message or tensor repeats a handle.  That needs no
hypothesis.  The limit does: between the check and the counting the lock is not held, and
two handler processes can both pass (run `mc_two_processes`).  A server has one by
default (`server/server.py:118`, `cli/run_server.py:131`), and in one process nothing is
scheduled between the two, so `BytesAreExact` has the hypothesis `OneHandler`.  `LimitInv`
says that whoever has passed the check is alone (`GrantedAlone`) and still fits
(`GrantedFits`).  For the memory itself it needs `BacklogFits`: draining any prefix of the
pipe leaves tensors within the limit, since a free is sent before its bytes are counted
free and so stands before every creation that used them.

**Paged pool.**  `PoolInv` adds to `NoSharing` what `GatherExact` rests on: every row has
pages for its tokens (`RowsFit`), and each token is at the page and offset where gather
looks (`TokensKept`).  An operation pops pages in the order of the rows, each once
(`FreshFacts`), and fewer when the pool runs out (`GotFacts`).  `StoredFacts` says that
storing through a table whose rows share nothing writes every token to its own place and
leaves other slots alone; `ReorderKept` that a copied row reads the pages its source had
before the reorder, although the source's own pages may move to another row in the same
step.  `PipeExact` says that the messages under way are the difference between what sessions
did and what the pool knows, which is why a drained pool knows exactly the open ones; and
`CounterStored` with the cardinality of the pages in use gives the counter's part.

**Compositions.**  A step of an `MC` module is a step of one part and leaves the variables of the
others alone, so it is a step or a stutter of every part (`SessionsParts`, `ServingParts`,
`FilesParts`, `ServicesParts`), and a behaviour of the whole is one of each part.  The
theorems about `SessionsTypeOK`, `ServerSound`, `FilesSound`, `FilesUsable` and `ServicesSound`, and
those whose names end in `Promises` and `Limits`, follow from those about the parts.

**API keys.**  `KeysInv` says that memory and file agree except during a write, when the
file still holds what `before` remembers and the records differ from it by one permitted
change.  With it every step that changes the file is a step of `KeyRegistry`.

**Policy store.**  A store decides what to do with an update by comparing what its exchange
displaced with the revision it accepted.  `CandidateFits` says why two cases are enough:
the sidecar lock keeps other stores away from the check to the judgement, so the displaced
document is the expected one or the last edit from outside.  `EditHeld` follows the edit
from the file through the temporary file back, into a file left for recovery, or into a
committed update that was based on it.

**Catalog.**  One installer is under way (`OneInstaller`), so its copy of the rollback
state is the file until it writes the file itself (`InHand`), and it writes that before
the config: the catalog activated last is never ahead of the rollback state.  The order of
models that is rendered into the config is sorted by rung, then primary, then position
(`Ahead`), while `select_highest_eligible_model` searches the catalog rung by rung.  That both
pick the same model, whichever are eligible, is `OrderPicksHighest`: `Ahead` is a strict
total order, so by the pigeonhole principle every position of the order is taken by exactly one
model (`PriorityIsSorted`), and the first eligible of them is ahead of all other eligible ones.

**Replay history.**  `Remembers` holds of the discovery thread's guard and of the shared
file: for each demand scope it has the highest mark accepted, or that mark's time is
over.  The step that matters is a record without a mark (`DemandInOrder`): a mark lasts as
long as the longest-lived record issued with it, so a record that has not expired was
issued later.  The same is not true of announcements (run `replay_history`).

**Publication.**  `BundleInv`: a backup exists only between the two renames, when the
target does not; what is swapped in has been loaded.

**Artifact store.**  `LockExclusive`: who is between taking and returning the exclusive
lock is its holder, there is then no reader, and who loads is a reader.  So the steps
that remove or publish files happen while nobody loads; promotion, which takes no
cache lock, never replaces a file that is there with another.
An acquisition has its cache for itself.  `AcquirerFits` says that what it has handled is
verified in its own snapshot and what it has just written is not yet there; `OwnFits` that a
file that is there has left no partial.  A crash takes the process and nothing of this.

**Gateway.**  A job is in the executor's queue or on a thread, and only once (`PendingOnce`,
over lemmas about what appending, taking and cancelling do to the queue); the phase of a
request says which of its jobs may be pending (`PhasesFit`), and a pending generation has
its lease.  A stream whose answer is built is "responding" until its generator is first run;
one cancelled there is "lost" and keeps its lease.  All leases are of the resident model
(`LeasesResident`), and a load that would replace it waits until there is none.

The semaphore wakes waiters in their order; `GateFits` counts permits and holders
together and says that the queue has each waiting request once.  `TrackerFits` is about
the windows: they are at most two, of different numbers, none is in the future, and attempts
recorded and to be recorded are no more than the requests.  A record reads the time before it
takes the lock, so it may come for the window before the last one; that what is published is
over follows from the numbers, whatever the order in which windows were opened.

**Placement.**  A decision moves from the proposal through the registry into a launch and
to the worker.  `PlacementInv` says that it is announced before it leaves the proposal, so
that no request, lost answer or restart in between can carry an unannounced one.  `PlacementTypes`
adds that a plan names a model of the policy and one of its ranges, all the way.

**Desktop.**  Who listens or has a window holds the instance lock; a process that has
neither crashed nor a window has no live node; the port is held by a node that has bound it,
not by one that still boots; and what a process remembers as migrated is in the native
store (`DesktopInv`).  `SecretKept` is an action property that follows from the last.

**Window.**  Refreshes run in threads of their own and end in any order.  `TasksInv` says that at
most one is under way and that the snapshot it carries is no older than what is shown and no newer
than the node is, so a later one never overwrites a newer view.  An edit is sent with the
revision that it was made on; another client's change raises the revision, and the edit is refused.

**Discovery.**  `OneDht`: the only DHT of a group that may be up is the one its thread has
registered; the close takes over what the threads have not given back.  `OwnKnown` says that
a node which reports had its own key excluded before anything it published could be read back.

**Edge measurement.**  `SeenEmpty`: the supervisor has proved the container empty only when the child
is gone and no process lives, and `Decided` that it passes a record only after that, with
a result that was closed and not forced.

**Server sizing.**  `CountFits` says that a count which was chosen fits whatever blocks it will
mean, because each is counted like the largest (`LargestIsLargest`, `EstimateCovers`), and `CacheFits` that the
cache budget is what the caches of any range of that size need; so it survives a move to other
blocks.  Allocations stay in the budget (`RangeFits`).

**Cost guard.**  Two rows that are copied side by side may commit more than the ceiling
together, so the committed total is not bounded.  What is spent is: a run is started
only by who has read that the total is within the ceiling, and `RowsExact` says that a
row commits at least what its run costs or may cost, whatever state it is in.

**Paid hosts.**  `CloudInv` has ten parts, each about all stages.  `WorkClean`: a run works on only
while nothing is in flight, because a create that was given up raises; so while it creates,
what exists is what the commands so far have created.  `Things`: an instance has its disk, a NAT its
router, and nothing else than the plan names exists.  `Seen`: what a check found absent and
exists has come late.  `HostsFit`: a fleet has no host but that of its phase.  `CalmFits`, for a
cleanup that no fault has hit and with nothing in flight: what it has deleted is gone, and
what it has checked is absent.  `PassFits` says what a pass and a report rest on.  That the
cleanup is then sufficient is about the plans, row by row: whatever would make the provider refuse a
delete goes in an earlier row (`PlanCleans`), a router is not created after its NAT
(`PlanCreates`), and the checks look for nothing but what the cleanup deletes, and for everything
that a run may create but what the cache run keeps and the NATs, which cannot be without
their routers (`PlanVerifies`).  The two regions differ
(`RegionsAssumption`), as `_gcp_plan` requires (`qualification_cost_guard.py:1289`).

**Fly gate.**  `FlyStages` says where the state file stands at each stage and that a create
that was given up can only land while the file does not know every machine; `FlyVerdicts`
says what a verdict rests on, `FlyCleanup` what the scans have established so far.

**Packaged run.**  The program is a concatenation of sixteen phases.  Each position has a
mark: fresh, product off, product up, token cleared.  `Fits` says that a sequence of
operations leads from a mark to a mark, and composes (`FitsConcat`), so that the marks of the
whole follow from those of the phases; an invariant with one case per position is avoided.
`PkGoesOn` says what the mark promises while the run goes on, `PkKnown` what the finally
block adds, step by step, when it has failed or passed.

**Document.**  `Shows`: a disturbance of what must be kept is visible in the host, or in how
its secrets differ from those of the record that is compared next, until that record is
refused.  That is false with two disturbances, where the second can undo the first; the
theorem has the hypothesis `MaxDisturbances <= 1`.

**Download.**  `NamesOwned` says that a name leads to a file that its maker has not yet
taken away, `PartialHeld` that two invocations never hold the partial together.  The second
needs `AtMostTwo`: with three the property is false, see below.

Only model-checked are

* all liveness (`CallsEnd`, `WaitsEnd`, `ServingEnds`, `Resumes`, `RunsEnd`,
  `ServicesEnd`): fairness and ENABLED are beyond the prover;
* everything about violations.

## Where the code and its documentation disagree

Four disagreements have a run that exhibits them; `PROJECT.json` quotes the
documents under `findings`.

* `runtime_budget`, `node/model_manager.py:385`.  With a budget of two, an eviction
  closes its candidate's runtime without the candidate's load lock.  While it does, the
  loader of another model raises, and a load of the candidate makes its record "loading"
  again: the record now counts once for two runtimes.  A second load of the other model
  finds a slot, and there are one closing runtime and two loaders, where
  `docs/NODE_CONFIG_V1.md:161` speaks of a hard limit.  The eviction has not come back
  from its close then, so what it writes afterwards (line 398) plays no part.
* `mc_two_processes`, `server/memory_cache.py:176`.  Free bytes are tested under
  the lock and the bytes are counted after it, so two handler processes can
  both pass.
* `replay_history`, `node/discovery.py:545`.  The lookup checks announcements with a
  pickled copy of the replay guard.  What the copy learns is lost, and the
  discovery's own guard writes its older map over the shared history, so an
  announcement older than an accepted one is accepted.
* `loads_deadlock`, `server/from_pretrained.py:282`.  A worker that re-checks its file
  under the shared lock on `blocks.lock` opens that lock a second time for
  exclusive use when the file was evicted meanwhile.  It waits for itself, and all
  other workers of the machine wait for it.  `ServicesEnd` excepts exactly this
  state (`ReaderWantsWriter`).

The following were met on the way.  The models contain them; where a property is
named that no run lists, the module states it and an instance with that property
as INVARIANT shows it violated.

* `node/model_manager.py:388` and 400, again with a budget of two or more: a failed
  eviction puts its runtime back over one that was loaded meanwhile, which shutdown
  then never closes (`ShutdownReleasesAll`); a successful one clears the quarantine mark
  of a record that meanwhile failed its cleanup.
* `server/memory_cache.py:170`: the allocation timeout fires while an executor thread is
  blocked on the lock.  The thread takes the lock later and nobody returns it.
  Or it fires while the thread waits for memory (lines 199-213): the coroutine returns
  the lock, and the thread goes on waiting, wakes up with a later caller's event and
  clears it.  `AllocationsEnd` therefore excepts a lock that is lost in the first way
  (`Ghost`) and a wakeup that is taken in the second (`NoWakeupTaken`); the threads
  left behind are `strays`.  Line 168: a
  call with timeout zero still waits for that lock (`tests/test_cache.py:77` says it
  should "fail (or succeed) instantaneously").
* `server/memory_cache.py:515`: a reorder that runs out of pages half way leaks those it
  has taken; `PagesExact` bounds the pages in use by the counter.  Lines 358 and 364:
  a paged free is applied at the next step of some session, and waiters are woken
  before the counter is stored.  When the last session of a full pool ends, no step
  follows and no session is admitted.
* `server/admission.py:357`: `_release` writes the time it read before the lock over a
  later one.  With two or more sessions per peer a record can be pruned too early
  and its bucket starts full (see "Proofs").  With one per peer, as checked, both rates
  hold.
* `client/inference_session.py:162` (`CachesExact`).  After a step raised, the failed
  span's history holds the input of that step; the next step replays it in place of
  its own (line 60 has the opposite contract).  Line 514: the spans before the failure
  have advanced; the assertion at line 528 fails for them in the next step, and a
  server is blamed.
* `node/worker_supervisor.py:527` (`IntentRetained`).  The schedule closes between the
  monitor's reading of it and the spawn: the intent is dropped and the exception ends
  the monitor thread (`docs/NODE_CONFIG_V1.md:131-134`).  Line 372: a start of a
  running worker just after its window closed takes back the intent and leaves the
  process running.  Line 626: a pause that joined an older suspension gives up on a
  process that was started meanwhile.
* `server/server.py:1071` (`OfflineAnnounced`): an announcer that was about to store a
  record when `shutdown()` announced OFFLINE stores it afterwards (line 1187); an
  interrupt during shutdown abandons it (`cli/run_server.py:43`).
* `server/server.py:424` (`BudgetHolds`): for models whose layers have different
  caches, the number of blocks that was sized for one placement is used for another
  (`docs/REVIVAL_TEST_RESULTS.md:1184`); and with several devices the cache budget counts
  the blocks of the busiest one.  `MemoryFits` says it for one device and layers with
  equal caches.
* `server/block_functions.py:208`: the comment says that the dictionary of shared keys
  and values is "shared by reference across all backends in this span".  For steps
  too long to be merged (`LongSteps`), lines 266-283 send it block by block through a
  queue that copies it and do not put back what a donor produced, so that a consumer of
  the same span does not find it (`ConsumersFed` holds without such steps).
* `client/routing/sequence_manager.py:404`: the servers of the first block that were
  chosen to be pinged are overwritten by those of the middle blocks.  An update under way re-adds a peer that
  was banned meanwhile; a caller waits for ever when the manager is shut down.
* `api/server.py:11` (`ConcurrencyRespected`): a cancelled request gives up its place
  at the semaphore while its thread still generates.  With as few executor threads as
  generations, requests that wait for a load occupy all of them
  (`docs/REVIVAL_TEST_RESULTS.md:715`); the instance has one more.  Lines 387-390 and
  447-450: the lease of a stream is handed to an async generator, and its finally
  (325-333) is what releases it.  A request that is cancelled after its load and before the
  generator's first iteration never runs it: the lease stays for ever, loads of
  other models wait for it, and when they occupy every thread, so does everybody.
  `RequestsOver` excepts exactly these (`Lost`, `Stuck`); without the exception TLC finds
  the leak.
* `node/edge_supervisor.py:81`, 293-308 and 419: on POSIX closing the containment does
  nothing, and where the child refuses its input nobody asks whether the forced exit
  succeeded, so that a process may survive (`docs/EDGE_RESOURCE_ENVELOPE_RUNBOOK.md:117`).
  No record of such a run is accepted, as `AcceptedIsClean` says.
* `model_manifest.py` (`CeilingRespected`): verified files outside of the Hub cache are
  not counted under its ceiling (`docs/adr/0003:85`).  `node/edge_acquisition.py`: a crash leaves a
  non-empty acquisition cache, which refuses every retry.
* `cli/run_node.py:853` (`NoStartWhileOff`): a policy update that turns sharing off
  writes the file first, and a round under way may still start the worker
  (`docs/REVIVAL.md:986`); it is stopped again, as `SharingSettled` says.
* `node/policy_store.py:235`: a third edit, made while an exchange is judged, is
  displaced; an I/O error at line 234 deletes the displaced document unread.
  `node/catalog_bootstrap.py:577`: a crash leaves the install lock, which refuses
  every later installation.  `catalog_release.py:604`: a crash between the renames
  leaves no bundle at the target, and `--force` cannot replace an expired one.
  `node/keys.py:268`: an empty secret file refuses every start; two nodes that share a
  key file can bring a revoked key back.
* `scripts/gcp_public_route_lifecycle.py:1690`: credentials count as removed after a
  `cleanup-registry` that removes less than `docs/PUBLIC_ALPHA_OPERATIONS.md:175` asks
  for, and after a second interrupt in the finally clause the evidence carries the value
  that `registry_credentials_removed` was given at first, True (lines 1848, 2098-2131).
  `CredentialsRemoved` computes both, so no property trusts what the evidence of a run
  that failed says of credentials: `CloudClean` speaks of absence and of runs that passed.
  The second interrupt also skips the provider's cleanup, and a create that was given up
  may land after it: then only the maximum run duration ends the host, which is what
  `RunsEnd` rests on.
* `scripts/fly_qualification_adapter.py`: a SIGKILL in provision leaves machines that
  only the run's tag finds, and a second cleanup after a partial one cannot prove
  the destruction.
* `scripts/gate13_linux_packaged_lifecycle.py:1963` (`CleanHostPasses`) requires three
  secrets where the earlier phases leave two, so that no undisturbed run passes
  (`docs/PACKAGED_ALPHA_OPERATIONS.md:257`).  867-902: a unit that appears after its
  wait was given up is not stopped.  The reinstallation compares counts, so that a
  secret that is lost while another appears goes unnoticed (with two disturbances).
  `scripts/gate13_download_artifact.py:353`: with three invocations on one target, the
  finally block of one removes the partial of another by its name, the third makes its own
  under that name, and the second commits it before it has been hashed (`PackageExact` fails
  after sixteen states; two invocations are safe, `EvidenceIsExact`).  `_remove` (287-293)
  may raise, and then the partial is not removed (356-357); the model's unlink works.
* `desktop/.../pyside_shell.py`: `aboutToQuit` gives back the instance lock before the
  node has stopped, so that the next desktop meets a port that is in use and retries.
  A pause is answered when the process has ended, for which the node waits up to twice
  the configured timeout of ten seconds by default and the client five
  (`client.py:402`): "Pause sharing" then stops after the first worker with an error
  while the node goes on.  A failed key operation shows the whole window as offline
  (line 733) until the next refresh.

## What is not modelled, and why

Tensors, hashes, signatures and network formats are values that are equal or not.
Logging, counters for display and the wording of errors are left out, as are
descriptors and snapshots that only read, except where reading changes state
(`snapshots` of the supervisor).  Of the components marked "partly": how a handler
turns a request into tasks and how it shuts down; the two searches of
`make_sequence`, which are one choice of a span per hop; the coverage computation
and the peer cache of discovery; layout and the login entry in the desktop.

Not modelled: model families, weight conversion and generation on the client
(numeric code); server measurements (inputs of other models); the node's other HTTP
requests, command lines and configuration parsing (wiring and validation, whose
effects are actions of the modules they call); process and registry utilities
(operating-system glue, the environment of the models); desktop packaging and
updates (build scripts).

What the models leave free: the DHT is a set of records that a lookup may miss;
an operator of the paid tools may do the documented steps in any order, but does not
edit state files; a clock that is read twice in one critical section is read once.

## Plan

Every component of the inventory that has a protocol has a module and a run, and every
invariant, action property and refinement of a passing run is a theorem about the specification that
the run explores, for any constants or under the hypotheses named above.  What is left is liveness, which stays with TLC, and more of the code: the
components that are marked "partly" or "not modelled" in the inventory.
