---------------------------- MODULE ServerLifecycle ----------------------------
(***************************************************************************)
(* server/server.py: a server runs one module container after another,     *)
(* each with an announcer thread that declares the blocks in the DHT, a    *)
(* thread that starts the connection handlers and runs the runtime, and    *)
(* the processes behind them.  Loading fails, parts die or never become    *)
(* ready, records expire, and a signal may interrupt the main thread at    *)
(* any step.  The announcer reads the shared ServerInfo several times per  *)
(* declaration.                                                            *)
(***************************************************************************)
EXTENDS Integers, FiniteSets

CONSTANTS
  Handlers,       \* connection handlers of a container
  SpanChoices,    \* the sets of blocks that block selection may return
  MaxContainers,  \* bound on containers started
  MaxServerFaults \* bound on failures of any kind

ASSUME LifecycleAssumption ==
  MaxContainers \in Nat /\ MaxServerFaults \in Nat /\ Handlers # {} /\ {} \notin SpanChoices

VARIABLES
  spc,       \* the main thread
  again,     \* the server will run another container
  info,      \* the shared ServerInfo: state and blocks
  apc,       \* the announcer thread
  auids,     \* the block keys it declares
  signed,    \* the state covered by the signature it made last
  sending,   \* the record on its way to the DHT
  dht,       \* the record under each block key
  loaded,    \* blocks with live backends
  cpc,       \* the container thread
  up,        \* handlers that run
  pools,     \* the task pools run
  ready,     \* the runtime is ready
  manager,   \* the admission manager runs
  health,    \* what the health file says
  containers, sfaults

serverVars == <<spc, again, info, apc, auids, signed, sending, dht, loaded, cpc, up,
                pools, ready, manager, health, containers, sfaults>>

Uids == UNION SpanChoices
NoEntry == [state |-> "NONE", signed |-> "NONE", blocks |-> {}]

ServerInit ==
  /\ spc = "choose" /\ again = TRUE
  /\ info = [state |-> "JOINING", blocks |-> {}]
  /\ apc = "none" /\ auids = {} /\ signed = "NONE" /\ sending = NoEntry
  /\ dht = [b \in Uids |-> NoEntry]
  /\ loaded = {} /\ cpc = "none" /\ up = {} /\ pools = FALSE /\ ready = FALSE
  /\ manager = FALSE /\ health = "none" /\ containers = 0 /\ sfaults = 0

(* The announcer thread. *)

announcerVars == <<apc, signed, sending>>
containerVars == <<loaded, cpc, up, pools, ready, manager>>

\* The head of the loop: pings the servers of the next blocks unless it is going
\* offline; what it reads of the DHT may fail and end the thread.
Ping ==
  /\ apc = "ping"
  /\ \/ apc' = "sign" /\ UNCHANGED sfaults
     \/ info.state # "OFFLINE" /\ sfaults < MaxServerFaults
        /\ apc' = "failed" /\ sfaults' = sfaults + 1
  /\ UNCHANGED <<spc, again, info, auids, signed, sending, dht, containerVars, health, containers>>

\* create_worker_announcement() signs signed_payload(), the state as it is now.
Sign ==
  /\ apc = "sign" /\ apc' = "declare" /\ signed' = info.state
  /\ UNCHANGED <<spc, again, info, auids, sending, dht, containerVars, health, containers, sfaults>>

\* declare_active_modules() hands the ServerInfo to the DHT process, which gets
\* a copy of what it says now.
Declare ==
  /\ apc = "declare" /\ apc' = "store"
  /\ sending' = [state |-> info.state, signed |-> signed, blocks |-> info.blocks]
  /\ signed' = "NONE"
  /\ UNCHANGED <<spc, again, info, auids, dht, containerVars, health, containers, sfaults>>

\* _declare_active_modules(): the DHT process stores the copy under every key.
Store ==
  /\ apc = "store" /\ apc' = "check"
  /\ dht' = [b \in Uids |-> IF b \in auids THEN sending ELSE dht[b]]
  /\ sending' = NoEntry
  /\ UNCHANGED <<spc, again, info, auids, signed, containerVars, health, containers, sfaults>>

\* The declaration is done: stop when going offline, else publish the model and
\* wait for the period or the trigger.
CheckState ==
  /\ apc = "check"
  /\ apc' = IF info.state = "OFFLINE" THEN "ended" ELSE "wait"
  /\ UNCHANGED <<spc, again, info, auids, signed, sending, dht, containerVars, health,
                 containers, sfaults>>

\* The period is over, or announce() set the trigger.
Wake ==
  /\ apc = "wait" /\ apc' = "ping"
  /\ UNCHANGED <<spc, again, info, auids, signed, sending, dht, containerVars, health,
                 containers, sfaults>>

\* A record lives for the expiration, at least two update periods.
Expire(b) ==
  /\ dht[b] # NoEntry /\ apc \in {"none", "ended", "failed", "store"} /\ dht' = [dht EXCEPT ![b] = NoEntry]
  /\ UNCHANGED <<spc, again, info, announcerVars, auids, containerVars, health, containers,
                 sfaults>>

\* get_remote_module_infos(): a reader takes a record whose signature covers it
\* and whose blocks include the key it was found under.
Readable(b) == dht[b].state # "NONE" /\ dht[b].signed = dht[b].state /\ b \in dht[b].blocks

(* The container thread and its processes. *)

\* ModuleContainer.run(): handlers one after another, then the runtime.
StartHandler(h) ==
  /\ cpc = "handlers" /\ h \notin up /\ up' = up \cup {h}
  /\ UNCHANGED <<spc, again, info, announcerVars, auids, dht, loaded, cpc, pools, ready,
                 manager, health, containers, sfaults>>

HandlerTimesOut ==
  /\ cpc = "handlers" /\ up # Handlers /\ sfaults < MaxServerFaults
  /\ cpc' = "dead" /\ sfaults' = sfaults + 1
  /\ UNCHANGED <<spc, again, info, announcerVars, auids, dht, loaded, up, pools, ready, manager,
                 health, containers>>

\* RuntimeWithDeduplicatedPools.run()
RunRuntime ==
  /\ cpc = "handlers" /\ up = Handlers
  /\ cpc' = "runtime" /\ pools' = TRUE /\ ready' = TRUE
  /\ UNCHANGED <<spc, again, info, announcerVars, auids, dht, loaded, up, manager, health,
                 containers, sfaults>>

\* A handler process, a pool or the admission manager dies.
PartDies ==
  /\ sfaults < MaxServerFaults /\ sfaults' = sfaults + 1
  /\ \/ \E h \in up : up' = up \ {h} /\ UNCHANGED <<pools, manager>>
     \/ pools /\ pools' = FALSE /\ UNCHANGED <<up, manager>>
     \/ manager /\ manager' = FALSE /\ UNCHANGED <<up, pools>>
  /\ UNCHANGED <<spc, again, info, announcerVars, auids, dht, loaded, cpc, ready, health,
                 containers>>

(* The main thread. *)

Announce(state) == info' = [info EXCEPT !.state = state]

\* _choose_blocks() and the head of create(): the state is JOINING again and a
\* new announcer runs.
CreateContainer ==
  /\ spc = "choose" /\ again /\ containers < MaxContainers
  /\ \E blocks \in SpanChoices : info' = [state |-> "JOINING", blocks |-> blocks] /\ auids' = blocks
  /\ apc' = "ping" /\ signed' = "NONE" /\ sending' = NoEntry
  /\ spc' = "load" /\ containers' = containers + 1
  /\ UNCHANGED <<again, dht, containerVars, health, sfaults>>

\* The blocks are verified, loaded and converted one by one.
LoadBlocks ==
  /\ spc = "load" /\ loaded' = info.blocks /\ spc' = "init"
  /\ UNCHANGED <<again, info, announcerVars, auids, dht, cpc, up, pools, ready, manager, health,
                 containers, sfaults>>

\* ModuleContainer.__init__(): the admission manager, the handlers' objects and
\* the runtime, then ONLINE is announced, and only then the container is started.
InitContainer ==
  /\ spc = "init" /\ spc' = "start" /\ manager' = TRUE /\ Announce("ONLINE")
  /\ UNCHANGED <<again, apc, auids, signed, sending, dht, loaded, cpc, up, pools, ready, health,
                 containers, sfaults>>

StartContainer ==
  /\ spc = "start" /\ spc' = "await" /\ cpc' = "handlers"
  /\ UNCHANGED <<again, info, announcerVars, auids, dht, loaded, up, pools, ready, manager,
                 health, containers, sfaults>>

\* run_in_background(): the container is ready.
BecomeReady ==
  /\ spc = "await" /\ ready /\ spc' = "first"
  /\ UNCHANGED <<again, info, announcerVars, auids, dht, containerVars, health, containers,
                 sfaults>>

\* is_healthy(), and the health file it writes.
IsHealthy == manager /\ apc \notin {"ended", "failed"} /\ up = Handlers /\ pools /\ ready

HealthCheck(next) ==
  /\ health' = IF IsHealthy THEN "healthy" ELSE "unhealthy"
  /\ spc' = IF IsHealthy THEN next ELSE "down"
  /\ UNCHANGED <<again, info, announcerVars, auids, dht, containerVars, containers, sfaults>>

FirstCheck == spc = "first" /\ HealthCheck("serve")
PeriodicCheck == spc = "serve" /\ HealthCheck("balance")

\* write_public_worker_health() fails: the worker restarts.
HealthFileFails ==
  /\ spc \in {"first", "serve"} /\ sfaults < MaxServerFaults
  /\ spc' = "down" /\ sfaults' = sfaults + 1
  /\ UNCHANGED <<again, info, announcerVars, auids, dht, containerVars, health, containers>>

\* _should_choose_other_blocks(): the server finds its own record and may move;
\* without a record the assertion ends the server.
Balance ==
  /\ spc = "balance"
  /\ \/ \E b \in Uids : Readable(b) /\ spc' \in {"serve", "down"} /\ UNCHANGED again
     \/ (\A b \in Uids : ~Readable(b)) /\ spc' = "down" /\ again' = FALSE
  /\ UNCHANGED <<info, announcerVars, auids, dht, containerVars, health, containers, sfaults>>

\* ModuleContainer.shutdown(): announce OFFLINE ...
AnnounceOffline ==
  /\ spc = "down" /\ spc' = "join" /\ Announce("OFFLINE")
  /\ UNCHANGED <<again, apc, auids, signed, sending, dht, containerVars, health, containers,
                 sfaults>>

\* ... and wait for the announcer to end.
JoinAnnouncer ==
  /\ spc = "join" /\ apc \in {"ended", "failed"} /\ spc' = "close"
  /\ UNCHANGED <<again, info, announcerVars, auids, dht, containerVars, health, containers,
                 sfaults>>

\* Handlers, admission resources, pools, runtime and backends, in this order.
CloseHandlers ==
  /\ spc = "close" /\ spc' = "closing" /\ ready' = FALSE /\ up' = {} /\ manager' = FALSE
  /\ UNCHANGED <<again, info, announcerVars, auids, dht, loaded, cpc, pools, health, containers,
                 sfaults>>

CloseRuntime ==
  /\ spc = "closing" /\ spc' = "choose" /\ pools' = FALSE /\ cpc' = "none" /\ loaded' = {}
  /\ UNCHANGED <<again, info, announcerVars, auids, dht, up, ready, manager, health, containers,
                 sfaults>>

\* A failure while the container is created: of loading, of its parts, or the
\* ready timeout.  Live handlers, the manager and the backends are shut down, then
\* OFFLINE is announced and the exception ends the server.
AbortCreate ==
  /\ spc' = "abort" /\ again' = FALSE
  /\ up' = {} /\ manager' = FALSE /\ loaded' = {} /\ Announce("OFFLINE")
  /\ UNCHANGED <<apc, auids, signed, sending, dht, cpc, pools, ready, health, containers>>

CreateFails ==
  /\ spc \in {"load", "init", "await"} /\ ~(spc = "await" /\ ready)
  /\ sfaults < MaxServerFaults \/ (spc = "await" /\ cpc = "dead")
  /\ sfaults' = IF sfaults < MaxServerFaults THEN sfaults + 1 ELSE sfaults
  /\ AbortCreate

JoinAborted ==
  /\ spc = "abort" /\ apc \in {"ended", "failed"} /\ spc' = "exit"
  /\ UNCHANGED <<again, info, announcerVars, auids, dht, containerVars, health, containers,
                 sfaults>>

\* KeyboardInterrupt, from Ctrl+C or SIGTERM, in the main thread: the handlers of
\* whatever it was doing run; a shutdown under way is abandoned.
Interrupt ==
  /\ spc \notin {"exit", "exited"} /\ sfaults < MaxServerFaults
  /\ \/ spc \in {"load", "init", "start", "await"} /\ AbortCreate
     \/ spc \in {"first", "serve", "balance"} /\ spc' = "down" /\ again' = FALSE
        /\ UNCHANGED <<info, announcerVars, auids, dht, containerVars, health, containers>>
     \/ spc \in {"choose", "down", "join", "close", "closing", "abort"} /\ spc' = "exit" /\ again' = FALSE
        /\ UNCHANGED <<info, announcerVars, auids, dht, containerVars, health, containers>>
  /\ sfaults' = sfaults + 1

\* Server.run() returned or raised: serve() unregisters the server, Server.shutdown()
\* stops the DHT, and the daemonic threads and processes end with the process.
Finish ==
  /\ spc = "choose" /\ ~again /\ spc' = "exit"
  /\ UNCHANGED <<again, info, announcerVars, auids, dht, containerVars, health, containers,
                 sfaults>>

Exit ==
  /\ spc = "exit" /\ spc' = "exited"
  /\ apc' = "none" /\ cpc' = "none" /\ up' = {} /\ pools' = FALSE /\ ready' = FALSE
  /\ manager' = FALSE /\ loaded' = {}
  /\ UNCHANGED <<again, info, auids, signed, sending, dht, health, containers, sfaults>>

AnnouncerStep == Ping \/ Sign \/ Declare \/ Store \/ CheckState \/ Wake
ContainerStep == RunRuntime \/ \E h \in Handlers : StartHandler(h)
MainStep ==
  \/ CreateContainer \/ LoadBlocks \/ InitContainer \/ StartContainer \/ BecomeReady \/ FirstCheck
  \/ PeriodicCheck \/ Balance \/ AnnounceOffline \/ JoinAnnouncer \/ CloseHandlers \/ CloseRuntime
  \/ CreateFails \/ JoinAborted \/ Finish \/ Exit

ServerNext ==
  \/ AnnouncerStep \/ ContainerStep \/ MainStep
  \/ HandlerTimesOut \/ PartDies \/ HealthFileFails \/ Interrupt
  \/ \E b \in Uids : Expire(b)

ServerFair == WF_serverVars(AnnouncerStep) /\ WF_serverVars(ContainerStep) /\ WF_serverVars(MainStep)

ServerSpec == ServerInit /\ [][ServerNext]_serverVars /\ ServerFair

ServerTypeOK ==
  /\ spc \in {"choose", "load", "init", "start", "await", "first", "serve", "balance", "down",
              "join", "close", "closing", "abort", "exit", "exited"}
  /\ apc \in {"none", "ping", "sign", "declare", "store", "check", "wait", "ended", "failed"}
  /\ cpc \in {"none", "handlers", "dead", "runtime"}
  /\ info \in [state : {"JOINING", "ONLINE", "OFFLINE"}, blocks : SUBSET Uids]
  /\ up \subseteq Handlers /\ loaded \subseteq Uids

\* What a reader may believe: a record under a block's key names a span that contains
\* the block (server.py:1187), though the announcer reads the shared ServerInfo several
\* times and the next container serves others.  Nothing is said of the record's state:
\* one of an ended container may still be ONLINE (OfflineAnnounced).
RecordsTruthful ==
  \A b \in Uids : dht[b].state # "NONE" => b \in dht[b].blocks

\* When the next container is created, nothing of the last one runs in the server;
\* records of it may still be in the DHT.
CleanGenerations ==
  spc = "choose" => up = {} /\ ~pools /\ ~ready /\ ~manager /\ loaded = {} /\ apc \in {"none", "ended", "failed"}

\* A server that will not run again exits.
ServerExits == []((~again) => <>(spc = "exited"))

\* When shutdown() has joined the announcer, no reader finds the container online.
OfflineAnnounced ==
  spc \in {"close", "closing"} /\ apc = "ended" => \A b \in auids : ~(Readable(b) /\ dht[b].state = "ONLINE")
=============================================================================
