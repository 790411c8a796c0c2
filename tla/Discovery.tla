------------------------------- MODULE Discovery -------------------------------
(***************************************************************************)
(* A node's coverage discovery and the life of the node around it          *)
(* (node/discovery.py, cli/run_node.py).  One thread per set of bootstrap  *)
(* peers keeps a client DHT, looks every model of its group up and reads   *)
(* the demand that other routers have published; the placement thread      *)
(* publishes this node's intents and its own demand through the same DHT;  *)
(* the main thread builds, starts and closes all of it.                    *)
(* Bounds: MaxDhts client DHTs in each group, MaxDhtFaults DHTs that       *)
(* cannot be made, that die or whose lookups and stores fail.              *)
(***************************************************************************)
EXTENDS Integers, FiniteSets

CONSTANTS
  Groups,        \* the sets of bootstrap peers
  GroupOf,       \* the group of each manifested model
  MaxDhts, MaxDhtFaults

ASSUME DiscoveryAssumption ==
  /\ \A m \in DOMAIN GroupOf : GroupOf[m] \in Groups
  /\ MaxDhts \in Nat \ {0} /\ MaxDhtFaults \in Nat

VARIABLES
  dcMain,       \* where main() is
  dcReporting,  \* the router identity has been loaded: this node publishes its demand
  dcKnown,      \* route-demand keys registered as this node's own
  dcStop,       \* the stop event is set
  dcThread,     \* where the thread of each group is
  dcMine,       \* the DHT it uses, 0 when it has none
  dcLeft,       \* the models it has still to look up in this round
  dcDhts,       \* the registered DHT of each group
  dcUp,         \* the DHTs that are alive
  dcMade,       \* how many each group has made
  dcIo,         \* who holds the group's I/O lock
  dcPub,        \* the publisher: its model, the DHT it has taken and where it is
  dcNetwork,    \* the models of which this node has stored a record of demand
  dcError,      \* the models whose last lookup failed: their last known coverage is in doubt
  dcRemote,     \* the keys behind each model's remote observation
  dcSnapshot,   \* the DHTs close() has found registered
  dcFaults

dcVars == <<dcMain, dcReporting, dcKnown, dcStop, dcThread, dcMine, dcLeft, dcDhts, dcUp, dcMade, dcIo,
            dcPub, dcNetwork, dcError, dcRemote, dcSnapshot, dcFaults>>
dcRound == <<dcThread, dcMine, dcLeft>>
dcTables == <<dcDhts, dcUp, dcMade>>
dcResults == <<dcError, dcRemote>>
dcNode == <<dcMain, dcReporting, dcKnown, dcStop, dcSnapshot>>
dcWire == <<dcPub, dcNetwork>>

Targets == DOMAIN GroupOf
DemandKeys == {"own", "other"}
ModelsOf(g) == {m \in Targets : GroupOf[m] = g}
NotPublishing == [model |-> "none", dht |-> 0, what |-> "none", pc |-> "idle"]

DiscoveryInit ==
  /\ dcMain = "build" /\ dcReporting = FALSE /\ dcKnown = {} /\ dcStop = FALSE
  /\ dcThread = [g \in Groups |-> "off"] /\ dcMine = [g \in Groups |-> 0]
  /\ dcLeft = [g \in Groups |-> {}]
  /\ dcDhts = [g \in Groups |-> 0] /\ dcUp = {} /\ dcMade = [g \in Groups |-> 0]
  /\ dcIo = [g \in Groups |-> "free"] /\ dcPub = NotPublishing
  \* an earlier run of this node may have left its record
  /\ dcNetwork \in {{}, Targets}
  /\ dcError = {} /\ dcRemote = [m \in Targets |-> {}]
  /\ dcSnapshot = {} /\ dcFaults = 0

-----------------------------------------------------------------------------
(* main(): whatever fails before discovery starts ends the node with       *)
(* nothing started; after that the parts are closed in order.              *)

\* Mutant: reporting begins after a thread may have read the table.
PrepareReportingLater == dcKnown' = dcKnown
PrepareReporting == dcKnown' = {"own"}

\* Manifests, discovery and the services are built; what fails there closes discovery
\* again, before it was started.
BuildNode ==
  /\ dcMain = "build"
  /\ \/ dcMain' = "keys" /\ dcReporting' = TRUE /\ PrepareReporting /\ UNCHANGED dcStop
     \* no router identity, or one that cannot be read or is not authorized
     \/ dcMain' = "keys" /\ UNCHANGED <<dcReporting, dcKnown, dcStop>>
     \/ dcMain' = "failed" /\ dcStop' = TRUE /\ UNCHANGED <<dcReporting, dcKnown>>
  /\ UNCHANGED <<dcSnapshot, dcRound, dcTables, dcIo, dcWire, dcResults, dcFaults>>

\* The API keys and the control key (ApiKeys.tla) may be refused.
LoadCredentials ==
  /\ dcMain = "keys" /\ dcMain' \in {"start", "failed"}
  /\ UNCHANGED <<dcReporting, dcKnown, dcStop, dcSnapshot, dcRound, dcTables, dcIo, dcWire,
                 dcResults, dcFaults>>

StartNode ==
  /\ dcMain = "start" /\ dcMain' = "serving"
  /\ dcThread' = [g \in Groups |-> "check"]
  /\ UNCHANGED <<dcReporting, dcKnown, dcStop, dcSnapshot, dcMine, dcLeft, dcTables, dcIo,
                 dcWire, dcResults, dcFaults>>

\* uvicorn returns; the placement service is joined, but not for ever.
StopPlacement ==
  /\ dcMain = "serving" /\ dcMain' = "placementStopped"
  /\ UNCHANGED <<dcReporting, dcKnown, dcStop, dcSnapshot, dcRound, dcTables, dcIo, dcWire,
                 dcResults, dcFaults>>

\* close(): under the lock, the event is set and the registered DHTs are taken.
BeginDiscoveryClose ==
  /\ dcMain = "placementStopped" /\ dcMain' = "closing"
  /\ dcStop' = TRUE
  /\ dcSnapshot' = {<<g, dcDhts[g]>> : g \in {h \in Groups : dcDhts[h] # 0}}
  /\ UNCHANGED <<dcReporting, dcKnown, dcRound, dcTables, dcIo, dcWire, dcResults, dcFaults>>

ShutDownDht(d) ==
  /\ dcMain = "closing" /\ d \in dcSnapshot
  /\ dcSnapshot' = dcSnapshot \ {d} /\ dcUp' = dcUp \ {d}
  /\ UNCHANGED <<dcMain, dcReporting, dcKnown, dcStop, dcRound, dcDhts, dcMade, dcIo, dcWire,
                 dcResults, dcFaults>>

\* Threads are joined, each for five seconds.
EndDiscoveryClose ==
  /\ dcMain = "closing" /\ dcSnapshot = {} /\ dcMain' = "closed"
  /\ UNCHANGED <<dcReporting, dcKnown, dcStop, dcSnapshot, dcRound, dcTables, dcIo, dcWire,
                 dcResults, dcFaults>>

-----------------------------------------------------------------------------
(* The thread of a group.                                                  *)

DhtFails == dcFaults < MaxDhtFaults /\ dcFaults' = dcFaults + 1
Mine(g) == <<g, dcMine[g]>>
ThreadSteps(g, from, to) == dcThread[g] = from /\ dcThread' = [dcThread EXCEPT ![g] = to]
InError(models) == dcError' = dcError \cup models

NeedsDht(g) == dcMine[g] = 0 \/ Mine(g) \notin dcUp

CheckDht(g) ==
  /\ dcThread[g] = "check"
  /\ dcThread' = [dcThread EXCEPT ![g] = IF dcStop THEN "end" ELSE IF NeedsDht(g) THEN "make" ELSE "lookup"]
  /\ dcLeft' = [dcLeft EXCEPT ![g] = IF ~dcStop /\ ~NeedsDht(g) THEN ModelsOf(g) ELSE {}]
  /\ UNCHANGED <<dcNode, dcMine, dcTables, dcIo, dcWire, dcResults, dcFaults>>

\* The constructor takes up to startup_timeout; the stop event is not looked at meanwhile.
MakeDht(g) ==
  /\ dcThread[g] = "make"
  /\ \/ /\ dcMade[g] < MaxDhts /\ ThreadSteps(g, "make", "register")
        /\ dcMade' = [dcMade EXCEPT ![g] = @ + 1]
        /\ dcMine' = [dcMine EXCEPT ![g] = dcMade[g] + 1]
        /\ dcUp' = dcUp \cup {<<g, dcMade[g] + 1>>}
        /\ UNCHANGED <<dcError, dcFaults>>
     \/ /\ ThreadSteps(g, "make", "wait") /\ DhtFails
        /\ dcMine' = [dcMine EXCEPT ![g] = 0]
        /\ InError(ModelsOf(g)) /\ UNCHANGED <<dcMade, dcUp>>
  /\ UNCHANGED <<dcNode, dcLeft, dcDhts, dcIo, dcWire, dcRemote>>

RegisterDht(g) ==
  /\ ThreadSteps(g, "register", "lookup")
  /\ dcDhts' = [dcDhts EXCEPT ![g] = dcMine[g]] /\ dcLeft' = [dcLeft EXCEPT ![g] = ModelsOf(g)]
  /\ UNCHANGED <<dcNode, dcMine, dcUp, dcMade, dcIo, dcWire, dcResults, dcFaults>>

TakeIoLock(g) ==
  /\ dcThread[g] = "lookup" /\ ~dcStop /\ dcLeft[g] # {} /\ dcIo[g] = "free"
  /\ ThreadSteps(g, "lookup", "looking") /\ dcIo' = [dcIo EXCEPT ![g] = "thread"]
  /\ UNCHANGED <<dcNode, dcMine, dcLeft, dcTables, dcWire, dcResults, dcFaults>>

NextModel(g) == CHOOSE m \in dcLeft[g] : TRUE

LookUp(g) ==
  LET m == NextModel(g)
  IN /\ dcThread[g] = "looking" /\ dcIo' = [dcIo EXCEPT ![g] = "free"]
     /\ \/ /\ Mine(g) \in dcUp /\ ThreadSteps(g, "looking", "demand")
           /\ dcError' = dcError \ {m} /\ UNCHANGED <<dcLeft, dcFaults>>
        \/ /\ IF Mine(g) \in dcUp THEN DhtFails ELSE UNCHANGED dcFaults
           /\ ThreadSteps(g, "looking", "lookup") /\ InError({m})
           /\ dcLeft' = [dcLeft EXCEPT ![g] = @ \ {m}]
     /\ UNCHANGED <<dcNode, dcMine, dcTables, dcWire, dcRemote>>

\* Other routers store records of theirs, and records expire: those that live are found.
Stored(m) == IF m \in dcNetwork THEN DemandKeys ELSE DemandKeys \ {"own"}

\* Under the I/O lock again: every record signed by an authorized key of another router counts.
CountDemand(g) ==
  LET m == NextModel(g)
  IN /\ ThreadSteps(g, "demand", "lookup") /\ dcIo[g] = "free"
     /\ dcLeft' = [dcLeft EXCEPT ![g] = @ \ {m}]
     /\ \/ /\ Mine(g) \in dcUp /\ UNCHANGED dcFaults
           /\ \E live \in SUBSET Stored(m) : dcRemote' = [dcRemote EXCEPT ![m] = live \ dcKnown]
        \/ /\ IF Mine(g) \in dcUp THEN DhtFails ELSE UNCHANGED dcFaults
           /\ dcRemote' = [dcRemote EXCEPT ![m] = {}]
     /\ UNCHANGED <<dcNode, dcMine, dcTables, dcIo, dcWire, dcError>>

\* After a round with a success the connected peers are cached on disk, for the bootstrap
\* list of a later start, which is not modelled.
EndRound(g) ==
  /\ dcThread[g] = "lookup" /\ (dcStop \/ dcLeft[g] = {}) /\ ThreadSteps(g, "lookup", "wait")
  /\ dcLeft' = [dcLeft EXCEPT ![g] = {}]
  /\ UNCHANGED <<dcNode, dcMine, dcTables, dcIo, dcWire, dcResults, dcFaults>>

Waited(g) ==
  /\ dcThread[g] = "wait" /\ dcThread' = [dcThread EXCEPT ![g] = IF dcStop THEN "end" ELSE "check"]
  /\ UNCHANGED <<dcNode, dcMine, dcLeft, dcTables, dcIo, dcWire, dcResults, dcFaults>>

\* Mutant: a thread that ends leaves its DHT to the node's close.
EndThreadLeaving(g) == UNCHANGED dcUp
EndThread(g) == dcUp' = dcUp \ {Mine(g)}

\* The finally clause: the DHT is unregistered and shut down, unless close() did that.
EndOfThread(g) ==
  /\ ThreadSteps(g, "end", "over")
  /\ dcDhts' = [dcDhts EXCEPT ![g] = 0] /\ EndThread(g) /\ dcMine' = [dcMine EXCEPT ![g] = 0]
  /\ UNCHANGED <<dcNode, dcLeft, dcMade, dcIo, dcWire, dcResults, dcFaults>>

-----------------------------------------------------------------------------
(* The placement thread publishes an intent, or this node's demand, through *)
(* the registered DHT, which it checks again under the I/O lock.           *)

TakePublisher ==
  /\ dcMain = "serving" /\ dcPub = NotPublishing
  /\ \E m \in Targets, what \in {"intent", "demand"} :
       /\ what = "demand" => dcReporting
       /\ dcDhts[GroupOf[m]] # 0
       /\ dcPub' = [model |-> m, dht |-> dcDhts[GroupOf[m]], what |-> what, pc |-> "lock"]
  /\ UNCHANGED <<dcNode, dcRound, dcTables, dcIo, dcNetwork, dcResults, dcFaults>>

PublishLock ==
  LET g == GroupOf[dcPub.model]
      current == dcDhts[g] = dcPub.dht /\ <<g, dcPub.dht>> \in dcUp
  IN /\ dcPub.pc = "lock" /\ dcIo[g] = "free"
     /\ IF current THEN dcPub' = [dcPub EXCEPT !.pc = "store"] /\ dcIo' = [dcIo EXCEPT ![g] = "publisher"]
                   ELSE dcPub' = NotPublishing /\ UNCHANGED dcIo
     /\ UNCHANGED <<dcNode, dcRound, dcTables, dcNetwork, dcResults, dcFaults>>

\* A record of demand that reached a remote peer makes its key this node's own.
PublishStore ==
  LET m == dcPub.model
      g == GroupOf[m]
      stored == /\ <<g, dcPub.dht>> \in dcUp /\ UNCHANGED dcFaults
                /\ dcNetwork' = IF dcPub.what = "demand" THEN dcNetwork \cup {m} ELSE dcNetwork
                /\ dcPub' = IF dcPub.what = "demand" THEN [dcPub EXCEPT !.pc = "stored"] ELSE NotPublishing
      lost == /\ IF <<g, dcPub.dht>> \in dcUp THEN DhtFails ELSE UNCHANGED dcFaults
              /\ dcPub' = NotPublishing /\ UNCHANGED dcNetwork
  IN /\ dcPub.pc = "store" /\ dcIo' = [dcIo EXCEPT ![g] = "free"]
     /\ stored \/ lost
     /\ UNCHANGED <<dcNode, dcRound, dcTables, dcResults>>

PublishEnd ==
  /\ dcPub.pc = "stored" /\ dcPub' = NotPublishing /\ dcKnown' = dcKnown \cup {"own"}
  /\ UNCHANGED <<dcMain, dcReporting, dcStop, dcSnapshot, dcRound, dcTables, dcIo, dcNetwork,
                 dcResults, dcFaults>>

\* The DHT process dies.
DhtDies(d) ==
  /\ d \in dcUp /\ DhtFails /\ dcMade[d[1]] < MaxDhts /\ dcUp' = dcUp \ {d}
  /\ UNCHANGED <<dcNode, dcRound, dcDhts, dcMade, dcIo, dcWire, dcResults>>

-----------------------------------------------------------------------------
GroupStep(g) ==
  \/ CheckDht(g) \/ MakeDht(g) \/ RegisterDht(g) \/ TakeIoLock(g) \/ LookUp(g) \/ CountDemand(g) \/ EndRound(g)
  \/ Waited(g) \/ EndOfThread(g)
PublishStep == PublishLock \/ PublishStore \/ PublishEnd
MainStep ==
  \/ BuildNode \/ LoadCredentials \/ StartNode \/ StopPlacement \/ BeginDiscoveryClose
  \/ EndDiscoveryClose \/ \E d \in dcSnapshot : ShutDownDht(d)

DiscoveryNext ==
  \/ MainStep \/ TakePublisher \/ PublishStep
  \/ \E g \in Groups : GroupStep(g)
  \/ \E d \in dcUp : DhtDies(d)

DiscoverySpec == DiscoveryInit /\ [][DiscoveryNext]_dcVars

-----------------------------------------------------------------------------
DiscoveryTypeOK ==
  /\ dcMain \in {"build", "keys", "start", "serving", "placementStopped", "closing", "closed", "failed"}
  /\ dcKnown \subseteq DemandKeys /\ {dcStop, dcReporting} \subseteq BOOLEAN
  /\ dcThread \in [Groups -> {"off", "check", "make", "register", "lookup", "looking", "demand",
                              "wait", "end", "over"}]
  /\ dcMine \in [Groups -> 0..MaxDhts] /\ dcDhts \in [Groups -> 0..MaxDhts] /\ dcMade \in [Groups -> 0..MaxDhts]
  /\ dcLeft \in [Groups -> SUBSET Targets]
  /\ dcUp \cup dcSnapshot \subseteq Groups \X (1..MaxDhts)
  /\ dcIo \in [Groups -> {"free", "thread", "publisher"}]
  /\ dcPub \in [model : Targets \cup {"none"}, dht : 0..MaxDhts, what : {"none", "intent", "demand"},
               pc : {"idle", "lock", "store", "stored"}]
  /\ dcNetwork \subseteq Targets /\ dcRemote \in [Targets -> SUBSET DemandKeys]
  /\ dcError \subseteq Targets /\ dcFaults \in 0..MaxDhtFaults

\* Remote demand is the demand of other routers: what a node that has its identity
\* published, in this run or in an earlier one, never comes back to it as demand.
OwnDemandExcluded == dcReporting => \A m \in Targets : "own" \notin dcRemote[m]

\* When the node has closed and its threads are over, no client DHT is left, not even
\* one whose construction close() did not see.
NoDhtLeft ==
  (dcMain = "closed" /\ \A g \in Groups : dcThread[g] = "over") => dcUp = {}

\* Discovery that failed has recovered: as long as the node serves, no model stays in
\* error (_run_group, discovery.py:504-571).
CoverageRecovered == dcStop \/ dcError = {}
=============================================================================
