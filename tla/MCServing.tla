------------------------------ MODULE MCServing ------------------------------
(***************************************************************************)
(* A swarm that serves one model: how servers place themselves, how one    *)
(* server runs its containers, how its handlers feed the runtime, how a    *)
(* client keeps its table of servers, how training goes forward and back   *)
(* over a route, and how layers share keys and values.  A behaviour is     *)
(* about one of these parts.                                               *)
(***************************************************************************)
\* Instance of a serving swarm: three servers with different spans over five
\* blocks, one server with one handler, four tasks on two pools, a client with one
\* caller and two peers, a training run over four blocks and a model whose layers
\* share the keys and values of two attention types.
EXTENDS BlockSelection, ServerLifecycle, TaskPool, RouteTable, SequentialAutograd, SharedKv

MCSpanLen == [s \in Servers |-> IF s = "c" THEN 1 ELSE 2]
MCRps == [s \in Servers |-> IF s = "a" THEN 3 ELSE 2]
MCPoolOf == [t \in Tasks |-> IF t = "c" THEN "q" ELSE "p"]
MCUrgency == [t \in Tasks |-> IF t = "a" THEN 1 ELSE 2]
MCSpanChoices == {{0, 1}, {1, 2}}

Layer(k, t) == [kind |-> k, type |-> t]
MCChain ==
  <<Layer("plain", "full"), Layer("donor", "full"), Layer("donor", "sliding"),
    Layer("consumer", "full"), Layer("consumer", "sliding")>>

-----------------------------------------------------------------------------

VARIABLE part

servingVars == <<part, selectionVars, serverVars, poolVars, routeVars, trainVars, kvVars>>

ServingInit ==
  /\ part \in {"selection", "server", "pool", "routes", "training", "kv"}
  /\ SelectionInit /\ ServerInit /\ PoolInit /\ RouteInit /\ TrainInit /\ KvInit
  /\ part # "routes" => \A p \in Peers : swarm[p].first = 0 /\ swarm[p].last = Layers - 1

Selecting == part = "selection" /\ SelectionNext /\ UNCHANGED <<part, serverVars, poolVars,
                                                                routeVars, trainVars, kvVars>>
Hosting == part = "server" /\ ServerNext /\ UNCHANGED <<part, selectionVars, poolVars,
                                                        routeVars, trainVars, kvVars>>
Pooling == part = "pool" /\ PoolNext /\ UNCHANGED <<part, selectionVars, serverVars, routeVars,
                                                    trainVars, kvVars>>
Routing == part = "routes" /\ RouteNext /\ UNCHANGED <<part, selectionVars, serverVars,
                                                       poolVars, trainVars, kvVars>>
Training == part = "training" /\ TrainNext /\ UNCHANGED <<part, selectionVars, serverVars,
                                                          poolVars, routeVars, kvVars>>
Sharing == part = "kv" /\ KvNext /\ UNCHANGED <<part, selectionVars, serverVars, poolVars,
                                                routeVars, trainVars>>

ServingNext == Selecting \/ Hosting \/ Pooling \/ Routing \/ Training \/ Sharing

\* The threads that the code runs in a loop go on: the main, announcer and container
\* threads of a server, the update thread of a client, a simulation under way.
ServingFair ==
  /\ WF_serverVars(part = "server" /\ AnnouncerStep)
  /\ WF_serverVars(part = "server" /\ ContainerStep)
  /\ WF_serverVars(part = "server" /\ MainStep)
  /\ WF_routeVars(part = "routes" /\ UpdateStep)
  /\ WF_selectionVars(part = "selection" /\ SimulationStep)

ServingSpec == ServingInit /\ [][ServingNext]_servingVars /\ ServingFair

\* Every variable of the six parts has its type.
ServingTypeOK ==
  SelectionTypeOK /\ ServerTypeOK /\ PoolTypeOK /\ RouteTypeOK /\ TrainTypeOK /\ KvTypeOK

\* The server process: one generation of its container leaves nothing to the next,
\* what is announced is true, and the runtime never waits for a task that is there.
ServerSound == ServingTypeOK /\ CleanGenerations /\ RecordsTruthful /\ RuntimeFed

\* Nobody is left waiting: a server that is told to stop exits, callers get a route
\* or an error, and the simulation of moves ends.
ServingEnds == ServerExits /\ WaitersReleased /\ SimulationTerminates
=============================================================================
