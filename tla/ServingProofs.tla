---------------------------- MODULE ServingProofs ----------------------------
(***************************************************************************)
(* Proofs about a swarm that serves a model.                               *)
(*   - A server: whatever fails, nothing of a container is left to the     *)
(*     next one, and the records in the DHT are about the right spans.     *)
(*   - Its task pools: a runtime that waits for a task is given one.       *)
(*   - Block selection keeps its types.                                    *)
(*   - A client's table of servers: routes tile the blocks, in order.      *)
(*   - Its training passes: whatever fails and is run again elsewhere,     *)
(*     every gradient is computed from its own input, once and in order.   *)
(*   - The keys and values that it carries between servers for layers that *)
(*     share them: every consumer gets those of its step.                  *)
(* At the end, the instance that TLC explores is composed of these parts.  *)
(***************************************************************************)
EXTENDS MCServing, FiniteSetTheorems, SequenceTheorems, WellFoundedInduction, TLAPS

(* A set of numbers has a least one.                                       *)
LEMMA LeastNumber ==
  ASSUME NEW T, T \subseteq Nat, T # {}
  PROVE  \E x \in T : \A y \in T : x <= y
<1>1. PICK x \in T : \A y \in T : <<y, x>> \notin OpToRel(<, Nat)
  BY WFMin, NatLessThanWellFounded, Zenon
<1>2. \A y \in T : ~(y < x)
  BY <1>1, Zenon DEF OpToRel
<1> QED BY <1>2

-----------------------------------------------------------------------------
(***************************************************************************)
(* A server and the generations of its container.                          *)
(***************************************************************************)

ServerSteps == ServerInit /\ [][ServerNext]_serverVars

(* What the announcer has in hand, and what it has stored under a block's  *)
(* key, is about a span with that block: as long as it runs, its keys are  *)
(* those of the span in the shared ServerInfo.                             *)
States == {"NONE", "JOINING", "ONLINE", "OFFLINE"}
Entry == [state : States, signed : States, blocks : SUBSET Uids]
KeysFit ==
  /\ sending \in Entry /\ dht \in [Uids -> Entry] /\ signed \in States /\ auids \subseteq Uids
  /\ apc \in {"ping", "sign", "declare", "store", "check", "wait"} => info.blocks = auids
  /\ sending.state # "NONE" => auids \subseteq sending.blocks
  /\ RecordsTruthful

(* What there is of a container, by the place of the main thread.          *)
Unstarted == up = {} /\ ~pools /\ ~ready /\ cpc = "none"
PartsFit ==
  /\ spc \in {"choose", "load", "init", "start"} => Unstarted
  /\ spc = "choose" => ~manager /\ loaded = {}
  /\ spc \in {"choose", "close", "closing"} => apc \in {"none", "ended", "failed"}
  /\ spc \in {"first", "serve", "balance", "down", "join", "close", "closing"} => cpc = "runtime"
  /\ ready => cpc = "runtime" \/ spc \in {"abort", "exit"}
  /\ spc = "closing" => up = {} /\ ~ready /\ ~manager

ServerInv == ServerTypeOK /\ KeysFit /\ PartsFit

LEMMA ServerInvInit == ServerInit => ServerInv
<1> SUFFICES ASSUME ServerInit PROVE ServerInv
  OBVIOUS
<1>1. NoEntry \in Entry /\ NoEntry.state = "NONE"
  BY DEF NoEntry, Entry, States
<1>2. ServerTypeOK
  BY DEF ServerInit, ServerTypeOK
<1>3. \A b \in Uids : dht[b] = NoEntry
  BY DEF ServerInit
<1>4. KeysFit
  BY <1>1, <1>3 DEF ServerInit, KeysFit, RecordsTruthful, States
<1>5. PartsFit
  BY DEF ServerInit, PartsFit, Unstarted
<1> QED BY <1>2, <1>4, <1>5 DEF ServerInv

(* Blocks that are chosen have keys.                                       *)
LEMMA ChosenKeyed == \A blocks \in SpanChoices : blocks \subseteq Uids
BY DEF Uids

LEMMA ServerTypesStep == ServerTypeOK /\ [ServerNext]_serverVars => ServerTypeOK'
<1> SUFFICES ASSUME ServerTypeOK, [ServerNext]_serverVars PROVE ServerTypeOK'
  OBVIOUS
<1> USE ChosenKeyed DEF ServerTypeOK
<1>1. CASE AnnouncerStep
  <2>1. UNCHANGED <<spc, info, loaded, cpc, up>>
    BY <1>1 DEF AnnouncerStep, Ping, Sign, Declare, Store, CheckState, Wake, containerVars
  <2>2. apc' \in {"sign", "failed", "declare", "store", "check", "ended", "wait", "ping"}
    BY <1>1 DEF AnnouncerStep, Ping, Sign, Declare, Store, CheckState, Wake
  <2> QED BY <2>1, <2>2
<1>2. CASE ContainerStep
  BY <1>2 DEF ContainerStep, RunRuntime, StartHandler, announcerVars
<1>3. CASE CreateContainer
  BY <1>3 DEF CreateContainer, containerVars
<1>4. CASE LoadBlocks
  BY <1>4 DEF LoadBlocks, announcerVars
<1>5. CASE InitContainer \/ StartContainer \/ BecomeReady
  BY <1>5 DEF InitContainer, StartContainer, BecomeReady, announcerVars, containerVars, Announce
<1>6. CASE FirstCheck \/ PeriodicCheck \/ Balance
  BY <1>6 DEF FirstCheck, PeriodicCheck, HealthCheck, Balance, announcerVars, containerVars
<1>7. CASE AnnounceOffline \/ JoinAnnouncer \/ CloseHandlers \/ CloseRuntime
  BY <1>7 DEF AnnounceOffline, JoinAnnouncer, CloseHandlers, CloseRuntime, announcerVars, containerVars, Announce
<1>8. CASE CreateFails
  BY <1>8 DEF CreateFails, AbortCreate, Announce
<1>9. CASE JoinAborted \/ Finish \/ Exit
  BY <1>9 DEF JoinAborted, Finish, Exit, announcerVars, containerVars
<1>10. CASE HandlerTimesOut \/ PartDies \/ HealthFileFails
  BY <1>10 DEF HandlerTimesOut, PartDies, HealthFileFails, announcerVars, containerVars
<1>11. CASE Interrupt
  BY <1>11 DEF Interrupt, AbortCreate, Announce, announcerVars, containerVars
<1>12. CASE (\E b \in Uids : Expire(b)) \/ UNCHANGED serverVars
  BY <1>12 DEF Expire, serverVars, announcerVars, containerVars
<1> QED BY <1>1, <1>2, <1>3, <1>4, <1>5, <1>6, <1>7, <1>8, <1>9, <1>10, <1>11, <1>12
        DEF ServerNext, MainStep

(* The announcer's variables and the records change in its own steps, with *)
(* a new container, and when records expire.                               *)
LEMMA KeysFitStep == ServerTypeOK /\ KeysFit /\ [ServerNext]_serverVars => KeysFit'
<1> SUFFICES ASSUME ServerTypeOK, KeysFit, [ServerNext]_serverVars PROVE KeysFit'
  OBVIOUS
<1> DEFINE Quiet == /\ UNCHANGED <<auids, signed, sending, dht>> /\ info'.blocks = info.blocks
                    /\ apc' = apc \/ apc' = "none"
<1>0. ASSUME Quiet PROVE KeysFit'
  <2>1. Uids' = Uids /\ States' = States /\ Entry' = Entry
    BY DEF Uids, States, Entry
  <2>2. RecordsTruthful'
    BY <1>0, <2>1 DEF KeysFit, RecordsTruthful
  <2> QED BY <1>0, <2>1, <2>2 DEF KeysFit
<1>1. CASE Ping \/ CheckState \/ Wake
  <2>1. UNCHANGED <<auids, signed, sending, dht, info>>
    BY <1>1 DEF Ping, CheckState, Wake
  <2>2. apc \in {"ping", "sign", "declare", "store", "check", "wait"}
    BY <1>1 DEF Ping, CheckState, Wake
  <2> QED BY <2>1, <2>2 DEF KeysFit, RecordsTruthful
<1>2. CASE Sign
  <2>1. /\ UNCHANGED <<auids, sending, dht, info>> /\ signed' = info.state
        /\ apc = "sign" /\ info.state \in States
    BY <1>2 DEF Sign, ServerTypeOK, States
  <2> QED BY <2>1 DEF KeysFit, RecordsTruthful
<1>3. CASE Declare
  <2>1. /\ UNCHANGED <<auids, dht, info>> /\ signed' = "NONE" /\ apc = "declare"
        /\ sending' = [state |-> info.state, signed |-> signed, blocks |-> info.blocks]
    BY <1>3 DEF Declare
  <2>2. info.state \in States /\ info.blocks \subseteq Uids /\ signed \in States
    BY DEF ServerTypeOK, States, KeysFit
  <2>3. sending' \in Entry /\ sending'.blocks = info.blocks
    BY <2>1, <2>2 DEF Entry
  <2>4. info.blocks = auids /\ "NONE" \in States
    BY <2>1 DEF KeysFit, States
  <2> QED BY <2>1, <2>3, <2>4 DEF KeysFit, RecordsTruthful
<1>4. CASE Store
  <2>1. /\ UNCHANGED <<auids, signed, info>> /\ apc = "store" /\ sending' = NoEntry
        /\ dht' = [b \in Uids |-> IF b \in auids THEN sending ELSE dht[b]]
    BY <1>4 DEF Store
  <2>2. NoEntry \in Entry /\ NoEntry.state = "NONE"
    BY DEF NoEntry, Entry, States
  <2>3. dht' \in [Uids -> Entry]
    BY <2>1 DEF KeysFit
  <2>4. RecordsTruthful'
    <3> SUFFICES ASSUME NEW b \in Uids, dht'[b].state # "NONE" PROVE b \in dht'[b].blocks
      BY DEF RecordsTruthful
    <3>1. dht'[b] = IF b \in auids THEN sending ELSE dht[b]
      BY <2>1
    <3> QED BY <3>1 DEF KeysFit, RecordsTruthful
  <2> QED BY <2>1, <2>2, <2>3, <2>4 DEF KeysFit
<1>5. CASE CreateContainer
  <2>1. PICK blocks \in SpanChoices : info' = [state |-> "JOINING", blocks |-> blocks] /\ auids' = blocks
    BY <1>5 DEF CreateContainer
  <2>2. sending' = NoEntry /\ signed' = "NONE" /\ dht' = dht
    BY <1>5 DEF CreateContainer
  <2>3. NoEntry \in Entry /\ NoEntry.state = "NONE" /\ "NONE" \in States
    BY DEF NoEntry, Entry, States
  <2> QED BY <2>1, <2>2, <2>3, ChosenKeyed DEF KeysFit, RecordsTruthful
<1>6. CASE \E b \in Uids : Expire(b)
  <2>1. PICK b \in Uids : dht' = [dht EXCEPT ![b] = NoEntry]
    BY <1>6 DEF Expire
  <2>2. UNCHANGED <<auids, signed, sending, info, apc>>
    BY <1>6 DEF Expire, announcerVars
  <2>3. NoEntry \in Entry /\ NoEntry.state = "NONE"
    BY DEF NoEntry, Entry, States
  <2>4. dht' \in [Uids -> Entry] /\ \A c \in Uids : dht'[c] = dht[c] \/ dht'[c] = NoEntry
    BY <2>1, <2>3 DEF KeysFit
  <2>5. RecordsTruthful'
    BY <2>3, <2>4 DEF KeysFit, RecordsTruthful
  <2> QED BY <2>2, <2>4, <2>5 DEF KeysFit
<1>7. CASE ContainerStep
  BY <1>0, <1>7 DEF ContainerStep, RunRuntime, StartHandler, announcerVars
<1>8. CASE LoadBlocks \/ StartContainer \/ BecomeReady
  BY <1>0, <1>8 DEF LoadBlocks, StartContainer, BecomeReady, announcerVars
<1>9. CASE InitContainer \/ AnnounceOffline
  BY <1>0, <1>9 DEF InitContainer, AnnounceOffline, Announce, ServerTypeOK
<1>10. CASE FirstCheck \/ PeriodicCheck \/ Balance
  BY <1>0, <1>10 DEF FirstCheck, PeriodicCheck, HealthCheck, Balance, announcerVars
<1>11. CASE JoinAnnouncer \/ CloseHandlers \/ CloseRuntime \/ JoinAborted \/ Finish
  BY <1>0, <1>11 DEF JoinAnnouncer, CloseHandlers, CloseRuntime, JoinAborted, Finish, announcerVars
<1>12. CASE CreateFails
  BY <1>0, <1>12 DEF CreateFails, AbortCreate, Announce, ServerTypeOK
<1>13. CASE Exit
  BY <1>0, <1>13 DEF Exit
<1>14. CASE HandlerTimesOut \/ PartDies \/ HealthFileFails
  BY <1>0, <1>14 DEF HandlerTimesOut, PartDies, HealthFileFails, announcerVars
<1>15. CASE Interrupt
  BY <1>0, <1>15 DEF Interrupt, AbortCreate, Announce, announcerVars, ServerTypeOK
<1>16. CASE UNCHANGED serverVars
  BY <1>0, <1>16 DEF serverVars
<1> QED BY <1>1, <1>2, <1>3, <1>4, <1>5, <1>6, <1>7, <1>8, <1>9, <1>10, <1>11, <1>12, <1>13, <1>14,
           <1>15, <1>16 DEF ServerNext, AnnouncerStep, MainStep

LEMMA PartsFitStep == PartsFit /\ [ServerNext]_serverVars => PartsFit'
<1> SUFFICES ASSUME PartsFit, [ServerNext]_serverVars PROVE PartsFit'
  OBVIOUS
<1> USE DEF PartsFit, Unstarted
<1>1. CASE AnnouncerStep
  BY <1>1 DEF AnnouncerStep, Ping, Sign, Declare, Store, CheckState, Wake, containerVars
<1>2. CASE ContainerStep
  BY <1>2 DEF ContainerStep, RunRuntime, StartHandler, announcerVars
<1>3. CASE CreateContainer
  BY <1>3 DEF CreateContainer, containerVars
<1>4. CASE LoadBlocks
  BY <1>4 DEF LoadBlocks, announcerVars
<1>5. CASE InitContainer \/ StartContainer \/ BecomeReady
  BY <1>5 DEF InitContainer, StartContainer, BecomeReady, announcerVars, containerVars
<1>6. CASE FirstCheck \/ PeriodicCheck \/ Balance
  BY <1>6 DEF FirstCheck, PeriodicCheck, HealthCheck, Balance, announcerVars, containerVars
<1>7. CASE AnnounceOffline \/ JoinAnnouncer \/ CloseHandlers \/ CloseRuntime
  BY <1>7 DEF AnnounceOffline, JoinAnnouncer, CloseHandlers, CloseRuntime, announcerVars, containerVars
<1>8. CASE CreateFails
  BY <1>8 DEF CreateFails, AbortCreate
<1>9. CASE JoinAborted \/ Finish \/ Exit
  BY <1>9 DEF JoinAborted, Finish, Exit, announcerVars, containerVars
<1>10. CASE HandlerTimesOut \/ PartDies \/ HealthFileFails
  BY <1>10 DEF HandlerTimesOut, PartDies, HealthFileFails, announcerVars, containerVars
<1>11. CASE Interrupt
  BY <1>11 DEF Interrupt, AbortCreate, announcerVars, containerVars
<1>12. CASE (\E b \in Uids : Expire(b)) \/ UNCHANGED serverVars
  BY <1>12 DEF Expire, serverVars, announcerVars, containerVars
<1> QED BY <1>1, <1>2, <1>3, <1>4, <1>5, <1>6, <1>7, <1>8, <1>9, <1>10, <1>11, <1>12
        DEF ServerNext, MainStep

LEMMA ServerInvHolds == ServerSteps => []ServerInv
<1>1. ServerInv /\ [ServerNext]_serverVars => ServerInv'
  BY ServerTypesStep, KeysFitStep, PartsFitStep DEF ServerInv
<1> QED BY <1>1, ServerInvInit, PTL DEF ServerSteps

(* CleanGenerations: whatever fails, dies or is interrupted, no handler,   *)
(* pool, runtime or announcer of a container runs when the next one is     *)
(* created.  Nothing is said of its records in the DHT.                    *)
THEOREM GenerationsAreClean == ServerSpec => []CleanGenerations
<1>1. ServerInv => CleanGenerations
  BY DEF ServerInv, PartsFit, Unstarted, CleanGenerations
<1> QED BY <1>1, ServerInvHolds, PTL DEF ServerSpec, ServerSteps

(* RecordsTruthful: a record under a block's key names a span with that    *)
(* block, although the announcer reads the shared ServerInfo several times *)
(* and the next container may serve other blocks.  Its state may be old.   *)
THEOREM RecordsAreTruthful == ServerSpec => []RecordsTruthful
<1>1. ServerInv => RecordsTruthful
  BY DEF ServerInv, KeysFit
<1> QED BY <1>1, ServerInvHolds, PTL DEF ServerSpec, ServerSteps

-----------------------------------------------------------------------------
(***************************************************************************)
(* The task pools and the runtime.                                         *)
(***************************************************************************)
(* What a pool has in its queue q and in its priority queue o: each task   *)
(* once and in one of them, and nothing behind the sentinel.               *)
Messages == Tasks \cup {"stop"}
QueueFits(q, o) ==
  /\ q \in Seq(Messages) /\ o \subseteq Tasks
  /\ \A i, j \in 1..Len(q) : i < j => q[i] # q[j]
  /\ \A i \in 1..Len(q) : /\ q[i] \notin o
                          /\ q[i] = "stop" => i = Len(q)
NoStop(q) == \A i \in 1..Len(q) : q[i] # "stop"
Waiting(q, o) == {t \in Tasks : \E i \in 1..Len(q) : q[i] = t} \cup o

(* The tasks of p that are in its queue and not yet counted in its pipe.   *)
Unsent(p) == {t \in Tasks : PoolOf[t] = p /\ tpc[t] = "put"}

(* The pipe never counts more tasks than there are.                        *)
Counted(p) == tokens[p] + Cardinality(Unsent(p)) <= Cardinality(Queued(p))
Known(p) == \A t \in Queued(p) : PoolOf[t] = p /\ tpc[t] # "new" /\ stamp[t] # 0
Ending(p) ==
  /\ p \notin closing => NoStop(submitted[p])
  /\ p \in stopped => p \in closing /\ submitted[p] = <<>>
Covered(p) == QueueFits(submitted[p], ordered[p]) /\ Known(p) /\ Ending(p) /\ Counted(p)

(* No two tasks carry the same stamp, so of any few one is the foremost.   *)
Stamped ==
  /\ clock \in Nat /\ stamp \in [Tasks -> Nat]
  /\ \A t \in Tasks : stamp[t] <= clock
  /\ \A t, u \in Tasks : t # u /\ stamp[t] # 0 => stamp[t] # stamp[u]
  /\ \A t \in Tasks : tpc[t] = "new" => stamp[t] = 0

PoolTypes ==
  /\ PoolTypeOK /\ rpc = [at |-> rpc.at, pool |-> rpc.pool, task |-> rpc.task]
  /\ submitted \in [Pools -> Seq(Messages)]
  /\ rpc.at = "load" => rpc.pool \in Pools /\ tokens[rpc.pool] > 0

PoolInv == PoolTypes /\ Stamped /\ \A p \in Pools : Covered(p)

LEMMA PutFits ==
  ASSUME NEW q, NEW o, NEW t \in Tasks, QueueFits(q, o), NoStop(q), t \notin Waiting(q, o)
  PROVE  /\ QueueFits(Append(q, t), o) /\ NoStop(Append(q, t))
         /\ Waiting(Append(q, t), o) = Waiting(q, o) \cup {t}
<1>1. /\ q \in Seq(Messages) /\ Len(q) \in Nat /\ t \in Messages /\ t # "stop" /\ t \notin o
      /\ \A i \in 1..Len(q) : q[i] # t
  BY PoolAssumption DEF QueueFits, Messages, Waiting
<1> DEFINE z == Append(q, t)
<1>2. /\ z \in Seq(Messages) /\ Len(z) = Len(q) + 1 /\ z[Len(q) + 1] = t
      /\ \A i \in 1..Len(q) : z[i] = q[i]
  BY <1>1, AppendProperties
<1>3. 1..Len(z) = (1..Len(q)) \cup {Len(q) + 1}
  BY <1>1, <1>2
<1> HIDE DEF z
<1>4. \A i, j \in 1..Len(z) : i < j => z[i] # z[j]
  <2> SUFFICES ASSUME NEW i \in 1..Len(z), NEW j \in 1..Len(z), i < j PROVE z[i] # z[j]
    OBVIOUS
  <2>1. i \in 1..Len(q)
    BY <1>1, <1>2
  <2>2. CASE j \in 1..Len(q)
    BY <1>2, <2>1, <2>2 DEF QueueFits
  <2>3. CASE j = Len(q) + 1
    BY <1>1, <1>2, <2>1, <2>3
  <2> QED BY <1>3, <2>2, <2>3
<1>5. \A i \in 1..Len(z) : z[i] \notin o /\ z[i] # "stop"
  BY <1>1, <1>2, <1>3 DEF QueueFits, NoStop
<1>6. Waiting(z, o) = Waiting(q, o) \cup {t}
  BY <1>2, <1>3 DEF Waiting
<1> QED BY <1>2, <1>4, <1>5, <1>6 DEF QueueFits, NoStop, z

LEMMA StopFits ==
  ASSUME NEW q, NEW o, QueueFits(q, o), NoStop(q)
  PROVE  /\ QueueFits(Append(q, "stop"), o) /\ Waiting(Append(q, "stop"), o) = Waiting(q, o)
<1>1. /\ q \in Seq(Messages) /\ Len(q) \in Nat /\ "stop" \in Messages /\ "stop" \notin Tasks /\ "stop" \notin o
      /\ \A i \in 1..Len(q) : q[i] # "stop"
  BY PoolAssumption DEF QueueFits, Messages, NoStop
<1> DEFINE z == Append(q, "stop")
<1>2. /\ z \in Seq(Messages) /\ Len(z) = Len(q) + 1 /\ z[Len(q) + 1] = "stop"
      /\ \A i \in 1..Len(q) : z[i] = q[i]
  BY <1>1, AppendProperties
<1>3. 1..Len(z) = (1..Len(q)) \cup {Len(q) + 1}
  BY <1>1, <1>2
<1> HIDE DEF z
<1>4. \A i, j \in 1..Len(z) : i < j => z[i] # z[j]
  <2> SUFFICES ASSUME NEW i \in 1..Len(z), NEW j \in 1..Len(z), i < j PROVE z[i] # z[j]
    OBVIOUS
  <2>1. i \in 1..Len(q)
    BY <1>1, <1>2
  <2>2. CASE j \in 1..Len(q)
    BY <1>2, <2>1, <2>2 DEF QueueFits
  <2>3. CASE j = Len(q) + 1
    BY <1>1, <1>2, <2>1, <2>3
  <2> QED BY <1>3, <2>2, <2>3
<1>5. \A i \in 1..Len(z) : z[i] \notin o /\ (z[i] = "stop" => i = Len(z))
  BY <1>1, <1>2, <1>3 DEF QueueFits
<1>6. Waiting(z, o) = Waiting(q, o)
  BY <1>1, <1>2, <1>3 DEF Waiting
<1> QED BY <1>1, <1>2, <1>4, <1>5, <1>6 DEF QueueFits, z

(* The pool's thread takes the head of its queue.                          *)
LEMMA TakeFits ==
  ASSUME NEW q, NEW o, QueueFits(q, o), q # <<>>
  PROVE  /\ NoStop(q) => NoStop(Tail(q))
         /\ Head(q) # "stop" => /\ QueueFits(Tail(q), o \cup {Head(q)})
                                /\ Waiting(Tail(q), o \cup {Head(q)}) = Waiting(q, o)
         /\ Head(q) = "stop" => Tail(q) = <<>> /\ QueueFits(Tail(q), o) /\ Waiting(Tail(q), o) = Waiting(q, o)
<1>1. /\ q \in Seq(Messages) /\ Head(q) = q[1] /\ Tail(q) \in Seq(Messages) /\ Len(Tail(q)) = Len(q) - 1
      /\ \A i \in 1..Len(Tail(q)) : Tail(q)[i] = q[i + 1]
  <2>1. q \in Seq(Messages)
    BY DEF QueueFits
  <2>2. /\ Tail(q) \in Seq(Messages) /\ Len(Tail(q)) = Len(q) - 1
        /\ \A i \in 1..Len(Tail(q)) : Tail(q)[i] = q[i + 1]
    BY <2>1, HeadTailProperties
  <2>3. Head(q) = q[1]
    BY <2>1
  <2> QED BY <2>1, <2>2, <2>3
<1>2. Len(q) \in Nat /\ Len(q) # 0
  BY <1>1, EmptySeq DEF QueueFits
<1> DEFINE z == Tail(q)
           h == Head(q)
           n == Len(q)
<1>3. /\ q \in Seq(Messages) /\ h = q[1] /\ z \in Seq(Messages) /\ Len(z) = n - 1 /\ n \in Nat /\ n # 0 /\ n = Len(q)
      /\ \A i \in 1..(n - 1) : z[i] = q[i + 1]
      /\ \A i, j \in 1..n : i < j => q[i] # q[j]
      /\ \A i \in 1..n : q[i] \notin o /\ (q[i] = "stop" => i = n)
      /\ o \subseteq Tasks /\ h \in Messages
  <2>1. 1 \in 1..n
    BY <1>2
  <2>2. q[1] \in Messages
    BY <1>1, <2>1, ElementOfSeq
  <2>3. /\ \A i, j \in 1..n : i < j => q[i] # q[j]
        /\ \A i \in 1..n : q[i] \notin o /\ (q[i] = "stop" => i = n)
        /\ o \subseteq Tasks
    BY DEF QueueFits
  <2>4. \A i \in 1..(n - 1) : z[i] = q[i + 1]
    BY <1>1
  <2> QED BY <1>1, <1>2, <2>2, <2>3, <2>4
<1> HIDE DEF z, h, n
<1>4. NoStop(q) => NoStop(z)
  <2> SUFFICES ASSUME NoStop(q), NEW i \in 1..(n - 1) PROVE z[i] # "stop"
    BY <1>3 DEF NoStop
  <2>1. i + 1 \in 1..n
    BY <1>3
  <2> QED BY <1>3, <2>1 DEF NoStop
<1>5. ASSUME h # "stop"
      PROVE QueueFits(z, o \cup {h}) /\ Waiting(z, o \cup {h}) = Waiting(q, o)
  <2>1. h \in Tasks
    BY <1>3, <1>5 DEF Messages
  <2>2. \A i, j \in 1..(n - 1) : i < j => z[i] # z[j]
    <3> SUFFICES ASSUME NEW i \in 1..(n - 1), NEW j \in 1..(n - 1), i < j PROVE z[i] # z[j]
      OBVIOUS
    <3>1. i + 1 \in 1..n /\ j + 1 \in 1..n /\ i + 1 < j + 1
      BY <1>3
    <3> QED BY <1>3, <3>1
  <2>3. \A i \in 1..(n - 1) : z[i] \notin o \cup {h} /\ (z[i] = "stop" => i = n - 1)
    <3> SUFFICES ASSUME NEW i \in 1..(n - 1) PROVE z[i] \notin o \cup {h} /\ (z[i] = "stop" => i = n - 1)
      OBVIOUS
    <3>1. i + 1 \in 1..n /\ 1 \in 1..n /\ 1 < i + 1
      BY <1>3
    <3>2. z[i] = q[i + 1] /\ q[i + 1] # h /\ q[i + 1] \notin o /\ (q[i + 1] = "stop" => i + 1 = n)
      BY <1>3, <3>1
    <3> QED BY <1>3, <3>2
  <2>4. \A t \in Tasks : (\E i \in 1..n : q[i] = t) <=> (t = h \/ \E i \in 1..(n - 1) : z[i] = t)
    <3> SUFFICES ASSUME NEW t \in Tasks
                 PROVE (\E i \in 1..n : q[i] = t) <=> (t = h \/ \E i \in 1..(n - 1) : z[i] = t)
      OBVIOUS
    <3>1. ASSUME NEW i \in 1..n, q[i] = t PROVE t = h \/ \E j \in 1..(n - 1) : z[j] = t
      <4>1. CASE i = 1
        BY <1>3, <3>1, <4>1
      <4>2. CASE i # 1
        <5>1. i - 1 \in 1..(n - 1) /\ (i - 1) + 1 = i
          BY <1>3, <4>2
        <5> QED BY <1>3, <3>1, <5>1
      <4> QED BY <4>1, <4>2
    <3>2. ASSUME t = h PROVE \E i \in 1..n : q[i] = t
      BY <1>3, <3>2
    <3>3. ASSUME NEW i \in 1..(n - 1), z[i] = t PROVE \E j \in 1..n : q[j] = t
      <4>1. i + 1 \in 1..n
        BY <1>3
      <4> QED BY <1>3, <3>3, <4>1
    <3> QED BY <3>1, <3>2, <3>3
  <2>5. Waiting(z, o \cup {h}) = Waiting(q, o)
    BY <1>3, <2>1, <2>4 DEF Waiting
  <2> QED BY <1>3, <2>1, <2>2, <2>3, <2>5 DEF QueueFits
<1>6. ASSUME h = "stop"
      PROVE z = <<>> /\ QueueFits(z, o) /\ Waiting(z, o) = Waiting(q, o)
  <2>0. 1 \in 1..n
    BY <1>3
  <2>1. n = 1 /\ "stop" \notin Tasks
    BY <1>3, <1>6, <2>0, PoolAssumption
  <2>2. z = <<>> /\ Len(z) = 0
    BY <1>3, <2>1, EmptySeq
  <2>3. QueueFits(z, o)
    BY <1>3, <2>2 DEF QueueFits
  <2>4. Waiting(z, o) = Waiting(q, o)
    <3>0. Len(q) = 1 /\ q[1] = "stop"
      BY <1>3, <1>6, <2>1
    <3>1. \A i \in 1..Len(q) : q[i] \notin Tasks
      BY <2>1, <3>0
    <3>2. 1..Len(z) = {}
      BY <2>2
    <3> QED BY <3>1, <3>2 DEF Waiting
  <2> QED BY <2>2, <2>3, <2>4
<1> QED BY <1>4, <1>5, <1>6 DEF z, h

(* The runtime takes a task from the priority queue.                       *)
LoadedFrom(q, o, t) == QueueFits(q, o \ {t}) /\ Waiting(q, o \ {t}) = Waiting(q, o) \ {t}
LEMMA LoadFits ==
  ASSUME NEW q, NEW o, NEW t, t \in o, QueueFits(q, o)
  PROVE  LoadedFrom(q, o, t)
<1>1. QueueFits(q, o \ {t})
  BY DEF QueueFits
<1>2. \A i \in 1..Len(q) : q[i] # t
  BY DEF QueueFits
<1> QED BY <1>1, <1>2 DEF Waiting, LoadedFrom

(* Of any tasks with stamps of their own, one comes before the others.     *)
LEMMA ForemostExists ==
  ASSUME Stamped, NEW o, o \subseteq Tasks, o # {}, \A t \in o : stamp[t] # 0
  PROVE  \E t \in o : \A u \in o : u = t \/ Earlier(Key(t), Key(u))
<1> DEFINE A == {Urgency[t] : t \in o}
<1>1. A \subseteq Nat /\ A # {}
  BY PoolAssumption
<1>2. \E a \in A : \A b \in A : a <= b
  <2> HIDE DEF A
  <2> QED BY <1>1, LeastNumber
<1>20. PICK a \in A : \A b \in A : a <= b
  BY <1>2
<1> DEFINE B == {stamp[t] : t \in {u \in o : Urgency[u] = a}}
<1>3. B \subseteq Nat /\ B # {}
  BY <1>20 DEF Stamped
<1>4. \E s \in B : \A b \in B : s <= b
  <2> HIDE DEF B
  <2> QED BY <1>3, LeastNumber
<1>40. PICK s \in B : \A b \in B : s <= b
  BY <1>4
<1>5. PICK t \in o : Urgency[t] = a /\ stamp[t] = s
  BY <1>40
<1>6. ASSUME NEW u \in o, u # t PROVE Earlier(Key(t), Key(u))
  <2>1. /\ Urgency[t] \in Nat /\ Urgency[u] \in Nat /\ stamp[t] \in Nat /\ stamp[u] \in Nat
        /\ stamp[t] # stamp[u] /\ Urgency[t] <= Urgency[u]
    BY <1>20, <1>5, <1>6, PoolAssumption DEF Stamped
  <2>2. Urgency[u] = Urgency[t] => stamp[t] <= stamp[u]
    BY <1>40, <1>5
  <2> HIDE DEF A, B
  <2> QED BY <2>1, <2>2 DEF Earlier, Key
<1> QED BY <1>6

LEMMA TasksCounted ==
  ASSUME NEW X, X \subseteq Tasks
  PROVE  /\ IsFiniteSet(X) /\ Cardinality(X) \in Nat
         /\ \A t \in X : Cardinality(X \ {t}) = Cardinality(X) - 1
         /\ \A t \in Tasks : t \notin X => Cardinality(X \cup {t}) = Cardinality(X) + 1
<1>1. IsFiniteSet(X)
  BY FS_Subset, PoolAssumption
<1> QED BY <1>1, FS_CardinalityType, FS_RemoveElement, FS_AddElement

LEMMA QueuedIsWaiting == \A p \in Pools : Queued(p) = Waiting(submitted[p], ordered[p])
BY DEF Queued, Waiting

LEMMA PoolInitInv == PoolInit => PoolInv
<1> SUFFICES ASSUME PoolInit PROVE PoolInv
  OBVIOUS
<1> USE DEF PoolInit
<1>1. PoolTypes
  BY DEF PoolTypes, PoolTypeOK
<1>2. Stamped
  BY DEF Stamped
<1>3. ASSUME NEW p \in Pools PROVE Covered(p)
  <2>1. submitted[p] = <<>> /\ ordered[p] = {} /\ tokens[p] = 0 /\ Len(submitted[p]) = 0
    OBVIOUS
  <2>2. Queued(p) = {} /\ Unsent(p) = {}
    BY <2>1 DEF Queued, Unsent
  <2>3. QueueFits(submitted[p], ordered[p]) /\ Ending(p)
    BY <2>1 DEF QueueFits, NoStop, Ending
  <2>4. Known(p)
    BY <2>2 DEF Known
  <2>5. Counted(p)
    BY <2>1, <2>2, FS_EmptySet DEF Counted
  <2> QED BY <2>3, <2>4, <2>5 DEF Covered
<1> QED BY <1>1, <1>2, <1>3 DEF PoolInv

(* A pool whose queues, pipe and unsent tasks a step leaves alone stays     *)
(* covered.                                                                *)
LEMMA Undisturbed ==
  ASSUME NEW p \in Pools, Covered(p),
         submitted'[p] = submitted[p], ordered'[p] = ordered[p], tokens'[p] = tokens[p],
         Unsent(p)' = Unsent(p),
         p \in closing' <=> p \in closing, p \in stopped' <=> p \in stopped,
         \A t \in Queued(p) : tpc'[t] # "new" /\ stamp'[t] # 0
  PROVE  Covered(p)'
<1>1. Queued(p)' = Queued(p)
  BY DEF Queued
<1> QED BY <1>1 DEF Covered, Known, Ending, Counted, QueueFits, NoStop

(* One step of the pools.                                                  *)
LEMMA RejectKeeps == ASSUME PoolInv, NEW t \in Tasks, Reject(t) PROVE PoolInv'
<1> USE DEF Reject
<1>1. PoolTypes'
  BY DEF PoolInv, PoolTypes, PoolTypeOK
<1>2. Stamped'
  BY DEF PoolInv, PoolTypes, PoolTypeOK, Stamped
<1>3. ASSUME NEW p \in Pools PROVE Covered(p)'
  <2>1. tpc[t] = "new" /\ tpc' = [tpc EXCEPT ![t] = "done"] /\ tpc \in [Tasks -> {"new", "put", "sent", "done"}]
    BY DEF PoolInv, PoolTypes, PoolTypeOK
  <2>2. Unsent(p)' = Unsent(p)
    BY <2>1 DEF Unsent
  <2>3. \A u \in Queued(p) : u \in Tasks /\ tpc[u] # "new" /\ stamp[u] # 0
    BY <1>3 DEF PoolInv, Covered, Known, Queued, QueueFits
  <2>4. \A u \in Queued(p) : tpc'[u] # "new" /\ stamp'[u] # 0
    BY <2>1, <2>3
  <2> QED BY <1>3, <2>2, <2>4, Undisturbed DEF PoolInv
<1> QED BY <1>1, <1>2, <1>3 DEF PoolInv, Pools

LEMMA PutKeeps == ASSUME PoolInv, NEW t \in Tasks, PutTask(t) PROVE PoolInv'
<1> USE DEF PutTask
<1> DEFINE p == PoolOf[t]
<1>1. /\ tpc[t] = "new" /\ closing = {} /\ p \in Pools /\ PoolTypes /\ Stamped /\ Covered(p)
      /\ tpc' = [tpc EXCEPT ![t] = "put"] /\ tpc \in [Tasks -> {"new", "put", "sent", "done"}]
      /\ stamp' = [stamp EXCEPT ![t] = clock + 1] /\ clock' = clock + 1
      /\ clock \in Nat /\ stamp \in [Tasks -> Nat] /\ submitted \in [Pools -> Seq(Messages)]
      /\ submitted' = [submitted EXCEPT ![p] = Append(submitted[p], t)]
      /\ UNCHANGED <<ordered, tokens, urgent, rpc, answer, closing, stopped, deaths>>
  BY DEF PoolInv, PoolTypes, PoolTypeOK, Stamped, Pools
<1>2. Append(submitted[p], t) \in Seq(Messages)
  BY <1>1, AppendProperties DEF Messages
<1>3. PoolTypes'
  <2>1. tpc' \in [Tasks -> {"new", "put", "sent", "done"}]
    BY <1>1
  <2>2. submitted' \in [Pools -> Seq(Messages)]
    <3> DEFINE z == Append(submitted[p], t)
    <3>1. z \in Seq(Messages) /\ submitted' = [submitted EXCEPT ![p] = z]
      BY <1>1, <1>2
    <3> HIDE DEF z, p
    <3> QED BY <1>1, <3>1
  <2> QED BY <1>1, <2>1, <2>2 DEF PoolTypes, PoolTypeOK
<1>4. Stamped'
  <2>1. \A u \in Tasks : stamp'[u] = IF u = t THEN clock + 1 ELSE stamp[u]
    BY <1>1
  <2>2. \A u \in Tasks : u # t => tpc'[u] = tpc[u]
    BY <1>1
  <2>3. tpc'[t] = "put" /\ clock' \in Nat /\ stamp' \in [Tasks -> Nat]
    BY <1>1
  <2>4. \A u, v \in Tasks : u # v /\ stamp'[u] # 0 => stamp'[u] # stamp'[v]
    <3> SUFFICES ASSUME NEW u \in Tasks, NEW v \in Tasks, u # v, stamp'[u] # 0
                 PROVE stamp'[u] # stamp'[v]
      OBVIOUS
    <3>1. stamp[u] <= clock /\ stamp[v] <= clock /\ stamp[u] \in Nat /\ stamp[v] \in Nat
      BY <1>1 DEF Stamped
    <3>2. stamp[u] # 0 => stamp[u] # stamp[v]
      BY <1>1, <3>1 DEF Stamped
    <3>3. clock + 1 # stamp[u] /\ clock + 1 # stamp[v]
      BY <1>1, <3>1
    <3> QED BY <2>1, <3>2, <3>3
  <2>5. \A u \in Tasks : stamp'[u] <= clock'
    BY <1>1, <2>1 DEF Stamped
  <2>6. \A u \in Tasks : tpc'[u] = "new" => stamp'[u] = 0
    BY <1>1, <2>1, <2>2, <2>3 DEF Stamped
  <2> QED BY <2>3, <2>4, <2>5, <2>6 DEF Stamped
<1>5. \A u \in Tasks : u # t => tpc'[u] = tpc[u] /\ stamp'[u] = stamp[u]
  BY <1>1
<1>6. tpc'[t] = "put" /\ stamp'[t] # 0
  BY <1>1
<1>7. ASSUME NEW r \in Pools, r # p PROVE Covered(r)'
  <2>1. submitted'[r] = submitted[r]
    BY <1>1, <1>7
  <2>2. Unsent(r)' = Unsent(r)
    BY <1>5, <1>7 DEF Unsent
  <2>3. \A u \in Queued(r) : u \in Tasks /\ tpc[u] # "new" /\ stamp[u] # 0
    BY <1>7 DEF PoolInv, Covered, Known, Queued, QueueFits
  <2>4. \A u \in Queued(r) : tpc'[u] # "new" /\ stamp'[u] # 0
    BY <1>1, <1>5, <2>3
  <2> QED BY <1>1, <1>7, <2>1, <2>2, <2>4, Undisturbed DEF PoolInv
<1>8. Covered(p)'
  <2>1. /\ QueueFits(submitted[p], ordered[p]) /\ NoStop(submitted[p]) /\ Queued(p) = Waiting(submitted[p], ordered[p])
        /\ p \notin stopped
    BY <1>1, QueuedIsWaiting DEF Covered, Ending
  <2>2. \A u \in Queued(p) : u \in Tasks /\ PoolOf[u] = p /\ tpc[u] # "new" /\ stamp[u] # 0
    BY <1>1 DEF Covered, Known, Queued, QueueFits
  <2>3. t \notin Queued(p) /\ Queued(p) \subseteq Tasks
    BY <1>1, <2>2
  <2>4. submitted'[p] = Append(submitted[p], t) /\ ordered'[p] = ordered[p]
    BY <1>1
  <2>5. /\ QueueFits(submitted'[p], ordered'[p]) /\ NoStop(submitted'[p])
        /\ Waiting(submitted'[p], ordered'[p]) = Queued(p) \cup {t}
    BY <2>1, <2>3, <2>4, PutFits
  <2>6. Queued(p)' = Queued(p) \cup {t}
    BY <2>5 DEF Queued, Waiting
  <2>7. Known(p)'
    BY <1>5, <1>6, <2>2, <2>6 DEF Known
  <2>8. Ending(p)'
    BY <1>1, <2>1, <2>5 DEF Ending
  <2>9. Unsent(p)' = Unsent(p) \cup {t} /\ t \notin Unsent(p) /\ Unsent(p) \subseteq Tasks
    BY <1>1, <1>5, <1>6 DEF Unsent
  <2>10. /\ Cardinality(Queued(p) \cup {t}) = Cardinality(Queued(p)) + 1
         /\ Cardinality(Unsent(p) \cup {t}) = Cardinality(Unsent(p)) + 1
         /\ Cardinality(Queued(p)) \in Nat /\ Cardinality(Unsent(p)) \in Nat
    BY <2>3, <2>9, TasksCounted
  <2>11. tokens'[p] = tokens[p] /\ tokens[p] \in Nat /\ Counted(p)
    BY <1>1 DEF Covered, PoolTypes, PoolTypeOK
  <2>12. Counted(p)'
    <3>1. Unsent(p)' = Unsent(p) \cup {t} /\ Queued(p)' = Queued(p) \cup {t}
      BY <2>6, <2>9
    <3>2. Counted(p)' <=> tokens'[p] + Cardinality(Unsent(p)') <= Cardinality(Queued(p)')
      BY DEF Counted
    <3> HIDE DEF p
    <3> QED BY <2>10, <2>11, <3>1, <3>2 DEF Counted
  <2> QED BY <2>5, <2>7, <2>8, <2>12 DEF Covered
<1> QED BY <1>3, <1>4, <1>7, <1>8 DEF PoolInv, Pools

LEMMA TokenKeeps == ASSUME PoolInv, NEW t \in Tasks, SendToken(t) PROVE PoolInv'
<1> USE DEF SendToken
<1> DEFINE p == PoolOf[t]
<1>1. /\ tpc[t] = "put" /\ p \in Pools /\ PoolTypes /\ Stamped /\ Covered(p) /\ Counted(p)
      /\ tpc' = [tpc EXCEPT ![t] = "sent"] /\ tpc \in [Tasks -> {"new", "put", "sent", "done"}]
      /\ tokens \in [Pools -> Nat] /\ tokens' = [tokens EXCEPT ![p] = tokens[p] + 1]
      /\ UNCHANGED <<clock, stamp, submitted, ordered, urgent, rpc, answer, closing, stopped, deaths>>
  BY DEF PoolInv, PoolTypes, PoolTypeOK, Pools, Covered
<1>2. PoolTypes'
  <2> HIDE DEF p
  <2>1. tokens' \in [Pools -> Nat]
    BY <1>1
  <2>2. \A r \in Pools : tokens[r] > 0 => tokens'[r] > 0
    BY <1>1
  <2> QED BY <1>1, <2>1, <2>2 DEF PoolTypes, PoolTypeOK
<1>3. Stamped'
  BY <1>1 DEF Stamped
<1>4. /\ \A u \in Tasks : u # t => tpc'[u] = tpc[u]
      /\ tpc'[t] = "sent"
  BY <1>1
<1>5. ASSUME NEW r \in Pools, r # p PROVE Covered(r)'
  <2>1. tokens'[r] = tokens[r]
    BY <1>1, <1>5
  <2>2. Unsent(r)' = Unsent(r)
    BY <1>4, <1>5 DEF Unsent
  <2>3. \A u \in Queued(r) : u \in Tasks /\ tpc[u] # "new" /\ stamp[u] # 0
    BY <1>5 DEF PoolInv, Covered, Known, Queued, QueueFits
  <2>4. \A u \in Queued(r) : tpc'[u] # "new" /\ stamp'[u] # 0
    BY <1>1, <1>4, <2>3
  <2> QED BY <1>1, <1>5, <2>1, <2>2, <2>4, Undisturbed DEF PoolInv
<1>6. Covered(p)'
  <2>1. Queued(p)' = Queued(p)
    BY <1>1 DEF Queued
  <2>2. QueueFits(submitted[p], ordered[p])' /\ Ending(p)'
    BY <1>1 DEF Covered, Ending, QueueFits, NoStop
  <2>3. \A u \in Queued(p) : u \in Tasks /\ PoolOf[u] = p /\ tpc[u] # "new" /\ stamp[u] # 0
    BY <1>1 DEF Covered, Known, Queued, QueueFits
  <2>4. Known(p)'
    BY <1>1, <1>4, <2>1, <2>3 DEF Known
  <2>5. Unsent(p)' = Unsent(p) \ {t} /\ t \in Unsent(p) /\ Unsent(p) \subseteq Tasks
    BY <1>1, <1>4 DEF Unsent
  <2>6. /\ Cardinality(Unsent(p) \ {t}) = Cardinality(Unsent(p)) - 1 /\ Cardinality(Unsent(p)) \in Nat
    BY <2>5, TasksCounted
  <2>7. Queued(p) \subseteq Tasks /\ Cardinality(Queued(p)) \in Nat
    BY <2>3, TasksCounted
  <2>8. tokens'[p] = tokens[p] + 1 /\ tokens[p] \in Nat
    BY <1>1
  <2>9. Counted(p)'
    <3> HIDE DEF p
    <3> QED BY <1>1, <2>1, <2>5, <2>6, <2>7, <2>8 DEF Counted
  <2> QED BY <2>2, <2>4, <2>9 DEF Covered
<1> QED BY <1>2, <1>3, <1>5, <1>6 DEF PoolInv, Pools

LEMMA RaiseKeeps == ASSUME PoolInv, NEW t \in Tasks, RaisePriority(t) PROVE PoolInv'
<1> USE DEF RaisePriority
<1>1. PoolTypes'
  BY DEF PoolInv, PoolTypes, PoolTypeOK
<1>2. Stamped'
  BY DEF PoolInv, PoolTypes, PoolTypeOK, Stamped
<1>3. ASSUME NEW p \in Pools PROVE Covered(p)'
  <2>1. tpc[t] = "sent" /\ tpc' = [tpc EXCEPT ![t] = "done"] /\ tpc \in [Tasks -> {"new", "put", "sent", "done"}]
    BY DEF PoolInv, PoolTypes, PoolTypeOK
  <2>2. Unsent(p)' = Unsent(p)
    BY <2>1 DEF Unsent
  <2>3. \A u \in Queued(p) : u \in Tasks /\ tpc[u] # "new" /\ stamp[u] # 0
    BY <1>3 DEF PoolInv, Covered, Known, Queued, QueueFits
  <2>4. \A u \in Queued(p) : tpc'[u] # "new" /\ stamp'[u] # 0
    BY <2>1, <2>3
  <2> QED BY <1>3, <2>2, <2>4, Undisturbed DEF PoolInv
<1> QED BY <1>1, <1>2, <1>3 DEF PoolInv, Pools

LEMMA DeathKeeps == ASSUME PoolInv, NEW t \in Tasks, HandlerDies(t) PROVE PoolInv'
<1> USE DEF HandlerDies
<1>1. PoolTypes'
  BY DEF PoolInv, PoolTypes, PoolTypeOK
<1>2. Stamped'
  BY DEF PoolInv, PoolTypes, PoolTypeOK, Stamped
<1>3. ASSUME NEW p \in Pools PROVE Covered(p)'
  <2>1. /\ tpc[t] \in {"put", "sent"} /\ tpc' = [tpc EXCEPT ![t] = "done"]
        /\ tpc \in [Tasks -> {"new", "put", "sent", "done"}] /\ tokens[p] \in Nat /\ Covered(p)
    BY <1>3 DEF PoolInv, PoolTypes, PoolTypeOK
  <2>2. Unsent(p)' \subseteq Unsent(p) /\ Unsent(p) \subseteq Tasks
    BY <2>1 DEF Unsent
  <2>3. \A u \in Queued(p) : u \in Tasks /\ PoolOf[u] = p /\ tpc[u] # "new" /\ stamp[u] # 0
    BY <2>1 DEF Covered, Known, Queued, QueueFits
  <2>4. \A u \in Queued(p) : tpc'[u] # "new" /\ stamp'[u] # 0
    BY <2>1, <2>3
  <2>5. Queued(p)' = Queued(p) /\ QueueFits(submitted[p], ordered[p])' /\ Ending(p)'
    BY <2>1 DEF Queued, Covered, QueueFits, NoStop, Ending
  <2>6. Known(p)'
    BY <2>3, <2>4, <2>5 DEF Known
  <2>7. /\ Cardinality(Unsent(p)') <= Cardinality(Unsent(p))
        /\ Cardinality(Unsent(p)') \in Nat /\ Cardinality(Unsent(p)) \in Nat
    BY <2>2, TasksCounted, FS_Subset
  <2>8. Queued(p) \subseteq Tasks /\ Cardinality(Queued(p)) \in Nat
    BY <2>3, TasksCounted
  <2>9. Counted(p)'
    BY <2>1, <2>5, <2>7, <2>8 DEF Covered, Counted
  <2> QED BY <2>5, <2>6, <2>9 DEF Covered
<1> QED BY <1>1, <1>2, <1>3 DEF PoolInv, Pools

LEMMA PrioritizeKeeps == ASSUME PoolInv, NEW p \in Pools, Prioritize(p) PROVE PoolInv'
<1> USE DEF Prioritize
<1> DEFINE q == submitted[p]
           h == Head(submitted[p])
<1>1. /\ p \notin stopped /\ q # <<>> /\ PoolTypes /\ Stamped /\ Covered(p) /\ QueueFits(q, ordered[p])
      /\ q \in Seq(Messages) /\ submitted \in [Pools -> Seq(Messages)] /\ ordered \in [Pools -> SUBSET Tasks]
      /\ submitted' = [submitted EXCEPT ![p] = Tail(q)]
      /\ UNCHANGED <<tpc, clock, stamp, tokens, urgent, rpc, answer, closing, deaths>>
  BY DEF PoolInv, PoolTypes, PoolTypeOK, Covered, QueueFits
<1>2. h \in Messages /\ Tail(q) \in Seq(Messages)
  BY <1>1, HeadTailProperties
<1>3. h # "stop" => h \in Tasks
  BY <1>2 DEF Messages
<1>4. /\ h = "stop" => stopped' = stopped \cup {p} /\ ordered' = ordered
      /\ h # "stop" => stopped' = stopped /\ ordered' = [ordered EXCEPT ![p] = ordered[p] \cup {h}]
  OBVIOUS
<1>5. /\ NoStop(q) => NoStop(Tail(q))
      /\ h # "stop" => /\ QueueFits(Tail(q), ordered[p] \cup {h})
                       /\ Waiting(Tail(q), ordered[p] \cup {h}) = Waiting(q, ordered[p])
      /\ h = "stop" => Tail(q) = <<>> /\ QueueFits(Tail(q), ordered[p]) /\ Waiting(Tail(q), ordered[p]) = Waiting(q, ordered[p])
  BY <1>1, TakeFits
<1>6. submitted'[p] = Tail(q)
  BY <1>1
<1>7. ordered'[p] = IF h = "stop" THEN ordered[p] ELSE ordered[p] \cup {h}
  BY <1>1, <1>4
<1>8. PoolTypes'
  <2>1. submitted' \in [Pools -> Seq(Messages)]
    <3> HIDE DEF q
    <3> QED BY <1>1, <1>2
  <2>2. ordered' \in [Pools -> SUBSET Tasks]
    <3> HIDE DEF h
    <3> QED BY <1>1, <1>3, <1>4
  <2> QED BY <1>1, <2>1, <2>2 DEF PoolTypes, PoolTypeOK
<1>9. Stamped'
  BY <1>1 DEF Stamped
<1>10. ASSUME NEW r \in Pools, r # p PROVE Covered(r)'
  <2>1. submitted'[r] = submitted[r] /\ ordered'[r] = ordered[r] /\ (r \in stopped' <=> r \in stopped)
    BY <1>1, <1>4, <1>10
  <2>2. Unsent(r)' = Unsent(r)
    BY <1>1 DEF Unsent
  <2>3. \A u \in Queued(r) : tpc'[u] # "new" /\ stamp'[u] # 0
    BY <1>1, <1>10 DEF PoolInv, Covered, Known
  <2> QED BY <1>1, <1>10, <2>1, <2>2, <2>3, Undisturbed DEF PoolInv
<1>11. Covered(p)'
  <2>1. /\ QueueFits(submitted'[p], ordered'[p])
        /\ Waiting(submitted'[p], ordered'[p]) = Waiting(submitted[p], ordered[p])
    BY <1>5, <1>6, <1>7
  <2>2. Queued(p)' = Queued(p)
    BY <2>1 DEF Queued, Waiting
  <2>3. Unsent(p)' = Unsent(p)
    BY <1>1 DEF Unsent
  <2>4. Known(p)' /\ Counted(p)'
    BY <1>1, <2>2, <2>3 DEF Covered, Known, Counted
  <2>5. Ending(p)'
    <3>1. CASE h = "stop"
      <4>1. 1 \in 1..Len(q) /\ h = q[1]
        BY <1>1, EmptySeq
      <4>2. ~NoStop(q)
        BY <3>1, <4>1 DEF NoStop
      <4>3. p \in closing
        BY <1>1, <4>2 DEF Covered, Ending
      <4> QED BY <1>1, <1>5, <1>6, <3>1, <4>3 DEF Ending
    <3>2. CASE h # "stop"
      BY <1>1, <1>4, <1>5, <1>6, <3>2 DEF Covered, Ending
    <3> QED BY <3>1, <3>2
  <2> QED BY <2>1, <2>4, <2>5 DEF Covered
<1> QED BY <1>8, <1>9, <1>10, <1>11 DEF PoolInv, Pools

LEMMA PickKeeps == ASSUME PoolInv, PickPool PROVE PoolInv'
<1>1. PICK p \in Pools : /\ tokens[p] > 0 /\ rpc' = [rpc EXCEPT !.at = "load", !.pool = p]
  BY DEF PickPool
<1>2. UNCHANGED <<tpc, clock, stamp, submitted, ordered, tokens, urgent, answer, closing, stopped, deaths>>
  BY DEF PickPool
<1>3. rpc' = [at |-> "load", pool |-> p, task |-> rpc.task]
  <2>1. rpc = [at |-> rpc.at, pool |-> rpc.pool, task |-> rpc.task]
    BY DEF PoolInv, PoolTypes
  <2> QED BY <1>1, <2>1
<1>4. PoolTypes'
  BY <1>1, <1>2, <1>3 DEF PoolInv, PoolTypes, PoolTypeOK
<1>5. Stamped'
  BY <1>2 DEF PoolInv, Stamped
<1>6. ASSUME NEW r \in Pools PROVE Covered(r)'
  <2>1. Unsent(r)' = Unsent(r) /\ \A u \in Queued(r) : tpc'[u] # "new" /\ stamp'[u] # 0
    BY <1>2, <1>6 DEF Unsent, PoolInv, Covered, Known
  <2> QED BY <1>2, <1>6, <2>1, Undisturbed DEF PoolInv
<1> QED BY <1>4, <1>5, <1>6 DEF PoolInv, Pools

LEMMA LoadKeeps == ASSUME PoolInv, Load PROVE PoolInv'
<1>1. PICK p \in Pools : p = rpc.pool
  BY DEF Load, PoolInv, PoolTypes
<1>2. /\ ordered[p] # {} /\ tokens[p] > 0 /\ Covered(p) /\ PoolTypes /\ Stamped
      /\ tokens \in [Pools -> Nat] /\ ordered \in [Pools -> SUBSET Tasks] /\ QueueFits(submitted[p], ordered[p])
  BY <1>1 DEF Load, PoolInv, PoolTypes, PoolTypeOK, Covered
<1>3. PICK t : t = Foremost(p)
  OBVIOUS
<1>4. /\ ordered' = [ordered EXCEPT ![p] = ordered[p] \ {t}] /\ tokens' = [tokens EXCEPT ![p] = tokens[p] - 1]
      /\ rpc' = [rpc EXCEPT !.at = "run", !.task = t]
      /\ UNCHANGED <<tpc, clock, stamp, submitted, answer, closing, stopped, deaths>>
  BY <1>1, <1>3 DEF Load
<1>5. ordered[p] \subseteq Queued(p) /\ ordered[p] \subseteq Tasks
  BY <1>2 DEF Queued
<1>6. t \in ordered[p]
  <2>1. \A u \in ordered[p] : stamp[u] # 0
    BY <1>2, <1>5 DEF Covered, Known
  <2>2. \E u \in ordered[p] : \A v \in ordered[p] : v = u \/ Earlier(Key(u), Key(v))
    BY <1>2, <1>5, <2>1, ForemostExists
  <2> QED BY <1>3, <2>2 DEF Foremost
<1>7. rpc' = [at |-> "run", pool |-> p, task |-> t]
  <2>1. rpc = [at |-> rpc.at, pool |-> rpc.pool, task |-> rpc.task]
    BY <1>2 DEF PoolTypes
  <2> QED BY <1>1, <1>4, <2>1
<1>8. PoolTypes'
  <2>1. tokens' \in [Pools -> Nat]
    <3>1. tokens[p] - 1 \in Nat
      BY <1>2
    <3> QED BY <1>2, <1>4, <3>1
  <2>2. ordered' \in [Pools -> SUBSET Tasks]
    BY <1>2, <1>4
  <2> QED BY <1>2, <1>4, <1>7, <2>1, <2>2 DEF PoolTypes, PoolTypeOK
<1>9. Stamped'
  BY <1>2, <1>4 DEF Stamped
<1>10. ASSUME NEW r \in Pools, r # p PROVE Covered(r)'
  <2>1. ordered'[r] = ordered[r] /\ tokens'[r] = tokens[r]
    BY <1>2, <1>4, <1>10
  <2>2. Unsent(r)' = Unsent(r) /\ \A u \in Queued(r) : tpc'[u] # "new" /\ stamp'[u] # 0
    BY <1>4, <1>10 DEF Unsent, PoolInv, Covered, Known
  <2>3. /\ submitted'[r] = submitted[r] /\ Covered(r)
        /\ (r \in closing' <=> r \in closing) /\ (r \in stopped' <=> r \in stopped)
    BY <1>4, <1>10 DEF PoolInv
  <2> QED BY <1>10, <2>1, <2>2, <2>3, Undisturbed
<1>11. Covered(p)'
  <2>1. /\ QueueFits(submitted[p], ordered[p] \ {t})
        /\ Waiting(submitted[p], ordered[p] \ {t}) = Waiting(submitted[p], ordered[p]) \ {t}
    <3>1. LoadedFrom(submitted[p], ordered[p], t)
      BY <1>2, <1>6, LoadFits
    <3> QED BY <3>1 DEF LoadedFrom
  <2>2. submitted'[p] = submitted[p] /\ ordered'[p] = ordered[p] \ {t} /\ tokens'[p] = tokens[p] - 1
    BY <1>2, <1>4
  <2>3. Queued(p)' = Queued(p) \ {t} /\ t \in Queued(p)
    BY <1>5, <1>6, <2>1, <2>2 DEF Queued, Waiting
  <2>4. Known(p)' /\ Ending(p)'
    BY <1>2, <1>4, <2>2, <2>3 DEF Covered, Known, Ending
  <2>5. Queued(p) \subseteq Tasks /\ Unsent(p) \subseteq Tasks
    BY <1>2, <1>5 DEF Queued, Unsent
  <2>6. /\ Cardinality(Queued(p) \ {t}) = Cardinality(Queued(p)) - 1
        /\ Cardinality(Queued(p)) \in Nat /\ Cardinality(Unsent(p)) \in Nat
    BY <2>3, <2>5, TasksCounted
  <2>7. Unsent(p)' = Unsent(p) /\ tokens[p] \in Nat /\ Counted(p)
    BY <1>2, <1>4 DEF Unsent, Covered
  <2>8. Counted(p)'
    BY <2>2, <2>3, <2>6, <2>7 DEF Counted
  <2> QED BY <2>1, <2>2, <2>4, <2>8 DEF Covered
<1> QED BY <1>8, <1>9, <1>10, <1>11 DEF PoolInv, Pools

LEMMA FinishedKeeps == ASSUME PoolInv, Finished PROVE PoolInv'
<1>1. PICK a \in {"result", "exception"} : answer' = [answer EXCEPT ![rpc.task] = a]
  BY DEF Finished
<1>2. /\ rpc' = [rpc EXCEPT !.at = "idle"]
      /\ UNCHANGED <<tpc, clock, stamp, submitted, ordered, tokens, urgent, closing, stopped, deaths>>
  BY DEF Finished
<1>3. rpc' = [at |-> "idle", pool |-> rpc.pool, task |-> rpc.task]
  <2>1. rpc = [at |-> rpc.at, pool |-> rpc.pool, task |-> rpc.task]
    BY DEF PoolInv, PoolTypes
  <2> QED BY <1>2, <2>1
<1>4. PoolTypes'
  <2>1. answer' \in [Tasks -> {"pending", "result", "exception"}]
    BY <1>1 DEF PoolInv, PoolTypes, PoolTypeOK
  <2> QED BY <1>2, <1>3, <2>1 DEF PoolInv, PoolTypes, PoolTypeOK
<1>5. Stamped'
  BY <1>2 DEF PoolInv, Stamped
<1>6. ASSUME NEW r \in Pools PROVE Covered(r)'
  <2>1. Unsent(r)' = Unsent(r) /\ \A u \in Queued(r) : tpc'[u] # "new" /\ stamp'[u] # 0
    BY <1>2, <1>6 DEF Unsent, PoolInv, Covered, Known
  <2> QED BY <1>2, <1>6, <2>1, Undisturbed DEF PoolInv
<1> QED BY <1>4, <1>5, <1>6 DEF PoolInv, Pools

LEMMA CloseKeeps == ASSUME PoolInv, NEW p \in Pools, ClosePool(p) PROVE PoolInv'
<1> USE DEF ClosePool
<1>1. /\ p \notin closing /\ closing' = closing \cup {p} /\ PoolTypes /\ Stamped /\ Covered(p)
      /\ QueueFits(submitted[p], ordered[p]) /\ NoStop(submitted[p])
      /\ submitted \in [Pools -> Seq(Messages)] /\ submitted' = [submitted EXCEPT ![p] = Append(submitted[p], "stop")]
      /\ UNCHANGED <<tpc, clock, stamp, ordered, tokens, urgent, rpc, answer, stopped, deaths>>
  BY DEF PoolInv, PoolTypes, Covered, Ending
<1>2. Append(submitted[p], "stop") \in Seq(Messages)
  BY <1>1, AppendProperties DEF Messages
<1>3. PoolTypes'
  <2>1. submitted' \in [Pools -> Seq(Messages)]
    <3> DEFINE z == Append(submitted[p], "stop")
    <3>1. z \in Seq(Messages) /\ submitted' = [submitted EXCEPT ![p] = z]
      BY <1>1, <1>2
    <3> HIDE DEF z
    <3> QED BY <1>1, <3>1
  <2> QED BY <1>1, <2>1 DEF PoolTypes, PoolTypeOK
<1>4. Stamped'
  BY <1>1 DEF Stamped
<1>5. ASSUME NEW r \in Pools, r # p PROVE Covered(r)'
  <2>1. submitted'[r] = submitted[r] /\ (r \in closing' <=> r \in closing)
    BY <1>1, <1>5
  <2>2. Unsent(r)' = Unsent(r) /\ \A u \in Queued(r) : tpc'[u] # "new" /\ stamp'[u] # 0
    BY <1>1, <1>5 DEF Unsent, PoolInv, Covered, Known
  <2> QED BY <1>1, <1>5, <2>1, <2>2, Undisturbed DEF PoolInv
<1>6. Covered(p)'
  <2>1. submitted'[p] = Append(submitted[p], "stop") /\ ordered'[p] = ordered[p]
    BY <1>1
  <2>2. /\ QueueFits(submitted'[p], ordered'[p])
        /\ Waiting(submitted'[p], ordered'[p]) = Waiting(submitted[p], ordered[p])
    BY <1>1, <2>1, StopFits
  <2>3. Queued(p)' = Queued(p) /\ Unsent(p)' = Unsent(p)
    BY <1>1, <2>2 DEF Queued, Waiting, Unsent
  <2>4. Known(p)' /\ Counted(p)'
    BY <1>1, <2>3 DEF Covered, Known, Counted
  <2>5. Ending(p)'
    BY <1>1 DEF Covered, Ending
  <2> QED BY <2>2, <2>4, <2>5 DEF Covered
<1> QED BY <1>3, <1>4, <1>5, <1>6 DEF PoolInv, Pools

LEMMA PoolStepKeeps == PoolInv /\ [PoolNext]_poolVars => PoolInv'
<1> SUFFICES ASSUME PoolInv, [PoolNext]_poolVars PROVE PoolInv'
  OBVIOUS
<1>1. CASE UNCHANGED poolVars
  <2>1. PoolTypes' /\ Stamped' /\ Pools' = Pools
    BY <1>1 DEF poolVars, PoolInv, PoolTypes, PoolTypeOK, Stamped, Pools
  <2>2. ASSUME NEW r \in Pools PROVE Covered(r)'
    <3>1. Unsent(r)' = Unsent(r) /\ \A u \in Queued(r) : tpc'[u] # "new" /\ stamp'[u] # 0
      BY <1>1, <2>2 DEF poolVars, Unsent, PoolInv, Covered, Known
    <3> QED BY <1>1, <2>2, <3>1, Undisturbed DEF PoolInv, poolVars
  <2> QED BY <2>1, <2>2 DEF PoolInv
<1>2. ASSUME NEW t \in Tasks, Reject(t) \/ PutTask(t) \/ SendToken(t) \/ RaisePriority(t) \/ HandlerDies(t)
      PROVE  PoolInv'
  BY <1>2, RejectKeeps, PutKeeps, TokenKeeps, RaiseKeeps, DeathKeeps
<1>3. ASSUME NEW p \in Pools, Prioritize(p) \/ ClosePool(p) PROVE PoolInv'
  BY <1>3, PrioritizeKeeps, CloseKeeps
<1> QED BY <1>1, <1>2, <1>3, PickKeeps, LoadKeeps, FinishedKeeps DEF PoolNext

(* A token of a pool is covered by a task that is ordered or on its way.   *)
LEMMA CoveredIsFed == PoolInv => RuntimeFed
<1> SUFFICES ASSUME PoolInv, rpc.at = "load", ordered[rpc.pool] = {}
             PROVE  rpc.pool \notin stopped /\ submitted[rpc.pool] # <<>> /\ Head(submitted[rpc.pool]) # "stop"
  BY DEF RuntimeFed
<1>1. PICK p \in Pools : p = rpc.pool
  BY DEF PoolInv, PoolTypes
<1>2. tokens[p] > 0 /\ tokens[p] \in Nat /\ Covered(p) /\ ordered[p] = {}
  BY <1>1 DEF PoolInv, PoolTypes, PoolTypeOK
<1>3. Queued(p) \subseteq Tasks /\ Unsent(p) \subseteq Tasks
  BY <1>2 DEF Queued, Unsent
<1>4. Queued(p) # {}
  <2>1. Cardinality(Queued(p)) \in Nat /\ Cardinality(Unsent(p)) \in Nat
    BY <1>3, TasksCounted
  <2>2. Cardinality(Queued(p)) > 0
    BY <1>2, <2>1 DEF Covered, Counted
  <2> QED BY <2>2, FS_EmptySet
<1>5. PICK t \in Tasks, i \in 1..Len(submitted[p]) : submitted[p][i] = t
  BY <1>2, <1>4 DEF Queued
<1>6. submitted[p] \in Seq(Messages) /\ submitted[p] # <<>> /\ Len(submitted[p]) \in Nat
  BY <1>2, <1>5, EmptySeq DEF Covered, QueueFits
<1>7. p \notin stopped
  BY <1>2, <1>6 DEF Covered, Ending
<1>8. Head(submitted[p]) # "stop"
  <2> SUFFICES ASSUME Head(submitted[p]) = "stop" PROVE FALSE
    OBVIOUS
  <2>1. 1 \in 1..Len(submitted[p]) /\ submitted[p][1] = "stop"
    BY <1>5, <1>6
  <2>2. 1 = Len(submitted[p])
    BY <1>2, <2>1 DEF Covered, QueueFits
  <2>3. i = 1
    BY <1>5, <2>2
  <2> QED BY <1>5, <2>1, <2>3, PoolAssumption
<1> QED BY <1>1, <1>6, <1>7, <1>8

(* A runtime that waits inside load_batch_to_runtime() is given a task,    *)
(* whichever handlers died while they submitted one and although pools are *)
(* being shut down.                                                        *)
THEOREM RuntimeIsFed == PoolSpec => []RuntimeFed
<1>1. PoolSpec => []PoolInv
  BY PoolInitInv, PoolStepKeeps, PTL DEF PoolSpec
<1> QED BY <1>1, CoveredIsFed, PTL

-----------------------------------------------------------------------------
(***************************************************************************)
(* The placement of servers.                                               *)
(***************************************************************************)
(* A server looks, in its picture of the swarm, at servers of the swarm.   *)
SelectionInv == SelectionTypeOK /\ DOMAIN simulated \subseteq Servers

(* SelectionTypeOK: a simulated round visits servers of the swarm.         *)
THEOREM SelectionTypesHold == SelectionInit /\ [][SelectionNext]_selectionVars => []SelectionTypeOK
<1>1. SelectionInit => SelectionInv
  BY DEF SelectionInit, SelectionInv, SelectionTypeOK
<1>2. SelectionInv /\ [SelectionNext]_selectionVars => SelectionInv'
  <2> SUFFICES ASSUME SelectionInv, [SelectionNext]_selectionVars PROVE SelectionInv'
    OBVIOUS
  <2> USE DEF SelectionInv, SelectionTypeOK
  <2>1. CASE UNCHANGED selectionVars
    BY <2>1 DEF selectionVars
  <2>2. ASSUME NEW s \in Servers, SelectionStep(s) PROVE SelectionInv'
    <3>1. CASE ChooseBlocks(s) \/ Join(s) \/ GoOnline(s)
      BY <3>1 DEF ChooseBlocks, Join, GoOnline
    <3>2. CASE Check(s)
      <4>1. todo' = DOMAIN SpansOf(record) /\ DOMAIN simulated' = DOMAIN SpansOf(record)
        BY <3>2 DEF Check
      <4>2. DOMAIN SpansOf(record) \subseteq Servers
        BY DEF SpansOf
      <4> QED BY <3>2, <4>1, <4>2 DEF Check
    <3>3. CASE SimulateOne(s)
      <4>1. DOMAIN simulated' = DOMAIN simulated /\ todo' \subseteq todo
        BY <3>3 DEF SimulateOne
      <4>2. shifted' \in BOOLEAN /\ bpc' = bpc
        BY <3>3 DEF SimulateOne
      <4> QED BY <4>1, <4>2
    <3>4. CASE SimulateAgain(s)
      BY <3>4 DEF SimulateAgain
    <3>5. CASE Decide(s)
      BY <3>5 DEF Decide
    <3> QED BY <2>2, <3>1, <3>2, <3>3, <3>4, <3>5 DEF SelectionStep
  <2> QED BY <2>1, <2>2 DEF SelectionNext
<1>3. SelectionInv => SelectionTypeOK
  BY DEF SelectionInv
<1> QED BY <1>1, <1>2, <1>3, PTL

-----------------------------------------------------------------------------
(***************************************************************************)
(* A client's table of servers and its routes.                             *)
(***************************************************************************)
(* Tables hold announcements of allowed peers, and nothing else.           *)
Announced == {o \in Offers : o.first <= o.last}
TableFits(t) ==
  /\ t \in [LayerIds -> [Peers -> Announced \cup {Absent}]]
  /\ \A b \in LayerIds, p \in Peers : t[b][p] # Absent => p \in Allowed
Leg == [peer : Allowed, from : LayerIds, to : 1..Layers]

(* What a caller has built so far is contiguous from the first block.      *)
Contiguous(r) ==
  /\ r \in Seq(Leg) /\ (r # <<>> => r[1].from = 0)
  /\ \A i \in 1..(Len(r) - 1) : r[i].to = r[i + 1].from
  /\ \A i \in 1..Len(r) : r[i].from < r[i].to
Arrived(r) == r # <<>> /\ r[Len(r)].to = Layers
RouteInv ==
  /\ RouteTypeOK /\ swarm \in [Peers -> Announced \cup {Absent}] /\ TableFits(listed) /\ TableFits(found)
  /\ route \in [Callers -> Seq(Leg)]
  /\ \A c \in Callers : Contiguous(route[c]) /\ (wpc[c] = "routed" => Arrived(route[c]))

LEMMA LayersAreIds ==
  /\ LayerIds \subseteq Nat /\ 0 \in LayerIds /\ Layers \in Nat /\ Layers # 0
  /\ \A b : b \in LayerIds <=> b \in Nat /\ b < Layers
BY RouteAssumption DEF LayerIds

(* A server that serves a block is an allowed one, with a span of blocks.  *)
LEMMA ServerOfBlock ==
  ASSUME NEW t, TableFits(t), NEW b \in LayerIds, NEW p \in Peers, Covers(SpanOf(t, p), b)
  PROVE  p \in Allowed /\ SpanOf(t, p).last \in LayerIds /\ SpanOf(t, p).last >= b
<1> DEFINE kept == {c \in LayerIds : t[c][p].online}
<1>1. kept # {}
  <2> SUFFICES ASSUME kept = {} PROVE FALSE
    OBVIOUS
  <2>1. SpanOf(t, p) = Absent
    BY DEF SpanOf
  <2> QED BY <2>1, LayersAreIds DEF Covers, Absent
<1>2. \E c \in kept : \A d \in kept : c <= d
  <2>1. kept \subseteq Nat
    BY LayersAreIds
  <2> HIDE DEF kept
  <2> QED BY <1>1, <2>1, LeastNumber
<1>3. PICK c \in kept : SpanOf(t, p) = t[c][p]
  BY <1>1, <1>2 DEF SpanOf
<1>4. t[c][p].online /\ c \in LayerIds
  OBVIOUS
<1>5. t[c][p] # Absent
  BY <1>4 DEF Absent
<1>6. p \in Allowed /\ t[c][p] \in Announced
  BY <1>4, <1>5 DEF TableFits
<1>7. t[c][p].last \in LayerIds
  BY <1>6 DEF Announced, Offers
<1> QED BY <1>3, <1>6, <1>7, LayersAreIds DEF Covers

(* One more hop from where the route has got to.                           *)
LEMMA HopExtends ==
  ASSUME NEW r, Contiguous(r), Reached(r) < Layers, TableFits(listed),
         NEW p \in Candidates(listed, Reached(r)),
         NEW leg, leg = [peer |-> p, from |-> Reached(r), to |-> SpanOf(listed, p).last + 1]
  PROVE  Contiguous(Append(r, leg)) /\ Reached(Append(r, leg)) = leg.to /\ Append(r, leg) # <<>>
         /\ Append(r, leg) \in Seq(Leg)
<1>1. r \in Seq(Leg) /\ Len(r) \in Nat /\ (r # <<>> => Len(r) \in 1..Len(r))
  BY EmptySeq DEF Contiguous
<1>2. Reached(r) \in LayerIds
  <2>1. CASE r = <<>>
    BY <2>1, LayersAreIds DEF Reached
  <2>2. CASE r # <<>>
    <3>1. r[Len(r)] \in Leg
      BY <1>1, <2>2, ElementOfSeq
    <3>2. r[Len(r)].to \in Nat
      BY <3>1, LayersAreIds DEF Leg
    <3> QED BY <2>2, <3>2, LayersAreIds DEF Reached
  <2> QED BY <2>1, <2>2
<1>3. p \in Peers /\ Covers(SpanOf(listed, p), Reached(r))
  BY DEF Candidates
<1>4. p \in Allowed /\ SpanOf(listed, p).last \in LayerIds /\ SpanOf(listed, p).last >= Reached(r)
  <2> DEFINE b == Reached(r)
  <2>1. b \in LayerIds /\ Covers(SpanOf(listed, p), b)
    BY <1>2, <1>3
  <2> HIDE DEF b
  <2>2. p \in Allowed /\ SpanOf(listed, p).last \in LayerIds /\ SpanOf(listed, p).last >= b
    BY <1>3, <2>1, ServerOfBlock
  <2> QED BY <2>2 DEF b
<1>5. leg \in Leg /\ leg.from = Reached(r) /\ leg.from < leg.to
  BY <1>2, <1>4, LayersAreIds DEF Leg
<1> DEFINE z == Append(r, leg)
           n == Len(r)
<1>6. /\ z \in Seq(Leg) /\ z # <<>> /\ Len(z) = n + 1 /\ z[n + 1] = leg
      /\ \A i \in 1..n : z[i] = r[i]
  BY <1>1, <1>5, AppendProperties
<1>7. n \in Nat /\ (r # <<>> <=> n # 0)
  BY <1>1, EmptySeq
<1>8. r = <<>> => leg.from = 0
  BY <1>5 DEF Reached
<1>9. n # 0 => leg.from = r[n].to
  BY <1>5, <1>7 DEF Reached
<1>10. /\ r # <<>> => r[1].from = 0
       /\ \A i \in 1..(n - 1) : r[i].to = r[i + 1].from
       /\ \A i \in 1..n : r[i].from < r[i].to
  BY DEF Contiguous
<1> HIDE DEF z, n
<1>11. z[1].from = 0
  BY <1>6, <1>7, <1>8, <1>10
<1>12. \A i \in 1..n : z[i].to = z[i + 1].from
  <2> SUFFICES ASSUME NEW i \in 1..n PROVE z[i].to = z[i + 1].from
    OBVIOUS
  <2>1. CASE i = n
    BY <1>6, <1>7, <1>9, <2>1
  <2>2. CASE i # n
    <3>1. i \in 1..(n - 1) /\ i + 1 \in 1..n
      BY <1>7, <2>2
    <3> QED BY <1>6, <1>10, <3>1
  <2> QED BY <2>1, <2>2
<1>13. \A i \in 1..(n + 1) : z[i].from < z[i].to
  <2> SUFFICES ASSUME NEW i \in 1..(n + 1) PROVE z[i].from < z[i].to
    OBVIOUS
  <2>1. CASE i = n + 1
    BY <1>5, <1>6, <2>1
  <2>2. CASE i # n + 1
    <3>1. i \in 1..n
      BY <1>7, <2>2
    <3> QED BY <1>6, <1>10, <3>1
  <2> QED BY <2>1, <2>2
<1>14. Len(z) - 1 = n
  BY <1>6, <1>7
<1>15. Contiguous(z)
  BY <1>6, <1>11, <1>12, <1>13, <1>14 DEF Contiguous
<1>16. Reached(z) = leg.to
  BY <1>6 DEF Reached
<1> QED BY <1>6, <1>15, <1>16 DEF z

(* A path through the graph of the table is a route.                       *)
LEMMA PathIsRoute ==
  ASSUME TableFits(listed), NEW r \in Paths PROVE Contiguous(r) /\ Arrived(r) /\ r \in Seq(Leg)
<1> DEFINE H == UNION {HopsFrom(b) : b \in LayerIds}
<1>1. PICK n \in 1..Layers : r \in [1..n -> H]
  BY DEF Paths
<1>2. /\ r[1].from = 0 /\ r[Len(r)].to = Layers
      /\ \A i \in 1..(Len(r) - 1) : r[i].to = r[i + 1].from
  BY DEF Paths
<1>3. n \in Nat /\ n # 0
  BY LayersAreIds
<1>4. \A h \in H : h \in Leg /\ h.from < h.to
  <2> SUFFICES ASSUME NEW h \in H PROVE h \in Leg /\ h.from < h.to
    OBVIOUS
  <2>1. PICK b \in LayerIds : h \in HopsFrom(b)
    OBVIOUS
  <2>2. PICK p \in Candidates(listed, b) : h = [peer |-> p, from |-> b, to |-> SpanOf(listed, p).last + 1]
    BY <2>1 DEF HopsFrom
  <2>3. p \in Peers /\ Covers(SpanOf(listed, p), b)
    BY <2>2 DEF Candidates
  <2>4. p \in Allowed /\ SpanOf(listed, p).last \in LayerIds /\ SpanOf(listed, p).last >= b
    BY <2>3, ServerOfBlock
  <2> QED BY <2>2, <2>4, LayersAreIds DEF Leg
<1> HIDE DEF H
<1>5. r \in [1..n -> Leg]
  BY <1>1, <1>4
<1>6. r \in Seq(Leg) /\ Len(r) = n
  BY <1>3, <1>5, IsASeq, LenProperties
<1>7. r # <<>>
  BY <1>3, <1>6, EmptySeq
<1>8. \A i \in 1..n : r[i].from < r[i].to
  BY <1>1, <1>4
<1> QED BY <1>2, <1>6, <1>7, <1>8 DEF Contiguous, Arrived

LEMMA AbsentTable == TableFits(Nobody)
BY DEF TableFits, Nobody

LEMMA LookupFits ==
  ASSUME swarm \in [Peers -> Announced \cup {Absent}], NEW t,
         t = [b \in LayerIds |->
                LET usable == {p \in Present(Lookup, b) : p \in Allowed}
                    kept == IF usable \subseteq banned THEN usable ELSE usable \ banned
                IN [p \in Peers |-> IF p \in kept THEN Lookup[b][p] ELSE Absent]]
  PROVE  TableFits(t)
<1>1. \A b \in LayerIds, p \in Peers : Lookup[b][p] \in Announced \cup {Absent}
  BY DEF Lookup
<1>2. ASSUME NEW b \in LayerIds, NEW p \in Peers
      PROVE  /\ t[b][p] \in Announced \cup {Absent}
             /\ t[b][p] # Absent => p \in Allowed
  <2> DEFINE usable == {q \in Present(Lookup, b) : q \in Allowed}
             kept == IF usable \subseteq banned THEN usable ELSE usable \ banned
  <2>1. t[b] = [q \in Peers |-> IF q \in kept THEN Lookup[b][q] ELSE Absent]
    OBVIOUS
  <2>2. kept \subseteq Allowed
    OBVIOUS
  <2> HIDE DEF kept
  <2> QED BY <1>1, <2>1, <2>2
<1>3. t \in [LayerIds -> [Peers -> Announced \cup {Absent}]]
  <2>1. ASSUME NEW b \in LayerIds PROVE t[b] \in [Peers -> Announced \cup {Absent}]
    <3> DEFINE usable == {q \in Present(Lookup, b) : q \in Allowed}
               kept == IF usable \subseteq banned THEN usable ELSE usable \ banned
    <3>1. t[b] = [q \in Peers |-> IF q \in kept THEN Lookup[b][q] ELSE Absent]
      OBVIOUS
    <3> HIDE DEF kept
    <3> QED BY <1>1, <3>1
  <2>2. DOMAIN t = LayerIds /\ t = [b \in LayerIds |-> t[b]]
    BY Zenon
  <2> QED BY <2>1, <2>2
<1> QED BY <1>2, <1>3 DEF TableFits

LEMMA DroppedFits == ASSUME NEW p \in Peers, TableFits(listed) PROVE TableFits(Dropped(p))
<1>1. ASSUME NEW b \in LayerIds
      PROVE  /\ Dropped(p)[b] \in [Peers -> Announced \cup {Absent}]
             /\ \A q \in Peers : Dropped(p)[b][q] # Absent => q \in Allowed
  <2>1. Dropped(p)[b] = [listed[b] EXCEPT ![p] = Absent]
    BY DEF Dropped
  <2>2. listed[b] \in [Peers -> Announced \cup {Absent}]
    BY DEF TableFits
  <2>3. \A q \in Peers : Dropped(p)[b][q] = IF q = p THEN Absent ELSE listed[b][q]
    BY <2>1, <2>2
  <2>4. Dropped(p)[b] \in [Peers -> Announced \cup {Absent}]
    BY <2>1, <2>2
  <2> QED BY <2>3, <2>4 DEF TableFits
<1>2. Dropped(p) \in [LayerIds -> [Peers -> Announced \cup {Absent}]]
  BY <1>1 DEF Dropped
<1> QED BY <1>1, <1>2 DEF TableFits

LEMMA RouteInvInit == RouteInit => RouteInv
<1> SUFFICES ASSUME RouteInit PROVE RouteInv
  OBVIOUS
<1> USE DEF RouteInit
<1>1. RouteTypeOK
  BY DEF RouteTypeOK
<1>2. swarm \in [Peers -> Announced \cup {Absent}]
  BY DEF Announced
<1>3. <<>> \in Seq(Leg) /\ Contiguous(<<>>)
  BY EmptySeq DEF Contiguous
<1> QED BY <1>1, <1>2, <1>3, AbsentTable DEF RouteInv

(* Where callers are, what they have built and what they have stored.      *)
CallerTypes == wpc \in [Callers -> {"idle", "waiting", "routing", "routed", "rpc", "rpc_waiting", "rpc_check", "rpc_again"}]
RoutesFit == /\ route \in [Callers -> Seq(Leg)]
             /\ \A c \in Callers : Contiguous(route[c]) /\ (wpc[c] = "routed" => Arrived(route[c]))

(* The types of everything but the callers.                                *)
Restful == /\ upc \in {"start", "lookup", "apply", "ping", "wait"}
           /\ banned \subseteq Peers /\ fresh \in BOOLEAN /\ poke \in BOOLEAN
           /\ rpcInfo \in {"none", "compared", "other_digest", "other_identity"}
LEMMA RouteTypesSplit == RouteTypeOK <=> CallerTypes /\ Restful
BY DEF RouteTypeOK, CallerTypes, Restful

(* A caller that goes anywhere but to the end of a route.                  *)
LEMMA CallerMoves ==
  ASSUME CallerTypes, RoutesFit, NEW c \in Callers, NEW at,
         at \in {"idle", "waiting", "routing", "rpc", "rpc_waiting", "rpc_check", "rpc_again"},
         wpc' = [wpc EXCEPT ![c] = at], route' = route \/ route' = [route EXCEPT ![c] = <<>>]
  PROVE  CallerTypes' /\ RoutesFit'
<1>1. CallerTypes'
  BY DEF CallerTypes
<1>2. \A d \in Callers : d # c => wpc'[d] = wpc[d]
  BY DEF CallerTypes
<1>3. wpc'[c] = at /\ at # "routed"
  BY DEF CallerTypes
<1>4. <<>> \in Seq(Leg) /\ Contiguous(<<>>)
  BY EmptySeq DEF Contiguous
<1>5. route' \in [Callers -> Seq(Leg)]
  BY <1>4 DEF RoutesFit
<1>6. \A d \in Callers : route'[d] = route[d] \/ (d = c /\ route'[d] = <<>>)
  BY DEF RoutesFit
<1> QED BY <1>1, <1>2, <1>3, <1>4, <1>5, <1>6 DEF RoutesFit

(* A caller whose route grows.                                             *)
LEMMA RouteGrows ==
  ASSUME CallerTypes, RoutesFit, NEW c \in Callers, NEW r, NEW at,
         Contiguous(r), r \in Seq(Leg), at \in {"routing", "routed"}, at = "routed" => Arrived(r),
         wpc' = [wpc EXCEPT ![c] = at], route' = [route EXCEPT ![c] = r]
  PROVE  CallerTypes' /\ RoutesFit'
<1>1. CallerTypes'
  BY DEF CallerTypes
<1>2. \A d \in Callers : d # c => wpc'[d] = wpc[d] /\ route'[d] = route[d]
  BY DEF CallerTypes, RoutesFit
<1>3. wpc'[c] = at /\ route'[c] = r
  BY DEF CallerTypes, RoutesFit
<1>4. route' \in [Callers -> Seq(Leg)]
  BY DEF RoutesFit
<1> QED BY <1>1, <1>2, <1>3, <1>4 DEF RoutesFit

(* The steps of the update thread and of the network.                      *)
LEMMA NetworkKeeps ==
  ASSUME RouteInv, UpdateStep \/ LookupFails \/ \E p \in Peers : Churn(p) \/ BanExpires(p)
  PROVE  RouteInv'
<1>1. /\ CallerTypes /\ Restful /\ RoutesFit /\ swarm \in [Peers -> Announced \cup {Absent}]
      /\ TableFits(listed) /\ TableFits(found)
  BY RouteTypesSplit DEF RouteInv, RoutesFit
<1>2. ASSUME UNCHANGED <<wpc, route>> PROVE CallerTypes' /\ RoutesFit'
  BY <1>1, <1>2 DEF CallerTypes, RoutesFit
<1> SUFFICES /\ CallerTypes' /\ Restful' /\ RoutesFit' /\ swarm' \in [Peers -> Announced \cup {Absent}]
             /\ TableFits(listed') /\ TableFits(found')
  BY RouteTypesSplit DEF RouteInv, RoutesFit, RouteTypeOK, CallerTypes, Restful
<1>3. CASE BeginUpdate \/ NextRound
  BY <1>1, <1>2, <1>3 DEF BeginUpdate, NextRound, Restful
<1>4. CASE FinishLookup
  <2>1. TableFits(found')
    BY <1>1, <1>4, LookupFits DEF FinishLookup
  <2> QED BY <1>1, <1>2, <1>4, <2>1 DEF FinishLookup, Restful
<1>5. CASE LookupFails
  BY <1>1, <1>2, <1>5 DEF LookupFails, Restful
<1>6. CASE Apply
  BY <1>1, <1>2, <1>6, AbsentTable DEF Apply, Restful
<1>7. CASE SetReady
  <2>1. /\ upc' = "wait" /\ fresh' = TRUE /\ route' = route
        /\ UNCHANGED <<swarm, listed, found, banned, poke, rpcInfo>>
    BY <1>7 DEF SetReady
  <2>2. wpc' = [c \in Callers |-> IF wpc[c] = "waiting" THEN "routing"
                                  ELSE IF wpc[c] = "rpc_waiting" THEN "rpc" ELSE wpc[c]]
    BY <1>7 DEF SetReady
  <2>3. CallerTypes'
    BY <1>1, <2>2 DEF CallerTypes
  <2>4. \A c \in Callers : wpc'[c] = "routed" => wpc[c] = "routed"
    BY <1>1, <2>2 DEF CallerTypes
  <2>5. RoutesFit'
    BY <1>1, <2>1, <2>4 DEF RoutesFit
  <2> QED BY <1>1, <2>1, <2>3, <2>5 DEF Restful
<1>8. ASSUME NEW p \in Peers, Churn(p)
      PROVE  /\ CallerTypes' /\ Restful' /\ RoutesFit' /\ swarm' \in [Peers -> Announced \cup {Absent}]
             /\ TableFits(listed') /\ TableFits(found')
  <2>1. PICK o \in {Absent} \cup {x \in Offers : x.first <= x.last} : swarm' = [swarm EXCEPT ![p] = o]
    BY <1>8 DEF Churn
  <2>2. o \in Announced \cup {Absent}
    BY <2>1 DEF Announced
  <2>3. swarm' \in [Peers -> Announced \cup {Absent}]
    BY <1>1, <2>1, <2>2
  <2> QED BY <1>1, <1>2, <1>8, <2>3 DEF Churn, Restful
<1>9. ASSUME NEW p \in Peers, BanExpires(p)
      PROVE  /\ CallerTypes' /\ Restful' /\ RoutesFit' /\ swarm' \in [Peers -> Announced \cup {Absent}]
             /\ TableFits(listed') /\ TableFits(found')
  BY <1>1, <1>2, <1>9 DEF BanExpires, Restful
<1> QED BY <1>3, <1>4, <1>5, <1>6, <1>7, <1>8, <1>9 DEF UpdateStep

LEMMA AwaitKeeps ==
  ASSUME CallerTypes, RoutesFit, Restful, NEW c \in Callers, route' = route, rpcInfo' = rpcInfo,
         AwaitUpdate(c, "routing", "waiting") \/ AwaitUpdate(c, "rpc", "rpc_waiting")
  PROVE  CallerTypes' /\ RoutesFit' /\ Restful' /\ swarm' = swarm /\ listed' = listed /\ found' = found
<1>1. PICK at \in {"routing", "waiting", "rpc", "rpc_waiting"} : wpc' = [wpc EXCEPT ![c] = at]
  BY DEF AwaitUpdate
<1>2. CallerTypes' /\ RoutesFit'
  BY <1>1, CallerMoves
<1> QED BY <1>2 DEF AwaitUpdate, Restful

(* The steps of a caller.                                                  *)
LEMMA CallerKeeps == ASSUME RouteInv, NEW c \in Callers, CallerStep(c) PROVE RouteInv'
<1>1. /\ CallerTypes /\ Restful /\ RoutesFit /\ swarm \in [Peers -> Announced \cup {Absent}]
      /\ TableFits(listed) /\ TableFits(found) /\ route \in [Callers -> Seq(Leg)]
      /\ wpc \in [Callers -> {"idle", "waiting", "routing", "routed", "rpc", "rpc_waiting", "rpc_check", "rpc_again"}]
  BY RouteTypesSplit DEF RouteInv, RoutesFit, CallerTypes
<1> DEFINE Goal == /\ CallerTypes' /\ Restful' /\ RoutesFit' /\ swarm' = swarm
                   /\ TableFits(listed') /\ found' = found
<1>2. SUFFICES Goal
  BY <1>1, RouteTypesSplit DEF RouteInv, RoutesFit, RouteTypeOK, CallerTypes, Restful
<1>3. CASE MakeSequence(c) \/ AskRpcInfo(c) \/ RetryRpcInfo(c)
  BY <1>1, <1>3, AwaitKeeps DEF MakeSequence, AskRpcInfo, RetryRpcInfo
<1>4. CASE Hop(c)
  <2>1. PICK p \in Candidates(listed, Reached(route[c])) :
          route' = [route EXCEPT ![c] = Append(route[c], [peer |-> p, from |-> Reached(route[c]), to |-> SpanOf(listed, p).last + 1])]
    BY <1>4 DEF Hop
  <2>2. PICK r, leg : /\ leg = [peer |-> p, from |-> Reached(route[c]), to |-> SpanOf(listed, p).last + 1]
                      /\ r = Append(route[c], leg)
    OBVIOUS
  <2>3. Contiguous(route[c]) /\ Reached(route[c]) < Layers
    BY <1>1, <1>4 DEF Hop, RoutesFit
  <2>4. Contiguous(r) /\ Reached(r) = leg.to /\ r # <<>> /\ r \in Seq(Leg)
    BY <1>1, <2>2, <2>3, HopExtends
  <2>5. route' = [route EXCEPT ![c] = r] /\ route'[c] = r
    BY <1>1, <2>1, <2>2
  <2>6. wpc' = [wpc EXCEPT ![c] = IF Reached(r) = Layers THEN "routed" ELSE "routing"]
    BY <1>4, <2>5 DEF Hop
  <2>7. PICK at \in {"routing", "routed"} : wpc' = [wpc EXCEPT ![c] = at] /\ (at = "routed" => Reached(r) = Layers)
    BY <2>6
  <2>8. at = "routed" => Arrived(r)
    BY <2>4, <2>7 DEF Arrived, Reached
  <2>9. CallerTypes' /\ RoutesFit'
    BY <1>1, <2>4, <2>5, <2>7, <2>8, RouteGrows
  <2> QED BY <1>1, <1>4, <2>9 DEF Hop, Restful
<1>5. CASE FindPath(c)
  <2>1. PICK r \in Paths : route' = [route EXCEPT ![c] = r]
    BY <1>5 DEF FindPath
  <2>2. Contiguous(r) /\ Arrived(r) /\ r \in Seq(Leg)
    BY <1>1, PathIsRoute
  <2>3. wpc' = [wpc EXCEPT ![c] = "routed"]
    BY <1>5 DEF FindPath
  <2>4. PICK at : at = "routed"
    OBVIOUS
  <2>5. CallerTypes' /\ RoutesFit'
    BY <1>1, <2>1, <2>2, <2>3, <2>4, RouteGrows
  <2> QED BY <1>1, <1>5, <2>5 DEF FindPath, Restful
<1>6. CASE NoRoute(c)
  <2>1. CallerTypes' /\ RoutesFit'
    BY <1>1, <1>6, CallerMoves DEF NoRoute
  <2> QED BY <1>1, <1>6, <2>1 DEF NoRoute, AfterFailure, Restful
<1>7. CASE RequestFails(c)
  <2>1. CallerTypes' /\ RoutesFit'
    BY <1>1, <1>7, CallerMoves DEF RequestFails
  <2>2. PICK i \in 1..Len(route[c]) : /\ banned' = banned \cup {route[c][i].peer} /\ listed' = Dropped(route[c][i].peer)
                                     /\ AfterFailure(Dropped(route[c][i].peer))
    BY <1>7 DEF RequestFails
  <2>3. route[c][i] \in Leg
    BY <1>1, <2>2, ElementOfSeq
  <2>4. route[c][i].peer \in Peers
    BY <2>3, RouteAssumption DEF Leg
  <2>5. TableFits(listed')
    BY <1>1, <2>2, <2>4, DroppedFits
  <2> QED BY <1>1, <1>7, <2>1, <2>2, <2>4, <2>5 DEF RequestFails, AfterFailure, Restful
<1>8. CASE RequestSucceeds(c)
  <2>1. CallerTypes' /\ RoutesFit'
    BY <1>1, <1>8, CallerMoves DEF RequestSucceeds
  <2> QED BY <1>1, <1>8, <2>1 DEF RequestSucceeds, Restful
<1>9. CASE StoreRpcInfo(c)
  <2>1. CallerTypes' /\ RoutesFit'
    BY <1>1, <1>9, CallerMoves DEF StoreRpcInfo
  <2> QED BY <1>1, <1>9, <2>1 DEF StoreRpcInfo, Restful
<1>10. ASSUME RpcFailed(c), route' = route PROVE CallerTypes' /\ RoutesFit'
  <2>1. PICK at \in {"idle", "rpc_again"} : wpc' = [wpc EXCEPT ![c] = at]
    BY <1>10 DEF RpcFailed
  <2> QED BY <1>1, <1>10, <2>1, CallerMoves
<1>11. CASE CheckRpcInfo(c)
  <2>1. CASE rpcInfo = "compared"
    <3>1. CallerTypes' /\ RoutesFit'
      BY <1>1, <1>11, <2>1, CallerMoves DEF CheckRpcInfo
    <3> QED BY <1>1, <1>11, <2>1, <3>1 DEF CheckRpcInfo, Restful
  <2>2. CASE rpcInfo # "compared"
    <3>1. CallerTypes' /\ RoutesFit'
      BY <1>10, <1>11, <2>2 DEF CheckRpcInfo
    <3>2. PICK p \in Peers : banned' = banned \cup {p} /\ listed' = Dropped(p) /\ AfterFailure(Dropped(p))
      BY <1>11, <2>2 DEF CheckRpcInfo
    <3>3. TableFits(listed')
      BY <1>1, <3>2, DroppedFits
    <3>4. rpcInfo' \in {"none", "compared", "other_digest", "other_identity"}
      BY <1>1, <1>11, <2>2 DEF CheckRpcInfo, Restful
    <3>5. Restful'
      BY <1>1, <1>11, <3>2, <3>4 DEF CheckRpcInfo, AfterFailure, Restful
    <3> QED BY <1>11, <3>1, <3>3, <3>5 DEF CheckRpcInfo
  <2> QED BY <2>1, <2>2
<1>12. CASE NoRpcServer(c)
  BY <1>1, <1>10, <1>12 DEF NoRpcServer, AfterFailure, Restful
<1> QED BY <1>3, <1>4, <1>5, <1>6, <1>7, <1>8, <1>9, <1>11, <1>12 DEF CallerStep

LEMMA RouteInvHolds == RouteSpec => []RouteInv
<1>1. RouteInv /\ [RouteNext]_routeVars => RouteInv'
  <2> SUFFICES ASSUME RouteInv, [RouteNext]_routeVars PROVE RouteInv'
    OBVIOUS
  <2>1. CASE UNCHANGED routeVars
    BY <2>1 DEF routeVars, RouteInv, RouteTypeOK, TableFits
  <2> QED BY <2>1, NetworkKeeps, CallerKeeps DEF RouteNext
<1> QED BY <1>1, RouteInvInit, PTL DEF RouteSpec

(* RoutesTile: a route that is used covers the blocks in order, each once, *)
(* with allowed servers, although it is built hop by hop from a table that *)
(* changes between the hops.                                               *)
THEOREM RoutesAreTiled == RouteSpec => []RoutesTile
<1>1. RouteInv => RoutesTile
  <2> SUFFICES ASSUME RouteInv, NEW c \in Callers, wpc[c] = "routed"
               PROVE  /\ route[c][1].from = 0 /\ route[c][Len(route[c])].to = Layers
                      /\ \A i \in 1..(Len(route[c]) - 1) : route[c][i].to = route[c][i + 1].from
                      /\ \A i \in 1..Len(route[c]) : route[c][i].from < route[c][i].to /\ route[c][i].peer \in Allowed
    BY DEF RoutesTile
  <2>1. Contiguous(route[c]) /\ Arrived(route[c])
    BY DEF RouteInv
  <2>2. \A i \in 1..Len(route[c]) : route[c][i] \in Leg
    BY <2>1, ElementOfSeq DEF Contiguous
  <2> QED BY <2>1, <2>2 DEF Contiguous, Arrived, Leg
<1> QED BY <1>1, RouteInvHolds, PTL

-----------------------------------------------------------------------------
(***************************************************************************)
(* The forward and backward passes of training.                            *)
(***************************************************************************)
TrainSpec == TrainInit /\ [][TrainNext]_trainVars

Span == [from : Nat, to : Nat]

(* A pass took the spans ss from block a to block b, on inputs that have   *)
(* passed the blocks before each.                                          *)
Took(ss, ii, a, b) ==
  /\ ss \in Seq(Span) /\ ii \in Seq(Seq(Int)) /\ Len(ii) = Len(ss)
  /\ \A i \in 1..Len(ss) : ss[i].from < ss[i].to /\ ii[i] = BlockSeq(0, ss[i].from)
  /\ \A i \in 1..(Len(ss) - 1) : ss[i].to = ss[i + 1].from
  /\ IF ss = <<>> THEN a = b ELSE ss[1].from = a /\ ss[Len(ss)].to = b

(* What a run over blocks a to b is, block by block.                       *)
LEMMA BlockSeqIs ==
  ASSUME NEW a \in Nat, NEW b \in Nat, a <= b
  PROVE  /\ BlockSeq(a, b) \in Seq(Int) /\ Len(BlockSeq(a, b)) = b - a
         /\ \A i \in 1..(b - a) : BlockSeq(a, b)[i] = a + i - 1
<1> DEFINE n == b - a
           f == [i \in 1..n |-> a + i - 1]
<1>1. n \in Nat /\ f \in [1..n -> Int]
  OBVIOUS
<1>2. BlockSeq(a, b) = f
  BY DEF BlockSeq
<1> HIDE DEF n
<1>3. f \in Seq(Int) /\ Len(f) = n /\ \A i \in 1..n : f[i] = a + i - 1
  BY <1>1
<1> QED BY <1>2, <1>3 DEF n

LEMMA BackwardsIs ==
  ASSUME NEW a \in Nat, NEW b \in Nat, a <= b
  PROVE  /\ Backwards(a, b) \in Seq(Int) /\ Len(Backwards(a, b)) = b - a
         /\ \A i \in 1..(b - a) : Backwards(a, b)[i] = b - i
<1> DEFINE n == b - a
           f == [i \in 1..n |-> b - i]
<1>1. n \in Nat /\ f \in [1..n -> Int]
  OBVIOUS
<1>2. Backwards(a, b) = f
  BY DEF Backwards
<1> HIDE DEF n
<1>3. f \in Seq(Int) /\ Len(f) = n /\ \A i \in 1..n : f[i] = b - i
  BY <1>1
<1> QED BY <1>2, <1>3 DEF n

LEMMA NothingBackwards == ASSUME NEW a \in Nat PROVE Backwards(a, a) = <<>> /\ BlockSeq(a, a) = <<>>
<1>1. Backwards(a, a) \in Seq(Int) /\ Len(Backwards(a, a)) = 0
  BY BackwardsIs
<1>2. BlockSeq(a, a) \in Seq(Int) /\ Len(BlockSeq(a, a)) = 0
  BY BlockSeqIs
<1> QED BY <1>1, <1>2, EmptySeq

(* One span after another: forward and back.                               *)
LEMMA ForwardJoins ==
  ASSUME NEW a \in Nat, NEW b \in Nat, NEW c \in Nat, a <= b, b <= c
  PROVE  BlockSeq(a, b) \o BlockSeq(b, c) = BlockSeq(a, c)
<1> DEFINE x == BlockSeq(a, b)
           y == BlockSeq(b, c)
           z == BlockSeq(a, c)
<1>1. x \in Seq(Int) /\ Len(x) = b - a /\ \A i \in 1..(b - a) : x[i] = a + i - 1
  BY BlockSeqIs
<1>2. y \in Seq(Int) /\ Len(y) = c - b /\ \A i \in 1..(c - b) : y[i] = b + i - 1
  BY BlockSeqIs
<1>3. z \in Seq(Int) /\ Len(z) = c - a /\ \A i \in 1..(c - a) : z[i] = a + i - 1
  BY BlockSeqIs
<1> HIDE DEF x, y, z
<1>4. /\ x \o y \in Seq(Int) /\ Len(x \o y) = Len(x) + Len(y)
      /\ \A i \in 1..(Len(x) + Len(y)) : (x \o y)[i] = IF i <= Len(x) THEN x[i] ELSE y[i - Len(x)]
  BY <1>1, <1>2, ConcatProperties
<1>5. Len(x \o y) = Len(z)
  BY <1>1, <1>2, <1>3, <1>4
<1>6. ASSUME NEW i \in 1..Len(z) PROVE (x \o y)[i] = z[i]
  <2>1. i \in 1..(c - a) /\ i \in 1..(Len(x) + Len(y))
    BY <1>1, <1>2, <1>3
  <2>2. (x \o y)[i] = IF i <= b - a THEN x[i] ELSE y[i - (b - a)]
    BY <1>1, <1>4, <2>1
  <2>3. CASE i <= b - a
    <3>1. i \in 1..(b - a)
      BY <2>1, <2>3
    <3> QED BY <1>1, <1>3, <2>1, <2>2, <2>3, <3>1
  <2>4. CASE ~(i <= b - a)
    <3> DEFINE k == i - (b - a)
    <3>1. k \in 1..(c - b) /\ b + k - 1 = a + i - 1
      BY <2>1, <2>4
    <3>2. y[k] = b + k - 1
      BY <1>2, <3>1
    <3> QED BY <1>3, <2>1, <2>2, <2>4, <3>1, <3>2
  <2> QED BY <2>3, <2>4
<1>7. x \o y = z
  BY <1>3, <1>4, <1>5, <1>6, SeqEqual
<1> QED BY <1>7 DEF x, y, z

LEMMA BackwardJoins ==
  ASSUME NEW a \in Nat, NEW b \in Nat, NEW c \in Nat, a <= b, b <= c
  PROVE  Backwards(b, c) \o Backwards(a, b) = Backwards(a, c)
<1> DEFINE x == Backwards(b, c)
           y == Backwards(a, b)
           z == Backwards(a, c)
<1>1. x \in Seq(Int) /\ Len(x) = c - b /\ \A i \in 1..(c - b) : x[i] = c - i
  BY BackwardsIs
<1>2. y \in Seq(Int) /\ Len(y) = b - a /\ \A i \in 1..(b - a) : y[i] = b - i
  BY BackwardsIs
<1>3. z \in Seq(Int) /\ Len(z) = c - a /\ \A i \in 1..(c - a) : z[i] = c - i
  BY BackwardsIs
<1> HIDE DEF x, y, z
<1>4. /\ x \o y \in Seq(Int) /\ Len(x \o y) = Len(x) + Len(y)
      /\ \A i \in 1..(Len(x) + Len(y)) : (x \o y)[i] = IF i <= Len(x) THEN x[i] ELSE y[i - Len(x)]
  BY <1>1, <1>2, ConcatProperties
<1>5. Len(x \o y) = Len(z)
  BY <1>1, <1>2, <1>3, <1>4
<1>6. ASSUME NEW i \in 1..Len(z) PROVE (x \o y)[i] = z[i]
  <2>1. i \in 1..(c - a) /\ i \in 1..(Len(x) + Len(y))
    BY <1>1, <1>2, <1>3
  <2>2. (x \o y)[i] = IF i <= c - b THEN x[i] ELSE y[i - (c - b)]
    BY <1>1, <1>4, <2>1
  <2>3. CASE i <= c - b
    <3>1. i \in 1..(c - b)
      BY <2>1, <2>3
    <3> QED BY <1>1, <1>3, <2>1, <2>2, <2>3, <3>1
  <2>4. CASE ~(i <= c - b)
    <3> DEFINE k == i - (c - b)
    <3>1. k \in 1..(b - a) /\ b - k = c - i
      BY <2>1, <2>4
    <3>2. y[k] = b - k
      BY <1>2, <3>1
    <3> QED BY <1>3, <2>1, <2>2, <2>4, <3>1, <3>2
  <2> QED BY <2>3, <2>4
<1>7. x \o y = z
  BY <1>3, <1>4, <1>5, <1>6, SeqEqual
<1> QED BY <1>7 DEF x, y, z

(* A span that takes no blocks is none; one that was run is added at the   *)
(* end; the last one is taken off; one pass continues another.             *)
LEMMA TookNothing == ASSUME NEW a PROVE Took(<<>>, <<>>, a, a)
<1>1. <<>> \in Seq(Span) /\ <<>> \in Seq(Seq(Int)) /\ Len(<<>>) = 0
  BY EmptySeq
<1> QED BY <1>1 DEF Took

LEMMA TookSpan ==
  ASSUME NEW ss, NEW ii, NEW a, NEW b, Took(ss, ii, a, b), NEW s \in Span, s.from = b, s.from < s.to,
         BlockSeq(0, s.from) \in Seq(Int)
  PROVE  Took(Append(ss, s), Append(ii, BlockSeq(0, s.from)), a, s.to)
<1> DEFINE x == BlockSeq(0, s.from)
           tt == Append(ss, s)
           jj == Append(ii, x)
           n == Len(ss)
<1>1. n \in Nat /\ ss \in Seq(Span) /\ ii \in Seq(Seq(Int)) /\ Len(ii) = n /\ x \in Seq(Int)
  BY LenProperties DEF Took
<1>2. tt \in Seq(Span) /\ Len(tt) = n + 1 /\ (\A i \in 1..n : tt[i] = ss[i]) /\ tt[n + 1] = s
  BY <1>1, AppendProperties
<1> HIDE DEF x
<1>3. jj \in Seq(Seq(Int)) /\ Len(jj) = n + 1 /\ (\A i \in 1..n : jj[i] = ii[i]) /\ jj[n + 1] = x
  <2>1. /\ Append(ii, x) \in Seq(Seq(Int)) /\ Len(Append(ii, x)) = Len(ii) + 1
        /\ \A i \in 1..Len(ii) : Append(ii, x)[i] = ii[i]
        /\ Append(ii, x)[Len(ii) + 1] = x
    BY <1>1, AppendProperties
  <2> QED BY <1>1, <2>1
<1>4. tt # <<>>
  <2>1. n + 1 # 0 /\ Len(<<>>) = 0
    BY <1>1, EmptySeq
  <2>2. Len(tt) # Len(<<>>)
    BY <1>2, <2>1
  <2> QED BY <2>2
<1> HIDE DEF tt, jj
<1>5. ASSUME NEW i \in 1..Len(tt)
      PROVE  tt[i].from < tt[i].to /\ jj[i] = BlockSeq(0, tt[i].from)
  <2>1. CASE i = n + 1
    BY <1>2, <1>3, <2>1 DEF x
  <2>2. CASE i # n + 1
    <3>1. i \in 1..n
      BY <1>1, <1>2, <2>2
    <3> QED BY <1>2, <1>3, <3>1 DEF Took
  <2> QED BY <2>1, <2>2
<1>6. ASSUME NEW i \in 1..(Len(tt) - 1) PROVE tt[i].to = tt[i + 1].from
  <2>0. i \in 1..n
    BY <1>1, <1>2
  <2>1. CASE i = n
    <3>1. ss # <<>>
      BY <1>1, <2>0, EmptySeq
    <3>2. ss[n].to = b
      BY <3>1 DEF Took
    <3> QED BY <1>2, <2>0, <2>1, <3>2
  <2>2. CASE i # n
    <3>1. i \in 1..(n - 1) /\ i + 1 \in 1..n
      BY <1>1, <2>0, <2>2
    <3>2. ss[i].to = ss[i + 1].from
      BY <3>1 DEF Took
    <3> QED BY <1>2, <2>0, <3>1, <3>2
  <2> QED BY <2>1, <2>2
<1>7. tt[1].from = a /\ tt[Len(tt)].to = s.to
  <2>1. CASE ss = <<>>
    <3>1. n = 0 /\ a = b
      BY <2>1, EmptySeq DEF Took
    <3> QED BY <1>2, <3>1
  <2>2. CASE ss # <<>>
    <3>1. 1 \in 1..n /\ ss[1].from = a
      BY <1>1, <2>2, EmptySeq DEF Took
    <3> QED BY <1>2, <3>1
  <2> QED BY <2>1, <2>2
<1>8. Took(tt, jj, a, s.to)
  BY <1>2, <1>3, <1>4, <1>5, <1>6, <1>7 DEF Took
<1> QED BY <1>8 DEF tt, jj, x

LEMMA FrontIs ==
  ASSUME NEW S, NEW q \in Seq(S), q # <<>>
  PROVE  /\ Front1(q) \in Seq(S) /\ Len(Front1(q)) = Len(q) - 1
         /\ \A i \in 1..(Len(q) - 1) : Front1(q)[i] = q[i]
         /\ Len(q) \in Nat \ {0} /\ LastOf(q) = q[Len(q)] /\ LastOf(q) \in S
<1> DEFINE m == Len(q) - 1
<1>1. Len(q) \in Nat \ {0} /\ m \in Nat
  BY EmptySeq
<1>2. \A i \in 1..m : q[i] \in S
  BY <1>1, ElementOfSeq
<1>3. Front1(q) = SubSeq(q, 1, m)
  BY DEF Front1
<1>4. q[Len(q)] \in S
  BY <1>1, ElementOfSeq
<1> HIDE DEF m
<1>5. /\ SubSeq(q, 1, m) \in Seq(S) /\ Len(SubSeq(q, 1, m)) = (IF 1 <= m THEN m - 1 + 1 ELSE 0)
      /\ \A i \in 1..(m - 1 + 1) : SubSeq(q, 1, m)[i] = q[1 + i - 1]
  BY <1>1, <1>2, SubSeqProperties
<1>6. Len(SubSeq(q, 1, m)) = m /\ \A i \in 1..m : SubSeq(q, 1, m)[i] = q[i]
  BY <1>1, <1>5
<1>7. Front1(q) \in Seq(S) /\ Len(Front1(q)) = m /\ \A i \in 1..m : Front1(q)[i] = q[i]
  BY <1>3, <1>5, <1>6
<1> QED BY <1>1, <1>4, <1>7 DEF m, LastOf

LEMMA TookButLast ==
  ASSUME NEW ss, NEW ii, NEW a, NEW b, Took(ss, ii, a, b), ss # <<>>
  PROVE  /\ LastOf(ss) \in Span /\ LastOf(ss).from < LastOf(ss).to /\ LastOf(ss).to = b
         /\ LastOf(ii) = BlockSeq(0, LastOf(ss).from) /\ ii # <<>>
         /\ Took(Front1(ss), Front1(ii), a, LastOf(ss).from)
<1> DEFINE n == Len(ss)
           m == n - 1
           tt == Front1(ss)
           jj == Front1(ii)
<1>1. ss \in Seq(Span) /\ ii \in Seq(Seq(Int)) /\ Len(ii) = n /\ n \in Nat \ {0} /\ ii # <<>>
  <2>1. ss \in Seq(Span) /\ ii \in Seq(Seq(Int)) /\ Len(ii) = n
    BY DEF Took
  <2> QED BY <2>1, EmptySeq
<1>2. /\ tt \in Seq(Span) /\ Len(tt) = m /\ \A i \in 1..m : tt[i] = ss[i]
      /\ LastOf(ss) = ss[n] /\ LastOf(ss) \in Span
  BY <1>1, FrontIs
<1>3. jj \in Seq(Seq(Int)) /\ Len(jj) = m /\ (\A i \in 1..m : jj[i] = ii[i]) /\ LastOf(ii) = ii[n]
  BY <1>1, FrontIs
<1> HIDE DEF tt, jj
<1>4. n \in 1..n /\ ss[n].from < ss[n].to /\ ss[n].to = b /\ ii[n] = BlockSeq(0, ss[n].from)
  <2>1. n \in 1..n
    BY <1>1
  <2> QED BY <1>1, <2>1 DEF Took
<1>5. \A i \in 1..m : i \in 1..n /\ tt[i].from < tt[i].to /\ jj[i] = BlockSeq(0, tt[i].from)
  <2>1. \A i \in 1..m : i \in 1..n
    BY <1>1
  <2> QED BY <1>2, <1>3, <2>1 DEF Took
<1>6. \A i \in 1..(m - 1) : tt[i].to = tt[i + 1].from
  <2>1. \A i \in 1..(m - 1) : i \in 1..m /\ i + 1 \in 1..m /\ i \in 1..(n - 1)
    BY <1>1
  <2> QED BY <1>2, <2>1 DEF Took
<1>7. IF tt = <<>> THEN a = ss[n].from ELSE tt[1].from = a /\ tt[m].to = ss[n].from
  <2>0. ss[1].from = a
    BY DEF Took
  <2>1. CASE tt = <<>>
    <3>1. n = 1
      <4>1. Len(tt) = 0 /\ Len(tt) = m
        BY <1>2, <2>1, EmptySeq
      <4>2. Len(ss) - 1 = 0 /\ Len(ss) \in Nat
        BY <1>1, <4>1
      <4> QED BY <4>2
    <3> QED BY <2>0, <2>1, <3>1
  <2>2. CASE tt # <<>>
    <3>1. m \in 1..m /\ 1 \in 1..m /\ m \in 1..(n - 1) /\ m + 1 = n
      BY <1>1, <1>2, <2>2, EmptySeq
    <3>2. ss[m].to = ss[m + 1].from
      BY <3>1 DEF Took
    <3> QED BY <1>2, <2>0, <2>2, <3>1, <3>2
  <2> QED BY <2>1, <2>2
<1>8. Took(tt, jj, a, ss[n].from)
  BY <1>2, <1>3, <1>5, <1>6, <1>7 DEF Took
<1> QED BY <1>1, <1>2, <1>3, <1>4, <1>8 DEF tt, jj

LEMMA TookBoth ==
  ASSUME NEW ss, NEW ii, NEW tt, NEW jj, NEW a, NEW b, NEW c,
         Took(ss, ii, a, b), Took(tt, jj, b, c)
  PROVE  Took(ss \o tt, ii \o jj, a, c)
<1> DEFINE n == Len(ss)
           m == Len(tt)
           uu == ss \o tt
           kk == ii \o jj
<1>1. /\ n \in Nat /\ m \in Nat /\ ss \in Seq(Span) /\ tt \in Seq(Span)
      /\ ii \in Seq(Seq(Int)) /\ jj \in Seq(Seq(Int)) /\ Len(ii) = n /\ Len(jj) = m
  <2>1. ss \in Seq(Span) /\ tt \in Seq(Span)
    BY DEF Took
  <2>2. ii \in Seq(Seq(Int)) /\ jj \in Seq(Seq(Int)) /\ Len(ii) = n /\ Len(jj) = m
    BY DEF Took
  <2> QED BY <2>1, <2>2, LenProperties
<1>2. /\ uu \in Seq(Span) /\ Len(uu) = n + m
      /\ \A i \in 1..(n + m) : uu[i] = IF i <= n THEN ss[i] ELSE tt[i - n]
  BY <1>1, ConcatProperties
<1>3. /\ kk \in Seq(Seq(Int)) /\ Len(kk) = n + m
      /\ \A i \in 1..(n + m) : kk[i] = IF i <= n THEN ii[i] ELSE jj[i - n]
  <2>1. /\ ii \o jj \in Seq(Seq(Int)) /\ Len(ii \o jj) = Len(ii) + Len(jj)
        /\ \A i \in 1..(Len(ii) + Len(jj)) :
             (ii \o jj)[i] = IF i <= Len(ii) THEN ii[i] ELSE jj[i - Len(ii)]
    BY <1>1, ConcatProperties
  <2>2. Len(ii) = n /\ Len(jj) = m
    BY <1>1
  <2> HIDE DEF n, m
  <2> QED BY <2>1, <2>2
<1> HIDE DEF uu, kk
<1>4. ASSUME NEW i \in 1..(n + m) PROVE uu[i].from < uu[i].to /\ kk[i] = BlockSeq(0, uu[i].from)
  <2>1. CASE i <= n
    <3>1. i \in 1..n
      BY <2>1
    <3> QED BY <1>2, <1>3, <2>1, <3>1 DEF Took
  <2>2. CASE ~(i <= n)
    <3> DEFINE k == i - n
    <3>1. k \in 1..m
      BY <1>1, <2>2
    <3>2. uu[i] = tt[k] /\ kk[i] = jj[k]
      BY <1>2, <1>3, <2>2
    <3> HIDE DEF k
    <3> QED BY <3>1, <3>2 DEF Took
  <2> QED BY <2>1, <2>2
<1>5. ASSUME NEW i \in 1..(n + m - 1) PROVE uu[i].to = uu[i + 1].from
  <2>0. i \in 1..(n + m) /\ i + 1 \in 1..(n + m)
    BY <1>1
  <2>1. CASE i < n
    <3>1. i \in 1..(n - 1) /\ i + 1 <= n
      BY <1>1, <2>1
    <3>2. uu[i] = ss[i] /\ uu[i + 1] = ss[i + 1]
      BY <1>2, <2>0, <2>1, <3>1
    <3> QED BY <3>1, <3>2 DEF Took
  <2>2. CASE i = n
    <3>1. ss # <<>> /\ tt # <<>>
      BY <1>1, <2>0, <2>2, EmptySeq
    <3>2. ss[n].to = b /\ tt[1].from = b
      BY <3>1 DEF Took
    <3>3. i <= n /\ ~(i + 1 <= n) /\ i + 1 - n = 1
      BY <1>1, <2>2
    <3>4. uu[i] = ss[i] /\ uu[i + 1] = tt[i + 1 - n]
      BY <1>2, <2>0, <3>3
    <3>5. uu[i] = ss[n] /\ uu[i + 1] = tt[1]
      BY <2>2, <3>3, <3>4
    <3> QED BY <3>2, <3>5
  <2>3. CASE i > n
    <3> DEFINE k == i - n
    <3>1. k \in 1..(m - 1) /\ i + 1 - n = k + 1
      BY <1>1, <2>3
    <3>2. uu[i] = tt[k] /\ uu[i + 1] = tt[k + 1]
      BY <1>1, <1>2, <2>0, <2>3, <3>1
    <3> HIDE DEF k
    <3> QED BY <3>1, <3>2 DEF Took
  <2> QED BY <1>1, <2>1, <2>2, <2>3
<1>6. IF uu = <<>> THEN a = c ELSE uu[1].from = a /\ uu[n + m].to = c
  <2>1. CASE ss = <<>> /\ tt = <<>>
    <3>1. n = 0 /\ m = 0 /\ a = b /\ b = c
      BY <2>1, EmptySeq DEF Took
    <3>2. uu = <<>>
      BY <1>2, <3>1, EmptySeq
    <3> QED BY <3>1, <3>2
  <2>2. CASE ss = <<>> /\ tt # <<>>
    <3>1. n = 0 /\ m \in Nat \ {0} /\ a = b /\ tt[1].from = b /\ tt[m].to = c
      BY <1>1, <2>2, EmptySeq DEF Took
    <3>2. uu # <<>> /\ uu[1] = tt[1] /\ uu[n + m] = tt[m]
      BY <1>2, <3>1, EmptySeq
    <3> QED BY <3>1, <3>2
  <2>3. CASE ss # <<>> /\ tt = <<>>
    <3>1. m = 0 /\ n \in Nat \ {0} /\ b = c /\ ss[1].from = a /\ ss[n].to = b
      BY <1>1, <2>3, EmptySeq DEF Took
    <3>2. uu # <<>> /\ uu[1] = ss[1] /\ uu[n + m] = ss[n]
      BY <1>2, <3>1, EmptySeq
    <3> QED BY <3>1, <3>2
  <2>4. CASE ss # <<>> /\ tt # <<>>
    <3>1. m \in Nat \ {0} /\ n \in Nat \ {0} /\ ss[1].from = a /\ tt[m].to = c
      BY <1>1, <2>4, EmptySeq DEF Took
    <3>2. uu # <<>> /\ uu[1] = ss[1] /\ uu[n + m] = tt[m]
      BY <1>2, <3>1, EmptySeq
    <3> QED BY <3>1, <3>2
  <2> QED BY <2>1, <2>2, <2>3, <2>4
<1>7. Took(uu, kk, a, c)
  BY <1>2, <1>3, <1>4, <1>5, <1>6 DEF Took
<1> QED BY <1>7 DEF uu, kk

(* A forward pass that began at block a has come to blockAt.               *)
Underway(a) ==
  /\ blockAt \in Nat /\ a <= blockAt /\ blockAt <= goal
  /\ Took(doneSpans, doneInputs, a, blockAt) /\ act = BlockSeq(0, blockAt)
  /\ fattempt <= 0 => plan = <<>> \/ plan \in Plans(blockAt, goal)

(* The gradient has come back to block e.                                  *)
BackTo(e) ==
  /\ grad = Backwards(e, Depth) /\ gradPrompts = grad
  /\ bspan = NoSpan => Took(spans, interInputs, 0, e)
  /\ bspan # NoSpan => /\ Took(spans, interInputs, 0, bspan.from)
                       /\ bspan.from < bspan.to /\ bspan.to = e
                       /\ binput = BlockSeq(0, bspan.from)

(* Every variable has its type; the span in hand is one of blocks.         *)
TrainTypes ==
  /\ TrainTypeOK /\ goal \in Nat /\ bspan \in Span
  /\ {doneSpans, spans} \subseteq Seq(Span) /\ {doneInputs, interInputs} \subseteq Seq(Seq(Int))

(* What holds in each phase.  In the middle of the backward pass its       *)
(* gradient has come back to some block e, and the kept spans tile the     *)
(* blocks before it; when it has to run a span again, a forward pass is    *)
(* under way from where that span begins.                                  *)
TrainInv ==
  /\ TrainTypes
  /\ phase = "forward" => /\ goal = Depth /\ Underway(0)
                          /\ bspan = NoSpan /\ grad = <<>> /\ gradPrompts = <<>>
  /\ phase = "rerun" => goal = bspan.to /\ Underway(bspan.from)
  /\ phase \in {"retry", "rerun"} => bspan # NoSpan
  /\ phase \in {"backward", "retry", "rerun"} => \E e \in 0..Depth : BackTo(e)
  /\ phase = "returned" => BackTo(0)

LEMMA TrainConstants == Depth \in Nat \ {0} /\ TrainRetries \in Nat \ {0} /\ MaxTrainFaults \in Nat
BY AutogradAssumption

LEMMA NoSpanIs == NoSpan \in Span /\ \A s : s.from < s.to /\ s \in Span => s # NoSpan
BY DEF NoSpan, Span

LEMMA TrainInvInit == TrainInit => TrainInv
<1> SUFFICES ASSUME TrainInit PROVE TrainInv
  OBVIOUS
<1> USE TrainConstants
<1>1. <<>> \in Seq(Span) /\ <<>> \in Seq(Seq(Int)) /\ Len(<<>>) = 0
  BY EmptySeq
<1>2. TrainTypes
  BY <1>1, NoSpanIs DEF TrainInit, TrainTypes, TrainTypeOK
<1>3. Took(doneSpans, doneInputs, 0, blockAt)
  BY TookNothing DEF TrainInit
<1>4. Underway(0)
  BY <1>3, NothingBackwards DEF TrainInit, Underway
<1> QED BY <1>2, <1>4 DEF TrainInit, TrainInv

(* The route of a pass, up to its next span.                               *)
LEMMA PlanAhead ==
  ASSUME NEW a \in Nat, NEW b \in Nat, NEW p \in Plans(a, b), a < b
  PROVE  /\ p # <<>> /\ Head(p) \in Span /\ Head(p).from = a /\ a < Head(p).to /\ Head(p).to <= b
         /\ Tail(p) = <<>> \/ Tail(p) \in Plans(Head(p).to, b)
<1>1. CASE p = <<[from |-> a, to |-> b]>>
  BY <1>1 DEF Span
<1>2. CASE \E m \in (a + 1)..(b - 1) : p = <<[from |-> a, to |-> m], [from |-> m, to |-> b]>>
  <2>1. PICK m \in (a + 1)..(b - 1) : p = <<[from |-> a, to |-> m], [from |-> m, to |-> b]>>
    BY <1>2
  <2>2. Head(p) = [from |-> a, to |-> m] /\ Tail(p) = <<[from |-> m, to |-> b]>> /\ p # <<>>
    BY <2>1
  <2>3. m \in Nat /\ a < m /\ m <= b
    OBVIOUS
  <2>4. Tail(p) \in Plans(m, b)
    BY <2>2 DEF Plans
  <2> QED BY <2>2, <2>3, <2>4 DEF Span
<1> QED BY <1>1, <1>2 DEF Plans

(* A span of a pass that is under way was run.                             *)
LEMMA SpanAdvances ==
  ASSUME TrainTypes, NEW a \in Nat, Underway(a), ForwardSpan
  PROVE  Underway(a)' /\ doneSpans' \in Seq(Span) /\ doneInputs' \in Seq(Seq(Int))
         /\ Len(doneSpans') = Len(doneInputs')
<1> DEFINE s == Head(plan)
<1>1. /\ blockAt < goal /\ plan # <<>> /\ fattempt <= 0 /\ fattempt' = 0 /\ goal' = goal
      /\ doneInputs' = Append(doneInputs, act) /\ doneSpans' = Append(doneSpans, s)
      /\ act' = RunForward(act, s) /\ blockAt' = s.to /\ plan' = Tail(plan)
  BY DEF ForwardSpan, Forwarding
<1>2. /\ blockAt \in Nat /\ goal \in Nat /\ a <= blockAt
      /\ act = BlockSeq(0, blockAt) /\ plan \in Plans(blockAt, goal)
      /\ Took(doneSpans, doneInputs, a, blockAt)
  BY <1>1 DEF Underway, TrainTypes
<1>3. /\ s \in Span /\ s.from = blockAt /\ blockAt < s.to /\ s.to <= goal
      /\ Tail(plan) = <<>> \/ Tail(plan) \in Plans(s.to, goal)
  BY <1>1, <1>2, PlanAhead
<1> HIDE DEF s
<1>4. s.to \in Nat /\ s.from < s.to
  BY <1>2, <1>3 DEF Span
<1>5. BlockSeq(0, s.from) \in Seq(Int)
  BY <1>2, <1>3, BlockSeqIs
<1>6. Took(Append(doneSpans, s), Append(doneInputs, BlockSeq(0, s.from)), a, s.to)
  BY <1>2, <1>3, <1>4, <1>5, TookSpan
<1>7. Took(doneSpans', doneInputs', a, blockAt')
  BY <1>1, <1>2, <1>3, <1>6
<1>8. act' = BlockSeq(0, blockAt')
  <2>1. BlockSeq(0, blockAt) \o BlockSeq(blockAt, s.to) = BlockSeq(0, s.to)
    <3>1. 0 \in Nat /\ 0 <= blockAt /\ blockAt <= s.to
      BY <1>2, <1>3, <1>4
    <3> QED BY <1>2, <1>4, <3>1, ForwardJoins
  <2> QED BY <1>1, <1>2, <1>3, <2>1 DEF RunForward
<1>9. Took(doneSpans, doneInputs, a, blockAt)'
  BY <1>7 DEF Took
<1>10. Underway(a)'
  <2>1. blockAt' \in Nat /\ a <= blockAt' /\ blockAt' <= goal'
    BY <1>1, <1>2, <1>3, <1>4
  <2>2. plan' = <<>> \/ plan' \in Plans(blockAt', goal')
    BY <1>1, <1>3
  <2>3. (BlockSeq(0, blockAt))' = BlockSeq(0, blockAt')
    BY DEF BlockSeq
  <2>4. Plans(blockAt, goal)' = Plans(blockAt', goal')
    BY DEF Plans
  <2> QED BY <1>8, <1>9, <2>1, <2>2, <2>3, <2>4 DEF Underway
<1> QED BY <1>7, <1>10 DEF Took

(* What a pass under way leaves alone while it is planned or failed.       *)
LEMMA RouteChanges ==
  ASSUME NEW a, Underway(a), UNCHANGED <<blockAt, goal, act, doneSpans, doneInputs>>,
         fattempt' <= 0 => plan' = <<>> \/ plan' \in Plans(blockAt, goal)
  PROVE  Underway(a)'
BY DEF Underway, Took, BlockSeq, Plans

LEMMA BackUnchanged ==
  ASSUME UNCHANGED <<spans, interInputs, bspan, binput, grad, gradPrompts>>, NEW e, BackTo(e)
  PROVE  BackTo(e)'
BY DEF BackTo, Took, BlockSeq, Backwards, NoSpan

LEMMA TrainInvStep == TrainInv /\ [TrainNext]_trainVars => TrainInv'
<1> SUFFICES ASSUME TrainInv, [TrainNext]_trainVars PROVE TrainInv'
  OBVIOUS
<1> USE TrainConstants
<1> DEFINE BackKept == UNCHANGED <<spans, interInputs, bspan, binput, grad, gradPrompts>>
<1>0. TrainTypes
  BY DEF TrainInv
<1>1. CASE PlanRoute
  <2>1. /\ BackKept /\ UNCHANGED <<phase, blockAt, goal, act, doneSpans, doneInputs, battempt, tfaults>>
        /\ plan' \in Plans(blockAt, goal) /\ fattempt' = IF fattempt >= 1 THEN -fattempt ELSE fattempt
    BY <1>1 DEF PlanRoute, backwardVars
  <2>2. \A a : Underway(a) => Underway(a)'
    BY <2>1, RouteChanges
  <2>3. TrainTypes'
    BY <1>0, <2>1 DEF TrainTypes, TrainTypeOK
  <2>4. \A e : BackTo(e) => BackTo(e)'
    BY <2>1, BackUnchanged
  <2>5. bspan' = bspan /\ NoSpan' = NoSpan
    BY <2>1 DEF NoSpan
  <2> QED BY <2>1, <2>2, <2>3, <2>4, <2>5 DEF TrainInv
<1>2. CASE ForwardSpan
  <2>1. /\ BackKept /\ UNCHANGED <<phase, goal, battempt, tfaults>> /\ fattempt' = 0
        /\ phase \in {"forward", "rerun"}
    BY <1>2 DEF ForwardSpan, backwardVars, Forwarding
  <2>2. PICK a \in Nat : /\ Underway(a)
                         /\ phase = "forward" => a = 0
                         /\ phase = "rerun" => a = bspan.from
    BY <1>0, <2>1 DEF TrainInv, TrainTypes, Span
  <2>3. /\ Underway(a)' /\ doneSpans' \in Seq(Span) /\ doneInputs' \in Seq(Seq(Int))
        /\ Len(doneSpans') = Len(doneInputs')
    BY <1>0, <1>2, <2>2, SpanAdvances
  <2>4. TrainTypes'
    BY <1>0, <2>1, <2>3 DEF TrainTypes, TrainTypeOK
  <2>5. \A e : BackTo(e) => BackTo(e)'
    BY <2>1, BackUnchanged
  <2>6. bspan' = bspan /\ NoSpan' = NoSpan
    BY <2>1 DEF NoSpan
  <2>7. phase = "forward" => Underway(0)'
    BY <2>2, <2>3
  <2>8. phase = "rerun" => Underway(bspan.from)'
    BY <2>2, <2>3, <2>6
  <2> QED BY <2>1, <2>4, <2>5, <2>6, <2>7, <2>8 DEF TrainInv
<1>3. CASE ForwardFails
  <2>1. /\ BackKept /\ UNCHANGED <<blockAt, goal, act, doneSpans, doneInputs>> /\ phase \in {"forward", "rerun"}
        /\ tfaults' \in Int
    BY <1>3 DEF ForwardFails, Forwarding
  <2>2. \/ /\ fattempt' \in 1..(TrainRetries - 1) /\ phase' = phase /\ battempt' = battempt
        \/ /\ fattempt' = 0 /\ phase = "rerun" /\ phase' = "backward"
           /\ battempt' \in 0..(TrainRetries - 1)
        \/ fattempt' = 0 /\ phase' = "raised" /\ battempt' = battempt
    <3>1. Attempts \in Nat /\ battempt \in Nat
      BY <1>0 DEF Attempts, TrainTypes, TrainTypeOK
    <3>2. CASE Attempts + 1 < TrainRetries
      BY <1>3, <3>1, <3>2 DEF ForwardFails
    <3>3. CASE ~(Attempts + 1 < TrainRetries)
      BY <1>3, <3>1, <3>3 DEF ForwardFails
    <3> QED BY <3>2, <3>3
  <2>3. \A e : BackTo(e) => BackTo(e)'
    BY <2>1, BackUnchanged
  <2>4. bspan' = bspan /\ NoSpan' = NoSpan
    BY <2>1 DEF NoSpan
  <2>5. TrainTypes'
    BY <1>0, <2>1, <2>2 DEF TrainTypes, TrainTypeOK
  <2>6. phase' = phase => \A a : Underway(a) => Underway(a)'
    <3>1. phase' = phase => ~(fattempt' <= 0)
      BY <2>1, <2>2
    <3> QED BY <2>1, <3>1, RouteChanges
  <2>7. CASE phase' = phase
    BY <2>1, <2>3, <2>4, <2>5, <2>6, <2>7 DEF TrainInv
  <2>8. CASE phase' = "backward" /\ phase = "rerun"
    BY <2>3, <2>5, <2>8 DEF TrainInv
  <2>9. CASE phase' = "raised"
    BY <2>5, <2>9 DEF TrainInv
  <2> QED BY <2>2, <2>7, <2>8, <2>9
<1>4. CASE ForwardReturns
  <2>1. /\ phase = "forward" /\ blockAt = goal /\ phase' = "backward"
        /\ spans' = doneSpans /\ interInputs' = doneInputs /\ battempt' = 0
        /\ UNCHANGED <<blockAt, goal, plan, fattempt, act, doneSpans, doneInputs, bspan, grad, gradPrompts>>
    BY <1>4 DEF ForwardReturns
  <2>2. /\ Took(doneSpans, doneInputs, 0, Depth) /\ bspan = NoSpan /\ grad = <<>> /\ gradPrompts = <<>>
    BY <2>1 DEF TrainInv, Underway
  <2>3. Took(spans, interInputs, 0, Depth)'
    BY <2>1, <2>2 DEF Took, BlockSeq
  <2>4. BackTo(Depth)'
    <3>1. grad' = Backwards(Depth, Depth)' /\ gradPrompts' = grad'
      BY <2>1, <2>2, NothingBackwards DEF Backwards
    <3>2. bspan' = NoSpan'
      BY <2>1, <2>2 DEF NoSpan
    <3> QED BY <2>3, <3>1, <3>2 DEF BackTo
  <2>5. TrainTypes'
    BY <1>0, <2>1 DEF TrainTypes, TrainTypeOK
  <2>6. Depth \in 0..Depth
    OBVIOUS
  <2> QED BY <2>1, <2>4, <2>5, <2>6 DEF TrainInv
<1>5. CASE TakeSpan
  <2>1. /\ phase = "backward" /\ bspan = NoSpan /\ spans # <<>> /\ phase' = "backward"
        /\ bspan' = LastOf(spans) /\ binput' = LastOf(interInputs)
        /\ spans' = Front1(spans) /\ interInputs' = Front1(interInputs) /\ battempt' = 0
        /\ UNCHANGED <<blockAt, goal, plan, fattempt, act, doneSpans, doneInputs, grad, gradPrompts>>
    BY <1>5 DEF TakeSpan
  <2>2. PICK e \in 0..Depth : BackTo(e)
    BY <2>1 DEF TrainInv
  <2>3. Took(spans, interInputs, 0, e) /\ grad = Backwards(e, Depth) /\ gradPrompts = grad
    BY <2>1, <2>2 DEF BackTo
  <2>4. /\ bspan' \in Span /\ bspan'.from < bspan'.to /\ bspan'.to = e
        /\ binput' = BlockSeq(0, bspan'.from)
        /\ Took(spans', interInputs', 0, bspan'.from)
    BY <2>1, <2>3, TookButLast
  <2>5. BackTo(e)'
    <3>1. (Took(spans, interInputs, 0, bspan.from))'
      BY <2>4 DEF Took, BlockSeq
    <3>2. (bspan # NoSpan)' /\ binput' = (BlockSeq(0, bspan.from))'
      BY <2>4, NoSpanIs DEF NoSpan, BlockSeq
    <3>3. grad' = (Backwards(e, Depth))' /\ gradPrompts' = grad'
      BY <2>1, <2>3 DEF Backwards
    <3> QED BY <2>4, <3>1, <3>2, <3>3 DEF BackTo
  <2>6. TrainTypes'
    <3>1. spans' \in Seq(Span) /\ interInputs' \in Seq(Seq(Int)) /\ Len(interInputs') = Len(spans')
      BY <2>4 DEF Took
    <3> QED BY <1>0, <2>1, <2>4, <3>1 DEF TrainTypes, TrainTypeOK
  <2> QED BY <2>1, <2>5, <2>6 DEF TrainInv
<1>6. CASE RerunForward
  <2>1. /\ phase = "backward" /\ bspan # NoSpan /\ phase' = "rerun" /\ blockAt' = bspan.from
        /\ goal' = bspan.to /\ act' = binput /\ plan' = <<>> /\ fattempt' = 0
        /\ doneSpans' = <<>> /\ doneInputs' = <<>> /\ BackKept /\ battempt' = battempt
    BY <1>6 DEF RerunForward
  <2>2. PICK e \in 0..Depth : BackTo(e)
    BY <2>1 DEF TrainInv
  <2>3. bspan.from < bspan.to /\ binput = BlockSeq(0, bspan.from) /\ bspan.from \in Nat /\ bspan.to \in Nat
    BY <1>0, <2>1, <2>2 DEF BackTo, TrainTypes, Span
  <2>4. Underway(bspan.from)'
    <3>1. Took(<<>>, <<>>, bspan.from, bspan.from)
      BY TookNothing
    <3>2. (Took(doneSpans, doneInputs, bspan.from, blockAt))'
      BY <2>1, <3>1 DEF Took
    <3>3. act' = (BlockSeq(0, blockAt))'
      BY <2>1, <2>3 DEF BlockSeq
    <3>4. blockAt' \in Nat /\ bspan'.from <= blockAt' /\ blockAt' <= goal'
      BY <2>1, <2>3
    <3> QED BY <2>1, <3>2, <3>3, <3>4 DEF Underway
  <2>5. BackTo(e)' /\ bspan' = bspan /\ NoSpan' = NoSpan
    BY <2>1, <2>2, BackUnchanged DEF NoSpan
  <2>6. TrainTypes'
    <3>1. <<>> \in Seq(Span) /\ <<>> \in Seq(Seq(Int)) /\ Len(<<>>) = 0
      BY EmptySeq
    <3> QED BY <1>0, <2>1, <2>3, <3>1 DEF TrainTypes, TrainTypeOK
  <2> QED BY <2>1, <2>4, <2>5, <2>6 DEF TrainInv
<1>7. CASE Recovered
  <2>1. /\ phase = "rerun" /\ blockAt = goal /\ phase' = "retry"
        /\ bspan' = LastOf(doneSpans) /\ binput' = LastOf(doneInputs)
        /\ spans' = spans \o Front1(doneSpans) /\ interInputs' = interInputs \o Front1(doneInputs)
        /\ UNCHANGED <<goal, fattempt, doneSpans, doneInputs, battempt, grad, gradPrompts>>
    BY <1>7 DEF Recovered
  <2>2. PICK e \in 0..Depth : BackTo(e)
    BY <2>1 DEF TrainInv
  <2>3. /\ bspan # NoSpan /\ Took(spans, interInputs, 0, bspan.from) /\ bspan.to = e
        /\ bspan.from < bspan.to /\ bspan.from \in Nat /\ bspan.to \in Nat
        /\ grad = Backwards(e, Depth) /\ gradPrompts = grad
    BY <1>0, <2>1, <2>2 DEF TrainInv, BackTo, TrainTypes, Span
  <2>4. Took(doneSpans, doneInputs, bspan.from, e)
    BY <2>1, <2>3 DEF TrainInv, Underway
  <2>5. doneSpans # <<>>
    BY <2>3, <2>4 DEF Took
  <2>6. /\ bspan' \in Span /\ bspan'.from < bspan'.to /\ bspan'.to = e
        /\ binput' = BlockSeq(0, bspan'.from)
        /\ Took(Front1(doneSpans), Front1(doneInputs), bspan.from, bspan'.from)
    BY <2>1, <2>4, <2>5, TookButLast
  <2>7. Took(spans', interInputs', 0, bspan'.from)
    BY <2>1, <2>3, <2>6, TookBoth
  <2>8. BackTo(e)' /\ (bspan # NoSpan)'
    <3>1. (Took(spans, interInputs, 0, bspan.from))'
      BY <2>7 DEF Took, BlockSeq
    <3>2. (bspan # NoSpan)' /\ binput' = (BlockSeq(0, bspan.from))'
      BY <2>6, NoSpanIs DEF NoSpan, BlockSeq
    <3>3. grad' = (Backwards(e, Depth))' /\ gradPrompts' = grad'
      BY <2>1, <2>3 DEF Backwards
    <3> QED BY <2>6, <3>1, <3>2, <3>3 DEF BackTo
  <2>9. TrainTypes'
    <3>1. spans' \in Seq(Span) /\ interInputs' \in Seq(Seq(Int)) /\ Len(interInputs') = Len(spans')
      BY <2>7 DEF Took
    <3> QED BY <1>0, <2>1, <2>6, <3>1 DEF TrainTypes, TrainTypeOK
  <2> QED BY <2>1, <2>8, <2>9 DEF TrainInv
<1>8. CASE BackwardSpan
  <2>1. /\ bspan # NoSpan /\ phase \in {"retry", "backward"} /\ phase' = "backward"
        /\ grad' = RunBackward(binput, grad, bspan)
        /\ gradPrompts' = gradPrompts \o Backwards(bspan.from, bspan.to)
        /\ bspan' = NoSpan /\ UNCHANGED <<goal, fattempt, doneSpans, doneInputs, spans, interInputs, battempt>>
    BY <1>8 DEF BackwardSpan, Trying
  <2>2. PICK e \in 0..Depth : BackTo(e)
    BY <2>1 DEF TrainInv
  <2>3. /\ Took(spans, interInputs, 0, bspan.from) /\ bspan.to = e
        /\ bspan.from < bspan.to /\ bspan.from \in Nat /\ bspan.to \in Nat
        /\ binput = BlockSeq(0, bspan.from)
        /\ grad = Backwards(e, Depth) /\ gradPrompts = grad
    BY <1>0, <2>1, <2>2 DEF BackTo, TrainTypes, Span
  <2>4. PICK b \in Nat : b = bspan.from
    BY <2>3
  <2>5. b \in Nat /\ e \in Nat /\ b <= e /\ e <= Depth /\ b \in 0..Depth
    BY <2>3, <2>4
  <2>6. Backwards(e, Depth) \o Backwards(b, e) = Backwards(b, Depth)
    BY <2>5, BackwardJoins
  <2>7. grad' = Backwards(b, Depth) /\ gradPrompts' = Backwards(b, Depth)
    BY <2>1, <2>3, <2>4, <2>6 DEF RunBackward
  <2>8. BackTo(b)'
    <3>1. Took(spans, interInputs, 0, b)
      BY <2>3, <2>4
    <3>2. (Took(spans, interInputs, 0, b))'
      BY <2>1, <3>1 DEF Took, BlockSeq
    <3>3. grad' = (Backwards(b, Depth))' /\ gradPrompts' = grad'
      BY <2>7 DEF Backwards
    <3>4. bspan' = NoSpan'
      BY <2>1 DEF NoSpan
    <3> QED BY <3>2, <3>3, <3>4 DEF BackTo
  <2>9. TrainTypes'
    BY <1>0, <2>1, NoSpanIs DEF TrainTypes, TrainTypeOK
  <2> QED BY <2>1, <2>5, <2>8, <2>9 DEF TrainInv
<1>9. CASE BackwardFails
  <2>1. /\ BackKept /\ UNCHANGED <<goal, fattempt, doneSpans, doneInputs>>
        /\ bspan # NoSpan /\ phase \in {"retry", "backward"}
        /\ \/ phase' = "backward" /\ battempt' \in 0..(TrainRetries - 1)
           \/ phase' = "raised" /\ battempt' = battempt
    <3>1. battempt \in Nat
      BY <1>0 DEF TrainTypes, TrainTypeOK
    <3> QED BY <1>9, <3>1 DEF BackwardFails, Trying
  <2>2. \A e : BackTo(e) => BackTo(e)'
    BY <2>1, BackUnchanged
  <2>3. TrainTypes'
    BY <1>0, <2>1 DEF TrainTypes, TrainTypeOK
  <2> QED BY <2>1, <2>2, <2>3 DEF TrainInv
<1>10. CASE BackwardReturns
  <2>1. /\ BackKept /\ UNCHANGED <<goal, fattempt, doneSpans, doneInputs, battempt>>
        /\ phase = "backward" /\ bspan = NoSpan /\ spans = <<>> /\ phase' = "returned"
    BY <1>10 DEF BackwardReturns, backwardVars
  <2>2. PICK e \in 0..Depth : BackTo(e)
    BY <2>1 DEF TrainInv
  <2>3. e = 0
    BY <2>1, <2>2 DEF BackTo, Took
  <2>4. BackTo(0)'
    BY <2>1, <2>2, <2>3, BackUnchanged
  <2>5. TrainTypes'
    BY <1>0, <2>1 DEF TrainTypes, TrainTypeOK
  <2> QED BY <2>1, <2>4, <2>5 DEF TrainInv
<1>11. CASE UNCHANGED trainVars
  <2>1. /\ BackKept /\ UNCHANGED <<phase, blockAt, goal, plan, fattempt, act, doneSpans, doneInputs, battempt, tfaults>>
    BY <1>11 DEF trainVars
  <2>2. \A a : Underway(a) => Underway(a)'
    BY <2>1 DEF Underway, Took, BlockSeq, Plans
  <2>3. TrainTypes'
    BY <1>0, <2>1 DEF TrainTypes, TrainTypeOK
  <2>4. \A e : BackTo(e) => BackTo(e)'
    BY <2>1, BackUnchanged
  <2>5. bspan' = bspan /\ NoSpan' = NoSpan
    BY <2>1 DEF NoSpan
  <2> QED BY <2>1, <2>2, <2>3, <2>4, <2>5 DEF TrainInv
<1> QED BY <1>1, <1>2, <1>3, <1>4, <1>5, <1>6, <1>7, <1>8, <1>9, <1>10, <1>11 DEF TrainNext

LEMMA InputsAndGradient == TrainInv => GradientExact
<1> SUFFICES ASSUME TrainInv PROVE GradientExact
  OBVIOUS
<1>1. ASSUME phase \in {"backward", "retry"}
      PROVE  \A i \in 1..Len(spans) : interInputs[i] = BlockSeq(0, spans[i].from)
  <2>1. PICK e \in 0..Depth : BackTo(e)
    BY <1>1 DEF TrainInv
  <2>2. \E b : Took(spans, interInputs, 0, b)
    BY <2>1 DEF BackTo
  <2> QED BY <2>2 DEF Took
<1>2. ASSUME phase = "returned" PROVE grad = Backwards(0, Depth) /\ gradPrompts = grad
  BY <1>2 DEF TrainInv, BackTo
<1> QED BY <1>1, <1>2 DEF GradientExact

(* GradientExact: whatever servers fail on the way, forward or back, and   *)
(* whatever routes are taken instead, the span whose gradient is computed  *)
(* has the input the forward pass gave it, and what the backward pass      *)
(* returns went back through every block once, in order.                   *)
THEOREM GradientIsExact == TrainSpec => []GradientExact
<1> QED BY TrainInvInit, TrainInvStep, InputsAndGradient, PTL DEF TrainSpec

(* TrainTypeOK: no retry is counted beyond its limit, and every kept span  *)
(* has its kept input.                                                     *)
THEOREM TrainTypesHold == TrainSpec => []TrainTypeOK
<1>1. TrainInv => TrainTypeOK
  BY DEF TrainInv, TrainTypes
<1> QED BY <1>1, TrainInvInit, TrainInvStep, PTL DEF TrainSpec

-----------------------------------------------------------------------------
(***************************************************************************)
(* Shared keys and values.                                                 *)
(***************************************************************************)
KvSpec == KvInit /\ [][KvNext]_kvVars

Job == [at : Nat, to : Nat, merged : BOOLEAN, dict : [KvTypes -> Nat], seeded : SUBSET KvTypes,
        produced : [KvTypes -> Nat]]

(* A dictionary has the K/V of this step for every donor before block n,   *)
(* and none of another step.                                               *)
FedTo(d, n) ==
  /\ d \in [KvTypes -> Nat]
  /\ \A t \in KvTypes : d[t] \in {0, kstep}
  /\ \A i \in 1..Len(Chain) : i < n /\ Chain[i].kind = "donor" => d[Chain[i].type] = kstep

JobFits ==
  /\ job.merged /\ kblock <= job.to /\ job.to <= Len(Chain)
  /\ kblock <= job.at /\ job.at <= job.to + 1
  /\ job.seeded = Keys(carried)
  /\ FedTo(job.dict, job.at)

KvInv ==
  /\ kstep \in Nat \ {0} /\ kblock \in Nat \ {0} /\ job \in Job
  /\ FedTo(carried, kblock)
  /\ job # NoJob => JobFits
  /\ ~starved

LEMMA LayersTyped ==
  Len(Chain) \in Nat \ {0} /\ MaxKvSteps \in Nat /\ \A i \in 1..Len(Chain) : Chain[i].type \in KvTypes
BY KvAssumption DEF KvTypes

(* A layer finds the keys and values it needs, and leaves those it makes.  *)
LEMMA LayerFed ==
  ASSUME kstep \in Nat \ {0}, NEW n \in 1..Len(Chain), NEW d, FedTo(d, n)
  PROVE  ~Starves(Chain[n], d) /\ FedTo(After(Chain[n], d), n + 1)
<1>1. ~Starves(Chain[n], d)
  <2> SUFFICES ASSUME Chain[n].kind = "consumer" PROVE d[Chain[n].type] = kstep
    BY DEF Starves
  <2>1. PICK j \in 1..(n - 1) : Chain[j].kind = "donor" /\ Chain[j].type = Chain[n].type
    BY KvAssumption DEF DonorsFirst
  <2>2. j \in 1..Len(Chain) /\ j < n
    BY LayersTyped
  <2> QED BY <2>1, <2>2 DEF FedTo
<1>2. CASE Chain[n].kind = "donor"
  <2> DEFINE c == Chain[n].type
             e == [d EXCEPT ![c] = kstep]
  <2>1. After(Chain[n], d) = e
    BY <1>2 DEF After
  <2>2. c \in KvTypes /\ d \in [KvTypes -> Nat]
    BY LayersTyped DEF FedTo
  <2> HIDE DEF c
  <2>3. e \in [KvTypes -> Nat] /\ \A t \in KvTypes : e[t] = IF t = c THEN kstep ELSE d[t]
    BY <2>2
  <2> HIDE DEF e
  <2>4. \A t \in KvTypes : e[t] \in {0, kstep}
    BY <2>3 DEF FedTo
  <2>5. ASSUME NEW i \in 1..Len(Chain), i < n + 1, Chain[i].kind = "donor"
        PROVE  e[Chain[i].type] = kstep
    <3>1. Chain[i].type \in KvTypes
      BY LayersTyped
    <3>2. CASE i = n
      BY <2>3, <3>1, <3>2 DEF c
    <3>3. CASE i # n
      <4>1. i < n
        BY <2>5, <3>3, LayersTyped
      <4>2. d[Chain[i].type] = kstep
        BY <2>5, <4>1 DEF FedTo
      <4> QED BY <2>3, <3>1, <4>2
    <3> QED BY <3>2, <3>3
  <2> QED BY <1>1, <2>1, <2>3, <2>4, <2>5 DEF FedTo
<1>3. CASE Chain[n].kind # "donor"
  <2>1. After(Chain[n], d) = d
    BY <1>3 DEF After
  <2>2. ASSUME NEW i \in 1..Len(Chain), i < n + 1, Chain[i].kind = "donor" PROVE i < n
    BY <1>3, <2>2, LayersTyped
  <2>3. FedTo(d, n + 1)
    BY <2>2 DEF FedTo
  <2> QED BY <1>1, <2>1, <2>3
<1> QED BY <1>2, <1>3

(* What a merged span answers completes what the client carries.           *)
LEMMA AnswerFed ==
  ASSUME KvInv, job # NoJob, job.at > job.to
  PROVE  FedTo(Union2(carried, Produced), job.to + 1)
<1> DEFINE p == Produced
           u == Union2(carried, p)
<1>1. /\ job.merged /\ job.seeded = Keys(carried) /\ job.at = job.to + 1
      /\ FedTo(job.dict, job.to + 1) /\ carried \in [KvTypes -> Nat]
      /\ job.dict \in [KvTypes -> Nat] /\ \A t \in KvTypes : carried[t] \in {0, kstep}
  <2>1. JobFits /\ job.at \in Nat /\ job.to \in Nat
    BY DEF KvInv, Job
  <2>2. job.at = job.to + 1
    BY <2>1 DEF JobFits
  <2> QED BY <2>1, <2>2 DEF JobFits, FedTo, KvInv
<1>2. p = [t \in KvTypes |-> IF t \in Keys(carried) THEN 0 ELSE job.dict[t]]
  BY <1>1 DEF Produced
<1> HIDE DEF p
<1>3. u = [t \in KvTypes |-> IF p[t] # 0 THEN p[t] ELSE carried[t]]
  BY DEF Union2
<1> HIDE DEF u
<1>4. kstep # 0
  BY DEF KvInv
<1>5. ASSUME NEW t \in KvTypes
      PROVE  u[t] = IF carried[t] = 0 THEN job.dict[t] ELSE kstep
  <2>1. t \in Keys(carried) <=> carried[t] # 0
    BY DEF Keys
  <2>2. u[t] = IF p[t] # 0 THEN p[t] ELSE carried[t]
    BY <1>3
  <2>3. p[t] = IF carried[t] # 0 THEN 0 ELSE job.dict[t]
    BY <1>2, <2>1
  <2>4. carried[t] \in {0, kstep} /\ job.dict[t] \in {0, kstep}
    BY <1>1 DEF FedTo
  <2> QED BY <1>4, <2>2, <2>3, <2>4
<1>6. \A t \in KvTypes : u[t] \in {0, kstep}
  BY <1>1, <1>5 DEF FedTo
<1>7. u \in [KvTypes -> Nat]
  <2>1. kstep \in Nat
    BY DEF KvInv
  <2>2. \A t \in KvTypes : u[t] \in Nat
    BY <1>6, <2>1
  <2> QED BY <1>3, <2>2
<1>8. ASSUME NEW i \in 1..Len(Chain), i < job.to + 1, Chain[i].kind = "donor"
      PROVE  u[Chain[i].type] = kstep
  <2>1. Chain[i].type \in KvTypes /\ job.dict[Chain[i].type] = kstep
    BY <1>1, <1>8, LayersTyped DEF FedTo
  <2> QED BY <1>5, <2>1
<1>9. FedTo(u, job.to + 1)
  BY <1>6, <1>7, <1>8 DEF FedTo
<1> QED BY <1>9 DEF u, p

LEMMA KvInvInit == KvInit => KvInv
<1> SUFFICES ASSUME KvInit PROVE KvInv
  OBVIOUS
<1>1. NoKv \in [KvTypes -> Nat] /\ \A t \in KvTypes : NoKv[t] = 0
  BY DEF NoKv
<1>2. NoJob \in Job
  BY <1>1 DEF NoJob, Job
<1>3. FedTo(carried, kblock)
  BY <1>1, LayersTyped DEF KvInit, FedTo
<1> QED BY <1>2, <1>3 DEF KvInit, KvInv

LEMMA KvInvStep ==
  ASSUME ~LongSteps, KvInv, [KvNext]_kvVars PROVE KvInv'
<1> USE LayersTyped
<1>0. NoKv \in [KvTypes -> Nat] /\ NoJob \in Job /\ \A t \in KvTypes : NoKv[t] = 0
  BY DEF NoJob, Job, NoKv
<1>1. CASE SendSpan
  <2>1. PICK to \in kblock..Len(Chain) :
          job' = [at |-> kblock, to |-> to, merged |-> TRUE, dict |-> carried,
                  seeded |-> Keys(carried), produced |-> NoKv]
    BY <1>1 DEF SendSpan
  <2>2. UNCHANGED <<kstep, kblock, carried, starved>> /\ kblock \in Nat \ {0} /\ FedTo(carried, kblock)
    BY <1>1 DEF SendSpan, KvInv
  <2>3. Keys(carried) \in SUBSET KvTypes /\ carried \in [KvTypes -> Nat] /\ to \in Nat
    BY <2>2 DEF Keys, FedTo
  <2>4. job' \in Job
    BY <1>0, <2>1, <2>2, <2>3 DEF Job
  <2>5. FedTo(carried, kblock)'
    BY <2>2 DEF FedTo
  <2>6. JobFits'
    BY <2>1, <2>2, <2>3, <2>5 DEF JobFits, Keys, FedTo
  <2> QED BY <2>2, <2>4, <2>5, <2>6 DEF KvInv
<1>2. CASE MergedBlock
  <2> DEFINE n == job.at
             e == After(Chain[n], job.dict)
  <2>1. /\ n \in 1..Len(Chain) /\ FedTo(job.dict, n) /\ JobFits /\ job \in Job
        /\ kstep \in Nat \ {0} /\ job.at <= job.to
    BY <1>2 DEF MergedBlock, KvInv, JobFits, Job
  <2>2. ~Starves(Chain[n], job.dict) /\ FedTo(e, n + 1)
    BY <2>1, LayerFed
  <2>3. e \in [KvTypes -> Nat]
    BY <2>2 DEF FedTo
  <2>4. job' = [job EXCEPT !.at = @ + 1, !.dict = e] /\ UNCHANGED <<kstep, kblock, carried>> /\ ~starved'
    BY <1>2, <2>2 DEF MergedBlock, KvInv
  <2> HIDE DEF e
  <2>5. /\ job' \in Job /\ job'.at = n + 1 /\ job'.dict = e /\ job'.to = job.to
        /\ job'.merged = job.merged /\ job'.seeded = job.seeded
    <3>1. job.at \in Nat /\ job.at + 1 \in Nat
      BY <2>1 DEF Job
    <3>2. job' = [job EXCEPT !.at = job.at + 1, !.dict = e]
      BY <2>4
    <3>3. job' \in Job
      <4>1. /\ job'.at = job.at + 1 /\ job'.dict = e /\ job'.to = job.to
            /\ job'.merged = job.merged /\ job'.seeded = job.seeded /\ job'.produced = job.produced
        BY <2>1, <3>2 DEF Job
      <4>2. job.to \in Nat /\ job.merged \in BOOLEAN /\ job.seeded \in SUBSET KvTypes
        BY <2>1 DEF Job
      <4>3. job.produced \in [KvTypes -> Nat]
        BY <2>1 DEF Job
      <4>4. job' = [at |-> job'.at, to |-> job'.to, merged |-> job'.merged, dict |-> job'.dict,
                    seeded |-> job'.seeded, produced |-> job'.produced]
        BY <2>1, <3>2 DEF Job
      <4> QED BY <2>3, <3>1, <4>1, <4>2, <4>3, <4>4 DEF Job
    <3> QED BY <2>1, <3>2, <3>3 DEF Job
  <2>6. FedTo(job.dict, job.at)' /\ FedTo(carried, kblock)'
    <3>1. FedTo(e, n + 1) /\ FedTo(carried, kblock)
      BY <2>2 DEF KvInv
    <3> QED BY <2>4, <2>5, <3>1 DEF FedTo
  <2>7. JobFits'
    <3>1. n \in Nat /\ job.to \in Nat /\ kblock \in Nat
      BY <2>1 DEF Job, KvInv
    <3>2. /\ job'.merged /\ kblock' <= job'.to /\ job'.to <= Len(Chain)
          /\ kblock' <= job'.at /\ job'.at <= job'.to + 1
      BY <2>1, <2>4, <2>5, <3>1 DEF JobFits
    <3>3. job'.seeded = Keys(carried)'
      BY <2>1, <2>4, <2>5 DEF JobFits, Keys
    <3> QED BY <2>6, <3>2, <3>3 DEF JobFits
  <2> QED BY <2>1, <2>4, <2>5, <2>6, <2>7 DEF KvInv
<1>3. CASE SeparateBlock
  BY <1>3 DEF SeparateBlock, KvInv, JobFits
<1>4. CASE SpanAnswers
  <2>1. /\ carried' = Union2(carried, Produced) /\ kblock' = job.to + 1 /\ job' = NoJob
        /\ UNCHANGED <<kstep, starved>>
    BY <1>4 DEF SpanAnswers
  <2>2. FedTo(Union2(carried, Produced), job.to + 1) /\ job.to \in Nat
    BY <1>4, AnswerFed DEF SpanAnswers, KvInv, Job
  <2>3. FedTo(carried, kblock)'
    BY <2>1, <2>2 DEF FedTo
  <2>4. kblock' \in Nat \ {0}
    BY <2>1, <2>2
  <2>5. NoJob' = NoJob
    BY DEF NoJob, NoKv, KvTypes
  <2> QED BY <1>0, <2>1, <2>3, <2>4, <2>5 DEF KvInv
<1>5. CASE SpanFails
  <2>1. job' = NoJob /\ UNCHANGED <<kstep, kblock, carried, starved>>
    BY <1>5 DEF SpanFails
  <2> QED BY <1>0, <2>1 DEF KvInv, FedTo
<1>6. CASE NextToken
  <2>1. kblock > Len(Chain) /\ kstep' = kstep + 1 /\ kblock' = 1 /\ carried' = NoKv /\ UNCHANGED <<job, starved>>
    BY <1>6 DEF NextToken
  <2>2. job = NoJob
    BY <2>1 DEF KvInv, JobFits, Job
  <2>3. FedTo(carried, kblock)'
    BY <1>0, <2>1 DEF FedTo
  <2> QED BY <2>1, <2>2, <2>3 DEF KvInv
<1>7. CASE UNCHANGED kvVars
  BY <1>7 DEF kvVars, KvInv, JobFits, FedTo, Keys
<1> QED BY <1>1, <1>2, <1>3, <1>4, <1>5, <1>6, <1>7 DEF KvNext

(* ConsumersFed: while steps are short enough to be merged, every consumer *)
(* finds the K/V that its donor computed in the same step, however a chain *)
(* of any length is cut into spans and whichever servers fail.             *)
THEOREM ConsumersAreFed == ~LongSteps => (KvSpec => []ConsumersFed)
<1> SUFFICES ASSUME ~LongSteps PROVE KvSpec => []ConsumersFed
  OBVIOUS
<1>1. KvInv /\ [KvNext]_kvVars => KvInv'
  BY KvInvStep
<1>2. KvInv => ConsumersFed
  BY DEF KvInv, ConsumersFed
<1> QED BY <1>1, <1>2, KvInvInit, PTL DEF KvSpec

(* A request ends at a block of the chain, however long its steps are.     *)
KvTyped == KvTypeOK /\ "to" \in DOMAIN job /\ (job # NoJob => job.to \in 1..Len(Chain))

(* KvTypeOK: the client stays within the chain and within its steps.       *)
THEOREM KvTypesHold == KvSpec => []KvTypeOK
<1>1. KvInit => KvTyped
  <2> SUFFICES ASSUME KvInit PROVE KvTyped
    OBVIOUS
  <2>1. job = NoJob /\ "to" \in DOMAIN job
    BY DEF KvInit, NoJob
  <2>2. starved \in BOOLEAN
    BY DEF KvInit
  <2>3. kstep = 1 /\ kblock = 1
    BY DEF KvInit
  <2>4. kstep \in 1..(MaxKvSteps + 1) /\ kblock \in 1..(Len(Chain) + 1)
    BY <2>3, LayersTyped
  <2> QED BY <2>1, <2>2, <2>4 DEF KvTyped, KvTypeOK
<1>2. KvTyped /\ [KvNext]_kvVars => KvTyped'
  <2> SUFFICES ASSUME KvTyped, [KvNext]_kvVars PROVE KvTyped'
    OBVIOUS
  <2>0. NoJob' = NoJob /\ "to" \in DOMAIN NoJob
    BY DEF NoJob, NoKv, KvTypes
  <2> USE DEF KvTyped, KvTypeOK
  <2>1. CASE SendSpan
    <3>1. PICK to \in kblock..Len(Chain), merged \in {TRUE, ~LongSteps} :
            job' = [at |-> kblock, to |-> to, merged |-> merged, dict |-> carried, seeded |-> Keys(carried),
                    produced |-> NoKv]
      BY <2>1 DEF SendSpan
    <3>2. "to" \in DOMAIN job' /\ job'.to = to
      BY <3>1
    <3> QED BY <2>1, <3>2, LayersTyped DEF SendSpan
  <2>2. CASE MergedBlock
    <3>1. job' = [job EXCEPT !.at = @ + 1, !.dict = After(Chain[job.at], @)]
      BY <2>2 DEF MergedBlock
    <3>2. "to" \in DOMAIN job' /\ job'.to = job.to
      BY <3>1
    <3>3. job # NoJob /\ kstep' = kstep /\ kblock' = kblock
      BY <2>2 DEF MergedBlock
    <3>4. starved' \in BOOLEAN
      BY <2>2 DEF MergedBlock
    <3> QED BY <3>2, <3>3, <3>4
  <2>3. CASE SeparateBlock
    <3>1. PICK produced : job' = [job EXCEPT !.at = @ + 1, !.produced = produced]
      BY <2>3 DEF SeparateBlock
    <3>2. "to" \in DOMAIN job' /\ job'.to = job.to
      BY <3>1
    <3>3. job # NoJob /\ kstep' = kstep /\ kblock' = kblock
      BY <2>3 DEF SeparateBlock
    <3>4. starved' \in BOOLEAN
      BY <2>3 DEF SeparateBlock
    <3> QED BY <3>2, <3>3, <3>4
  <2>4. CASE SpanAnswers
    BY <2>0, <2>4, LayersTyped DEF SpanAnswers
  <2>5. CASE SpanFails
    BY <2>0, <2>5 DEF SpanFails
  <2>6. CASE NextToken
    BY <2>0, <2>6, LayersTyped DEF NextToken
  <2>7. CASE UNCHANGED kvVars
    BY <2>0, <2>7 DEF kvVars
  <2> QED BY <2>1, <2>2, <2>3, <2>4, <2>5, <2>6, <2>7 DEF KvNext
<1>3. KvTyped => KvTypeOK
  BY DEF KvTyped
<1> QED BY <1>1, <1>2, <1>3, PTL DEF KvSpec

-----------------------------------------------------------------------------
(***************************************************************************)
(* The parts together.                                                     *)
(***************************************************************************)
(* A step of the instance is a step of one part and a stutter of the rest. *)
LEMMA ServingParts ==
  ASSUME [ServingNext]_servingVars
  PROVE  /\ [SelectionNext]_selectionVars /\ [ServerNext]_serverVars /\ [PoolNext]_poolVars
         /\ [RouteNext]_routeVars /\ [TrainNext]_trainVars /\ [KvNext]_kvVars
BY DEF ServingNext, servingVars, Selecting, Hosting, Pooling, Routing, Training, Sharing

(* ServerSound: in the instance, every variable of the six parts keeps its *)
(* type, generations are clean, records truthful and the runtime is fed.   *)
THEOREM ServingIsSound == ServingSpec => []ServerSound
<1>1. ServingInit => SelectionInit /\ ServerInit /\ PoolInit /\ RouteInit /\ TrainInit /\ KvInit
  BY DEF ServingInit
<1>2. [ServingNext]_servingVars => /\ [SelectionNext]_selectionVars /\ [ServerNext]_serverVars /\ [PoolNext]_poolVars
                                   /\ [RouteNext]_routeVars /\ [TrainNext]_trainVars /\ [KvNext]_kvVars
  BY ServingParts
<1>3. ServerInv => ServerTypeOK /\ CleanGenerations /\ RecordsTruthful
  BY DEF ServerInv, KeysFit, PartsFit, Unstarted, CleanGenerations
<1>4. PoolInv => PoolTypeOK
  BY DEF PoolInv, PoolTypes
<1>5. RouteInv => RouteTypeOK
  BY DEF RouteInv
<1>6. /\ ServingSpec => SelectionInit /\ [][SelectionNext]_selectionVars
      /\ ServingSpec => ServerSteps
      /\ ServingSpec => PoolSpec
      /\ ServingSpec => RouteSpec
      /\ ServingSpec => TrainSpec
      /\ ServingSpec => KvSpec
  BY <1>1, <1>2, PTL DEF ServingSpec, ServerSteps, PoolSpec, RouteSpec, TrainSpec, KvSpec
<1>7. PoolSpec => []PoolInv
  BY PoolInitInv, PoolStepKeeps, PTL DEF PoolSpec
<1>8. ServerTypeOK /\ CleanGenerations /\ RecordsTruthful /\ RuntimeFed /\ SelectionTypeOK /\ PoolTypeOK
      /\ RouteTypeOK /\ TrainTypeOK /\ KvTypeOK => ServerSound
  BY DEF ServerSound, ServingTypeOK
<1> QED BY <1>3, <1>4, <1>5, <1>6, <1>7, <1>8, SelectionTypesHold, ServerInvHolds, RuntimeIsFed, RouteInvHolds,
           TrainTypesHold, KvTypesHold, PTL

(* In the instance, a route that is used tiles the blocks and a gradient   *)
(* has gone back through every block once, while servers start, move and   *)
(* end; and if no step is too long to be merged, every layer that shares   *)
(* keys and values is fed (sequence_manager.py, sequential_autograd.py).   *)
THEOREM ServingKeepsPromises ==
  ServingSpec => [](RoutesTile /\ GradientExact) /\ (~LongSteps => []ConsumersFed)
<1>1. ServingInit => RouteInit /\ TrainInit /\ KvInit
  BY DEF ServingInit
<1>2. [ServingNext]_servingVars => [RouteNext]_routeVars /\ [TrainNext]_trainVars /\ [KvNext]_kvVars
  BY ServingParts
<1>3. ServingSpec => RouteSpec /\ TrainSpec /\ KvSpec
  BY <1>1, <1>2, PTL DEF ServingSpec, RouteSpec, TrainSpec, KvSpec
<1> QED BY <1>3, RoutesAreTiled, GradientIsExact, ConsumersAreFed, PTL
=============================================================================
