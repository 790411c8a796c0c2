--------------------------- MODULE ActivationPush ---------------------------
(***************************************************************************)
(* Activation pushes of a public worker (drift/server/handler.py) and the  *)
(* aggregate budget of pending pushes (drift/server/admission.py).         *)
(*                                                                         *)
(* Each connection handler is a process with an event loop.  A session     *)
(* belongs to one handler, but a push for it may arrive at any: the shared *)
(* route names the handler and the generation, and the push crosses over   *)
(* through the owner's event queue.  A push holds one slot of the shared   *)
(* budget from the moment it is reserved until it is consumed or dropped.  *)
(*                                                                         *)
(* Between two waits a loop runs alone in its handler, but the records it  *)
(* shares with the other handlers may change under it.  owed[h] counts the *)
(* slots that handler h gives back, one lock at a time, before its loop    *)
(* goes on.                                                                *)
(***************************************************************************)
EXTENDS Integers, Sequences, FiniteSets, Functions

CONSTANTS Handlers, PushNames, NoPush,
          MaxPending,  \* max_pending_pushes, also the size of every queue
          MaxGens,     \* bound: sessions in a behaviour
          MaxPushes,   \* bound: reservations in a behaviour
          MaxPushFaults    \* bound: lock timeouts in release_push

ASSUME PushAssumption ==
  /\ MaxPending \in Nat \ {0}
  /\ {MaxGens, MaxPushes, MaxPushFaults} \subseteq Nat
  /\ IsFiniteSet(Handlers) /\ IsFiniteSet(PushNames)

VARIABLES
  healthy,  \* of the admission state
  pending,  \* the count of pending pushes
  route,    \* the shared route of each name: its handler and generation
  local,    \* the generation of each session of a handler, 0 if there is none
  queue,    \* the pushes queued for each session of a handler
  events,   \* the event queue of each handler
  heard,    \* the event a handler's listener thread has taken
  hand,     \* the reserved push a handler is about to put into a queue
  owed,     \* slots a handler has to give back
  outbound, \* push tasks to other workers of each session of a handler
  gens, pushes, pushFaults

pushVars == <<healthy, pending, route, local, queue, events, heard, hand, owed,
          outbound, gens, pushes, pushFaults>>

(* The loop of handler h is at a wait.                                     *)
AtWait(h) == hand[h] = NoPush /\ owed[h] = 0

(* A push: the session name it is for, and the generation it was routed to *)
Push == [name : PushNames, gen : 1..MaxGens]
Route == [handler : Handlers, gen : 1..MaxGens]

ASSUME NoPushAssumption == NoPush \notin Push \cup Route \cup [to : Handlers, push : Push]
-----------------------------------------------------------------------------
(* _managed_session: the local queue is made, then the route published.  A *)
(* name that is active here or at another handler is refused, which leaves *)
(* everything as it was.                                                   *)
Start(h, n) ==
  /\ AtWait(h) /\ gens < MaxGens /\ healthy
  /\ local[h][n] = 0 /\ route[n] = NoPush
  /\ gens' = gens + 1
  /\ local' = [local EXCEPT ![h][n] = gens']
  /\ route' = [route EXCEPT ![n] = [handler |-> h, gen |-> gens']]
  /\ UNCHANGED <<healthy, pending, queue, events, heard, hand, owed, outbound, pushes, pushFaults>>

(* The session ends, after its outbound tasks were cancelled and awaited:  *)
(* its route is withdrawn (another generation there poisons the            *)
(* authority), the local session forgotten and the queue drained.          *)
FinishSession(h, n) ==
  /\ AtWait(h) /\ local[h][n] # 0 /\ outbound[h][n] = 0
  /\ IF route[n] = [handler |-> h, gen |-> local[h][n]]
     THEN route' = [route EXCEPT ![n] = NoPush] /\ UNCHANGED healthy
     ELSE healthy' = FALSE /\ UNCHANGED route
  /\ local' = [local EXCEPT ![h][n] = 0]
  /\ owed' = [owed EXCEPT ![h] = Len(queue[h][n])]
  /\ queue' = [queue EXCEPT ![h][n] = <<>>]
  /\ UNCHANGED <<pending, events, heard, hand, outbound, gens, pushes, pushFaults>>

(* _get_from_session_queue takes a push; its slot is given back.           *)
Consume(h, n) ==
  /\ AtWait(h) /\ local[h][n] # 0 /\ queue[h][n] # <<>>
  /\ queue' = [queue EXCEPT ![h][n] = Tail(@)]
  /\ owed' = [owed EXCEPT ![h] = 1]
  /\ UNCHANGED <<healthy, pending, route, local, events, heard, hand, outbound, gens, pushes,
                 pushFaults>>
-----------------------------------------------------------------------------
(* rpc_push at handler h: reserve_push takes a slot and reads the route.   *)
Reserve(h, n) ==
  /\ AtWait(h) /\ pushes < MaxPushes /\ healthy
  /\ route[n] # NoPush /\ pending < MaxPending
  /\ pending' = pending + 1
  /\ hand' = [hand EXCEPT ![h] = [to |-> route[n].handler,
                                  push |-> [name |-> n, gen |-> route[n].gen]]]
  /\ pushes' = pushes + 1
  /\ UNCHANGED <<healthy, route, local, queue, events, heard, owed, outbound, gens, pushFaults>>

(* The request does not name blocks of this worker.                        *)
Invalid(h) ==
  /\ hand[h] # NoPush
  /\ hand' = [hand EXCEPT ![h] = NoPush]
  /\ owed' = [owed EXCEPT ![h] = 1]
  /\ UNCHANGED <<healthy, pending, route, local, queue, events, heard, outbound, gens, pushes,
                 pushFaults>>

(* _put_into_session_queue: into the session's own queue when it is here   *)
(* and of that generation, or into the owner's event queue; otherwise, or  *)
(* when that queue is full, the push is refused.                           *)
Put(h) ==
  /\ hand[h] # NoPush
  /\ hand' = [hand EXCEPT ![h] = NoPush]
  /\ LET to == hand[h].to
         push == hand[h].push
         here == to = h /\ local[h][push.name] = push.gen
                        /\ Len(queue[h][push.name]) < MaxPending
         there == to # h /\ Len(events[to]) < MaxPending
     IN  /\ queue' = IF here THEN [queue EXCEPT ![h][push.name] = Append(@, push.gen)] ELSE queue
         /\ events' = IF there THEN [events EXCEPT ![to] = Append(@, push)] ELSE events
         /\ owed' = [owed EXCEPT ![h] = IF here \/ there THEN 0 ELSE 1]
  /\ UNCHANGED <<healthy, pending, route, local, heard, outbound, gens, pushes, pushFaults>>

(* The listener's thread takes an event.                                   *)
Hear(h) ==
  /\ heard[h] = NoPush /\ events[h] # <<>>
  /\ heard' = [heard EXCEPT ![h] = Head(events[h])]
  /\ events' = [events EXCEPT ![h] = Tail(@)]
  /\ UNCHANGED <<healthy, pending, route, local, queue, hand, owed, outbound, gens, pushes,
                 pushFaults>>

(* Fault model: the generation is not compared.                            *)
DeliverByName(h) ==
  /\ AtWait(h) /\ heard[h] # NoPush
  /\ heard' = [heard EXCEPT ![h] = NoPush]
  /\ LET push == heard[h]
         fits == local[h][push.name] # 0 /\ Len(queue[h][push.name]) < MaxPending
     IN  /\ queue' = IF fits THEN [queue EXCEPT ![h][push.name] = Append(@, push.gen)] ELSE queue
         /\ owed' = [owed EXCEPT ![h] = IF fits THEN 0 ELSE 1]
  /\ UNCHANGED <<healthy, pending, route, local, events, hand, outbound, gens, pushes, pushFaults>>

(* The listener's loop queues it for the session of that generation, or    *)
(* drops it.                                                               *)
Deliver(h) ==
  /\ AtWait(h) /\ heard[h] # NoPush
  /\ heard' = [heard EXCEPT ![h] = NoPush]
  /\ LET push == heard[h]
         fits == local[h][push.name] = push.gen /\ Len(queue[h][push.name]) < MaxPending
     IN  /\ queue' = IF fits THEN [queue EXCEPT ![h][push.name] = Append(@, push.gen)] ELSE queue
         /\ owed' = [owed EXCEPT ![h] = IF fits THEN 0 ELSE 1]
  /\ UNCHANGED <<healthy, pending, route, local, events, hand, outbound, gens, pushes, pushFaults>>
-----------------------------------------------------------------------------
(* A session's output is pushed to the next worker: reserve_outbound_push  *)
(* takes a slot for the task, or the output is not pushed.                 *)
SendPush(h, n) ==
  /\ AtWait(h) /\ pushes < MaxPushes /\ local[h][n] # 0
  /\ healthy /\ pending < MaxPending
  /\ pending' = pending + 1
  /\ outbound' = [outbound EXCEPT ![h][n] = @ + 1]
  /\ pushes' = pushes + 1
  /\ UNCHANGED <<healthy, route, local, queue, events, heard, hand, owed, gens, pushFaults>>

(* The task ends, fails, times out or is cancelled: its callback runs.     *)
PushSent(h, n) ==
  /\ AtWait(h) /\ outbound[h][n] > 0
  /\ outbound' = [outbound EXCEPT ![h][n] = @ - 1]
  /\ owed' = [owed EXCEPT ![h] = 1]
  /\ UNCHANGED <<healthy, pending, route, local, queue, events, heard, hand, gens, pushes,
                 pushFaults>>

(* release_push: the count goes down, or an impossible transition poisons  *)
(* the authority.                                                          *)
ReleasePush(h) ==
  /\ owed[h] > 0
  /\ owed' = [owed EXCEPT ![h] = @ - 1]
  /\ IF pending < 1
     THEN healthy' = FALSE /\ UNCHANGED pending
     ELSE pending' = pending - 1 /\ UNCHANGED healthy
  /\ UNCHANGED <<route, local, queue, events, heard, hand, outbound, gens, pushes, pushFaults>>

(* The lock times out in release_push: mark_unhealthy.                     *)
ReleaseTimeout(h) ==
  /\ owed[h] > 0 /\ pushFaults < MaxPushFaults
  /\ pushFaults' = pushFaults + 1
  /\ owed' = [owed EXCEPT ![h] = @ - 1]
  /\ healthy' = FALSE
  /\ UNCHANGED <<pending, route, local, queue, events, heard, hand, outbound, gens, pushes>>
-----------------------------------------------------------------------------
PushInit ==
  /\ healthy = TRUE /\ pending = 0
  /\ route = [n \in PushNames |-> NoPush]
  /\ local = [h \in Handlers |-> [n \in PushNames |-> 0]]
  /\ queue = [h \in Handlers |-> [n \in PushNames |-> <<>>]]
  /\ events = [h \in Handlers |-> <<>>]
  /\ heard = [h \in Handlers |-> NoPush]
  /\ hand = [h \in Handlers |-> NoPush]
  /\ owed = [h \in Handlers |-> 0]
  /\ outbound = [h \in Handlers |-> [n \in PushNames |-> 0]]
  /\ gens = 0 /\ pushes = 0 /\ pushFaults = 0

PushNext ==
  \E h \in Handlers :
    \/ \E n \in PushNames : Start(h, n) \/ FinishSession(h, n) \/ Consume(h, n) \/ Reserve(h, n)
                          \/ SendPush(h, n) \/ PushSent(h, n)
    \/ Invalid(h) \/ Put(h) \/ Hear(h) \/ Deliver(h)
    \/ ReleasePush(h) \/ ReleaseTimeout(h)

PushSpec == PushInit /\ [][PushNext]_pushVars

(* What the loops and listeners have to do: a push task is bounded by      *)
(* request_timeout, and a session by session_timeout.                      *)
PushDuty ==
  \E h \in Handlers :
    \/ Put(h) \/ Hear(h) \/ Deliver(h) \/ ReleasePush(h)
    \/ \E n \in PushNames : PushSent(h, n) \/ FinishSession(h, n)

(* The processes do not stop while there is something to do.  (Within the  *)
(* bounds every behaviour is finite, so the order does not matter.)        *)
PushFairSpec == PushSpec /\ WF_pushVars(PushDuty)
-----------------------------------------------------------------------------
(* Types of the variables.                                                 *)
PushTypeOK ==
  /\ healthy \in BOOLEAN /\ pending \in 0..MaxPending
  /\ route \in [PushNames -> Route \cup {NoPush}]
  /\ local \in [Handlers -> [PushNames -> 0..MaxGens]]
  /\ queue \in [Handlers -> [PushNames -> Seq(1..MaxGens)]]
  /\ events \in [Handlers -> Seq(Push)]
  /\ heard \in [Handlers -> Push \cup {NoPush}]
  /\ hand \in [Handlers -> [to : Handlers, push : Push] \cup {NoPush}]
  /\ owed \in [Handlers -> Nat] /\ outbound \in [Handlers -> [PushNames -> Nat]]
  /\ gens \in 0..MaxGens /\ pushes \in 0..MaxPushes /\ pushFaults \in 0..MaxPushFaults

(* The slots that pushes really hold at handler h.                         *)
One(push) == IF push = NoPush THEN 0 ELSE 1
SessionSlots(h) == SumFunctionOnSet([n \in PushNames |-> Len(queue[h][n]) + outbound[h][n]], PushNames)
Held(h) == SessionSlots(h) + Len(events[h]) + owed[h] + One(heard[h]) + One(hand[h])

(* The aggregate count is that of the pushes that exist anywhere, as long  *)
(* as no release was lost; a lost one leaves the authority unhealthy.      *)
SlotsExact == healthy => pending = SumFunctionOnSet([h \in Handlers |-> Held(h)], Handlers)

(* Everything in a session's queue was routed to that very generation: a   *)
(* delayed push never enters a later session of the same name.             *)
NoStaleDelivery ==
  \A h \in Handlers, n \in PushNames : \A i \in DOMAIN queue[h][n] : queue[h][n][i] = local[h][n]

(* No interleaving of the handlers makes the authority unhealthy.          *)
BudgetHealthy == pushFaults = 0 => healthy

(* All of it: the budget counts the pushes that exist, none reaches a      *)
(* later session, and only a lock timeout poisons the authority.           *)
PushesExact == SlotsExact /\ NoStaleDelivery /\ BudgetHealthy

(* A saturated budget does not stay saturated, unless a lost release has   *)
(* made the authority unhealthy.                                           *)
BudgetReturns == (pending = MaxPending) ~> (pending < MaxPending \/ ~healthy)
=============================================================================
