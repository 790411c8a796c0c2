------------------------------- MODULE TaskPool -------------------------------
(***************************************************************************)
(* server/task_pool.py and the runtime loop of server/server.py: handlers  *)
(* put tasks into a pool's queue and then count them in a pipe; a thread   *)
(* of the pool moves them into a priority queue; the runtime picks the     *)
(* pool with the most urgent priority and takes its most urgent task.  A   *)
(* handler may die between any two steps of a submission, and the pools    *)
(* are shut down once the handlers are.                                    *)
(***************************************************************************)
EXTENDS Integers, Sequences, FiniteSets

CONSTANTS
  Tasks,       \* task ids
  PoolOf,      \* the pool of each task
  Urgency,     \* its priority: the lower the more urgent
  Oversize,    \* tasks larger than max_batch_size
  MaxDeaths    \* bound on handlers that die while submitting

ASSUME PoolAssumption ==
  /\ IsFiniteSet(Tasks) /\ "stop" \notin Tasks
  /\ Oversize \subseteq Tasks /\ Urgency \in [Tasks -> Nat] /\ MaxDeaths \in Nat

Pools == {PoolOf[t] : t \in Tasks}

VARIABLES
  tpc,        \* the submission of each task
  clock,      \* time.monotonic()
  stamp,      \* time_submitted of each task
  submitted,  \* submitted_tasks of each pool
  ordered,    \* _ordered_tasks
  tokens,     \* messages in the pipe of each pool
  urgent,     \* the pool's advertised (priority, timestamp)
  rpc,        \* the runtime: idle, or the pool it reads, or the task it runs
  answer,     \* the future of each task
  closing,    \* pools that were told to stop
  stopped,    \* pools whose thread has ended
  deaths

poolVars == <<tpc, clock, stamp, submitted, ordered, tokens, urgent, rpc, answer, closing, stopped, deaths>>

Never == <<100, 100>>
Earlier(p, q) == p[1] < q[1] \/ (p[1] = q[1] /\ p[2] < q[2])
Key(t) == <<Urgency[t], stamp[t]>>

PoolInit ==
  /\ tpc = [t \in Tasks |-> "new"] /\ clock = 0 /\ stamp = [t \in Tasks |-> 0]
  /\ submitted = [p \in Pools |-> <<>>] /\ ordered = [p \in Pools |-> {}]
  /\ tokens = [p \in Pools |-> 0] /\ urgent = [p \in Pools |-> Never]
  /\ rpc = [at |-> "idle", pool |-> CHOOSE p \in Pools : TRUE, task |-> CHOOSE t \in Tasks : TRUE]
  /\ answer = [t \in Tasks |-> "pending"]
  /\ closing = {} /\ stopped = {} /\ deaths = 0

\* submit_task(): a task that is too large fails at once.
Reject(t) ==
  /\ tpc[t] = "new" /\ t \in Oversize /\ closing = {}
  /\ tpc' = [tpc EXCEPT ![t] = "done"] /\ answer' = [answer EXCEPT ![t] = "exception"]
  /\ UNCHANGED <<clock, stamp, submitted, ordered, tokens, urgent, rpc, closing, stopped, deaths>>

PutTask(t) ==
  /\ tpc[t] = "new" /\ t \notin Oversize /\ closing = {}
  /\ tpc' = [tpc EXCEPT ![t] = "put"]
  /\ clock' = clock + 1 /\ stamp' = [stamp EXCEPT ![t] = clock + 1]
  /\ submitted' = [submitted EXCEPT ![PoolOf[t]] = Append(@, t)]
  /\ UNCHANGED <<ordered, tokens, urgent, rpc, answer, closing, stopped, deaths>>

\* The pipe counts the unfinished tasks.
SendToken(t) ==
  /\ tpc[t] = "put" /\ tpc' = [tpc EXCEPT ![t] = "sent"]
  /\ tokens' = [tokens EXCEPT ![PoolOf[t]] = @ + 1]
  /\ UNCHANGED <<clock, stamp, submitted, ordered, urgent, rpc, answer, closing, stopped, deaths>>

\* The pool advertises the task if it is more urgent than what it advertises now.
RaisePriority(t) ==
  /\ tpc[t] = "sent" /\ tpc' = [tpc EXCEPT ![t] = "done"]
  /\ urgent' = [urgent EXCEPT ![PoolOf[t]] = IF Earlier(Key(t), @) THEN Key(t) ELSE @]
  /\ UNCHANGED <<clock, stamp, submitted, ordered, tokens, rpc, answer, closing, stopped, deaths>>

HandlerDies(t) ==
  /\ tpc[t] \in {"put", "sent"} /\ deaths < MaxDeaths
  /\ tpc' = [tpc EXCEPT ![t] = "done"] /\ deaths' = deaths + 1
  /\ UNCHANGED <<clock, stamp, submitted, ordered, tokens, urgent, rpc, answer, closing, stopped>>

\* PrioritizedTaskPool.run(): one task at a time, until the sentinel.
Prioritize(p) ==
  /\ p \notin stopped /\ submitted[p] # <<>>
  /\ submitted' = [submitted EXCEPT ![p] = Tail(@)]
  /\ IF Head(submitted[p]) = "stop"
       THEN stopped' = stopped \cup {p} /\ UNCHANGED ordered
       ELSE ordered' = [ordered EXCEPT ![p] = @ \cup {Head(submitted[p])}] /\ UNCHANGED stopped
  /\ UNCHANGED <<tpc, clock, stamp, tokens, urgent, rpc, answer, closing, deaths>>

\* iterate_minibatches_from_pools(): among the pools with a token, the most urgent.
PickPool ==
  /\ rpc.at = "idle"
  /\ \E p \in Pools :
       /\ tokens[p] > 0 /\ \A q \in Pools : tokens[q] > 0 => ~Earlier(urgent[q], urgent[p])
       /\ rpc' = [rpc EXCEPT !.at = "load", !.pool = p]
  /\ UNCHANGED <<tpc, clock, stamp, submitted, ordered, tokens, urgent, answer, closing,
                 stopped, deaths>>

Foremost(p) == CHOOSE t \in ordered[p] : \A u \in ordered[p] : u = t \/ Earlier(Key(t), Key(u))

\* Mutant of Load: the task is taken and its message stays in the pipe.
LoadKeepsToken ==
  /\ rpc.at = "load" /\ ordered[rpc.pool] # {} /\ tokens[rpc.pool] > 0
  /\ ordered' = [ordered EXCEPT ![rpc.pool] = @ \ {Foremost(rpc.pool)}]
  /\ rpc' = [rpc EXCEPT !.at = "run", !.task = Foremost(rpc.pool)]
  /\ UNCHANGED <<tpc, clock, stamp, submitted, tokens, urgent, answer, closing, stopped, deaths>>

\* load_batch_to_runtime(): blocks until a task is there, takes the token, and
\* advertises the task that is first now, if there is one.
Load ==
  /\ rpc.at = "load"
  /\ LET p == rpc.pool IN
     /\ ordered[p] # {} /\ tokens[p] > 0
     /\ LET t == Foremost(p)
            rest == ordered[p] \ {t}
            first == CHOOSE u \in rest : \A v \in rest : v = u \/ Earlier(Key(u), Key(v))
        IN /\ ordered' = [ordered EXCEPT ![p] = rest]
           /\ tokens' = [tokens EXCEPT ![p] = @ - 1]
           /\ urgent' = IF rest = {} THEN urgent ELSE [urgent EXCEPT ![p] = Key(first)]
           /\ rpc' = [rpc EXCEPT !.at = "run", !.task = t]
  /\ UNCHANGED <<tpc, clock, stamp, submitted, answer, closing, stopped, deaths>>

\* send_outputs_from_runtime() or send_exception_from_runtime()
Finished ==
  /\ rpc.at = "run" /\ rpc' = [rpc EXCEPT !.at = "idle"]
  /\ \E a \in {"result", "exception"} : answer' = [answer EXCEPT ![rpc.task] = a]
  /\ UNCHANGED <<tpc, clock, stamp, submitted, ordered, tokens, urgent, closing, stopped, deaths>>

\* ModuleContainer.shutdown(): the handlers are gone, then every pool gets the
\* sentinel behind whatever it has.
ClosePool(p) ==
  /\ p \notin closing /\ \A t \in Tasks : tpc[t] \in {"new", "done"}
  /\ closing' = closing \cup {p} /\ submitted' = [submitted EXCEPT ![p] = Append(@, "stop")]
  /\ UNCHANGED <<tpc, clock, stamp, ordered, tokens, urgent, rpc, answer, stopped, deaths>>

PoolNext ==
  \/ \E t \in Tasks : Reject(t) \/ PutTask(t) \/ SendToken(t) \/ RaisePriority(t) \/ HandlerDies(t)
  \/ \E p \in Pools : Prioritize(p) \/ ClosePool(p)
  \/ PickPool \/ Load \/ Finished

PoolSpec == PoolInit /\ [][PoolNext]_poolVars

PoolTypeOK ==
  /\ tpc \in [Tasks -> {"new", "put", "sent", "done"}]
  /\ answer \in [Tasks -> {"pending", "result", "exception"}]
  /\ tokens \in [Pools -> Nat] /\ ordered \in [Pools -> SUBSET Tasks]
  /\ rpc.at \in {"idle", "load", "run"}

Queued(p) == {t \in Tasks : \E i \in 1..Len(submitted[p]) : submitted[p][i] = t} \cup ordered[p]

\* A runtime that waits inside load_batch_to_runtime() gets a task: one is ordered, or
\* on its way to a thread that still runs.
RuntimeFed ==
  rpc.at = "load" =>
    \/ ordered[rpc.pool] # {}
    \/ rpc.pool \notin stopped /\ submitted[rpc.pool] # <<>> /\ Head(submitted[rpc.pool]) # "stop"
=============================================================================
