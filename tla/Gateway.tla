------------------------------- MODULE Gateway -------------------------------
(***************************************************************************)
(* The OpenAI-compatible API of a node (api/server.py): requests that are  *)
(* coroutines of one event loop and share a semaphore, a finite executor   *)
(* on whose threads models are loaded and generations run, and the         *)
(* residency slot of the model manager.  Each generation is recorded by    *)
(* the outcome tracker (node/route_metrics.py), which closes time windows. *)
(* Bounds: each request is sent once, MaxDrops of them are cancelled, the  *)
(* clock is read up to window MaxWindow; one runtime fits.                 *)
(***************************************************************************)
EXTENDS Integers, FiniteSets, Sequences, SequencesExt

CONSTANTS
  Requests,
  Streams,          \* the requests that ask for server-sent events
  Wants,            \* the model each request names
  Threads,          \* the workers of the default executor
  MaxConcurrent,    \* --max_concurrent
  MinimumAttempts,  \* generations a window needs to be published
  MaxDrops, MaxWindow

ASSUME GatewayAssumption ==
  /\ IsFiniteSet(Requests) /\ Streams \subseteq Requests /\ DOMAIN Wants = Requests
  /\ Threads \in Nat \ {0} /\ MaxConcurrent \in Nat \ {0} /\ MinimumAttempts \in Nat \ {0}
  /\ MaxDrops \in Nat /\ MaxWindow \in Nat

VARIABLES
  gwPhase,      \* where the handler of each request is
  gwQueue,      \* jobs the executor has not started
  gwBusy,       \* jobs on its threads
  gwPermits,    \* the semaphore's value
  gwWaiters,    \* and its waiters, first come first served
  gwLeases,     \* requests that hold a lease on their model
  gwResident,   \* the model whose runtime is in the slot
  gwDrops,      \* requests cancelled so far
  gwClock,      \* the current time window
  gwStamps,     \* the window each generation read before it took the tracker's lock
  gwWindows     \* the tracker's deque of the last two windows

gwVars == <<gwPhase, gwQueue, gwBusy, gwPermits, gwWaiters, gwLeases, gwResident, gwDrops,
            gwClock, gwStamps, gwWindows>>
executor == <<gwQueue, gwBusy>>
gate == <<gwPermits, gwWaiters>>
tracker == <<gwClock, gwStamps, gwWindows>>

Over == {"served", "failed", "dropped", "lost"}
Models == {Wants[r] : r \in Requests}
Job(k, r) == [kind |-> k, request |-> r]

GatewayInit ==
  /\ gwPhase = [r \in Requests |-> "new"]
  /\ gwQueue = <<>> /\ gwBusy = {}
  /\ gwPermits = MaxConcurrent /\ gwWaiters = <<>>
  /\ gwLeases = {} /\ gwResident = "none" /\ gwDrops = 0
  /\ gwClock = 0 /\ gwStamps = [r \in Requests |-> 0] /\ gwWindows = <<>>

-----------------------------------------------------------------------------
(* The executor: a queue of jobs and Threads workers. *)

Submit(k, r) == gwQueue' = Append(gwQueue, Job(k, r))

StartJob ==
  /\ gwQueue # <<>> /\ Cardinality(gwBusy) < Threads
  /\ gwBusy' = gwBusy \cup {Head(gwQueue)} /\ gwQueue' = Tail(gwQueue)
  /\ UNCHANGED <<gwPhase, gate, gwLeases, gwResident, gwDrops, tracker>>

Running(k, r) == Job(k, r) \in gwBusy
Leave(k, r) == gwBusy' = gwBusy \ {Job(k, r)}
Outstanding(r) == {j \in gwBusy \cup Range(gwQueue) : j.request = r}

-----------------------------------------------------------------------------
(* A request is refused, or its model is loaded on a thread, which waits   *)
(* for the slot while another model is leased.  The lease of a load whose  *)
(* request was cancelled meanwhile is released by the future's callback.   *)

Arrive(r) ==
  /\ gwPhase[r] = "new"
  /\ \/ Submit("load", r) /\ gwPhase' = [gwPhase EXCEPT ![r] = "loading"]
     \/ gwPhase' = [gwPhase EXCEPT ![r] = "failed"] /\ UNCHANGED gwQueue
  /\ UNCHANGED <<gwBusy, gate, gwLeases, gwResident, gwDrops, tracker>>

SlotFor(m) == gwResident = m \/ gwLeases = {}

\* Mutant: the lease of an abandoned load is kept.
AbandonedKept(r, leases) == leases \cup {r}
Abandoned(r, leases) == leases

EndLoad(r) ==
  /\ Running("load", r) /\ SlotFor(Wants[r]) /\ Leave("load", r)
  /\ \/ /\ gwResident' = Wants[r]
        /\ IF gwPhase[r] = "loading"
             THEN /\ gwPhase' = [gwPhase EXCEPT ![r] = "loaded"]
                  /\ gwLeases' = gwLeases \cup {r}
             ELSE gwLeases' = Abandoned(r, gwLeases) /\ UNCHANGED gwPhase
     \/ /\ gwResident # Wants[r] /\ gwResident' = "none"
        /\ gwPhase' = [gwPhase EXCEPT ![r] = IF @ = "loading" THEN "failed" ELSE @]
        /\ UNCHANGED gwLeases
  /\ UNCHANGED <<gwQueue, gate, gwDrops, tracker>>

-----------------------------------------------------------------------------
(* Generation is gated by the semaphore and runs on a thread; a stream     *)
(* polls its pieces from further threads.                                  *)

Generate(r) ==
  /\ gwPermits' = gwPermits - 1
  /\ gwPhase' = [gwPhase EXCEPT ![r] = "generating"]
  /\ Submit("generate", r)

\* The gate of a request that has been prepared: a permit, or a place in the line.
Enter(r) ==
  \/ /\ gwPermits > 0 /\ gwWaiters = <<>>
     /\ Generate(r) /\ UNCHANGED gwWaiters
  \/ /\ gwPermits = 0 \/ gwWaiters # <<>>
     /\ gwWaiters' = Append(gwWaiters, r)
     /\ gwPhase' = [gwPhase EXCEPT ![r] = "waiting"]
     /\ UNCHANGED <<gwPermits, gwQueue>>

\* The lease of a stream goes with its generator, which nobody has iterated yet.
Prepare(r) ==
  /\ gwPhase[r] = "loaded"
  /\ \/ /\ gwPhase' = [gwPhase EXCEPT ![r] = "failed"]   \* the prompt cannot be encoded
        /\ gwLeases' = gwLeases \ {r} /\ UNCHANGED <<gwQueue, gate>>
     \/ /\ r \in Streams /\ gwPhase' = [gwPhase EXCEPT ![r] = "responding"]
        /\ UNCHANGED <<gwQueue, gate, gwLeases>>
     \/ r \notin Streams /\ Enter(r) /\ UNCHANGED gwLeases
  /\ UNCHANGED <<gwBusy, gwResident, gwDrops, tracker>>

\* The response has sent its head and asks the generator for its first chunk.
Begin(r) ==
  /\ gwPhase[r] = "responding" /\ Enter(r)
  /\ UNCHANGED <<gwBusy, gwLeases, gwResident, gwDrops, tracker>>

Acquire(r) ==
  /\ gwPhase[r] = "waiting" /\ gwPermits > 0 /\ Head(gwWaiters) = r
  /\ gwWaiters' = Tail(gwWaiters) /\ Generate(r)
  /\ UNCHANGED <<gwBusy, gwLeases, gwResident, gwDrops, tracker>>

Poll(r) ==
  /\ r \in Streams /\ gwPhase[r] = "generating"
  /\ \A j \in Outstanding(r) : j.kind # "poll"
  /\ Submit("poll", r)
  /\ UNCHANGED <<gwPhase, gwBusy, gate, gwLeases, gwResident, gwDrops, tracker>>

\* A poll brings a piece or times out; the last one finds the generation over.
Generated(r) == \A j \in Outstanding(r) : j.kind = "poll"

EndPoll(r) ==
  /\ Running("poll", r) /\ Leave("poll", r)
  /\ gwPhase' = [gwPhase EXCEPT ![r] = IF @ = "generating" /\ Generated(r) THEN "ending" ELSE @]
  /\ UNCHANGED <<gwQueue, gate, gwLeases, gwResident, gwDrops, tracker>>

\* generate() has returned or raised: the tracker's clock is read before its lock is taken.
EndGenerate(r) ==
  /\ Running("generate", r)
  /\ gwBusy' = (gwBusy \ {Job("generate", r)}) \cup {Job("record", r)}
  /\ gwStamps' = [gwStamps EXCEPT ![r] = gwClock]
  /\ UNCHANGED <<gwPhase, gwQueue, gate, gwLeases, gwResident, gwDrops, gwClock, gwWindows>>

Counted(windows, n) ==
  IF windows # <<>> /\ Last(windows).number = n
    THEN [windows EXCEPT ![Len(windows)].attempts = @ + 1]
    ELSE LET all == Append(windows, [number |-> n, attempts |-> 1])
         IN IF Len(all) > 2 THEN Tail(all) ELSE all

Record(r) ==
  /\ Running("record", r) /\ Leave("record", r)
  /\ gwWindows' = Counted(gwWindows, gwStamps[r]) /\ gwStamps' = [gwStamps EXCEPT ![r] = 0]
  /\ IF gwPhase[r] = "dropped"
       THEN gwLeases' = gwLeases \ {r} /\ UNCHANGED gwPhase
       ELSE /\ gwPhase' = [gwPhase EXCEPT ![r] = IF r \in Streams THEN @ ELSE "ending"]
            /\ UNCHANGED gwLeases
  /\ UNCHANGED <<gwQueue, gate, gwResident, gwDrops, gwClock>>

Answer(r) ==
  /\ gwPhase[r] = "ending" /\ gwPhase' = [gwPhase EXCEPT ![r] = "served"]
  /\ gwPermits' = gwPermits + 1 /\ gwLeases' = gwLeases \ {r}
  /\ UNCHANGED <<executor, gwWaiters, gwResident, gwDrops, tracker>>

-----------------------------------------------------------------------------
(* The HTTP request goes away.  The lease stays with a generation that is  *)
(* still queued or running; the permit does not.  A load that is over when *)
(* its handler is cancelled releases the lease from the future's callback. *)
(* A stream whose generator was never iterated keeps its lease for ever:   *)
(* the finally clause that would release it has not been entered.          *)

\* Mutant: a request that goes away gives its lease back at once.
DeferredNever(r) == FALSE
Deferred(r) == gwPhase[r] = "generating" /\ ~Generated(r)

\* The poll that no thread has started is cancelled with the request.
Unpolled(r) ==
  LET At == {i \in DOMAIN gwQueue : gwQueue[i] = Job("poll", r)}
  IN IF At = {} THEN gwQueue ELSE RemoveAt(gwQueue, CHOOSE i \in At : TRUE)

Drop(r) ==
  /\ gwDrops < MaxDrops
  /\ gwPhase[r] \in {"loading", "loaded", "responding", "waiting", "generating"}
  /\ gwDrops' = gwDrops + 1
  /\ gwPhase' = [gwPhase EXCEPT ![r] = IF @ = "responding" THEN "lost" ELSE "dropped"]
  /\ gwPermits' = gwPermits + (IF gwPhase[r] = "generating" THEN 1 ELSE 0)
  /\ gwWaiters' = RemoveFirst(gwWaiters, r)
  /\ gwLeases' = IF gwPhase[r] = "responding" \/ Deferred(r) THEN gwLeases ELSE gwLeases \ {r}
  /\ gwQueue' = Unpolled(r)
  /\ UNCHANGED <<gwBusy, gwResident, tracker>>

-----------------------------------------------------------------------------
(* The tracker: time passes, and a snapshot forgets windows that are old.  *)

Pass ==
  /\ gwClock < MaxWindow /\ gwClock' = gwClock + 1
  /\ UNCHANGED <<gwPhase, executor, gate, gwLeases, gwResident, gwDrops, gwStamps, gwWindows>>

Snapshot ==
  /\ gwWindows # <<>> /\ Last(gwWindows).number < gwClock /\ gwWindows' = <<>>
  /\ UNCHANGED <<gwPhase, executor, gate, gwLeases, gwResident, gwDrops, gwClock, gwStamps>>

\* Mutant: the window that is still open counts too.
ClosedSnapshotOpen(windows, now) == {w \in Range(windows) : w.attempts >= MinimumAttempts}
\* The window whose totals may be signed and published, if there is one: the last, or the
\* one before it.
ClosedSnapshot(windows, now) ==
  LET last == Len(windows)
      at == IF windows # <<>> /\ windows[last].number < now THEN last ELSE last - 1
  IN {w \in {windows[i] : i \in DOMAIN windows \cap {at}} : w.attempts >= MinimumAttempts /\ now - w.number <= 1}

-----------------------------------------------------------------------------
EndJob(r) == EndLoad(r) \/ EndPoll(r) \/ EndGenerate(r) \/ Record(r)
Handle(r) == Prepare(r) \/ Begin(r) \/ Acquire(r) \/ Poll(r) \/ Answer(r)

GatewayNext ==
  \/ StartJob \/ Pass \/ Snapshot
  \/ \E r \in Requests : Arrive(r) \/ EndJob(r) \/ Handle(r) \/ Drop(r)

GatewaySpec == GatewayInit /\ [][GatewayNext]_gwVars

-----------------------------------------------------------------------------
GatewayTypeOK ==
  /\ gwPhase \in [Requests -> Over \cup {"new", "loading", "loaded", "responding", "waiting", "generating", "ending"}]
  /\ gwBusy \cup Range(gwQueue) \subseteq [kind : {"load", "generate", "poll", "record"}, request : Requests]
  /\ gwPermits \in 0..MaxConcurrent /\ gwWaiters \in BoundedSeq(Requests, Cardinality(Requests))
  /\ gwLeases \subseteq Requests /\ gwResident \in Models \cup {"none"}
  /\ gwDrops \in 0..MaxDrops /\ gwClock \in 0..MaxWindow
  /\ gwStamps \in [Requests -> 0..MaxWindow]
  /\ gwWindows \in BoundedSeq([number : 0..MaxWindow, attempts : 1..Cardinality(Requests)], 2)

\* A generation runs on the runtime its request leased: no cancellation, failure or
\* eviction puts another model in the slot while a thread still generates
\* (api/server.py:329, 407; "An HTTP cancellation cannot release or evict a runtime
\* while its executor thread is still generating").
RuntimeHeld == \A j \in gwBusy : j.kind = "generate" => gwResident = Wants[j.request]

\* Every request the gateway has accepted is over, holds no lease and occupies no
\* thread, whoever was cancelled and whatever failed (api/server.py:187-203, 316-333),
\* but for what the code leaves open: a stream that goes away before its generator's
\* first iteration keeps its lease (387-390, 447-450; the finally of 325-333 never runs).
\* A load of another model then waits for the slot for ever on its thread; and when
\* such loads have every thread, so does everybody.
Lost == {r \in Requests : gwPhase[r] = "lost"}
Stuck == {j \in gwBusy : j.kind = "load" /\ Lost # {} /\ gwResident # Wants[j.request]}
RequestsOver ==
  \/ Cardinality(Stuck) = Threads
  \/ \A r \in Requests :
       \/ gwPhase[r] = "new" \/ Outstanding(r) \cap Stuck # {}
       \/ gwPhase[r] \in Over /\ Outstanding(r) = {} /\ (r \in gwLeases => r \in Lost)

\* What may be published about demand is a window that is over, although records
\* may reach the tracker in an order its clock did not give.
OnlyClosedPublished == \A w \in ClosedSnapshot(gwWindows, gwClock) : w.number < gwClock

\* At most max_concurrent generations run ("Generation is gated by a semaphore").
ConcurrencyRespected == Cardinality({j \in gwBusy : j.kind = "generate"}) <= MaxConcurrent
=============================================================================
