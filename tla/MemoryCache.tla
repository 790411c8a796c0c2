---------------------------- MODULE MemoryCache ----------------------------
(***************************************************************************)
(* The attention cache of a server in contiguous mode                      *)
(* (drift/server/memory_cache.py, allocate_cache and use_cache).           *)
(*                                                                         *)
(* Inference sessions run as coroutines of several connection-handler      *)
(* processes.  A session reserves cache bytes for its whole life through   *)
(* counters in shared memory and tells the runtime, over one pipe, to      *)
(* create and to delete its tensors.  The runtime reads that pipe only     *)
(* when it computes a step.                                                *)
(*                                                                         *)
(* Atomicity: an action is what a coroutine does between two awaits,       *)
(* divided again where another process can see a shared counter.  Between  *)
(* two awaits no other coroutine of the same process runs (LoopFree), but  *)
(* executor threads, the runtime and the other processes do.               *)
(*                                                                         *)
(* A session's tensors are one handle of the session's size; bytes are     *)
(* small numbers.  The 64-bit handle counter does not wrap within a bound. *)
(***************************************************************************)
EXTENDS Integers, Sequences, FiniteSets, Functions

CONSTANTS Sessions,   \* coroutines that serve rpc_inference
          ProcOf,     \* the connection-handler process of each session
          MaxSize,    \* max_size_bytes
          Sizes,      \* what get_allocation_size may return
          Timeouts,   \* kinds of timeout in use, see TimeoutKinds
          MaxAllocs,  \* bound: allocate_cache() calls in a behaviour
          NoSession        \* Python's None

(* timeout == 0, a finite timeout, and None or float("inf").               *)
TimeoutKinds == {"zero", "finite", "none"}
Ghost == "ghost"      \* an executor thread whose coroutine is gone
Stages == {"waiting", "clear", "recheck"}   \* of _wait_until_available

ASSUME SizesAssumption == MaxSize \in Nat /\ Sizes \subseteq Nat /\ MaxAllocs \in Nat
ASSUME TimeoutsAssumption == Timeouts \subseteq TimeoutKinds
ASSUME SessionsAssumption ==
  /\ NoSession \notin Sessions /\ Ghost \notin Sessions /\ IsFiniteSet(Sessions)
  /\ DOMAIN ProcOf = Sessions

VARIABLES
  current,   \* _current_size
  enqueued,  \* _enqueued_size
  counter,   \* _handle_counter
  lock,      \* holder of _lock_acquire_memory
  cacheEvent,     \* _memory_freed_event
  cachePipe,      \* messages from the handlers to the runtime
  tensors,   \* _allocated_tensors, as a set of [handle, size]
  cacheJob,       \* the session whose step the runtime is about to compute
  cachePc, size, kind, handle,   \* of each session
  ghosts,    \* abandoned executor threads still blocked on the lock
  strays,    \* abandoned executor threads in _wait_until_available, how
             \* many of each size at each stage
  starts     \* allocate_cache() calls so far

cacheVars == <<current, enqueued, counter, lock, cacheEvent, cachePipe, tensors, cacheJob,
          cachePc, size, kind, handle, ghosts, strays, starts>>

(* The coroutine of s may run: no other one of its process is between two  *)
(* awaits.                                                                 *)
Uninterrupted == {"queued", "passed", "commit"}
LoopFree(s) == \A u \in Sessions \ {s} :
                 ProcOf[u] = ProcOf[s] => cachePc[u] \notin Uninterrupted

CacheFits(s) == current + size[s] <= MaxSize
CacheGoto(s, p) == cachePc' = [cachePc EXCEPT ![s] = p]

(* The finally clause of _wait_for_free_memory, and the lock's release when *)
(* the failing call holds it.                                              *)
Fail(s) ==
  /\ enqueued' = enqueued - size[s]
  /\ lock' = IF lock = s THEN NoSession ELSE lock
  /\ CacheGoto(s, "idle")
-----------------------------------------------------------------------------
(* allocate_cache -> _schedule_alloc -> _wait_for_free_memory: the size is *)
(* added to the queue.                                                     *)
Enqueue(s) ==
  /\ cachePc[s] = "idle" /\ LoopFree(s) /\ starts < MaxAllocs
  /\ \E n \in Sizes, k \in Timeouts :
       /\ size' = [size EXCEPT ![s] = n]
       /\ kind' = [kind EXCEPT ![s] = k]
       /\ enqueued' = enqueued + n
  /\ starts' = starts + 1
  /\ CacheGoto(s, "queued")
  /\ UNCHANGED <<current, counter, lock, cacheEvent, cachePipe, tensors, cacheJob, handle, ghosts,
                 strays>>

(* With timeout == 0 the call fails at once unless the cache can take all  *)
(* that is queued; otherwise a thread is sent to take the lock.            *)
FirstCheck(s) ==
  /\ cachePc[s] = "queued"
  /\ IF kind[s] = "zero" /\ current + enqueued > MaxSize
     THEN Fail(s)
     ELSE CacheGoto(s, "lock") /\ UNCHANGED <<enqueued, lock>>
  /\ UNCHANGED <<current, counter, cacheEvent, cachePipe, tensors, cacheJob, size, kind,
                 handle, ghosts, strays, starts>>

(* enter_asynchronously: an executor thread acquires the lock for s.       *)
TakeLock(s) ==
  /\ cachePc[s] = "lock" /\ lock = NoSession
  /\ lock' = s
  /\ CacheGoto(s, "locked")
  /\ UNCHANGED <<current, enqueued, counter, cacheEvent, cachePipe, tensors, cacheJob, size,
                 kind, handle, ghosts, strays, starts>>

(* async_timeout cancels the wait for the lock.  The thread blocked on the *)
(* lock cannot be cancelled once it runs.  (A timeout when the thread has  *)
(* the lock but the coroutine has not resumed leaves the lock taken just   *)
(* so: it is this step, then GhostAcquires.)                               *)
CacheLockTimeout(s) ==
  /\ cachePc[s] = "lock" /\ kind[s] = "finite" /\ LoopFree(s)
  /\ ghosts' \in {ghosts, ghosts + 1}
  /\ Fail(s)
  /\ UNCHANGED <<current, counter, cacheEvent, cachePipe, tensors, cacheJob, size, kind,
                 handle, strays, starts>>

(* The abandoned thread gets the lock; nothing will release it.            *)
GhostAcquires ==
  /\ ghosts > 0 /\ lock = NoSession
  /\ lock' = Ghost
  /\ ghosts' = ghosts - 1
  /\ UNCHANGED <<current, enqueued, counter, cacheEvent, cachePipe, tensors, cacheJob, cachePc,
                 size, kind, handle, strays, starts>>

(* With the lock held: there is room, or the call fails, or it waits.      *)
CheckLocked(s) ==
  /\ cachePc[s] = "locked" /\ LoopFree(s)
  /\ \/ CacheFits(s) /\ lock' = NoSession /\ CacheGoto(s, "passed") /\ UNCHANGED enqueued
     \/ ~CacheFits(s) /\ (kind[s] = "zero" \/ size[s] > MaxSize) /\ Fail(s)
     \/ /\ ~CacheFits(s) /\ kind[s] # "zero" /\ size[s] <= MaxSize
        /\ CacheGoto(s, "waiting") /\ UNCHANGED <<lock, enqueued>>
  /\ UNCHANGED <<current, counter, cacheEvent, cachePipe, tensors, cacheJob, size, kind,
                 handle, ghosts, strays, starts>>

(* _wait_until_available, in an executor thread: woken by the event ...    *)
Wake(s) ==
  /\ cachePc[s] = "waiting" /\ cacheEvent
  /\ CacheGoto(s, "clear")
  /\ UNCHANGED <<current, enqueued, counter, lock, cacheEvent, cachePipe, tensors, cacheJob,
                 size, kind, handle, ghosts, strays, starts>>

(* ... it clears the event.                                                *)
ClearEvent(s) ==
  /\ cachePc[s] = "clear"
  /\ cacheEvent' = FALSE
  /\ CacheGoto(s, "recheck")
  /\ UNCHANGED <<current, enqueued, counter, lock, cachePipe, tensors, cacheJob, size,
                 kind, handle, ghosts, strays, starts>>

(* The condition of the waiting loop is evaluated again.                   *)
Recheck(s) ==
  /\ cachePc[s] = "recheck"
  /\ CacheGoto(s, IF CacheFits(s) THEN "fits" ELSE "waiting")
  /\ UNCHANGED <<current, enqueued, counter, lock, cacheEvent, cachePipe, tensors, cacheJob,
                 size, kind, handle, ghosts, strays, starts>>

(* The coroutine resumes after the thread and releases the lock.           *)
Resume(s) ==
  /\ cachePc[s] = "fits" /\ LoopFree(s)
  /\ lock' = NoSession
  /\ CacheGoto(s, "passed")
  /\ UNCHANGED <<current, enqueued, counter, cacheEvent, cachePipe, tensors, cacheJob, size,
                 kind, handle, ghosts, strays, starts>>

(* The thread was notified but found the event cleared again (see          *)
(* StrayClears): wait() returned False, and the call fails with or without *)
(* a timeout.                                                              *)
Missed(s) ==
  /\ cachePc[s] = "missed" /\ LoopFree(s)
  /\ Fail(s)
  /\ UNCHANGED <<current, counter, cacheEvent, cachePipe, tensors, cacheJob, size, kind,
                 handle, ghosts, strays, starts>>

(* The event did not come in time; or async_timeout cancels the coroutine, *)
(* which leaves the queue and releases the lock.  A thread that is still   *)
(* in _wait_until_available cannot be cancelled and goes on without them.  *)
WaitTimeout(s) ==
  /\ cachePc[s] \in {"waiting", "clear", "recheck", "fits", "missed"}
  /\ kind[s] = "finite" /\ LoopFree(s)
  /\ \/ cachePc[s] \in {"waiting", "fits", "missed"} /\ UNCHANGED strays
     \/ /\ cachePc[s] \in Stages
        /\ strays' = [strays EXCEPT ![<<size[s], cachePc[s]>>] = @ + 1]
  /\ Fail(s)
  /\ UNCHANGED <<current, counter, cacheEvent, cachePipe, tensors, cacheJob, size, kind,
                 handle, ghosts, starts>>

(* An abandoned thread goes from one stage to another, or ends.            *)
Leave(n, at) == strays[<<n, at>>] > 0 /\ strays' = [strays EXCEPT ![<<n, at>>] = @ - 1]
Move(n, at, to) ==
  /\ strays[<<n, at>>] > 0
  /\ strays' = [strays EXCEPT ![<<n, at>>] = @ - 1, ![<<n, to>>] = @ + 1]

(* It is woken by the event, which it takes from whoever waits now ...     *)
StrayWakes(n) ==
  /\ cacheEvent /\ Move(n, "waiting", "clear")
  /\ UNCHANGED <<current, enqueued, counter, lock, cacheEvent, cachePipe, tensors, cacheJob,
                 cachePc, size, kind, handle, ghosts, starts>>

(* ... and clears it.  The call that waits under the lock may have been    *)
(* notified and not have looked at the flag yet.                           *)
StrayClears(n) ==
  /\ Move(n, "clear", "recheck")
  /\ cacheEvent' = FALSE
  /\ \/ UNCHANGED cachePc
     \/ \E s \in Sessions : cacheEvent /\ cachePc[s] = "waiting" /\ CacheGoto(s, "missed")
  /\ UNCHANGED <<current, enqueued, counter, lock, cachePipe, tensors, cacheJob, size, kind,
                 handle, ghosts, starts>>

(* Its loop ends when there is room for what it was to wait for ...        *)
StrayRechecks(n) ==
  /\ IF current + n <= MaxSize THEN Leave(n, "recheck") ELSE Move(n, "recheck", "waiting")
  /\ UNCHANGED <<current, enqueued, counter, lock, cacheEvent, cachePipe, tensors, cacheJob,
                 cachePc, size, kind, handle, ghosts, starts>>

(* ... or with AllocationFailed that nobody catches, at its own deadline.  *)
StrayEnds(n) ==
  /\ Leave(n, "waiting")
  /\ UNCHANGED <<current, enqueued, counter, lock, cacheEvent, cachePipe, tensors, cacheJob,
                 cachePc, size, kind, handle, ghosts, starts>>

StrayStep(n) == StrayWakes(n) \/ StrayClears(n) \/ StrayRechecks(n) \/ StrayEnds(n)

(* _wait_for_free_memory: leave the queue, without the lock.               *)
Dequeue(s) ==
  /\ cachePc[s] = "passed"
  /\ enqueued' = enqueued - size[s]
  /\ CacheGoto(s, "commit")
  /\ UNCHANGED <<current, counter, lock, cacheEvent, cachePipe, tensors, cacheJob, size, kind,
                 handle, ghosts, strays, starts>>

(* Fault model: a call that got its memory leaves the queue a second time, *)
(* as without the allocated flag.                                          *)
CommitDequeuesAgain(s) ==
  /\ cachePc[s] = "commit"
  /\ enqueued' = enqueued - size[s]
  /\ current' = current + size[s]
  /\ handle' = [handle EXCEPT ![s] = counter]
  /\ counter' = counter + 1
  /\ cachePipe' = Append(cachePipe, [op |-> "create", handle |-> counter, size |-> size[s]])
  /\ CacheGoto(s, "held")
  /\ UNCHANGED <<lock, cacheEvent, tensors, cacheJob, size, kind, ghosts, strays, starts>>

(* _schedule_alloc, under _lock_metadata: the bytes are counted, handles   *)
(* are numbered, and the runtime is told to create the tensors.            *)
Commit(s) ==
  /\ cachePc[s] = "commit"
  /\ current' = current + size[s]
  /\ handle' = [handle EXCEPT ![s] = counter]
  /\ counter' = counter + 1
  /\ cachePipe' = Append(cachePipe, [op |-> "create", handle |-> counter, size |-> size[s]])
  /\ CacheGoto(s, "held")
  /\ UNCHANGED <<enqueued, lock, cacheEvent, tensors, cacheJob, size, kind, ghosts, strays, starts>>

(* Fault model: _free counts the bytes as free without waking the waiter.  *)
FreeBytesSilently(s) ==
  /\ cachePc[s] = "held" /\ LoopFree(s)
  /\ cachePipe' = Append(cachePipe, [op |-> "free", handle |-> handle[s], size |-> size[s]])
  /\ current' = current - size[s]
  /\ CacheGoto(s, "idle")
  /\ UNCHANGED <<enqueued, counter, lock, cacheEvent, tensors, cacheJob, size, kind, handle,
                 ghosts, strays, starts>>

(* _free, under _lock_metadata, when the session ends for any reason (also *)
(* when it was cancelled during the allocation, which shield_and_wait lets *)
(* finish first); then the event is set.                                   *)
FreeBytes(s) ==
  /\ cachePc[s] = "held" /\ LoopFree(s)
  /\ cachePipe' = Append(cachePipe, [op |-> "free", handle |-> handle[s], size |-> size[s]])
  /\ current' = current - size[s]
  /\ CacheGoto(s, "freed")
  /\ UNCHANGED <<enqueued, counter, lock, cacheEvent, tensors, cacheJob, size, kind, handle,
                 ghosts, strays, starts>>

SetEvent(s) ==
  /\ cachePc[s] = "freed"
  /\ cacheEvent' = TRUE
  /\ CacheGoto(s, "idle")
  /\ UNCHANGED <<current, enqueued, counter, lock, cachePipe, tensors, cacheJob, size, kind,
                 handle, ghosts, strays, starts>>
-----------------------------------------------------------------------------
(* The runtime takes up a step that session s submitted.                   *)
CacheTakeJob(s) ==
  /\ cacheJob = NoSession /\ cachePc[s] = "held"
  /\ cacheJob' = s
  /\ UNCHANGED <<current, enqueued, counter, lock, cacheEvent, cachePipe, tensors, cachePc,
                 size, kind, handle, ghosts, strays, starts>>

(* use_cache: one creation or deletion request is read from the pipe.      *)
Receive ==
  /\ cacheJob # NoSession /\ cachePipe # <<>>
  /\ LET m == Head(cachePipe) IN
     tensors' = IF m.op = "create"
                THEN tensors \cup {[handle |-> m.handle, size |-> m.size]}
                ELSE {t \in tensors : t.handle # m.handle}
  /\ cachePipe' = Tail(cachePipe)
  /\ UNCHANGED <<current, enqueued, counter, lock, cacheEvent, cacheJob, cachePc, size, kind,
                 handle, ghosts, strays, starts>>

(* use_cache: the pipe is empty, and the step is computed (or raises       *)
(* KeyError when the tensors are gone).                                    *)
Compute ==
  /\ cacheJob # NoSession /\ cachePipe = <<>>
  /\ cacheJob' = NoSession
  /\ UNCHANGED <<current, enqueued, counter, lock, cacheEvent, cachePipe, tensors, cachePc,
                 size, kind, handle, ghosts, strays, starts>>
-----------------------------------------------------------------------------
CacheInit ==
  /\ current = 0 /\ enqueued = 0 /\ counter = 0
  /\ lock = NoSession /\ cacheEvent = FALSE
  /\ cachePipe = <<>> /\ tensors = {} /\ cacheJob = NoSession
  /\ cachePc = [s \in Sessions |-> "idle"]
  /\ size = [s \in Sessions |-> 0]
  /\ kind = [s \in Sessions |-> "none"]
  /\ handle = [s \in Sessions |-> 0]
  /\ ghosts = 0 /\ strays = [p \in Sizes \X Stages |-> 0] /\ starts = 0

(* One step of a session that is inside allocate_cache().                  *)
SessionStep(s) ==
  \/ FirstCheck(s) \/ TakeLock(s) \/ CheckLocked(s)
  \/ Wake(s) \/ ClearEvent(s) \/ Recheck(s) \/ Resume(s) \/ Missed(s)
  \/ Dequeue(s) \/ Commit(s) \/ FreeBytes(s) \/ SetEvent(s)

CacheNext ==
  \/ \E s \in Sessions :
       SessionStep(s) \/ Enqueue(s) \/ CacheLockTimeout(s) \/ WaitTimeout(s) \/ CacheTakeJob(s)
  \/ \E n \in Sizes : StrayStep(n)
  \/ GhostAcquires \/ Receive \/ Compute

CacheSpec == CacheInit /\ [][CacheNext]_cacheVars

(* Event loops, executor threads and the runtime are scheduled, and every  *)
(* session ends.  No session is obliged to start, to submit a step or to   *)
(* time out.                                                               *)
CacheFairSpec ==
  /\ CacheSpec
  /\ \A s \in Sessions : WF_cacheVars(SessionStep(s))
  /\ WF_cacheVars(Receive \/ Compute)
-----------------------------------------------------------------------------
(* Types of the variables.                                                 *)
CacheTypeOK ==
  /\ current \in Nat /\ enqueued \in Nat /\ counter \in 0..MaxAllocs
  /\ lock \in Sessions \cup {NoSession, Ghost} /\ cacheEvent \in BOOLEAN
  /\ cachePipe \in Seq([op : {"create", "free"}, handle : 0..MaxAllocs, size : Sizes])
  /\ tensors \subseteq [handle : 0..MaxAllocs, size : Sizes]
  /\ cacheJob \in Sessions \cup {NoSession}
  /\ cachePc \in [Sessions -> {"idle", "queued", "lock", "locked", "waiting", "clear",
                          "recheck", "fits", "missed", "passed", "commit", "held", "freed"}]
  /\ size \in [Sessions -> Sizes \cup {0}]
  /\ kind \in [Sessions -> TimeoutKinds]
  /\ handle \in [Sessions -> 0..MaxAllocs]
  /\ ghosts \in Nat /\ strays \in [Sizes \X Stages -> Nat] /\ starts \in 0..MaxAllocs

Bytes(S) == SumFunctionOnSet(size, S)
Holders == {s \in Sessions : cachePc[s] = "held"}
Queued == {s \in Sessions : cachePc[s] \in {"queued", "lock", "locked", "waiting", "clear",
                                       "recheck", "fits", "missed", "passed"}}

(* The two counters every decision is made by are exact: what is held by   *)
(* sessions, and what is queued, over every failure and timeout path.      *)
Accounting == current = Bytes(Holders) /\ enqueued = Bytes(Queued)

(* The cache never holds more than max_size_bytes: a session that does not *)
(* fit waits or fails.                                                     *)
CapacityRespected == current <= MaxSize

(* What the runtime has really allocated stays within max_size_bytes, even *)
(* half way through a backlog of requests: bytes counted as free are only  *)
(* given to a session whose request is behind the deletion in the pipe.    *)
PhysicalBound == SumFunctionOnSet([t \in tensors |-> t.size], tensors) <= MaxSize

(* When the pipe is drained the runtime has exactly the live sessions'     *)
(* tensors: none is missing when a step uses it, none is left behind.      *)
TensorsExact ==
  cachePipe = <<>> => tensors = {[handle |-> handle[s], size |-> size[s]] : s \in Holders}

(* All of it: the counters are exact and within the limit, and so are the  *)
(* tensors that the runtime has.                                           *)
BytesExact == Accounting /\ CapacityRespected /\ PhysicalBound /\ TensorsExact

(* Every allocation ends, whether or not it has a timeout: no freed byte   *)
(* goes unnoticed by the call that waits for it.  There are two exceptions, *)
(* both the work of a call that had timed out: a lock taken by its thread, *)
(* which stays taken; and a wakeup taken by its thread, which clears the   *)
(* event that the call now waiting under the lock was to see.              *)
NoWakeupTaken == \A n \in Sizes : strays[<<n, "clear">>] = 0

AllocationsEnd ==
  []NoWakeupTaken =>
    \A s \in Sessions : cachePc[s] = "queued" ~> (cachePc[s] \in {"held", "idle"} \/ lock = Ghost)
=============================================================================
