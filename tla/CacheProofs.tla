---------------------------- MODULE CacheProofs ----------------------------
(***************************************************************************)
(* Proofs about the two attention caches of a server: the counters, the    *)
(* limit and the tensors of the contiguous one (MemoryCache), and the page *)
(* tables of the paged one (PagedCache), for any number of sessions; both  *)
(* keep the types of their variables.                                      *)
(***************************************************************************)
EXTENDS MemoryCache, PagedCache, SumTheorems, SequenceTheorems, TLAPS

-----------------------------------------------------------------------------
(* The proof of BytesExact.  The pipe makes the runtime's tensors lag      *)
(* behind the sessions, so what is true of the tensors is stated of every  *)
(* state the runtime goes through while it reads what is in the pipe now.  *)

Tensor == [handle : Nat, size : Nat]
Message == [op : {"create", "free"}, handle : Nat, size : Nat]
TensorOf(m) == [handle |-> m.handle, size |-> m.size]

\* What the first k messages of q create and delete, and the tensors T after them.
Created(q, k) == {TensorOf(q[i]) : i \in {j \in 1..k : q[j].op = "create"}}
Freed(q, k) == {q[i].handle : i \in {j \in 1..k : q[j].op = "free"}}
Applied(T, q, k) == {t \in T \cup Created(q, k) : t.handle \notin Freed(q, k)}

SumSizes(T) == SumFunctionOnSet([t \in T |-> t.size], T)

LiveTensors == {[handle |-> handle[s], size |-> size[s]] : s \in Holders}

CacheTypes ==
  /\ current \in Int /\ enqueued \in Int /\ counter \in Nat
  /\ cachePipe \in Seq(Message) /\ tensors \subseteq Tensor
  /\ DOMAIN cachePc = Sessions
  /\ size \in [Sessions -> Nat] /\ handle \in [Sessions -> Nat]

\* A handle is given out once.
HandlesUnique ==
  /\ \A s \in Holders : handle[s] < counter
  /\ \A s, u \in Holders : handle[s] = handle[u] => s = u
  /\ \A i \in 1..Len(cachePipe) : cachePipe[i].handle < counter
  /\ \A i, j \in 1..Len(cachePipe) :
       /\ i < j /\ cachePipe[i].op = "free" /\ cachePipe[j].op = "create"
       => cachePipe[i].handle # cachePipe[j].handle

\* With the pipe read, the runtime has the holders' tensors, whose sizes are counted.
LiveInPipe ==
  /\ Applied(tensors, cachePipe, Len(cachePipe)) = LiveTensors
  /\ SumSizes(LiveTensors) = current

\* What holds however many connection handlers there are.
CountersInv == CacheTypes /\ Accounting /\ HandlesUnique /\ LiveInPipe

\* Phases of a session that has the lock, and of one that was given its bytes and
\* has not counted them yet.
Inside == {"locked", "waiting", "clear", "recheck", "fits", "missed"}
Promised == {"passed", "commit"}

LockHeld == \A s \in Sessions : cachePc[s] \in Inside => lock = s

\* With one connection handler nobody looks at the counter while granted bytes are
\* not counted.
GrantedAlone ==
  \A s, u \in Sessions :
    cachePc[s] \in Promised /\ u # s => cachePc[u] \notin Promised \cup (Inside \ {"locked"})

GrantedFits == \A s \in Sessions : cachePc[s] \in Promised \cup {"fits"} => CacheFits(s)

\* The runtime is within the limit after every message that it will read.
BacklogFits ==
  \A k \in 0..Len(cachePipe) : SumSizes(Applied(tensors, cachePipe, k)) <= MaxSize

\* What holds besides with one connection handler.
LimitInv == LockHeld /\ GrantedAlone /\ GrantedFits /\ CapacityRespected /\ BacklogFits
-----------------------------------------------------------------------------
(* What appending a message and reading one do to the states the runtime   *)
(* goes through.                                                           *)

LEMMA AppendCreated ==
  ASSUME NEW q \in Seq(Message), NEW m \in Message
  PROVE  LET n == Len(q)  p == Append(q, m) IN
         /\ \A k \in 0..n : Created(p, k) = Created(q, k) /\ Freed(p, k) = Freed(q, k)
         /\ m.op = "create" => /\ Created(p, n + 1) = Created(q, n) \cup {TensorOf(m)}
                               /\ Freed(p, n + 1) = Freed(q, n)
         /\ m.op = "free" => /\ Created(p, n + 1) = Created(q, n)
                             /\ Freed(p, n + 1) = Freed(q, n) \cup {m.handle}
  <1> DEFINE n == Len(q)  p == Append(q, m)
  <1>1. n \in Nat /\ p[n + 1] = m /\ \A i \in 1..n : p[i] = q[i]
    OBVIOUS
  <1> HIDE DEF p, n
  <1>2. ASSUME NEW k \in 0..n PROVE Created(p, k) = Created(q, k) /\ Freed(p, k) = Freed(q, k)
    <2>1. \A i \in 1..k : p[i] = q[i]
      BY <1>1
    <2>2. QED
      BY <2>1 DEF Created, Freed
  <1>3. 1..(n + 1) = (1..n) \cup {n + 1}
    BY <1>1
  <1>4. {j \in 1..(n + 1) : p[j].op = "create"}
        = {j \in 1..n : q[j].op = "create"} \cup (IF m.op = "create" THEN {n + 1} ELSE {})
    BY <1>1, <1>3
  <1>5. {j \in 1..(n + 1) : p[j].op = "free"}
        = {j \in 1..n : q[j].op = "free"} \cup (IF m.op = "free" THEN {n + 1} ELSE {})
    BY <1>1, <1>3
  <1>6. CASE m.op = "create"
    <2>1. Created(p, n + 1) = Created(q, n) \cup {TensorOf(m)}
      BY <1>1, <1>4, <1>6 DEF Created
    <2>2. Freed(p, n + 1) = Freed(q, n)
      BY <1>1, <1>5, <1>6 DEF Freed
    <2>3. QED
      BY <1>2, <1>6, <2>1, <2>2 DEF p, n
  <1>7. CASE m.op = "free"
    <2>1. Created(p, n + 1) = Created(q, n)
      BY <1>1, <1>4, <1>7 DEF Created
    <2>2. Freed(p, n + 1) = Freed(q, n) \cup {m.handle}
      BY <1>1, <1>5, <1>7 DEF Freed
    <2>3. QED
      BY <1>2, <1>7, <2>1, <2>2 DEF p, n
  <1>8. QED
    BY <1>6, <1>7 DEF Message

AppendEffect(T, q, m) ==
  /\ \A k \in 0..Len(q) : Applied(T, Append(q, m), k) = Applied(T, q, k)
  /\ m.op = "create" => Applied(T, Append(q, m), Len(q) + 1) = Applied(T, q, Len(q)) \cup {TensorOf(m)}
  /\ m.op = "free" => Applied(T, Append(q, m), Len(q) + 1)
                      = {t \in Applied(T, q, Len(q)) : t.handle # m.handle}

LEMMA AppendApplied ==
  ASSUME NEW T \in SUBSET Tensor, NEW q \in Seq(Message), NEW m \in Message,
         m.op = "create" => \A i \in 1..Len(q) : q[i].handle # m.handle
  PROVE  AppendEffect(T, q, m)
  <1> DEFINE n == Len(q)  p == Append(q, m)
  <1>1. n \in Nat /\ n \in 0..n
    OBVIOUS
  <1>2. m.op = "create" => m.handle \notin Freed(q, n)
    BY <1>1 DEF Freed
  <1>3. TensorOf(m).handle = m.handle
    BY DEF TensorOf
  <1>4. /\ \A k \in 0..n : Created(p, k) = Created(q, k) /\ Freed(p, k) = Freed(q, k)
        /\ m.op = "create" => /\ Created(p, n + 1) = Created(q, n) \cup {TensorOf(m)}
                              /\ Freed(p, n + 1) = Freed(q, n)
        /\ m.op = "free" => /\ Created(p, n + 1) = Created(q, n)
                            /\ Freed(p, n + 1) = Freed(q, n) \cup {m.handle}
    BY AppendCreated
  <1> HIDE DEF p, n
  <1>5. \A k \in 0..n : Applied(T, p, k) = Applied(T, q, k)
    BY <1>4 DEF Applied
  <1>6. m.op = "create" => Applied(T, p, n + 1) = Applied(T, q, n) \cup {TensorOf(m)}
    BY <1>2, <1>3, <1>4 DEF Applied
  <1>7. m.op = "free" => Applied(T, p, n + 1) = {t \in Applied(T, q, n) : t.handle # m.handle}
    BY <1>4 DEF Applied
  <1>8. QED
    BY <1>5, <1>6, <1>7 DEF p, n, AppendEffect

\* The runtime reads the first message: the states that follow are those that were to
\* follow.  That a message deletes nothing that a later one creates makes this so.
LEMMA TailApplied ==
  ASSUME NEW T \in SUBSET Tensor, NEW q \in Seq(Message), q # <<>>, NEW U,
         \/ Head(q).op = "create" /\ U = T \cup {TensorOf(Head(q))}
         \/ Head(q).op = "free" /\ U = {t \in T : t.handle # Head(q).handle},
         \A j \in 2..Len(q) : Head(q).op = "free" /\ q[j].op = "create" => Head(q).handle # q[j].handle
  PROVE  \A k \in 0..(Len(q) - 1) : Applied(U, Tail(q), k) = Applied(T, q, k + 1)
  <1> SUFFICES ASSUME NEW k \in 0..(Len(q) - 1) PROVE Applied(U, Tail(q), k) = Applied(T, q, k + 1)
    OBVIOUS
  <1> DEFINE p == Tail(q)  m == Head(q)
  <1>1. /\ Len(q) \in Nat /\ Len(q) >= 1 /\ m = q[1] /\ k \in Nat
        /\ \A i \in 1..k : p[i] = q[i + 1]
    OBVIOUS
  <1>2. m \in Message
    OBVIOUS
  <1> HIDE DEF p, m
  <1>3. Created(q, k + 1) = Created(p, k) \cup (IF m.op = "create" THEN {TensorOf(m)} ELSE {})
    <2>1. ASSUME NEW t \in Created(q, k + 1)
          PROVE  t \in Created(p, k) \cup (IF m.op = "create" THEN {TensorOf(m)} ELSE {})
      <3>1. PICK i \in 1..(k + 1) : q[i].op = "create" /\ t = TensorOf(q[i])
        BY <2>1 DEF Created
      <3>2. CASE i = 1
        BY <1>1, <3>1, <3>2
      <3>3. CASE i # 1
        <4>1. i - 1 \in 1..k /\ p[i - 1] = q[i]
          BY <1>1, <3>3
        <4>2. QED
          BY <3>1, <4>1 DEF Created
      <3>4. QED
        BY <3>2, <3>3
    <2>2. ASSUME NEW t \in Created(p, k) PROVE t \in Created(q, k + 1)
      <3>1. PICK i \in 1..k : p[i].op = "create" /\ t = TensorOf(p[i])
        BY <2>2 DEF Created
      <3>2. i + 1 \in 1..(k + 1) /\ p[i] = q[i + 1]
        BY <1>1
      <3>3. QED
        BY <3>1, <3>2 DEF Created
    <2>3. m.op = "create" => TensorOf(m) \in Created(q, k + 1)
      <3>1. 1 \in 1..(k + 1)
        BY <1>1
      <3>2. QED
        BY <1>1, <3>1 DEF Created
    <2>4. QED
      BY <2>1, <2>2, <2>3
  <1>4. Freed(q, k + 1) = Freed(p, k) \cup (IF m.op = "free" THEN {m.handle} ELSE {})
    <2>1. ASSUME NEW h \in Freed(q, k + 1)
          PROVE  h \in Freed(p, k) \cup (IF m.op = "free" THEN {m.handle} ELSE {})
      <3>1. PICK i \in 1..(k + 1) : q[i].op = "free" /\ h = q[i].handle
        BY <2>1 DEF Freed
      <3>2. CASE i = 1
        BY <1>1, <3>1, <3>2
      <3>3. CASE i # 1
        <4>1. i - 1 \in 1..k /\ p[i - 1] = q[i]
          BY <1>1, <3>3
        <4>2. QED
          BY <3>1, <4>1 DEF Freed
      <3>4. QED
        BY <3>2, <3>3
    <2>2. ASSUME NEW h \in Freed(p, k) PROVE h \in Freed(q, k + 1)
      <3>1. PICK i \in 1..k : p[i].op = "free" /\ h = p[i].handle
        BY <2>2 DEF Freed
      <3>2. i + 1 \in 1..(k + 1) /\ p[i] = q[i + 1]
        BY <1>1
      <3>3. QED
        BY <3>1, <3>2 DEF Freed
    <2>3. m.op = "free" => m.handle \in Freed(q, k + 1)
      <3>1. 1 \in 1..(k + 1)
        BY <1>1
      <3>2. QED
        BY <1>1, <3>1 DEF Freed
    <2>4. QED
      BY <2>1, <2>2, <2>3
  <1>5. CASE m.op = "create"
    <2>1. U = T \cup {TensorOf(m)}
      BY <1>5 DEF m
    <2>2. QED
      BY <1>3, <1>4, <1>5, <2>1 DEF Applied, p
  <1>6. CASE m.op = "free"
    <2>1. U = {t \in T : t.handle # m.handle}
      BY <1>6 DEF m
    <2>2. ASSUME NEW t \in Created(p, k) PROVE t.handle # m.handle
      <3>1. PICK i \in 1..k : p[i].op = "create" /\ t = TensorOf(p[i])
        BY <2>2 DEF Created
      <3>2. i + 1 \in 2..Len(q) /\ p[i] = q[i + 1]
        BY <1>1
      <3>3. m.handle # q[i + 1].handle
        BY <1>6, <3>1, <3>2 DEF m
      <3>4. QED
        BY <3>1, <3>2, <3>3 DEF TensorOf
    <2>3. QED
      BY <1>3, <1>4, <1>6, <2>1, <2>2 DEF Applied, p
  <1>7. QED
    BY <1>2, <1>5, <1>6 DEF Message
-----------------------------------------------------------------------------
(* The steps, as the counters, the pipe and the tensors see them.          *)

Quiet ==
  /\ UNCHANGED <<current, enqueued, counter, cachePipe, tensors, size, handle>>
  /\ Holders' = Holders /\ Queued' = Queued

\* s is queued with a new size; s leaves the queue.
Joins(s) ==
  /\ s \notin Holders \cup Queued /\ Holders' = Holders /\ Queued' = Queued \cup {s}
  /\ \E n \in Nat : size' = [size EXCEPT ![s] = n] /\ enqueued' = enqueued + n
  /\ UNCHANGED <<current, counter, cachePipe, tensors, handle>>

Leaves(s) ==
  /\ s \in Queued /\ Holders' = Holders /\ Queued' = Queued \ {s}
  /\ enqueued' = enqueued - size[s]
  /\ UNCHANGED <<current, counter, cachePipe, tensors, size, handle>>

\* s gets its bytes; s gives them back.
Gains(s) ==
  /\ s \notin Holders \cup Queued /\ Holders' = Holders \cup {s} /\ Queued' = Queued
  /\ current' = current + size[s]
  /\ handle' = [handle EXCEPT ![s] = counter] /\ counter' = counter + 1
  /\ cachePipe' = Append(cachePipe, [op |-> "create", handle |-> counter, size |-> size[s]])
  /\ UNCHANGED <<enqueued, tensors, size>>

Gives(s) ==
  /\ s \in Holders /\ Holders' = Holders \ {s} /\ Queued' = Queued
  /\ current' = current - size[s]
  /\ cachePipe' = Append(cachePipe, [op |-> "free", handle |-> handle[s], size |-> size[s]])
  /\ UNCHANGED <<enqueued, counter, tensors, size, handle>>

Reads ==
  /\ Holders' = Holders /\ Queued' = Queued
  /\ cachePipe # <<>> /\ cachePipe' = Tail(cachePipe)
  /\ tensors' = IF Head(cachePipe).op = "create"
                THEN tensors \cup {TensorOf(Head(cachePipe))}
                ELSE {t \in tensors : t.handle # Head(cachePipe).handle}
  /\ UNCHANGED <<current, enqueued, counter, size, handle>>

\* An abandoned thread's step: at most the session that waits misses the event.
Astray ==
  /\ UNCHANGED <<current, enqueued, counter, lock, cachePipe, tensors, cacheJob, size, kind, handle,
                 ghosts, starts>>
  /\ cacheEvent' \in {cacheEvent, FALSE}
  /\ \/ cachePc' = cachePc
     \/ \E s \in Sessions : cachePc[s] = "waiting" /\ cachePc' = [cachePc EXCEPT ![s] = "missed"]

LEMMA StraysApart ==
  ASSUME NEW n \in Sizes, StrayStep(n)
  PROVE  Astray
  <1>1. CASE StrayWakes(n) \/ StrayRechecks(n) \/ StrayEnds(n)
    BY <1>1 DEF StrayWakes, StrayRechecks, StrayEnds, Astray
  <1>2. CASE StrayClears(n)
    BY <1>2 DEF StrayClears, CacheGoto, Astray
  <1>3. QED
    BY <1>1, <1>2 DEF StrayStep

LEMMA StepCases ==
  ASSUME CacheTypes, [CacheNext]_cacheVars
  PROVE  \/ Quiet \/ Reads
         \/ \E s \in Sessions : Joins(s) \/ Leaves(s) \/ Gains(s) \/ Gives(s)
  <1> USE DEF CacheTypes, Holders, Queued
  <1>1. CASE UNCHANGED cacheVars
    BY <1>1 DEF cacheVars, Quiet
  <1>2. CASE GhostAcquires \/ Compute
    BY <1>2 DEF GhostAcquires, Compute, Quiet
  <1>a. ASSUME NEW n \in Sizes, StrayStep(n) PROVE Quiet
    BY <1>a, StraysApart DEF Astray, Quiet
  <1>3. CASE Receive
    BY <1>3 DEF Receive, Reads, TensorOf
  <1>4. ASSUME NEW s \in Sessions,
               \/ TakeLock(s) \/ Wake(s) \/ ClearEvent(s) \/ Recheck(s) \/ Resume(s)
               \/ SetEvent(s) \/ CacheTakeJob(s)
        PROVE  Quiet
    BY <1>4 DEF TakeLock, Wake, ClearEvent, Recheck, Resume, SetEvent, CacheTakeJob, CacheGoto, Quiet
  <1>5. ASSUME NEW s \in Sessions, FirstCheck(s) \/ CheckLocked(s) PROVE Quiet \/ Leaves(s)
    BY <1>5 DEF FirstCheck, CheckLocked, Fail, CacheGoto, Quiet, Leaves
  <1>6. ASSUME NEW s \in Sessions, CacheLockTimeout(s) \/ WaitTimeout(s) \/ Missed(s) \/ Dequeue(s) PROVE Leaves(s)
    BY <1>6 DEF CacheLockTimeout, WaitTimeout, Missed, Dequeue, Fail, CacheGoto, Leaves
  <1>7. ASSUME NEW s \in Sessions, Enqueue(s) PROVE Joins(s)
    BY <1>7, SizesAssumption DEF Enqueue, CacheGoto, Joins
  <1>8. ASSUME NEW s \in Sessions, Commit(s) PROVE Gains(s)
    BY <1>8 DEF Commit, CacheGoto, Gains
  <1>9. ASSUME NEW s \in Sessions, FreeBytes(s) PROVE Gives(s)
    BY <1>9 DEF FreeBytes, CacheGoto, Gives
  <1>10. QED
    BY <1>1, <1>2, <1>a, <1>3, <1>4, <1>5, <1>6, <1>7, <1>8, <1>9 DEF CacheNext, SessionStep
-----------------------------------------------------------------------------
\* The types.
LEMMA CacheTypesKept ==
  ASSUME CacheTypes, [CacheNext]_cacheVars, DOMAIN cachePc' = Sessions
  PROVE  CacheTypes'
  <1> USE DEF CacheTypes
  <1>1. CASE Quiet
    BY <1>1 DEF Quiet
  <1>2. CASE Reads
    <2>1. Head(cachePipe) \in Message /\ Tail(cachePipe) \in Seq(Message)
      BY <1>2 DEF Reads
    <2>2. tensors' \subseteq Tensor
      BY <1>2, <2>1 DEF Reads, TensorOf, Tensor, Message
    <2>3. QED
      BY <1>2, <2>1, <2>2 DEF Reads
  <1>3. ASSUME NEW s \in Sessions, Joins(s) PROVE CacheTypes'
    BY <1>3 DEF Joins
  <1>4. ASSUME NEW s \in Sessions, Leaves(s) PROVE CacheTypes'
    BY <1>4 DEF Leaves
  <1>5. ASSUME NEW s \in Sessions, Gains(s) PROVE CacheTypes'
    <2>1. [op |-> "create", handle |-> counter, size |-> size[s]] \in Message
      BY DEF Message
    <2>2. cachePipe' \in Seq(Message)
      BY <1>5, <2>1 DEF Gains
    <2>3. QED
      BY <1>5, <2>2 DEF Gains
  <1>6. ASSUME NEW s \in Sessions, Gives(s) PROVE CacheTypes'
    <2>1. [op |-> "free", handle |-> handle[s], size |-> size[s]] \in Message
      BY DEF Message
    <2>2. cachePipe' \in Seq(Message)
      BY <1>6, <2>1 DEF Gives
    <2>3. QED
      BY <1>6, <2>2 DEF Gives
  <1>7. QED
    BY <1>1, <1>2, <1>3, <1>4, <1>5, <1>6, StepCases

\* A step changes the phase of sessions only.
LEMMA PhasesKept ==
  ASSUME DOMAIN cachePc = Sessions, [CacheNext]_cacheVars
  PROVE  DOMAIN cachePc' = Sessions
  <1>1. CASE UNCHANGED cacheVars \/ GhostAcquires \/ Compute \/ Receive
    BY <1>1 DEF cacheVars, GhostAcquires, Compute, Receive
  <1>2. ASSUME NEW s \in Sessions,
               TakeLock(s) \/ Wake(s) \/ ClearEvent(s) \/ Recheck(s) \/ Resume(s) \/ SetEvent(s)
        PROVE  DOMAIN cachePc' = Sessions
    BY <1>2 DEF TakeLock, Wake, ClearEvent, Recheck, Resume, SetEvent, CacheGoto
  <1>3. ASSUME NEW s \in Sessions,
               \/ CacheTakeJob(s) \/ FirstCheck(s) \/ CheckLocked(s) \/ CacheLockTimeout(s) \/ WaitTimeout(s)
               \/ Missed(s)
        PROVE  DOMAIN cachePc' = Sessions
    BY <1>3 DEF CacheTakeJob, FirstCheck, CheckLocked, Fail, CacheLockTimeout, WaitTimeout, Missed, CacheGoto
  <1>4. ASSUME NEW s \in Sessions, Dequeue(s) \/ Enqueue(s) \/ Commit(s) \/ FreeBytes(s)
        PROVE  DOMAIN cachePc' = Sessions
    BY <1>4 DEF Dequeue, Enqueue, Commit, FreeBytes, CacheGoto
  <1>5. ASSUME NEW n \in Sizes, StrayStep(n) PROVE DOMAIN cachePc' = Sessions
    BY <1>5, StraysApart DEF Astray
  <1>6. QED
    BY <1>1, <1>2, <1>3, <1>4, <1>5 DEF CacheNext, SessionStep

\* The counters.
LEMMA AccountingKept ==
  ASSUME CacheTypes, Accounting, [CacheNext]_cacheVars
  PROVE  Accounting'
  <1>1. IsFiniteSet(Sessions) /\ Holders \in SUBSET Sessions /\ Queued \in SUBSET Sessions
    BY SessionsAssumption DEF Holders, Queued
  <1>2. IsFiniteSet(Holders) /\ IsFiniteSet(Queued) /\ size \in [Sessions -> Nat] /\ current \in Int /\ enqueued \in Int
    BY <1>1, FS_Subset DEF CacheTypes
  <1>3. /\ \A x \in Sessions : size[x] \in Int
        /\ current = SumFunctionOnSet(size, Holders) /\ enqueued = SumFunctionOnSet(size, Queued)
    BY <1>2 DEF Accounting, Bytes
  <1>4. SumFunctionOnSet(size, Holders) \in Int /\ SumFunctionOnSet(size, Queued) \in Int
    BY <1>2, <1>3
  <1>5. Accounting' <=> current' = SumFunctionOnSet(size', Holders') /\ enqueued' = SumFunctionOnSet(size', Queued')
    BY DEF Accounting, Bytes
  <1> HIDE DEF Holders, Queued
  <1>6. CASE Quiet \/ Reads
    BY <1>3, <1>5, <1>6 DEF Quiet, Reads
  <1>7. ASSUME NEW s \in Sessions, Joins(s) PROVE Accounting'
    <2>1. PICK n \in Nat : size' = [size EXCEPT ![s] = n] /\ enqueued' = enqueued + n
      BY <1>7 DEF Joins
    <2>2. s \notin Holders /\ s \notin Queued /\ Holders' = Holders /\ Queued' = Queued \cup {s} /\ current' = current
      BY <1>7 DEF Joins
    <2>3. size'[s] = n /\ \A x \in Sessions \ {s} : size'[x] = size[x]
      BY <1>2, <2>1
    <2>4. SumFunctionOnSet(size, Holders) = SumFunctionOnSet(size', Holders)
      <3>1. \A x \in Holders : size[x] \in Int /\ size[x] = size'[x]
        BY <1>1, <1>3, <2>2, <2>3
      <3>2. QED
        BY <1>2, <3>1, SumOfSame
    <2>5. SumFunctionOnSet(size, Queued) = SumFunctionOnSet(size', Queued)
      <3>1. \A x \in Queued : size[x] \in Int /\ size[x] = size'[x]
        BY <1>1, <1>3, <2>2, <2>3
      <3>2. QED
        BY <1>2, <3>1, SumOfSame
    <2>6. SumFunctionOnSet(size', Queued \cup {s}) = size'[s] + SumFunctionOnSet(size', Queued)
      <3>1. \A y \in Queued \cup {s} : size'[y] \in Int
        BY <1>1, <1>3, <2>3
      <3>2. QED
        BY <1>2, <2>2, <3>1, SumWith
    <2>7. QED
      BY <1>2, <1>3, <1>5, <2>1, <2>2, <2>3, <2>4, <2>5, <2>6
  <1>8. ASSUME NEW s \in Sessions, Leaves(s) PROVE Accounting'
    <2>1. s \in Queued /\ Holders' = Holders /\ Queued' = Queued \ {s} /\ UNCHANGED <<current, size>>
          /\ enqueued' = enqueued - size[s]
      BY <1>8 DEF Leaves
    <2>2. SumFunctionOnSet(size, Queued) = size[s] + SumFunctionOnSet(size, Queued \ {s})
      <3>1. \A y \in Queued : size[y] \in Int
        BY <1>1, <1>3
      <3>2. QED
        BY <1>2, <2>1, <3>1, SumWithout
    <2>3. SumFunctionOnSet(size, Queued \ {s}) \in Int
      <3>1. IsFiniteSet(Queued \ {s}) /\ \A y \in Queued \ {s} : size[y] \in Int
        BY <1>1, <1>2, <1>3, FS_Subset
      <3>2. QED
        BY <3>1, SumIsInt
    <2>4. QED
      BY <1>2, <1>3, <1>5, <2>1, <2>2, <2>3
  <1>9. ASSUME NEW s \in Sessions, Gains(s) PROVE Accounting'
    <2>1. s \notin Holders /\ Holders' = Holders \cup {s} /\ Queued' = Queued /\ UNCHANGED <<enqueued, size>>
          /\ current' = current + size[s]
      BY <1>9 DEF Gains
    <2>2. SumFunctionOnSet(size, Holders \cup {s}) = size[s] + SumFunctionOnSet(size, Holders)
      <3>1. \A y \in Holders \cup {s} : size[y] \in Int
        BY <1>1, <1>3
      <3>2. QED
        BY <1>2, <2>1, <3>1, SumWith
    <2>3. QED
      BY <1>2, <1>3, <1>4, <1>5, <2>1, <2>2
  <1>10. ASSUME NEW s \in Sessions, Gives(s) PROVE Accounting'
    <2>1. s \in Holders /\ Holders' = Holders \ {s} /\ Queued' = Queued /\ UNCHANGED <<enqueued, size>>
          /\ current' = current - size[s]
      BY <1>10 DEF Gives
    <2>2. SumFunctionOnSet(size, Holders) = size[s] + SumFunctionOnSet(size, Holders \ {s})
      <3>1. \A y \in Holders : size[y] \in Int
        BY <1>1, <1>3
      <3>2. QED
        BY <1>2, <2>1, <3>1, SumWithout
    <2>3. SumFunctionOnSet(size, Holders \ {s}) \in Int
      <3>1. IsFiniteSet(Holders \ {s}) /\ \A y \in Holders \ {s} : size[y] \in Int
        BY <1>1, <1>2, <1>3, FS_Subset
      <3>2. QED
        BY <3>1, SumIsInt
    <2>4. QED
      BY <1>2, <1>3, <1>5, <2>1, <2>2, <2>3
  <1>11. QED
    BY <1>6, <1>7, <1>8, <1>9, <1>10, StepCases
-----------------------------------------------------------------------------
(* Handles and tensors.                                                    *)

LEMMA HandlesKept ==
  ASSUME CacheTypes, HandlesUnique, [CacheNext]_cacheVars
  PROVE  HandlesUnique'
  <1> USE DEF HandlesUnique
  <1>1. /\ Holders \in SUBSET Sessions /\ counter \in Nat /\ handle \in [Sessions -> Nat]
        /\ size \in [Sessions -> Nat] /\ cachePipe \in Seq(Message)
    BY DEF Holders, CacheTypes
  <1> HIDE DEF Holders
  <1>2. CASE Quiet
    BY <1>2 DEF Quiet
  <1>3. CASE Reads
    <2>1. /\ Len(cachePipe) \in Nat /\ Len(cachePipe') = Len(cachePipe) - 1
          /\ \A i \in 1..(Len(cachePipe) - 1) : cachePipe'[i] = cachePipe[i + 1]
      BY <1>1, <1>3 DEF Reads
    <2>2. \A i \in 1..Len(cachePipe') : i + 1 \in 1..Len(cachePipe) /\ cachePipe'[i] = cachePipe[i + 1]
      BY <2>1
    <2>3. \A i, j \in 1..Len(cachePipe') : i < j => i + 1 < j + 1
      BY <2>1
    <2>4. \A i \in 1..Len(cachePipe') : cachePipe'[i].handle < counter
      BY <2>2
    <2>5. \A i, j \in 1..Len(cachePipe') :
            i < j /\ cachePipe'[i].op = "free" /\ cachePipe'[j].op = "create"
            => cachePipe'[i].handle # cachePipe'[j].handle
      BY <2>2, <2>3
    <2>6. QED
      BY <1>3, <2>4, <2>5 DEF Reads
  <1>4. ASSUME NEW s \in Sessions, Joins(s) \/ Leaves(s) PROVE HandlesUnique'
    BY <1>4 DEF Joins, Leaves
  <1>5. ASSUME NEW s \in Sessions, NEW m \in Message, cachePipe' = Append(cachePipe, m),
               \/ Gains(s) /\ m = [op |-> "create", handle |-> counter, size |-> size[s]]
               \/ Gives(s) /\ m = [op |-> "free", handle |-> handle[s], size |-> size[s]]
        PROVE  HandlesUnique'
    <2> DEFINE n == Len(cachePipe)
    <2>1. /\ n \in Nat /\ Len(cachePipe') = n + 1 /\ cachePipe'[n + 1] = m
          /\ \A i \in 1..n : cachePipe'[i] = cachePipe[i]
      BY <1>1, <1>5
    <2> HIDE DEF n
    <2>2. \A i \in 1..(n + 1) : i = n + 1 \/ i \in 1..n
      BY <2>1
    <2>3. \A i \in 1..n : cachePipe[i].handle < counter /\ cachePipe[i].handle \in Nat
      <3>1. \A i \in 1..n : cachePipe[i] \in Message
        BY <1>1 DEF n
      <3>2. QED
        BY <3>1 DEF n, Message
    <2>4. CASE Gains(s)
      <3>1. /\ handle'[s] = counter /\ \A u \in Sessions \ {s} : handle'[u] = handle[u]
            /\ counter' = counter + 1 /\ Holders' = Holders \cup {s} /\ s \notin Holders
            /\ m.handle = counter /\ m.op = "create"
        BY <1>1, <1>5, <2>4 DEF Gains, Gives
      <3>2. \A u \in Holders' : handle'[u] < counter'
        BY <1>1, <3>1
      <3>3. \A u, v \in Holders' : handle'[u] = handle'[v] => u = v
        BY <1>1, <3>1
      <3>4. \A i \in 1..Len(cachePipe') : cachePipe'[i].handle < counter'
        BY <1>1, <2>1, <2>2, <2>3, <3>1
      <3>5. \A i, j \in 1..Len(cachePipe') :
              i < j /\ cachePipe'[i].op = "free" /\ cachePipe'[j].op = "create"
              => cachePipe'[i].handle # cachePipe'[j].handle
        <4> SUFFICES ASSUME NEW i \in 1..(n + 1), NEW j \in 1..(n + 1), i < j,
                            cachePipe'[i].op = "free", cachePipe'[j].op = "create"
                     PROVE  cachePipe'[i].handle # cachePipe'[j].handle
          BY <2>1
        <4>1. i \in 1..n
          BY <2>1
        <4>2. CASE j = n + 1
          BY <1>1, <2>1, <2>3, <3>1, <4>1, <4>2
        <4>3. CASE j \in 1..n
          BY <2>1, <4>1, <4>3 DEF n
        <4>4. QED
          BY <2>2, <4>2, <4>3
      <3>6. QED
        BY <3>2, <3>3, <3>4, <3>5
    <2>5. CASE Gives(s)
      <3>1. /\ UNCHANGED <<handle, counter>> /\ Holders' = Holders \ {s} /\ s \in Holders
            /\ m.handle = handle[s] /\ m.op = "free"
        BY <1>1, <1>5, <2>5 DEF Gains, Gives
      <3>2. \A i \in 1..Len(cachePipe') : cachePipe'[i].handle < counter'
        BY <2>1, <2>2, <2>3, <3>1
      <3>3. \A i, j \in 1..Len(cachePipe') :
              i < j /\ cachePipe'[i].op = "free" /\ cachePipe'[j].op = "create"
              => cachePipe'[i].handle # cachePipe'[j].handle
        <4> SUFFICES ASSUME NEW i \in 1..(n + 1), NEW j \in 1..(n + 1), i < j,
                            cachePipe'[i].op = "free", cachePipe'[j].op = "create"
                     PROVE  cachePipe'[i].handle # cachePipe'[j].handle
          BY <2>1
        <4>1. j \in 1..n
          BY <2>1, <2>2, <3>1
        <4>2. i \in 1..n
          BY <2>1, <4>1
        <4>3. QED
          BY <2>1, <4>1, <4>2 DEF n
      <3>4. QED
        BY <3>1, <3>2, <3>3
    <2>6. QED
      BY <1>5, <2>4, <2>5
  <1>6. ASSUME NEW s \in Sessions, Gains(s) PROVE HandlesUnique'
    <2>1. [op |-> "create", handle |-> counter, size |-> size[s]] \in Message
      BY <1>1 DEF Message
    <2>2. cachePipe' = Append(cachePipe, [op |-> "create", handle |-> counter, size |-> size[s]])
      BY <1>6 DEF Gains
    <2>3. QED
      BY <1>5, <1>6, <2>1, <2>2
  <1>7. ASSUME NEW s \in Sessions, Gives(s) PROVE HandlesUnique'
    <2>1. [op |-> "free", handle |-> handle[s], size |-> size[s]] \in Message
      BY <1>1 DEF Message
    <2>2. cachePipe' = Append(cachePipe, [op |-> "free", handle |-> handle[s], size |-> size[s]])
      BY <1>7 DEF Gives
    <2>3. QED
      BY <1>5, <1>7, <2>1, <2>2
  <1>8. QED
    BY <1>2, <1>3, <1>4, <1>6, <1>7, StepCases

\* Sums of tensors' sizes.
LEMMA SizesWith ==
  ASSUME NEW T \in SUBSET Tensor, IsFiniteSet(T), NEW t \in Tensor, t \notin T
  PROVE  SumSizes(T \cup {t}) = SumSizes(T) + t.size /\ SumSizes(T) \in Int
  <1> DEFINE f == [x \in T |-> x.size]
             g == [x \in T \cup {t} |-> x.size]
  <1>1. (\A x \in T : f[x] \in Int /\ f[x] = g[x]) /\ g[t] = t.size /\ t.size \in Int
    BY DEF Tensor
  <1>2. SumSizes(T) = SumFunctionOnSet(f, T) /\ SumSizes(T \cup {t}) = SumFunctionOnSet(g, T \cup {t})
    BY DEF SumSizes
  <1> HIDE DEF f, g
  <1>3. SumFunctionOnSet(f, T) = SumFunctionOnSet(g, T)
    BY <1>1, SumOfSame
  <1>4. SumFunctionOnSet(f, T) \in Int
    BY <1>1, SumIsInt
  <1>5. SumFunctionOnSet(g, T \cup {t}) = g[t] + SumFunctionOnSet(g, T)
    BY <1>1, SumWith
  <1>6. QED
    BY <1>1, <1>2, <1>3, <1>4, <1>5

LEMMA LiveFinite ==
  ASSUME CacheTypes
  PROVE  IsFiniteSet(LiveTensors) /\ LiveTensors \in SUBSET Tensor
  <1> DEFINE f == [s \in Holders |-> [handle |-> handle[s], size |-> size[s]]]
  <1>1. IsFiniteSet(Holders) /\ Holders \subseteq Sessions
    BY SessionsAssumption, FS_Subset DEF Holders
  <1>2. f \in Surjection(Holders, LiveTensors)
    BY DEF Surjection, LiveTensors
  <1>3. IsFiniteSet(LiveTensors)
    <2> HIDE DEF f
    <2>1. QED
      BY <1>1, <1>2, FS_Surjection, Zenon
  <1>4. QED
    BY <1>1, <1>3 DEF LiveTensors, Tensor, CacheTypes

\* A message that a session adds is the last that the runtime will read: what it has
\* before that is what it would have had, and what it has then are the holders' tensors.
LEMMA AppendKept ==
  ASSUME CacheTypes, CacheTypes', LiveInPipe, NEW m \in Message,
         cachePipe' = Append(cachePipe, m), tensors' = tensors,
         m.op = "create" => \A i \in 1..Len(cachePipe) : cachePipe[i].handle # m.handle,
         m.op = "create" => LiveTensors' = LiveTensors \cup {TensorOf(m)},
         m.op = "free" => LiveTensors' = {t \in LiveTensors : t.handle # m.handle},
         SumSizes(LiveTensors)' = current'
  PROVE  LiveInPipe' /\ (BacklogFits /\ CapacityRespected' => BacklogFits')
  <1> DEFINE n == Len(cachePipe)
  <1>1. /\ cachePipe \in Seq(Message) /\ tensors \in SUBSET Tensor
        /\ n \in Nat /\ Len(cachePipe') = n + 1
    BY DEF CacheTypes
  <1>2. /\ \A k \in 0..n : Applied(tensors, Append(cachePipe, m), k) = Applied(tensors, cachePipe, k)
        /\ m.op = "create" => Applied(tensors, Append(cachePipe, m), n + 1) = Applied(tensors, cachePipe, n) \cup {TensorOf(m)}
        /\ m.op = "free" => Applied(tensors, Append(cachePipe, m), n + 1) = {t \in Applied(tensors, cachePipe, n) : t.handle # m.handle}
    <2>1. AppendEffect(tensors, cachePipe, m)
      BY <1>1, AppendApplied
    <2>2. QED
      BY <2>1 DEF AppendEffect
  <1>3. Applied(tensors', cachePipe', n + 1) = LiveTensors'
    BY <1>2 DEF LiveInPipe, Message
  <1>4. \A k \in 0..n : Applied(tensors', cachePipe', k) = Applied(tensors, cachePipe, k)
    BY <1>2
  <1>5. (LiveInPipe)'
    BY <1>1, <1>3 DEF LiveInPipe
  <1>6. ASSUME BacklogFits, CapacityRespected' PROVE BacklogFits'
    <2> SUFFICES ASSUME NEW k \in 0..(n + 1) PROVE SumSizes(Applied(tensors', cachePipe', k)) <= MaxSize
      BY <1>1 DEF BacklogFits, SumSizes
    <2>1. CASE k = n + 1
      BY <1>3, <1>6, <2>1 DEF CapacityRespected, SumSizes
    <2>2. CASE k # n + 1
      <3>1. k \in 0..n
        BY <1>1, <2>2
      <3>2. QED
        BY <1>4, <1>6, <3>1 DEF BacklogFits
    <2>3. QED
      BY <2>1, <2>2
  <1>7. QED
    BY <1>5, <1>6

LEMMA TensorsKept ==
  ASSUME CacheTypes, CacheTypes', HandlesUnique, LiveInPipe, [CacheNext]_cacheVars
  PROVE  LiveInPipe' /\ (BacklogFits /\ CapacityRespected' => BacklogFits')
  <1>1. /\ Holders \in SUBSET Sessions /\ counter \in Nat /\ handle \in [Sessions -> Nat]
        /\ size \in [Sessions -> Nat] /\ cachePipe \in Seq(Message) /\ tensors \in SUBSET Tensor
    BY DEF Holders, CacheTypes
  <1>2. IsFiniteSet(LiveTensors) /\ LiveTensors \in SUBSET Tensor
    BY LiveFinite
  <1>a. IsFiniteSet(LiveTensors)' /\ (LiveTensors \in SUBSET Tensor)'
    <2>1. CacheTypes => IsFiniteSet(LiveTensors) /\ LiveTensors \in SUBSET Tensor
      BY LiveFinite
    <2>2. QED
      BY <2>1, LiveFinite, PTL
  <1> HIDE DEF Holders
  <1>3. CASE Quiet
    <2>1. LiveTensors' = LiveTensors
      BY <1>3 DEF Quiet, LiveTensors
    <2>2. QED
      BY <1>3, <2>1 DEF Quiet, LiveInPipe, BacklogFits, SumSizes, CapacityRespected
  <1>4. ASSUME NEW s \in Sessions, Joins(s) \/ Leaves(s) PROVE LiveInPipe' /\ (BacklogFits => BacklogFits')
    <2>1. /\ UNCHANGED <<current, cachePipe, tensors, handle>> /\ Holders' = Holders
          /\ \A u \in Holders : size'[u] = size[u]
      BY <1>1, <1>4 DEF Joins, Leaves
    <2>2. LiveTensors' = LiveTensors
      BY <2>1 DEF LiveTensors
    <2>3. QED
      BY <2>1, <2>2 DEF LiveInPipe, BacklogFits, SumSizes
  <1>5. CASE Reads
    <2>1. LiveTensors' = LiveTensors /\ current' = current
      BY <1>5 DEF Reads, LiveTensors
    <2>2. Head(cachePipe) \in Message /\ Head(cachePipe) = cachePipe[1] /\ cachePipe' = Tail(cachePipe)
          /\ cachePipe # <<>> /\ Len(cachePipe) \in Nat \ {0} /\ Len(cachePipe') = Len(cachePipe) - 1
      BY <1>1, <1>5 DEF Reads
    <2>3. \/ Head(cachePipe).op = "create" /\ tensors' = tensors \cup {TensorOf(Head(cachePipe))}
          \/ Head(cachePipe).op = "free" /\ tensors' = {t \in tensors : t.handle # Head(cachePipe).handle}
      BY <1>5, <2>2 DEF Reads, Message
    <2>4. \A j \in 2..Len(cachePipe) :
            Head(cachePipe).op = "free" /\ cachePipe[j].op = "create" => Head(cachePipe).handle # cachePipe[j].handle
      <3>1. 1 \in 1..Len(cachePipe) /\ \A j \in 2..Len(cachePipe) : j \in 1..Len(cachePipe) /\ 1 < j
        BY <2>2
      <3>2. QED
        BY <2>2, <3>1 DEF HandlesUnique
    <2>5. \A k \in 0..(Len(cachePipe) - 1) :
            Applied(tensors', Tail(cachePipe), k) = Applied(tensors, cachePipe, k + 1)
      BY <1>1, <2>2, <2>3, <2>4, TailApplied
    <2>6. LiveInPipe'
      BY <2>1, <2>2, <2>5 DEF LiveInPipe, SumSizes
    <2>7. ASSUME BacklogFits PROVE BacklogFits'
      <3> SUFFICES ASSUME NEW k \in 0..(Len(cachePipe) - 1)
                   PROVE  SumSizes(Applied(tensors', cachePipe', k)) <= MaxSize
        BY <2>2 DEF BacklogFits, SumSizes
      <3>1. k + 1 \in 0..Len(cachePipe)
        BY <2>2
      <3>2. QED
        BY <2>2, <2>5, <2>7, <3>1 DEF BacklogFits
    <2>8. QED
      BY <2>6, <2>7
  <1>6. ASSUME NEW s \in Sessions, Gains(s)
        PROVE  LiveInPipe' /\ (BacklogFits /\ CapacityRespected' => BacklogFits')
    <2> DEFINE m == [op |-> "create", handle |-> counter, size |-> size[s]]
    <2>1. m \in Message /\ m.op = "create" /\ m.handle = counter /\ m.size = size[s]
          /\ TensorOf(m) = [handle |-> counter, size |-> size[s]]
      BY <1>1 DEF Message, TensorOf
    <2>2. /\ cachePipe' = Append(cachePipe, m) /\ tensors' = tensors /\ size' = size
          /\ Holders' = Holders \cup {s} /\ s \notin Holders /\ current' = current + size[s]
          /\ handle'[s] = counter /\ \A u \in Sessions \ {s} : handle'[u] = handle[u]
      BY <1>1, <1>6 DEF Gains
    <2> HIDE DEF m
    <2>3. \A i \in 1..Len(cachePipe) : cachePipe[i].handle # m.handle
      <3>1. \A i \in 1..Len(cachePipe) : cachePipe[i] \in Message
        BY <1>1
      <3>2. QED
        BY <1>1, <2>1, <3>1 DEF HandlesUnique, Message
    <2>4. LiveTensors' = LiveTensors \cup {TensorOf(m)}
      BY <1>1, <2>1, <2>2 DEF LiveTensors
    <2>5. TensorOf(m) \in Tensor /\ TensorOf(m) \notin LiveTensors /\ TensorOf(m).size = size[s]
      <3>1. \A t \in LiveTensors : t.handle < counter
        BY DEF LiveTensors, HandlesUnique
      <3>2. QED
        BY <1>1, <2>1, <3>1 DEF Tensor
    <2>6. SumSizes(LiveTensors \cup {TensorOf(m)}) = SumSizes(LiveTensors) + size[s]
      BY <1>2, <2>5, SizesWith
    <2>7. SumSizes(LiveTensors)' = current'
      BY <2>2, <2>4, <2>6 DEF LiveInPipe, SumSizes
    <2>8. QED
      BY <2>1, <2>2, <2>3, <2>4, <2>7, AppendKept
  <1>7. ASSUME NEW s \in Sessions, Gives(s)
        PROVE  LiveInPipe' /\ (BacklogFits /\ CapacityRespected' => BacklogFits')
    <2> DEFINE m == [op |-> "free", handle |-> handle[s], size |-> size[s]]
    <2>1. m \in Message /\ m.op = "free" /\ m.handle = handle[s] /\ m.size = size[s]
          /\ TensorOf(m) = [handle |-> handle[s], size |-> size[s]]
      BY <1>1 DEF Message, TensorOf
    <2>2. /\ cachePipe' = Append(cachePipe, m) /\ UNCHANGED <<tensors, size, handle>>
          /\ Holders' = Holders \ {s} /\ s \in Holders /\ current' = current - size[s]
      BY <1>1, <1>7 DEF Gives
    <2> HIDE DEF m
    <2>3. LiveTensors' = {t \in LiveTensors : t.handle # m.handle}
      BY <1>1, <2>1, <2>2 DEF LiveTensors, HandlesUnique
    <2>4. LiveTensors = LiveTensors' \cup {TensorOf(m)} /\ TensorOf(m) \notin LiveTensors'
          /\ TensorOf(m) \in Tensor /\ TensorOf(m).size = size[s]
      <3>1. LiveTensors = LiveTensors' \cup {TensorOf(m)}
        BY <1>1, <2>1, <2>2 DEF LiveTensors
      <3>2. TensorOf(m) \notin LiveTensors'
        BY <2>1, <2>3
      <3>3. QED
        BY <1>1, <2>1, <3>1, <3>2 DEF Tensor
    <2>5. SumSizes(LiveTensors' \cup {TensorOf(m)}) = SumSizes(LiveTensors') + size[s] /\ SumSizes(LiveTensors') \in Int
      BY <1>a, <2>4, SizesWith
    <2>6. SumSizes(LiveTensors)' = current'
      <3>1. SumSizes(LiveTensors)' = SumSizes(LiveTensors') /\ SumSizes(LiveTensors) = current
        BY DEF SumSizes, LiveInPipe
      <3>2. size[s] \in Nat
        BY <1>1
      <3>3. QED
        BY <2>2, <2>4, <2>5, <3>1, <3>2
    <2>7. QED
      BY <2>1, <2>2, <2>3, <2>6, AppendKept
  <1>8. QED
    BY <1>3, <1>4, <1>5, <1>6, <1>7, StepCases
-----------------------------------------------------------------------------
\* Whatever the sessions do and however many connection handlers serve them, the two
\* counters say what is held and what is queued, and the runtime that has read its pipe
\* has the tensors of the sessions that hold bytes.
LEMMA CountersInvAlways == CacheSpec => []CountersInv
  <1>1. CacheInit => CountersInv
    <2> SUFFICES ASSUME CacheInit PROVE CountersInv
      OBVIOUS
    <2>1. Holders = {} /\ Queued = {} /\ Len(cachePipe) = 0
      BY DEF CacheInit, Holders, Queued
    <2>2. CacheTypes
      BY DEF CacheInit, CacheTypes
    <2>3. Accounting
      BY <2>1, SumOfEmpty DEF CacheInit, Accounting, Bytes
    <2>4. HandlesUnique
      BY <2>1 DEF HandlesUnique
    <2>5. LiveTensors = {} /\ Applied(tensors, cachePipe, Len(cachePipe)) = {}
      BY <2>1 DEF CacheInit, LiveTensors, Applied, Created
    <2>6. LiveInPipe
      BY <2>5, SumOfEmpty DEF CacheInit, LiveInPipe, SumSizes
    <2>7. QED
      BY <2>2, <2>3, <2>4, <2>6 DEF CountersInv
  <1>2. CountersInv /\ [CacheNext]_cacheVars => CountersInv'
    <2> SUFFICES ASSUME CountersInv, [CacheNext]_cacheVars PROVE CountersInv'
      OBVIOUS
    <2> USE DEF CountersInv
    <2>1. CacheTypes'
      <3>1. DOMAIN cachePc' = Sessions
        BY PhasesKept DEF CacheTypes
      <3>2. QED
        BY <3>1, CacheTypesKept
    <2>2. QED
      BY <2>1, AccountingKept, HandlesKept, TensorsKept
  <1>3. QED
    BY <1>1, <1>2, PTL DEF CacheSpec

\* The counters every decision is made by are exact, and so is what the runtime has when
\* it computes, with any number of connection handlers.
THEOREM CountersExact == CacheSpec => [](Accounting /\ TensorsExact)
  <1>1. CountersInv => Accounting /\ TensorsExact
    <2> SUFFICES ASSUME CountersInv, cachePipe = <<>> PROVE tensors = LiveTensors
      BY DEF CountersInv, TensorsExact, LiveTensors
    <2>1. Len(cachePipe) = 0 /\ Created(cachePipe, 0) = {} /\ Freed(cachePipe, 0) = {}
      BY DEF Created, Freed
    <2>2. QED
      BY <2>1 DEF CountersInv, LiveInPipe, Applied
  <1>2. QED
    BY <1>1, CountersInvAlways, PTL
-----------------------------------------------------------------------------
(* One connection handler: the limit.                                      *)

OneHandler == \A s, u \in Sessions : ProcOf[s] = ProcOf[u]

LEMMA LockHeldKept ==
  ASSUME CacheTypes, LockHeld, [CacheNext]_cacheVars
  PROVE  LockHeld'
  <1> USE SessionsAssumption DEF CacheTypes, LockHeld, Inside, CacheGoto
  <1>1. CASE UNCHANGED cacheVars \/ GhostAcquires \/ Compute \/ Receive
    BY <1>1 DEF cacheVars, GhostAcquires, Compute, Receive
  <1>2. ASSUME NEW s \in Sessions,
               Enqueue(s) \/ FirstCheck(s) \/ TakeLock(s) \/ CacheLockTimeout(s) \/ CheckLocked(s)
        PROVE  LockHeld'
    BY <1>2 DEF Enqueue, FirstCheck, TakeLock, CacheLockTimeout, CheckLocked, Fail
  <1>3. ASSUME NEW s \in Sessions,
               Wake(s) \/ ClearEvent(s) \/ Recheck(s) \/ Resume(s) \/ WaitTimeout(s) \/ Missed(s)
        PROVE  LockHeld'
    <2>1. CASE WaitTimeout(s) \/ Missed(s)
      <3>1. cachePc[s] \in Inside /\ Fail(s)
        BY <2>1 DEF WaitTimeout, Missed
      <3>2. cachePc' = [cachePc EXCEPT ![s] = "idle"] /\ \A u \in Sessions \ {s} : cachePc[u] \notin Inside
        BY <3>1 DEF Fail
      <3>3. QED
        BY <3>2
    <2>2. CASE Wake(s) \/ ClearEvent(s) \/ Recheck(s) \/ Resume(s)
      BY <2>2 DEF Wake, ClearEvent, Recheck, Resume
    <2>3. QED
      BY <1>3, <2>1, <2>2
  <1>4. ASSUME NEW s \in Sessions,
               Dequeue(s) \/ Commit(s) \/ FreeBytes(s) \/ SetEvent(s) \/ CacheTakeJob(s)
        PROVE  LockHeld'
    BY <1>4 DEF Dequeue, Commit, FreeBytes, SetEvent, CacheTakeJob
  <1>5. ASSUME NEW n \in Sizes, StrayStep(n) PROVE LockHeld'
    BY <1>5, StraysApart DEF Astray
  <1>6. QED
    BY <1>1, <1>2, <1>3, <1>4, <1>5 DEF CacheNext, SessionStep

\* A session is given its bytes, or begins to wait for them, when no other one of the
\* handler is between two awaits.
LEMMA GrantedAloneKept ==
  ASSUME OneHandler, CacheTypes, LockHeld, GrantedAlone, [CacheNext]_cacheVars
  PROVE  GrantedAlone'
  <1> USE SessionsAssumption DEF CacheTypes, LockHeld, GrantedAlone, Promised, Inside, CacheGoto
  <1>1. CASE UNCHANGED cacheVars \/ GhostAcquires \/ Compute \/ Receive
    BY <1>1 DEF cacheVars, GhostAcquires, Compute, Receive
  <1>2. ASSUME NEW s \in Sessions,
               Enqueue(s) \/ FirstCheck(s) \/ TakeLock(s) \/ CacheLockTimeout(s) \/ WaitTimeout(s) \/ Missed(s)
        PROVE  GrantedAlone'
    <2>1. cachePc'[s] \in {"queued", "lock", "idle", "locked"}
      BY <1>2 DEF Enqueue, FirstCheck, TakeLock, CacheLockTimeout, WaitTimeout, Missed, Fail
    <2>2. \A u \in Sessions \ {s} : cachePc'[u] = cachePc[u]
      BY <1>2 DEF Enqueue, FirstCheck, TakeLock, CacheLockTimeout, WaitTimeout, Missed, Fail
    <2>3. QED
      BY <2>1, <2>2
  <1>3. ASSUME NEW s \in Sessions, CheckLocked(s) \/ Resume(s) PROVE GrantedAlone'
    <2>1. \A u \in Sessions \ {s} : cachePc[u] \notin Promised
      BY <1>3 DEF CheckLocked, Resume, LoopFree, Uninterrupted, OneHandler
    <2>2. lock = s /\ \A u \in Sessions \ {s} : cachePc[u] \notin Inside
      BY <1>3 DEF CheckLocked, Resume
    <2>3. \A u \in Sessions \ {s} : cachePc'[u] = cachePc[u]
      BY <1>3 DEF CheckLocked, Resume, Fail
    <2>4. QED
      BY <2>1, <2>2, <2>3
  <1>4. ASSUME NEW s \in Sessions,
               \/ Wake(s) \/ ClearEvent(s) \/ Recheck(s) \/ Dequeue(s)
               \/ Commit(s) \/ FreeBytes(s) \/ SetEvent(s) \/ CacheTakeJob(s)
        PROVE  GrantedAlone'
    <2>1. \A u \in Sessions \ {s} : cachePc'[u] = cachePc[u]
      BY <1>4 DEF Wake, ClearEvent, Recheck, Dequeue, Commit, FreeBytes, SetEvent, CacheTakeJob
    <2>2. CASE Wake(s) \/ ClearEvent(s) \/ Recheck(s)
      <3>1. /\ cachePc[s] \in {"waiting", "clear", "recheck"}
            /\ cachePc'[s] \in {"waiting", "clear", "recheck", "fits"}
        BY <2>2 DEF Wake, ClearEvent, Recheck
      <3>2. QED
        BY <2>1, <3>1
    <2>3. CASE Dequeue(s) \/ Commit(s) \/ FreeBytes(s) \/ SetEvent(s)
      <3>1. \/ cachePc[s] \in Promised /\ cachePc'[s] \in {"commit", "held"}
            \/ cachePc'[s] \in {"freed", "idle"}
        BY <2>3 DEF Dequeue, Commit, FreeBytes, SetEvent, Fail
      <3>2. QED
        BY <2>1, <3>1
    <2>4. CASE CacheTakeJob(s)
      BY <2>4 DEF CacheTakeJob
    <2>5. QED
      BY <1>4, <2>2, <2>3, <2>4
  <1>5. ASSUME NEW n \in Sizes, StrayStep(n) PROVE GrantedAlone'
    BY <1>5, StraysApart DEF Astray
  <1>6. QED
    BY <1>1, <1>2, <1>3, <1>4, <1>5 DEF CacheNext, SessionStep

\* The counter rises only by bytes that were granted, and then nobody else relies on it.
LEMMA GrantedFitsKept ==
  ASSUME CacheTypes, GrantedAlone, GrantedFits, CapacityRespected, [CacheNext]_cacheVars
  PROVE  GrantedFits' /\ CapacityRespected'
  <1> USE DEF CacheTypes, GrantedFits, CapacityRespected, CacheFits, Promised, CacheGoto
  <1>0. MaxSize \in Nat /\ \A u \in Sessions : size[u] \in Nat
    BY SizesAssumption
  <1>1. CASE UNCHANGED cacheVars \/ GhostAcquires \/ Compute \/ Receive
    BY <1>1 DEF cacheVars, GhostAcquires, Compute, Receive
  <1>2. ASSUME NEW s \in Sessions,
               Enqueue(s) \/ FirstCheck(s) \/ TakeLock(s) \/ CacheLockTimeout(s) \/ CheckLocked(s)
        PROVE  GrantedFits' /\ CapacityRespected'
    BY <1>2 DEF Enqueue, FirstCheck, TakeLock, CacheLockTimeout, CheckLocked, Fail
  <1>3. ASSUME NEW s \in Sessions,
               Wake(s) \/ ClearEvent(s) \/ Recheck(s) \/ Resume(s) \/ WaitTimeout(s) \/ Missed(s)
        PROVE  GrantedFits' /\ CapacityRespected'
    BY <1>3 DEF Wake, ClearEvent, Recheck, Resume, WaitTimeout, Missed, Fail
  <1>4. ASSUME NEW s \in Sessions, Dequeue(s) \/ SetEvent(s) \/ CacheTakeJob(s)
        PROVE  GrantedFits' /\ CapacityRespected'
    BY <1>4 DEF Dequeue, SetEvent, CacheTakeJob
  <1>5. ASSUME NEW s \in Sessions, Commit(s) PROVE GrantedFits' /\ CapacityRespected'
    <2>1. cachePc[s] = "commit" /\ current' = current + size[s] /\ size' = size
          /\ cachePc' = [cachePc EXCEPT ![s] = "held"]
      BY <1>5 DEF Commit
    <2>2. \A u \in Sessions : cachePc'[u] \notin Promised \cup {"fits"}
      BY <2>1 DEF GrantedAlone, Inside
    <2>3. current' <= MaxSize
      BY <2>1
    <2>4. QED
      BY <2>2, <2>3
  <1>6. ASSUME NEW s \in Sessions, FreeBytes(s) PROVE GrantedFits' /\ CapacityRespected'
    <2>1. current' = current - size[s] /\ size' = size
          /\ cachePc' = [cachePc EXCEPT ![s] = "freed"]
      BY <1>6 DEF FreeBytes
    <2>2. \A u \in Sessions : cachePc'[u] \in Promised \cup {"fits"} => cachePc[u] \in Promised \cup {"fits"}
      BY <2>1
    <2>3. current' <= current /\ current' \in Int
      BY <1>0, <2>1
    <2>4. ASSUME NEW u \in Sessions, cachePc'[u] \in Promised \cup {"fits"} PROVE current' + size'[u] <= MaxSize
      <3>1. current + size[u] <= MaxSize /\ size'[u] = size[u] /\ size[u] \in Nat /\ current \in Int
        BY <1>0, <2>1, <2>2, <2>4
      <3>2. QED
        BY <1>0, <2>3, <3>1
    <2>5. QED
      BY <1>0, <2>3, <2>4
  <1>7. ASSUME NEW n \in Sizes, StrayStep(n) PROVE GrantedFits' /\ CapacityRespected'
    BY <1>7, StraysApart DEF Astray
  <1>8. QED
    BY <1>1, <1>2, <1>3, <1>4, <1>5, <1>6, <1>7 DEF CacheNext, SessionStep

\* With one connection handler the cache is within its limit, by the counters and by what
\* the runtime has allocated at any moment, and the counters are exact.
THEOREM BytesAreExact ==
  ASSUME OneHandler
  PROVE  CacheSpec => []BytesExact
  <1>1. CacheInit => LimitInv
    <2> SUFFICES ASSUME CacheInit PROVE LimitInv
      OBVIOUS
    <2>1. LockHeld /\ GrantedAlone /\ GrantedFits
      BY DEF CacheInit, LockHeld, GrantedAlone, GrantedFits, Promised, Inside
    <2>2. CapacityRespected /\ MaxSize \in Nat
      BY SizesAssumption DEF CacheInit, CapacityRespected
    <2>3. \A k \in 0..Len(cachePipe) : Applied(tensors, cachePipe, k) = {}
      BY DEF CacheInit, Applied, Created
    <2>4. SumSizes({}) = 0
      BY SumOfEmpty DEF SumSizes
    <2>5. BacklogFits
      BY <2>2, <2>3, <2>4 DEF BacklogFits
    <2>6. QED
      BY <2>1, <2>2, <2>5 DEF LimitInv
  <1>2. CountersInv /\ CountersInv' /\ LimitInv /\ [CacheNext]_cacheVars => LimitInv'
    BY LockHeldKept, GrantedAloneKept, GrantedFitsKept, TensorsKept DEF CountersInv, LimitInv
  <1>3. LimitInv /\ CountersInv => CapacityRespected /\ PhysicalBound
    <2> SUFFICES ASSUME LimitInv, CountersInv PROVE PhysicalBound
      BY DEF LimitInv
    <2>1. 0 \in 0..Len(cachePipe) /\ Created(cachePipe, 0) = {} /\ Freed(cachePipe, 0) = {}
      BY DEF Created, Freed, CountersInv, CacheTypes
    <2>2. Applied(tensors, cachePipe, 0) = tensors
      BY <2>1 DEF Applied
    <2>3. QED
      BY <2>1, <2>2 DEF LimitInv, BacklogFits, PhysicalBound, SumSizes
  <1>4. QED
    BY <1>1, <1>2, <1>3, CountersInvAlways, CountersExact, PTL DEF CacheSpec, BytesExact

(* Types of the contiguous cache: no handle is numbered and no request is  *)
(* for bytes that an allocate_cache() call did not bring, because a call   *)
(* that is under way still has its number to come.                         *)
CachePhases == {"idle", "queued", "lock", "locked", "waiting", "clear", "recheck", "fits", "missed", "passed",
                "commit", "held", "freed"}
CachePlaces ==
  /\ lock \in Sessions \cup {NoSession, Ghost} /\ cacheEvent \in BOOLEAN
  /\ cacheJob \in Sessions \cup {NoSession} /\ cachePc \in [Sessions -> CachePhases]
  /\ kind \in [Sessions -> TimeoutKinds] /\ ghosts \in Nat

Unnumbered == {s \in Sessions : cachePc[s] \in CachePhases \ {"idle", "held", "freed"}}
AllocsCounted == /\ counter \in Nat /\ starts \in 0..MaxAllocs
                 /\ counter + Cardinality(Unnumbered) <= starts

CacheRequests ==
  /\ size \in [Sessions -> Sizes \cup {0}] /\ \A s \in Sessions : cachePc[s] # "idle" => size[s] \in Sizes
  /\ handle \in [Sessions -> 0..MaxAllocs]
  /\ cachePipe \in Seq([op : {"create", "free"}, handle : 0..MaxAllocs, size : Sizes])
  /\ tensors \subseteq [handle : 0..MaxAllocs, size : Sizes]

StraysCounted == strays \in [Sizes \X Stages -> Nat]

CacheTyped == CachePlaces /\ AllocsCounted /\ CacheRequests /\ StraysCounted

LEMMA OneMore ==
  ASSUME NEW D, NEW f \in [D -> Nat], NEW p
  PROVE  [f EXCEPT ![p] = @ + 1] \in [D -> Nat]
  <1> DEFINE g == [f EXCEPT ![p] = @ + 1]
  <1>1. \A x \in D : g[x] \in Nat
    <2> TAKE x \in D
    <2>1. CASE x = p
      BY <2>1
    <2>2. CASE x # p
      BY <2>2
    <2> QED BY <2>1, <2>2
  <1>2. g = [x \in D |-> g[x]]
    OBVIOUS
  <1> HIDE DEF g
  <1>3. g \in [D -> Nat]
    BY <1>1, <1>2
  <1> QED BY <1>3 DEF g

LEMMA OneLess ==
  ASSUME NEW D, NEW f \in [D -> Nat], NEW p, f[p] > 0
  PROVE  [f EXCEPT ![p] = @ - 1] \in [D -> Nat]
  <1> DEFINE g == [f EXCEPT ![p] = @ - 1]
  <1>1. \A x \in D : g[x] \in Nat
    <2> TAKE x \in D
    <2>1. CASE x = p
      BY <2>1
    <2>2. CASE x # p
      BY <2>2
    <2> QED BY <2>1, <2>2
  <1>2. g = [x \in D |-> g[x]]
    OBVIOUS
  <1> HIDE DEF g
  <1>3. g \in [D -> Nat]
    BY <1>1, <1>2
  <1> QED BY <1>3 DEF g

\* Threads are abandoned one at a time, and none goes twice.
LEMMA StraysKept ==
  ASSUME StraysCounted, [CacheNext]_cacheVars
  PROVE  StraysCounted'
  <1> USE DEF StraysCounted
  <1>0. PICK D : D = Sizes \X Stages
    OBVIOUS
  <1>a. strays \in [D -> Nat] /\ \A f : f \in [D -> Nat] /\ strays' = f => StraysCounted'
    BY <1>0
  <1>1. ASSUME NEW n \in Sizes, NEW at \in Stages, Leave(n, at) PROVE StraysCounted'
    <2>1. PICK p : p = <<n, at>>
      OBVIOUS
    <2>2. strays[p] > 0 /\ strays' = [strays EXCEPT ![p] = @ - 1]
      BY <1>1, <2>1 DEF Leave
    <2> QED BY <1>a, <2>2, OneLess
  <1>2. ASSUME NEW n \in Sizes, NEW at \in Stages, NEW to \in Stages, Move(n, at, to) PROVE StraysCounted'
    <2>1. PICK p, q : p = <<n, at>> /\ q = <<n, to>>
      OBVIOUS
    <2>2. strays[p] > 0 /\ strays' = [strays EXCEPT ![p] = @ - 1, ![q] = @ + 1]
      BY <1>2, <2>1 DEF Move
    <2>3. PICK f : f = [strays EXCEPT ![p] = @ - 1]
      OBVIOUS
    <2>4. f \in [D -> Nat]
      BY <1>a, <2>2, <2>3, OneLess
    <2>5. [f EXCEPT ![q] = @ + 1] \in [D -> Nat] /\ strays' = [f EXCEPT ![q] = @ + 1]
      BY <2>2, <2>3, <2>4, OneMore
    <2> QED BY <1>a, <2>5
  <1>3. ASSUME NEW n \in Sizes, StrayStep(n) PROVE StraysCounted'
    BY <1>1, <1>2, <1>3 DEF StrayStep, StrayWakes, StrayClears, StrayRechecks, StrayEnds, Stages
  <1>4. ASSUME NEW s \in Sessions, WaitTimeout(s) PROVE StraysCounted'
    <2>1. PICK p : p = <<size[s], cachePc[s]>>
      OBVIOUS
    <2>2. strays' = strays \/ strays' = [strays EXCEPT ![p] = @ + 1]
      BY <1>4, <2>1 DEF WaitTimeout
    <2> QED BY <1>a, <2>2, OneMore
  <1>5. CASE UNCHANGED cacheVars \/ GhostAcquires \/ Receive \/ Compute
    BY <1>5 DEF cacheVars, GhostAcquires, Receive, Compute
  <1>6. ASSUME NEW s \in Sessions,
               \/ FirstCheck(s) \/ TakeLock(s) \/ CheckLocked(s) \/ Wake(s) \/ ClearEvent(s) \/ Recheck(s)
               \/ Resume(s) \/ Missed(s) \/ Dequeue(s) \/ Commit(s) \/ FreeBytes(s) \/ SetEvent(s)
        PROVE  StraysCounted'
    BY <1>6 DEF FirstCheck, TakeLock, CheckLocked, Wake, ClearEvent, Recheck, Resume, Missed, Dequeue, Commit,
                FreeBytes, SetEvent
  <1>7. ASSUME NEW s \in Sessions, Enqueue(s) \/ CacheLockTimeout(s) \/ CacheTakeJob(s) PROVE StraysCounted'
    BY <1>7 DEF Enqueue, CacheLockTimeout, CacheTakeJob
  <1> QED BY <1>3, <1>4, <1>5, <1>6, <1>7 DEF CacheNext, SessionStep

LEMMA CachePlacesKept ==
  ASSUME CachePlaces, [CacheNext]_cacheVars
  PROVE  CachePlaces'
  <1> USE DEF CachePlaces
  <1>1. ASSUME NEW s \in Sessions, NEW p \in CachePhases, CacheGoto(s, p) PROVE cachePc' \in [Sessions -> CachePhases]
    BY <1>1 DEF CacheGoto
  <1>2. CASE UNCHANGED cacheVars \/ GhostAcquires \/ Receive \/ Compute
    BY <1>2 DEF cacheVars, GhostAcquires, Receive, Compute
  <1>3. ASSUME NEW s \in Sessions, Fail(s) PROVE cachePc' \in [Sessions -> CachePhases] /\ lock' \in Sessions \cup {NoSession, Ghost}
    BY <1>3 DEF Fail, CacheGoto, CachePhases
  <1>4. ASSUME NEW s \in Sessions, Enqueue(s) PROVE CachePlaces'
    <2>1. PICK k \in Timeouts : kind' = [kind EXCEPT ![s] = k]
      BY <1>4 DEF Enqueue
    <2>2. kind' \in [Sessions -> TimeoutKinds]
      BY <2>1, TimeoutsAssumption
    <2>3. CacheGoto(s, "queued") /\ UNCHANGED <<lock, cacheEvent, cacheJob, ghosts>>
      BY <1>4 DEF Enqueue
    <2> QED BY <2>2, <2>3, <1>1 DEF CachePhases
  <1>5. ASSUME NEW s \in Sessions, FirstCheck(s) \/ WaitTimeout(s) \/ Missed(s) PROVE CachePlaces'
    <2>1. UNCHANGED <<cacheEvent, cacheJob, kind, ghosts>>
      BY <1>5 DEF FirstCheck, WaitTimeout, Missed
    <2>2. Fail(s) \/ (CacheGoto(s, "lock") /\ lock' = lock)
      BY <1>5 DEF FirstCheck, WaitTimeout, Missed
    <2> QED BY <1>1, <1>3, <2>1, <2>2 DEF CachePhases
  <1>6. ASSUME NEW s \in Sessions, CheckLocked(s) PROVE CachePlaces'
    <2>1. UNCHANGED <<cacheEvent, cacheJob, kind, ghosts>>
      BY <1>6 DEF CheckLocked
    <2>2. \/ Fail(s)
          \/ CacheGoto(s, "passed") /\ lock' = NoSession
          \/ CacheGoto(s, "waiting") /\ lock' = lock
      BY <1>6 DEF CheckLocked
    <2> QED BY <1>1, <1>3, <2>1, <2>2 DEF CachePhases
  <1>7. ASSUME NEW s \in Sessions, CacheLockTimeout(s) PROVE CachePlaces'
    <2>1. UNCHANGED <<cacheEvent, cacheJob, kind>> /\ ghosts' \in {ghosts, ghosts + 1} /\ Fail(s)
      BY <1>7 DEF CacheLockTimeout
    <2> QED BY <1>3, <2>1
  <1>8. ASSUME NEW s \in Sessions, TakeLock(s) \/ Wake(s) \/ ClearEvent(s) \/ Resume(s) \/ Dequeue(s) \/ SetEvent(s)
        PROVE  CachePlaces'
    BY <1>8 DEF TakeLock, Wake, ClearEvent, Resume, Dequeue, SetEvent, CacheGoto, CachePhases
  <1>9. ASSUME NEW s \in Sessions, Recheck(s) \/ CacheTakeJob(s) \/ Commit(s) \/ FreeBytes(s) PROVE CachePlaces'
    BY <1>9 DEF Recheck, CacheTakeJob, Commit, FreeBytes, CacheGoto, CachePhases
  <1>10. ASSUME NEW n \in Sizes, StrayStep(n) PROVE CachePlaces'
    BY <1>10, StraysApart DEF Astray, CachePhases
  <1> QED BY <1>2, <1>4, <1>5, <1>6, <1>7, <1>8, <1>9, <1>10 DEF CacheNext, SessionStep

(* What a step does to the numbers: a call starts, gets its number, or no  *)
(* number is given.                                                        *)
Begins(s) == /\ starts < MaxAllocs /\ starts' = starts + 1 /\ counter' = counter
               /\ Unnumbered' = Unnumbered \cup {s}
Numbered(s) == /\ s \in Unnumbered /\ Unnumbered' = Unnumbered \ {s}
               /\ counter' = counter + 1 /\ starts' = starts
Unnumbering == counter' = counter /\ starts' = starts /\ Unnumbered' \subseteq Unnumbered

LEMMA NumberingCases ==
  ASSUME CachePlaces, [CacheNext]_cacheVars
  PROVE  Unnumbering \/ \E s \in Sessions : Begins(s) \/ (Commit(s) /\ Numbered(s))
  <1> USE DEF CachePlaces
  <1>1. ASSUME NEW s \in Sessions, NEW p, CacheGoto(s, p)
        PROVE  /\ p \notin CachePhases \ {"idle", "held", "freed"} => Unnumbered' = Unnumbered \ {s}
               /\ p \in CachePhases \ {"idle", "held", "freed"} => Unnumbered' = Unnumbered \cup {s}
    BY <1>1 DEF CacheGoto, Unnumbered
  <1>2. CASE UNCHANGED cacheVars \/ GhostAcquires \/ Receive \/ Compute \/ \E s \in Sessions : CacheTakeJob(s)
    BY <1>2 DEF cacheVars, GhostAcquires, Receive, Compute, CacheTakeJob, Unnumbering, Unnumbered
  <1>3. ASSUME NEW s \in Sessions, Enqueue(s) PROVE Begins(s)
    BY <1>1, <1>3 DEF Enqueue, Begins, CachePhases
  <1>4. ASSUME NEW s \in Sessions, Commit(s) PROVE Numbered(s)
    <2>1. s \in Unnumbered
      BY <1>4 DEF Commit, Unnumbered, CachePhases
    <2> QED BY <1>1, <1>4, <2>1 DEF Commit, Numbered, CachePhases
  <1>5. ASSUME NEW s \in Sessions, FirstCheck(s) \/ TakeLock(s) \/ CheckLocked(s) \/ Wake(s) \/ ClearEvent(s) \/ Recheck(s)
                                   \/ Resume(s) \/ Dequeue(s) \/ CacheLockTimeout(s) \/ WaitTimeout(s)
                                   \/ Missed(s)
        PROVE  Unnumbering
    <2>1. s \in Unnumbered
      BY <1>5 DEF FirstCheck, TakeLock, CheckLocked, Wake, ClearEvent, Recheck, Resume, Dequeue, CacheLockTimeout,
                  WaitTimeout, Missed, Unnumbered, CachePhases
    <2>2. counter' = counter /\ starts' = starts
      BY <1>5 DEF FirstCheck, TakeLock, CheckLocked, Wake, ClearEvent, Recheck, Resume, Dequeue, CacheLockTimeout,
                  WaitTimeout, Missed
    <2>3. \E p : CacheGoto(s, p)
      BY <1>5 DEF FirstCheck, TakeLock, CheckLocked, Wake, ClearEvent, Recheck, Resume, Dequeue, CacheLockTimeout,
                  WaitTimeout, Missed, Fail
    <2> QED BY <1>1, <2>1, <2>2, <2>3 DEF Unnumbering
  <1>6. ASSUME NEW s \in Sessions, FreeBytes(s) \/ SetEvent(s) PROVE Unnumbering
    <2>1. counter' = counter /\ starts' = starts /\ (CacheGoto(s, "freed") \/ CacheGoto(s, "idle"))
      BY <1>6 DEF FreeBytes, SetEvent
    <2> QED BY <1>1, <2>1 DEF Unnumbering
  <1>7. ASSUME NEW n \in Sizes, StrayStep(n) PROVE Unnumbering
    BY <1>7, StraysApart DEF Astray, Unnumbering, Unnumbered, CachePhases
  <1> QED BY <1>2, <1>3, <1>4, <1>5, <1>6, <1>7 DEF CacheNext, SessionStep

LEMMA AllocsCountedKept ==
  ASSUME CachePlaces, AllocsCounted, [CacheNext]_cacheVars
  PROVE  AllocsCounted'
  <1>1. IsFiniteSet(Unnumbered) /\ Cardinality(Unnumbered) \in Nat
    BY SessionsAssumption, FS_Subset, FS_CardinalityType DEF Unnumbered
  <1>2. counter \in Nat /\ starts \in 0..MaxAllocs /\ counter + Cardinality(Unnumbered) <= starts /\ MaxAllocs \in Nat
    BY SizesAssumption DEF AllocsCounted
  <1>3. CASE Unnumbering
    <2>1. Unnumbered' \subseteq Unnumbered /\ counter' = counter /\ starts' = starts
      BY <1>3 DEF Unnumbering
    <2>2. PICK U : U = Unnumbered'
      OBVIOUS
    <2>3. Cardinality(U) <= Cardinality(Unnumbered) /\ Cardinality(U) \in Nat
      BY <1>1, <2>1, <2>2, FS_Subset, FS_CardinalityType
    <2>4. counter + Cardinality(U) <= starts
      BY <1>1, <1>2, <2>3
    <2> QED BY <1>2, <2>1, <2>2, <2>4 DEF AllocsCounted
  <1>4. ASSUME NEW s \in Sessions, Begins(s) PROVE AllocsCounted'
    <2>1. PICK U : U = Unnumbered'
      OBVIOUS
    <2>2. Cardinality(U) <= Cardinality(Unnumbered) + 1 /\ Cardinality(U) \in Nat
      <3>1. U = Unnumbered \cup {s}
        BY <1>4, <2>1 DEF Begins
      <3>2. IsFiniteSet(U) /\ Cardinality(U) = IF s \in Unnumbered THEN Cardinality(Unnumbered) ELSE Cardinality(Unnumbered) + 1
        BY <1>1, <3>1, FS_AddElement
      <3> QED BY <1>1, <3>2
    <2>3. counter' \in Nat /\ starts' \in 0..MaxAllocs /\ counter' + Cardinality(U) <= starts'
      BY <1>1, <1>2, <1>4, <2>2 DEF Begins
    <2> QED BY <2>1, <2>3 DEF AllocsCounted
  <1>5. ASSUME NEW s \in Sessions, Numbered(s) PROVE AllocsCounted'
    <2>1. PICK U : U = Unnumbered'
      OBVIOUS
    <2>2. Cardinality(U) = Cardinality(Unnumbered) - 1
      <3>1. U = Unnumbered \ {s} /\ s \in Unnumbered
        BY <1>5, <2>1 DEF Numbered
      <3> QED BY <1>1, <3>1, FS_RemoveElement
    <2>3. counter' \in Nat /\ starts' \in 0..MaxAllocs /\ counter' + Cardinality(U) <= starts'
      BY <1>1, <1>2, <1>5, <2>2 DEF Numbered
    <2> QED BY <2>1, <2>3 DEF AllocsCounted
  <1> QED BY <1>3, <1>4, <1>5, NumberingCases

LEMMA CacheRequestsKept ==
  ASSUME CacheTyped, [CacheNext]_cacheVars
  PROVE  CacheRequests'
  <1> DEFINE Request == [op : {"create", "free"}, handle : 0..MaxAllocs, size : Sizes]
  <1>1. /\ size \in [Sessions -> Sizes \cup {0}] /\ \A s \in Sessions : cachePc[s] # "idle" => size[s] \in Sizes
        /\ handle \in [Sessions -> 0..MaxAllocs] /\ cachePipe \in Seq(Request)
        /\ tensors \subseteq [handle : 0..MaxAllocs, size : Sizes] /\ DOMAIN cachePc = Sessions
    BY DEF CacheTyped, CacheRequests, CachePlaces
  <1>2. ASSUME UNCHANGED <<size, handle, cachePipe, tensors>>,
               \A s \in Sessions : cachePc'[s] # "idle" => cachePc[s] # "idle"
        PROVE  CacheRequests'
    BY <1>1, <1>2 DEF CacheRequests
  <1>3. ASSUME NEW s \in Sessions, NEW p, cachePc[s] # "idle", CacheGoto(s, p)
        PROVE  \A u \in Sessions : cachePc'[u] # "idle" => cachePc[u] # "idle"
    BY <1>1, <1>3 DEF CacheGoto
  <1>4. CASE UNCHANGED cacheVars \/ GhostAcquires \/ Compute \/ \E s \in Sessions : CacheTakeJob(s)
    <2>1. UNCHANGED <<size, handle, cachePipe, tensors>> /\ cachePc' = cachePc
      BY <1>4 DEF cacheVars, GhostAcquires, Compute, CacheTakeJob
    <2> QED BY <1>2, <2>1
  <1>5. ASSUME NEW s \in Sessions, FirstCheck(s) \/ TakeLock(s) \/ CheckLocked(s) \/ Wake(s) \/ ClearEvent(s) \/ Recheck(s)
                                   \/ Resume(s) \/ Dequeue(s) \/ CacheLockTimeout(s) \/ WaitTimeout(s) \/ Missed(s)
                                   \/ SetEvent(s)
        PROVE  CacheRequests'
    <2>1. cachePc[s] # "idle" /\ \E p : CacheGoto(s, p)
      BY <1>5 DEF FirstCheck, TakeLock, CheckLocked, Wake, ClearEvent, Recheck, Resume, Dequeue, CacheLockTimeout,
                  WaitTimeout, Missed, Fail, SetEvent
    <2>2. UNCHANGED <<size, handle, cachePipe, tensors>>
      BY <1>5 DEF FirstCheck, TakeLock, CheckLocked, Wake, ClearEvent, Recheck, Resume, Dequeue, CacheLockTimeout,
                  WaitTimeout, Missed, SetEvent
    <2> QED BY <1>2, <1>3, <2>1, <2>2
  <1>6. CASE Receive
    <2>1. cachePipe # <<>> /\ cachePipe' = Tail(cachePipe) /\ UNCHANGED <<size, handle, cachePc>>
      BY <1>6 DEF Receive
    <2>2. Head(cachePipe) \in Request /\ cachePipe' \in Seq(Request)
      BY <1>1, <2>1, HeadTailProperties
    <2>3. PICK m \in Request : m = Head(cachePipe)
      BY <2>2
    <2>4. tensors' \subseteq tensors \cup {[handle |-> m.handle, size |-> m.size]}
      BY <1>6, <2>3 DEF Receive
    <2>5. [handle |-> m.handle, size |-> m.size] \in [handle : 0..MaxAllocs, size : Sizes]
      OBVIOUS
    <2> QED BY <1>1, <2>1, <2>2, <2>4, <2>5 DEF CacheRequests
  <1>7. ASSUME NEW s \in Sessions, Enqueue(s) PROVE CacheRequests'
    <2>1. PICK n \in Sizes : size' = [size EXCEPT ![s] = n]
      BY <1>7 DEF Enqueue
    <2>2. UNCHANGED <<handle, cachePipe, tensors>> /\ cachePc' = [cachePc EXCEPT ![s] = "queued"]
      BY <1>7 DEF Enqueue, CacheGoto
    <2>3. size' \in [Sessions -> Sizes \cup {0}]
      BY <1>1, <2>1
    <2>4. \A u \in Sessions : cachePc'[u] # "idle" => size'[u] \in Sizes
      BY <1>1, <2>1, <2>2
    <2> QED BY <1>1, <2>2, <2>3, <2>4 DEF CacheRequests
  <1>8. ASSUME NEW s \in Sessions, Commit(s) PROVE CacheRequests'
    <2>1. counter \in 0..MaxAllocs
      <3>1. counter \in Nat /\ starts \in 0..MaxAllocs /\ counter + Cardinality(Unnumbered) <= starts /\ MaxAllocs \in Nat
        BY SizesAssumption DEF CacheTyped, AllocsCounted
      <3>2. Cardinality(Unnumbered) \in Nat
        BY SessionsAssumption, FS_Subset, FS_CardinalityType DEF Unnumbered
      <3> QED BY <3>1, <3>2
    <2>2. PICK m : m = [op |-> "create", handle |-> counter, size |-> size[s]]
      OBVIOUS
    <2>3. /\ cachePc[s] = "commit" /\ CacheGoto(s, "held") /\ UNCHANGED <<size, tensors>>
          /\ handle' = [handle EXCEPT ![s] = counter] /\ cachePipe' = Append(cachePipe, m)
      BY <1>8, <2>2 DEF Commit
    <2>4. m \in Request
      BY <1>1, <2>1, <2>2, <2>3
    <2>5. cachePipe' \in Seq(Request)
      BY <1>1, <2>3, <2>4, AppendProperties
    <2>6. handle' \in [Sessions -> 0..MaxAllocs]
      BY <1>1, <2>1, <2>3
    <2>7. \A u \in Sessions : cachePc'[u] # "idle" => cachePc[u] # "idle"
      BY <1>3, <2>3
    <2> QED BY <1>1, <2>3, <2>5, <2>6, <2>7 DEF CacheRequests
  <1>9. ASSUME NEW s \in Sessions, FreeBytes(s) PROVE CacheRequests'
    <2>1. PICK m : m = [op |-> "free", handle |-> handle[s], size |-> size[s]]
      OBVIOUS
    <2>2. /\ cachePc[s] = "held" /\ CacheGoto(s, "freed") /\ UNCHANGED <<size, handle, tensors>>
          /\ cachePipe' = Append(cachePipe, m)
      BY <1>9, <2>1 DEF FreeBytes
    <2>3. m \in Request
      BY <1>1, <2>1, <2>2
    <2>4. cachePipe' \in Seq(Request)
      BY <1>1, <2>2, <2>3, AppendProperties
    <2>5. \A u \in Sessions : cachePc'[u] # "idle" => cachePc[u] # "idle"
      BY <1>3, <2>2
    <2> QED BY <1>1, <2>2, <2>4, <2>5 DEF CacheRequests
  <1>10. ASSUME NEW n \in Sizes, StrayStep(n) PROVE CacheRequests'
    <2>1. UNCHANGED <<size, handle, cachePipe, tensors>>
      BY <1>10, StraysApart DEF Astray
    <2>2. \A s \in Sessions : cachePc'[s] # "idle" => cachePc[s] # "idle"
      BY <1>1, <1>10, StraysApart DEF Astray
    <2> QED BY <1>2, <2>1, <2>2
  <1> QED BY <1>4, <1>5, <1>6, <1>7, <1>8, <1>9, <1>10 DEF CacheNext, SessionStep

(* CacheTypeOK: the counters are never negative, and no handle, size or    *)
(* request is one that no allocate_cache() call brought, whichever calls   *)
(* fail or time out and however long the runtime's pipe is.                *)
THEOREM CacheTypesHold == CacheSpec => []CacheTypeOK
  <1>1. CacheInit => CacheTyped
    <2> SUFFICES ASSUME CacheInit PROVE CacheTyped
      OBVIOUS
    <2>1. CachePlaces
      BY DEF CacheInit, CachePlaces, CachePhases, TimeoutKinds
    <2>2. Unnumbered = {}
      BY DEF CacheInit, Unnumbered
    <2>3. AllocsCounted
      BY <2>2, SizesAssumption, FS_EmptySet DEF CacheInit, AllocsCounted
    <2>4. CacheRequests
      BY SizesAssumption DEF CacheInit, CacheRequests
    <2>5. StraysCounted
      BY DEF CacheInit, StraysCounted
    <2> QED BY <2>1, <2>3, <2>4, <2>5 DEF CacheTyped
  <1>2. CacheTyped /\ [CacheNext]_cacheVars => CacheTyped'
    BY CachePlacesKept, AllocsCountedKept, CacheRequestsKept, StraysKept DEF CacheTyped
  <1>3. CountersInv /\ CacheTyped => CacheTypeOK
    <2> SUFFICES ASSUME CountersInv, CacheTyped PROVE CacheTypeOK
      OBVIOUS
    <2>1. \A S \in SUBSET Sessions : Bytes(S) \in Nat
      <3> SUFFICES ASSUME NEW S \in SUBSET Sessions PROVE SumFunctionOnSet(size, S) \in Nat
        BY DEF Bytes
      <3>1. IsFiniteSet(S) /\ IsFiniteSet({}) /\ \A s \in S : size[s] \in Nat
        BY SessionsAssumption, FS_Subset, FS_EmptySet DEF CountersInv, CacheTypes
      <3>2. SumFunctionOnSet(size, S) \in Int
        BY <3>1, SumIsInt
      <3>3. SumFunctionOnSet(size, {}) <= SumFunctionOnSet(size, S)
        BY <3>1, SumOfMore
      <3>4. SumFunctionOnSet(size, {}) = 0
        BY SumOfEmpty
      <3> QED BY <3>2, <3>3, <3>4
    <2>2. current \in Nat /\ enqueued \in Nat
      BY <2>1 DEF CountersInv, Accounting, Holders, Queued
    <2>3. counter \in 0..MaxAllocs /\ starts \in 0..MaxAllocs
      <3>1. Cardinality(Unnumbered) \in Nat
        BY SessionsAssumption, FS_Subset, FS_CardinalityType DEF Unnumbered
      <3> QED BY <3>1, SizesAssumption DEF CacheTyped, AllocsCounted
    <2>4. CachePlaces /\ CacheRequests /\ StraysCounted
      BY DEF CacheTyped
    <2> QED BY <2>2, <2>3, <2>4 DEF CacheTypeOK, CachePlaces, CacheRequests, CachePhases, StraysCounted
  <1> QED BY <1>1, <1>2, <1>3, CountersInvAlways, PTL DEF CacheSpec
-----------------------------------------------------------------------------
(* The proof of PagesExact, first of what the pool hands out.  A pool      *)
(* takes pages in the order of their numbers; what matters is that one     *)
(* operation takes each of them once, however many rows it serves.         *)

Rank(p) == Cardinality({q \in freePages : q < p})
Nth(n) == CHOOSE p \in freePages : Rank(p) = n

LEMMA RankOrders ==
  ASSUME freePages \subseteq Pages
  PROVE  /\ IsFiniteSet(freePages) /\ NumFree \in Nat
         /\ \A p \in freePages : Rank(p) \in 0..(NumFree - 1)
         /\ \A p, q \in freePages : p < q => Rank(p) < Rank(q)
  <1>1. IsFiniteSet(Pages) /\ Pages \subseteq Int
    BY PoolAssumption, FS_Interval DEF Pages
  <1>2. IsFiniteSet(freePages) /\ NumFree \in Nat
    BY <1>1, FS_Subset, FS_CardinalityType DEF NumFree
  <1>3. ASSUME NEW S \in SUBSET freePages, NEW T \in SUBSET S, S # T
        PROVE  Cardinality(T) < Cardinality(S) /\ Cardinality(T) \in Nat /\ Cardinality(S) \in Nat
    <2>1. IsFiniteSet(S) /\ IsFiniteSet(T)
      BY <1>2, <1>3, FS_Subset
    <2>2. Cardinality(T) <= Cardinality(S) /\ Cardinality(S) # Cardinality(T)
      BY <1>3, <2>1, FS_Subset
    <2>3. QED
      BY <2>1, <2>2, FS_CardinalityType
  <1>4. ASSUME NEW p \in freePages PROVE Rank(p) \in 0..(NumFree - 1)
    <2> DEFINE T == {q \in freePages : q < p}
    <2>1. p \notin T /\ T \in SUBSET freePages
      BY <1>1
    <2> HIDE DEF T
    <2>2. Cardinality(T) < Cardinality(freePages) /\ Cardinality(T) \in Nat
      BY <1>3, <2>1
    <2>3. Rank(p) = Cardinality(T)
      BY DEF Rank, T
    <2>4. QED
      BY <1>2, <2>2, <2>3 DEF NumFree
  <1>5. ASSUME NEW p \in freePages, NEW q \in freePages, p < q PROVE Rank(p) < Rank(q)
    <2> DEFINE T == {x \in freePages : x < p}
               S == {x \in freePages : x < q}
    <2>1. p \in Int /\ q \in Int
      BY <1>1
    <2>2. ASSUME NEW x \in freePages, x < p PROVE x < q
      <3>1. x \in Int
        BY <1>1
      <3>2. QED
        BY <1>5, <2>1, <2>2, <3>1
    <2>3. ~(p < p)
      BY <2>1
    <2>4. S \in SUBSET freePages /\ T \in SUBSET S /\ S # T
      <3>1. T \subseteq S
        BY <2>2
      <3>2. p \in S /\ p \notin T
        BY <1>5, <2>3
      <3>3. QED
        BY <3>1, <3>2
    <2> HIDE DEF S, T
    <2>5. Cardinality(T) < Cardinality(S)
      BY <1>3, <2>4
    <2>6. QED
      BY <2>5 DEF Rank, S, T
  <1>6. QED
    BY <1>2, <1>4, <1>5

\* Every rank below the number of free pages is the rank of one page.
LEMMA NthFacts ==
  ASSUME freePages \subseteq Pages
  PROVE  \A n \in 0..(NumFree - 1) : Nth(n) \in freePages /\ Rank(Nth(n)) = n
  <1> DEFINE f == [p \in freePages |-> Rank(p)]
  <1>1. /\ IsFiniteSet(freePages) /\ NumFree \in Nat
        /\ \A p \in freePages : Rank(p) \in 0..(NumFree - 1)
        /\ \A p, q \in freePages : p < q => Rank(p) < Rank(q)
    BY RankOrders
  <1>2. \A p, q \in freePages : p = q \/ p < q \/ q < p
    BY PoolAssumption DEF Pages
  <1>3. ASSUME NEW p \in freePages, NEW q \in freePages, Rank(p) = Rank(q) PROVE p = q
    BY <1>1, <1>2, <1>3
  <1>4. f \in Injection(freePages, 0..(NumFree - 1))
    BY <1>1, <1>3 DEF Injection, IsInjective
  <1>5. IsFiniteSet(0..(NumFree - 1)) /\ Cardinality(0..(NumFree - 1)) = NumFree
    BY <1>1, FS_Interval
  <1>6. f \in Surjection(freePages, 0..(NumFree - 1))
    <2> HIDE DEF f
    <2>1. Cardinality(freePages) = Cardinality(0..(NumFree - 1))
      BY <1>5 DEF NumFree
    <2>2. QED
      BY <1>4, <1>5, <2>1, FS_Injection, Zenon
  <1>7. \A n \in 0..(NumFree - 1) : \E p \in freePages : Rank(p) = n
    BY <1>6 DEF Surjection
  <1>8. QED
    BY <1>7 DEF Nth

LEMMA PoppedFacts ==
  ASSUME freePages \subseteq Pages, NEW n \in Nat, NEW k \in Nat, n + k <= NumFree
  PROVE  /\ Popped(n, k) \in Seq(Pages) /\ Len(Popped(n, k)) = k
         /\ IsInjective(Popped(n, k)) /\ Range(Popped(n, k)) \subseteq freePages
         /\ Range(Popped(n, k)) = {Nth(i) : i \in n..(n + k - 1)}
  <1>1. NumFree \in Nat
    BY RankOrders
  <1>2. Popped(n, k) = [i \in 1..k |-> Nth(n + i - 1)]
    BY DEF Popped, Nth, Rank
  <1>3. \A i \in 1..k : /\ n + i - 1 \in 0..(NumFree - 1)
                        /\ Nth(n + i - 1) \in freePages /\ Rank(Nth(n + i - 1)) = n + i - 1
    <2>1. \A i \in 1..k : n + i - 1 \in 0..(NumFree - 1)
      BY <1>1
    <2>2. QED
      BY <2>1, NthFacts
  <1>4. Popped(n, k) \in Seq(Pages) /\ Len(Popped(n, k)) = k
    <2> DEFINE g == [i \in 1..k |-> Nth(n + i - 1)]
    <2>1. g \in [1..k -> Pages]
      BY <1>3
    <2> HIDE DEF g
    <2>2. g \in Seq(Pages) /\ Len(g) = k
      BY <2>1
    <2>3. QED
      BY <1>2, <2>2 DEF g
  <1>5. IsInjective(Popped(n, k))
    <2>1. DOMAIN Popped(n, k) = 1..k
      BY <1>2
    <2>2. ASSUME NEW i \in 1..k, NEW j \in 1..k, Nth(n + i - 1) = Nth(n + j - 1) PROVE i = j
      <3>1. n + i - 1 = n + j - 1
        BY <1>3, <2>2
      <3>2. QED
        BY <3>1
    <2> SUFFICES ASSUME NEW i \in 1..k, NEW j \in 1..k, Popped(n, k)[i] = Popped(n, k)[j] PROVE i = j
      BY <2>1 DEF IsInjective
    <2>3. Popped(n, k)[i] = Nth(n + i - 1) /\ Popped(n, k)[j] = Nth(n + j - 1)
      BY <1>2
    <2>4. QED
      BY <2>2, <2>3
  <1>6. Range(Popped(n, k)) = {Nth(n + i - 1) : i \in 1..k}
    BY <1>2 DEF Range
  <1>7. {Nth(n + i - 1) : i \in 1..k} = {Nth(i) : i \in n..(n + k - 1)}
    <2>1. ASSUME NEW i \in n..(n + k - 1) PROVE \E j \in 1..k : Nth(i) = Nth(n + j - 1)
      <3>1. i - n + 1 \in 1..k /\ n + (i - n + 1) - 1 = i
        BY <2>1
      <3>2. QED
        BY <3>1
    <2>2. ASSUME NEW i \in 1..k PROVE n + i - 1 \in n..(n + k - 1)
      OBVIOUS
    <2>3. QED
      BY <2>1, <2>2
  <1>8. QED
    BY <1>3, <1>4, <1>5, <1>6, <1>7
-----------------------------------------------------------------------------
(* What the rows of one operation are handed out.                          *)

LEMMA BeforeFacts ==
  ASSUME NEW f \in [Rows -> Nat]
  PROVE  /\ Before(f, 1) = 0
         /\ \A r \in 1..(Batch + 1) : Before(f, r) \in Nat
         /\ \A r \in Rows : Before(f, r + 1) = Before(f, r) + f[r]
         /\ \A r \in Rows : \A q \in (r + 1)..(Batch + 1) : Before(f, r) + f[r] <= Before(f, q)
  <1>1. Batch \in Nat \ {0} /\ IsFiniteSet(Rows)
    BY PoolAssumption, FS_Interval DEF Rows
  <1>2. ASSUME NEW r \in 1..(Batch + 1)
        PROVE  /\ IsFiniteSet(1..(r - 1)) /\ \A x \in 1..(r - 1) : x \in Rows /\ f[x] \in Nat
    <2>1. 1 \in Int /\ r - 1 \in Int
      BY <1>1
    <2>2. IsFiniteSet(1..(r - 1))
      BY <2>1, FS_Interval
    <2>3. \A x \in 1..(r - 1) : x \in Rows
      BY <1>1 DEF Rows
    <2>4. QED
      BY <2>2, <2>3
  <1>3. ASSUME NEW S \in SUBSET Rows PROVE SumFunctionOnSet(f, S) \in Nat
    <2> DEFINE zero == [x \in Rows |-> 0]
    <2>1. IsFiniteSet(S) /\ \A x \in S : f[x] \in Nat /\ zero[x] = 0
      BY <1>1, FS_Subset
    <2> HIDE DEF zero
    <2>2. SumFunctionOnSet(f, S) \in Int
      BY <2>1, SumIsInt
    <2>3. SumFunctionOnSet(zero, S) <= SumFunctionOnSet(f, S)
      <3>1. \A x \in S : zero[x] \in Int /\ f[x] \in Int /\ zero[x] <= f[x]
        BY <2>1
      <3>2. QED
        BY <2>1, <3>1, SumOfLarger
    <2>4. SumFunctionOnSet(zero, S) = 0
      BY <2>1, SumOfZeros
    <2>5. QED
      BY <2>2, <2>3, <2>4
  <1>4. Before(f, 1) = 0
    <2>1. 1..(1 - 1) = {}
      OBVIOUS
    <2>2. QED
      BY <2>1, SumOfEmpty DEF Before
  <1>5. \A r \in 1..(Batch + 1) : Before(f, r) \in Nat
    <2>1. \A r \in 1..(Batch + 1) : 1..(r - 1) \in SUBSET Rows
      BY <1>2
    <2>2. QED
      BY <1>3, <2>1 DEF Before
  <1>6. ASSUME NEW r \in Rows PROVE Before(f, r + 1) = Before(f, r) + f[r]
    <2>1. r \in 1..(Batch + 1) /\ r \in Nat /\ r + 1 - 1 = r
      BY <1>1 DEF Rows
    <2>2. r \notin 1..(r - 1) /\ 1..(r + 1 - 1) = (1..(r - 1)) \cup {r}
      BY <2>1
    <2>3. IsFiniteSet(1..(r - 1)) /\ \A y \in (1..(r - 1)) \cup {r} : f[y] \in Int
      BY <1>2, <2>1
    <2>4. SumFunctionOnSet(f, (1..(r - 1)) \cup {r}) = f[r] + SumFunctionOnSet(f, 1..(r - 1))
      BY <2>2, <2>3, SumWith
    <2>5. Before(f, r) \in Nat /\ f[r] \in Nat
      BY <1>5, <2>1
    <2>6. Before(f, r + 1) = SumFunctionOnSet(f, (1..(r - 1)) \cup {r})
      <3> DEFINE n == r + 1
      <3>1. n - 1 = r
        BY <2>1
      <3> HIDE DEF n
      <3>2. 1..(n - 1) = (1..(r - 1)) \cup {r}
        BY <2>1, <3>1
      <3>3. Before(f, n) = SumFunctionOnSet(f, (1..(r - 1)) \cup {r})
        BY <3>2 DEF Before
      <3>4. QED
        BY <3>3 DEF n
    <2>7. Before(f, r) = SumFunctionOnSet(f, 1..(r - 1))
      BY DEF Before
    <2>8. QED
      BY <2>4, <2>5, <2>6, <2>7
  <1>7. ASSUME NEW r \in Rows, NEW q \in (r + 1)..(Batch + 1) PROVE Before(f, r) + f[r] <= Before(f, q)
    <2> DEFINE n == r + 1
    <2>1. q \in 1..(Batch + 1) /\ n \in 1..(Batch + 1) /\ n <= q
      BY <1>1 DEF Rows
    <2> HIDE DEF n
    <2>2. 1..(n - 1) \in SUBSET (1..(q - 1))
      BY <1>1, <2>1
    <2>3. IsFiniteSet(1..(q - 1)) /\ \A x \in 1..(q - 1) : f[x] \in Nat
      BY <1>2, <2>1
    <2>4. SumFunctionOnSet(f, 1..(n - 1)) <= SumFunctionOnSet(f, 1..(q - 1))
      BY <2>2, <2>3, SumOfMore
    <2>5. Before(f, n) <= Before(f, q)
      BY <2>4 DEF Before
    <2>6. QED
      BY <1>6, <2>5 DEF n
  <1>8. QED
    BY <1>4, <1>5, <1>6, <1>7

\* The sum over all rows is a number.
LEMMA TotalIsNat ==
  ASSUME NEW f \in [Rows -> Nat]
  PROVE  Total(f) \in Nat
  <1>1. Batch \in Nat
    BY PoolAssumption
  <1>2. Batch + 1 \in 1..(Batch + 1)
    BY <1>1
  <1>3. \A r \in 1..(Batch + 1) : Before(f, r) \in Nat
    BY BeforeFacts
  <1>4. QED
    BY <1>2, <1>3 DEF Total

\* f[r] pages for each row r, handed out in the order of the rows.
Fresh(f) == [r \in Rows |-> Popped(Before(f, r), f[r])]

LEMMA FreshFacts ==
  ASSUME freePages \subseteq Pages, NEW f \in [Rows -> Nat], Total(f) <= NumFree
  PROVE  /\ Range(Popped(0, Total(f))) \subseteq freePages
         /\ \A r \in Rows : /\ Fresh(f)[r] \in Seq(Pages) /\ Len(Fresh(f)[r]) = f[r]
                            /\ IsInjective(Fresh(f)[r])
                            /\ Range(Fresh(f)[r]) \subseteq Range(Popped(0, Total(f)))
         /\ \A r, q \in Rows : r # q => Range(Fresh(f)[r]) \cap Range(Fresh(f)[q]) = {}
  <1>1. Batch \in Nat \ {0} /\ NumFree \in Nat
    BY PoolAssumption, RankOrders
  <1>2. /\ \A r \in 1..(Batch + 1) : Before(f, r) \in Nat
        /\ \A r \in Rows : \A q \in (r + 1)..(Batch + 1) : Before(f, r) + f[r] <= Before(f, q)
    BY BeforeFacts
  <1>3. Total(f) \in Nat /\ Range(Popped(0, Total(f))) = {Nth(i) : i \in 0..(Total(f) - 1)}
        /\ Range(Popped(0, Total(f))) \subseteq freePages
    <2>1. Total(f) \in Nat
      BY <1>1, <1>2 DEF Total
    <2>2. QED
      BY <2>1, PoppedFacts
  <1>4. ASSUME NEW r \in Rows
        PROVE  /\ Before(f, r) \in Nat /\ f[r] \in Nat /\ Before(f, r) + f[r] <= Total(f)
               /\ Fresh(f)[r] \in Seq(Pages) /\ Len(Fresh(f)[r]) = f[r] /\ IsInjective(Fresh(f)[r])
               /\ Range(Fresh(f)[r]) = {Nth(i) : i \in Before(f, r)..(Before(f, r) + f[r] - 1)}
    <2>1. r \in 1..(Batch + 1) /\ Batch + 1 \in (r + 1)..(Batch + 1)
      BY <1>1 DEF Rows
    <2>2. Before(f, r) \in Nat /\ f[r] \in Nat /\ Before(f, r) + f[r] <= Total(f)
      BY <1>2, <2>1 DEF Total
    <2>3. Before(f, r) + f[r] <= NumFree
      BY <1>1, <1>3, <2>2
    <2>4. Fresh(f)[r] = Popped(Before(f, r), f[r])
      BY DEF Fresh
    <2>5. QED
      BY <2>2, <2>3, <2>4, PoppedFacts
  <1>5. \A r \in Rows : Range(Fresh(f)[r]) \subseteq Range(Popped(0, Total(f)))
    <2> SUFFICES ASSUME NEW r \in Rows PROVE Range(Fresh(f)[r]) \subseteq Range(Popped(0, Total(f)))
      OBVIOUS
    <2>1. \A i \in Before(f, r)..(Before(f, r) + f[r] - 1) : i \in 0..(Total(f) - 1)
      BY <1>3, <1>4
    <2>2. {Nth(i) : i \in Before(f, r)..(Before(f, r) + f[r] - 1)} \subseteq {Nth(i) : i \in 0..(Total(f) - 1)}
      BY <2>1
    <2>3. QED
      BY <1>3, <1>4, <2>2
  <1>6. ASSUME NEW r \in Rows, NEW q \in Rows, r < q PROVE Range(Fresh(f)[r]) \cap Range(Fresh(f)[q]) = {}
    <2>1. q \in (r + 1)..(Batch + 1)
      BY <1>1, <1>6 DEF Rows
    <2>2. Before(f, r) + f[r] <= Before(f, q)
      BY <1>2, <2>1
    <2>3. ASSUME NEW i \in Before(f, r)..(Before(f, r) + f[r] - 1), NEW j \in Before(f, q)..(Before(f, q) + f[q] - 1)
          PROVE  Nth(i) # Nth(j)
      <3>1. /\ Before(f, r) \in Nat /\ f[r] \in Nat /\ Before(f, r) + f[r] <= Total(f)
            /\ Before(f, q) \in Nat /\ f[q] \in Nat /\ Before(f, q) + f[q] <= Total(f)
        BY <1>4
      <3>2. i # j /\ i \in 0..(NumFree - 1) /\ j \in 0..(NumFree - 1)
        BY <1>1, <1>3, <2>2, <3>1
      <3>3. QED
        BY <3>2, NthFacts
    <2>4. /\ Range(Fresh(f)[r]) = {Nth(i) : i \in Before(f, r)..(Before(f, r) + f[r] - 1)}
          /\ Range(Fresh(f)[q]) = {Nth(i) : i \in Before(f, q)..(Before(f, q) + f[q] - 1)}
      BY <1>4
    <2>5. QED
      BY <2>3, <2>4
  <1>7. \A r, q \in Rows : r # q => r < q \/ q < r
    BY DEF Rows
  <1>8. QED
    BY <1>3, <1>4, <1>5, <1>6, <1>7

LEMMA MaxMin ==
  ASSUME NEW a \in Int, NEW b \in Int
  PROVE  /\ Max({a, b}) = IF a < b THEN b ELSE a
         /\ Min({a, b}) = IF a < b THEN a ELSE b
  <1>1. \E x \in {a, b} : \A y \in {a, b} : x >= y
    <2>1. CASE a < b
      BY <2>1
    <2>2. CASE ~(a < b)
      BY <2>2
    <2>3. QED
      BY <2>1, <2>2
  <1>2. \E x \in {a, b} : \A y \in {a, b} : x <= y
    <2>1. CASE a < b
      BY <2>1
    <2>2. CASE ~(a < b)
      BY <2>2
    <2>3. QED
      BY <2>1, <2>2
  <1>3. Max({a, b}) \in {a, b} /\ \A y \in {a, b} : Max({a, b}) >= y
    BY <1>1 DEF Max
  <1>4. Min({a, b}) \in {a, b} /\ \A y \in {a, b} : Min({a, b}) <= y
    BY <1>2 DEF Min
  <1>5. QED
    BY <1>3, <1>4

\* The rows get what they need, in order, until the free list is empty.
LEMMA GotFacts ==
  ASSUME freePages \subseteq Pages, NEW need \in [Rows -> Nat]
  PROVE  /\ Got(need) \in [Rows -> Nat] /\ Total(Got(need)) <= NumFree
         /\ Total(need) <= NumFree => Got(need) = need
  <1> DEFINE got == Got(need)
             Given(n) == n \in 1..(Batch + 1) =>
                           Before(got, n) = IF Before(need, n) < NumFree THEN Before(need, n) ELSE NumFree
             Good == {n \in Nat : Given(n + 1)}
  <1>1. Batch \in Nat \ {0} /\ NumFree \in Nat
    BY PoolAssumption, RankOrders
  <1>2. /\ Before(need, 1) = 0
        /\ \A r \in 1..(Batch + 1) : Before(need, r) \in Nat
        /\ \A r \in Rows : Before(need, r + 1) = Before(need, r) + need[r]
        /\ \A r \in Rows : \A q \in (r + 1)..(Batch + 1) : Before(need, r) + need[r] <= Before(need, q)
    BY BeforeFacts
  <1>3. ASSUME NEW r \in Rows
        PROVE  got[r] = IF Before(need, r) >= NumFree THEN 0
                        ELSE IF need[r] < NumFree - Before(need, r) THEN need[r]
                        ELSE NumFree - Before(need, r)
    <2> DEFINE rest == NumFree - Before(need, r)
    <2>1. Before(need, r) \in Nat /\ need[r] \in Nat /\ rest \in Int
      BY <1>1, <1>2 DEF Rows
    <2>2. got[r] = Max({0, Min({need[r], rest})})
      BY DEF Got
    <2>3. Min({need[r], rest}) = IF need[r] < rest THEN need[r] ELSE rest
      <3>1. need[r] \in Int /\ rest \in Int
        BY <2>1
      <3> HIDE DEF rest
      <3>2. QED
        BY <3>1, MaxMin, Zenon
    <2> DEFINE least == Min({need[r], rest})
    <2>4. least \in Int
      BY <2>1, <2>3
    <2>5. Max({0, least}) = IF 0 < least THEN least ELSE 0
      <3> HIDE DEF least
      <3>1. QED
        BY <2>4, MaxMin
    <2>6. got[r] = IF 0 < least THEN least ELSE 0
      BY <2>2, <2>5
    <2>7. QED
      BY <1>1, <2>1, <2>3, <2>6
  <1>4. got \in [Rows -> Nat]
    <2>1. \A r \in Rows : got[r] \in Nat
      <3> SUFFICES ASSUME NEW r \in Rows PROVE got[r] \in Nat
        OBVIOUS
      <3>1. Before(need, r) \in Nat /\ need[r] \in Nat
        BY <1>1, <1>2 DEF Rows
      <3> HIDE DEF got
      <3>2. QED
        BY <1>1, <1>3, <3>1
    <2>2. QED
      BY <2>1 DEF Got
  <1>5. /\ Before(got, 1) = 0
        /\ \A r \in 1..(Batch + 1) : Before(got, r) \in Nat
        /\ \A r \in Rows : Before(got, r + 1) = Before(got, r) + got[r]
    BY <1>4, BeforeFacts
  <1> HIDE DEF got
  <1>6. 0 \in Good
    BY <1>1, <1>2, <1>5
  <1>7. ASSUME NEW n \in Nat, n \in Good PROVE n + 1 \in Good
    <2> SUFFICES ASSUME n + 2 \in 1..(Batch + 1) PROVE Given(n + 2)
      OBVIOUS
    <2>1. n + 1 \in Rows /\ n + 1 \in 1..(Batch + 1) /\ n + 1 + 1 = n + 2
      BY <1>1 DEF Rows
    <2>2. Given(n + 1)
      BY <1>7
    <2>3. /\ Before(need, n + 2) = Before(need, n + 1) + need[n + 1]
          /\ Before(got, n + 2) = Before(got, n + 1) + got[n + 1]
          /\ Before(need, n + 1) \in Nat /\ need[n + 1] \in Nat
      BY <1>2, <1>5, <2>1
    <2>4. QED
      BY <1>1, <1>3, <2>1, <2>2, <2>3
  <1>8. \A n \in 1..(Batch + 1) : Given(n)
    <2>1. Nat \subseteq Good
      <3> HIDE DEF Good
      <3>1. QED
        BY <1>6, <1>7, NaturalsCovered
    <2>2. \A n \in 1..(Batch + 1) : n - 1 \in Nat /\ (n - 1) + 1 = n
      BY <1>1
    <2>3. QED
      BY <2>1, <2>2
  <1>9. Total(got) <= NumFree
    <2>1. Batch + 1 \in 1..(Batch + 1)
      BY <1>1
    <2>2. QED
      BY <1>1, <1>2, <1>8, <2>1 DEF Total
  <1>10. ASSUME Total(need) <= NumFree PROVE got = need
    <2>1. ASSUME NEW r \in Rows PROVE got[r] = need[r]
      <3>1. Batch + 1 \in (r + 1)..(Batch + 1) /\ r \in 1..(Batch + 1)
        BY <1>1 DEF Rows
      <3>2. Before(need, r) + need[r] <= NumFree /\ Before(need, r) \in Nat /\ need[r] \in Nat
        <4>1. Before(need, r) + need[r] <= Total(need) /\ Total(need) \in Nat /\ Before(need, r) \in Nat
          BY <1>1, <1>2, <3>1 DEF Total
        <4>2. QED
          BY <1>1, <1>10, <4>1
      <3>3. QED
        BY <1>1, <1>3, <3>2
    <2>2. QED
      BY <1>4, <2>1
  <1>11. QED
    BY <1>4, <1>9, <1>10 DEF got
-----------------------------------------------------------------------------
(* The invariant of the paged cache.                                       *)

PageOf(i) == ((i - 1) \div PageSize) + 1
OffsetOf(i) == (i - 1) % PageSize

PoolTypes ==
  /\ freePages \subseteq Pages
  /\ tables \in [Slots -> [Rows -> Seq(Pages)]]
  /\ hist \in [Slots -> [Rows -> Seq(Tokens)]]
  /\ DOMAIN status = Slots

\* The rows of a slot have the same number of tokens, and pages for all of them.
RowsFit ==
  \A s \in Slots, r \in Rows :
    /\ Len(hist[s][r]) = Len(hist[s][1]) /\ Len(hist[s][r]) <= MaxRow
    /\ \A i \in 1..Len(hist[s][r]) : PageOf(i) \in 1..Len(tables[s][r])

\* Every token is where gather will look for it.
TokensKept ==
  \A s \in Slots, r \in Rows : \A i \in 1..Len(hist[s][r]) :
    content[tables[s][r][PageOf(i)]][OffsetOf(i)] = hist[s][r][i]

PoolInv == PoolTypes /\ NoSharing /\ RowsFit /\ TokensKept

Joined == {"open", "closed"}
InPipe(m) == \E i \in 1..Len(pagedPipe) : pagedPipe[i] = m

PipeTypes ==
  /\ pagedPipe \in Seq({"register", "free"} \X Slots) /\ DOMAIN pagedPc = Slots
  /\ DOMAIN status = Slots

\* A message is sent once, and the one that registers a slot first.
PipeOrdered ==
  \A i, j \in 1..Len(pagedPipe) :
    /\ pagedPipe[i] = pagedPipe[j] => i = j
    /\ pagedPipe[i][1] = "register" /\ pagedPipe[j] = <<"free", pagedPipe[i][2]>> => i < j

\* What the pipe still holds is what a slot's session and the pool differ in.
PipeExact ==
  \A s \in Slots :
    /\ InPipe(<<"register", s>>) <=> pagedPc[s] \in Joined /\ status[s] = "new"
    /\ InPipe(<<"free", s>>) <=> pagedPc[s] = "closed" /\ status[s] # "freed"
    /\ pagedPc[s] \notin Joined => status[s] = "new"
    /\ pagedPc[s] = "open" => status[s] # "freed"
    /\ status[s] \in {"new", "live", "freed"}

PipeInv == PipeTypes /\ PipeOrdered /\ PipeExact

\* Between two steps the stored counter is what the free list lacks.
CounterStored == phase = "idle" => used = NumPages - NumFree

\* Within a step, the runtime computes for a slot.
JobKnown == phase # "idle" => pagedJob \in Slots
-----------------------------------------------------------------------------
(* Pages and offsets.                                                      *)

LEMMA DivMod ==
  ASSUME NEW a \in Nat, NEW b \in Nat \ {0}
  PROVE  /\ a \div b \in Nat /\ a % b \in 0..(b - 1)
         /\ a = (a \div b) * b + (a % b)
  OBVIOUS

LEMMA TimesOrder ==
  ASSUME NEW a \in Nat, NEW c \in Nat, NEW b \in Nat, a * b < c * b
  PROVE  a < c
  <1>1. SUFFICES ASSUME c <= a PROVE FALSE
    OBVIOUS
  <1>2. PICK d \in Nat : a = c + d
    <2>1. a - c \in Nat /\ a = c + (a - c)
      BY <1>1
    <2>2. QED
      BY <2>1
  <1>3. a * b = c * b + d * b
    BY <1>2
  <1>4. d * b \in Nat /\ c * b \in Nat
    OBVIOUS
  <1>5. QED
    BY <1>3, <1>4

LEMMA PageFacts ==
  ASSUME NEW n \in Nat, NEW i \in 1..n
  PROVE  /\ OffsetOf(i) \in 0..(PageSize - 1)
         /\ PageOf(i) \in 1..CeilDiv(n, PageSize) /\ CeilDiv(n, PageSize) \in Nat
         /\ (PageOf(i) - 1) * PageSize + OffsetOf(i) = i - 1
  <1> DEFINE q == (i - 1) \div PageSize
             c == CeilDiv(n, PageSize)
  <1>1. PageSize \in Nat \ {0} /\ i - 1 \in Nat /\ n + PageSize - 1 \in Nat
    BY PoolAssumption
  <1>2. q \in Nat /\ OffsetOf(i) \in 0..(PageSize - 1) /\ i - 1 = q * PageSize + OffsetOf(i)
    BY <1>1, DivMod DEF OffsetOf
  <1>3. /\ c \in Nat /\ (n + PageSize - 1) % PageSize \in 0..(PageSize - 1)
        /\ n + PageSize - 1 = c * PageSize + ((n + PageSize - 1) % PageSize)
    BY <1>1, DivMod DEF CeilDiv
  <1>4. PageOf(i) = q + 1
    BY DEF PageOf
  <1> HIDE DEF q, c
  <1>5. q * PageSize \in Nat /\ c * PageSize \in Nat
    BY <1>1, <1>2, <1>3
  <1>6. q * PageSize < c * PageSize
    BY <1>1, <1>2, <1>3, <1>5
  <1>7. q < c
    BY <1>1, <1>2, <1>3, <1>6, TimesOrder
  <1>8. PageOf(i) - 1 = q /\ PageOf(i) \in 1..c
    BY <1>2, <1>3, <1>4, <1>7
  <1>9. QED
    BY <1>2, <1>3, <1>8 DEF c

LEMMA ConcatFacts ==
  ASSUME NEW S, NEW a \in Seq(S), NEW b \in Seq(S),
         IsInjective(a), IsInjective(b), Range(a) \cap Range(b) = {}
  PROVE  /\ a \o b \in Seq(S) /\ Len(a \o b) = Len(a) + Len(b)
         /\ IsInjective(a \o b) /\ Range(a \o b) = Range(a) \cup Range(b)
         /\ \A i \in 1..Len(a) : (a \o b)[i] = a[i]
  <1> DEFINE c == a \o b
  <1>1. /\ c \in Seq(S) /\ Len(a) \in Nat /\ Len(b) \in Nat /\ Len(c) = Len(a) + Len(b)
        /\ \A i \in 1..Len(a) : c[i] = a[i]
        /\ \A i \in 1..Len(b) : c[Len(a) + i] = b[i]
        /\ DOMAIN a = 1..Len(a) /\ DOMAIN b = 1..Len(b) /\ DOMAIN c = 1..(Len(a) + Len(b))
    OBVIOUS
  <1> HIDE DEF c
  <1>2. \A i \in 1..(Len(a) + Len(b)) :
          i \in 1..Len(a) \/ (i - Len(a) \in 1..Len(b) /\ i = Len(a) + (i - Len(a)))
    BY <1>1
  <1>3. \A i \in 1..Len(a) : i \in 1..(Len(a) + Len(b)) /\ c[i] \in Range(a)
    BY <1>1 DEF Range
  <1>4. \A i \in 1..(Len(a) + Len(b)) : i \notin 1..Len(a) =>
          i - Len(a) \in 1..Len(b) /\ c[i] = b[i - Len(a)] /\ c[i] \in Range(b)
    <2> SUFFICES ASSUME NEW i \in 1..(Len(a) + Len(b)), i \notin 1..Len(a)
                 PROVE  i - Len(a) \in 1..Len(b) /\ c[i] = b[i - Len(a)] /\ c[i] \in Range(b)
      OBVIOUS
    <2>1. i - Len(a) \in 1..Len(b) /\ i = Len(a) + (i - Len(a))
      BY <1>2
    <2>2. c[i] = b[i - Len(a)]
      BY <1>1, <2>1
    <2>3. QED
      BY <1>1, <2>1, <2>2 DEF Range
  <1>5. IsInjective(c)
    <2> SUFFICES ASSUME NEW i \in 1..(Len(a) + Len(b)), NEW j \in 1..(Len(a) + Len(b)), c[i] = c[j] PROVE i = j
      <3>1. DOMAIN c = 1..(Len(a) + Len(b))
        BY <1>1
      <3>2. QED
        BY <3>1 DEF IsInjective
    <2>1. CASE i \in 1..Len(a)
      <3>1. j \in 1..Len(a)
        BY <1>3, <1>4, <2>1
      <3>2. QED
        BY <1>1, <2>1, <3>1 DEF IsInjective
    <2>2. CASE i \notin 1..Len(a)
      <3>1. j \notin 1..Len(a)
        BY <1>3, <1>4, <2>2
      <3>2. i - Len(a) = j - Len(a)
        <4>1. /\ i - Len(a) \in DOMAIN b /\ j - Len(a) \in DOMAIN b
              /\ b[i - Len(a)] = b[j - Len(a)]
          BY <1>1, <1>4, <2>2, <3>1
        <4>2. QED
          BY <4>1 DEF IsInjective
      <3>3. i \in Int /\ j \in Int /\ Len(a) \in Int
        BY <1>1
      <3>4. QED
        BY <3>2, <3>3
    <2>3. QED
      BY <2>1, <2>2
  <1>6. Range(c) = Range(a) \cup Range(b)
    <2>1. \A i \in 1..Len(b) : Len(a) + i \in 1..(Len(a) + Len(b)) /\ c[Len(a) + i] = b[i]
      BY <1>1
    <2>2. /\ Range(a) = {a[i] : i \in 1..Len(a)} /\ Range(b) = {b[i] : i \in 1..Len(b)}
          /\ Range(c) = {c[i] : i \in 1..(Len(a) + Len(b))}
      BY <1>1 DEF Range
    <2>3. Range(c) \subseteq Range(a) \cup Range(b)
      BY <1>3, <1>4, <2>2
    <2>4. Range(a) \subseteq Range(c)
      BY <1>1, <1>3, <2>2
    <2>5. Range(b) \subseteq Range(c)
      BY <2>1, <2>2
    <2>6. QED
      BY <2>3, <2>4, <2>5
  <1>7. QED
    BY <1>1, <1>5, <1>6 DEF c
-----------------------------------------------------------------------------
\* What NoSharing says of two slots.
LEMMA SlotsApart ==
  ASSUME NoSharing, NEW s \in Slots, NEW u \in Slots \ {s}, NEW r \in Rows
  PROVE  Range(tables[u][r]) \cap PagesOf(tables[s]) = {}
  <1> SUFFICES ASSUME NEW q \in Rows PROVE Range(tables[u][r]) \cap Range(tables[s][q]) = {}
    BY DEF PagesOf
  <1>1. <<u, r>> \in Slots \X Rows /\ <<s, q>> \in Slots \X Rows /\ <<u, r>> # <<s, q>>
    OBVIOUS
  <1>2. QED
    BY <1>1 DEF NoSharing

LEMMA RowsApart ==
  ASSUME NoSharing, NEW s \in Slots, NEW r \in Rows, NEW q \in Rows, r # q
  PROVE  Range(tables[s][r]) \cap Range(tables[s][q]) = {}
  <1>1. <<s, r>> \in Slots \X Rows /\ <<s, q>> \in Slots \X Rows /\ <<s, r>> # <<s, q>>
    OBVIOUS
  <1>2. QED
    BY <1>1 DEF NoSharing

\* An operation on one slot keeps pages apart when the slot's new rows do and are made of
\* the slot's old pages and free ones.
LEMMA SharingKept ==
  ASSUME PoolTypes, NoSharing, NEW s \in Slots, NEW new \in [Rows -> Seq(Pages)],
         tables' = [tables EXCEPT ![s] = new],
         \A r \in Rows : /\ IsInjective(new[r]) /\ Range(new[r]) \cap freePages' = {}
                         /\ Range(new[r]) \subseteq PagesOf(tables[s]) \cup freePages,
         \A r, q \in Rows : r # q => Range(new[r]) \cap Range(new[q]) = {},
         freePages' \subseteq freePages \cup PagesOf(tables[s])
  PROVE  NoSharing'
  <1>1. tables'[s] = new /\ \A u \in Slots \ {s} : tables'[u] = tables[u]
    BY DEF PoolTypes
  <1>2. \A u, v \in Slots, r, q \in Rows :
          u # v \/ r # q => Range(tables[u][r]) \cap Range(tables[v][q]) = {}
    <2> SUFFICES ASSUME NEW u \in Slots, NEW v \in Slots, NEW r \in Rows, NEW q \in Rows, u # v \/ r # q
                 PROVE  Range(tables[u][r]) \cap Range(tables[v][q]) = {}
      OBVIOUS
    <2> DEFINE x == <<u, r>>
               y == <<v, q>>
    <2>1. x \in Slots \X Rows /\ y \in Slots \X Rows /\ x # y
      OBVIOUS
    <2>2. x[1] = u /\ x[2] = r /\ y[1] = v /\ y[2] = q
      OBVIOUS
    <2>3. Range(tables[x[1]][x[2]]) \cap Range(tables[y[1]][y[2]]) = {}
      <3> HIDE DEF x, y
      <3>1. QED
        BY <2>1 DEF NoSharing
    <2>4. QED
      BY <2>2, <2>3
  <1>3. \A u \in Slots \ {s}, r \in Rows :
          /\ Range(tables[u][r]) \cap PagesOf(tables[s]) = {} /\ Range(tables[u][r]) \cap freePages = {}
          /\ IsInjective(tables[u][r])
    BY SlotsApart DEF NoSharing
  <1>4. \A u \in Slots, r \in Rows :
          IsInjective(tables'[u][r]) /\ Range(tables'[u][r]) \cap freePages' = {}
    BY <1>1, <1>3
  <1>5. \A u, v \in Slots, r, q \in Rows :
          u # v \/ r # q => Range(tables'[u][r]) \cap Range(tables'[v][q]) = {}
    <2> SUFFICES ASSUME NEW u \in Slots, NEW v \in Slots, NEW r \in Rows, NEW q \in Rows, u # v \/ r # q
                 PROVE  Range(tables'[u][r]) \cap Range(tables'[v][q]) = {}
      OBVIOUS
    <2>1. CASE u = s /\ v = s
      BY <1>1, <2>1
    <2>2. CASE u = s /\ v # s
      BY <1>1, <1>3, <2>2
    <2>3. CASE u # s /\ v = s
      BY <1>1, <1>3, <2>3
    <2>4. CASE u # s /\ v # s
      BY <1>1, <1>2, <2>4
    <2>5. QED
      BY <2>1, <2>2, <2>3, <2>4
  <1>6. \A x, y \in Slots \X Rows :
          x # y => Range(tables'[x[1]][x[2]]) \cap Range(tables'[y[1]][y[2]]) = {}
    <2> SUFFICES ASSUME NEW x \in Slots \X Rows, NEW y \in Slots \X Rows, x # y
                 PROVE  Range(tables'[x[1]][x[2]]) \cap Range(tables'[y[1]][y[2]]) = {}
      OBVIOUS
    <2>1. x[1] \in Slots /\ x[2] \in Rows /\ y[1] \in Slots /\ y[2] \in Rows /\ (x[1] # y[1] \/ x[2] # y[2])
      OBVIOUS
    <2>2. QED
      BY <1>5, <2>1
  <1>7. QED
    BY <1>4, <1>6 DEF NoSharing

-----------------------------------------------------------------------------
\* Storing tokens through a table whose rows share nothing writes each of them to its own
\* place and nothing else.
StoresThrough(stored, table, prefix, new, n) ==
  /\ \A r \in Rows : \A i \in 1..n : PageOf(i) \in 1..Len(table[r]) =>
       stored[table[r][PageOf(i)]][OffsetOf(i)]
       = IF i - 1 >= prefix THEN new[r][i] ELSE content[table[r][PageOf(i)]][OffsetOf(i)]
  /\ \A p \in Pages, off \in 0..(PageSize - 1) :
       (\A r \in Rows : p \notin Range(table[r])) => stored[p][off] = content[p][off]

LEMMA StoredFacts ==
  ASSUME NEW table \in [Rows -> Seq(Pages)], NEW new \in [Rows -> Seq(Tokens)],
         NEW prefix \in Nat, NEW n \in 0..MaxRow,
         \A r \in Rows : Len(new[r]) = n /\ IsInjective(table[r]),
         \A r, q \in Rows : r # q => Range(table[r]) \cap Range(table[q]) = {}
  PROVE  StoresThrough(Stored(table, prefix, new), table, prefix, new, n)
  <1> DEFINE At(p, off) ==
        {x \in Rows \X (0..(MaxPages - 1)) :
           /\ x[2] < Len(table[x[1]]) /\ table[x[1]][x[2] + 1] = p
           /\ Stores(x[2] * PageSize + off, prefix, Len(new[x[1]]))}
  <1>0. PageSize \in Nat \ {0} /\ MaxRow \in Nat
    BY PoolAssumption
  <1>1. \A p \in Pages, off \in 0..(PageSize - 1) :
          Stored(table, prefix, new)[p][off]
          = IF At(p, off) = {} THEN content[p][off]
            ELSE LET x == CHOOSE x \in At(p, off) : TRUE IN new[x[1]][x[2] * PageSize + off + 1]
    BY DEF Stored
  <1>2. ASSUME NEW p \in Pages, NEW off \in 0..(PageSize - 1), NEW x \in At(p, off)
        PROVE  /\ x[1] \in Rows /\ x[2] \in Nat /\ x[2] + 1 \in 1..Len(table[x[1]]) /\ x = <<x[1], x[2]>>
               /\ table[x[1]][x[2] + 1] = p /\ p \in Range(table[x[1]])
               /\ x[2] * PageSize + off >= prefix
    <2>1. x \in Rows \X (0..(MaxPages - 1)) /\ x[2] < Len(table[x[1]]) /\ table[x[1]][x[2] + 1] = p
          /\ x[2] * PageSize + off >= prefix
      BY DEF Stores
    <2>2. x[1] \in Rows /\ x[2] \in Nat /\ x = <<x[1], x[2]>> /\ Len(table[x[1]]) \in Nat
      BY <2>1
    <2>3. x[2] + 1 \in 1..Len(table[x[1]])
      BY <2>1, <2>2
    <2>4. p \in Range(table[x[1]])
      <3>1. table[x[1]] \in Seq(Pages)
        BY <2>2
      <3>2. DOMAIN table[x[1]] = 1..Len(table[x[1]])
        BY <3>1
      <3>3. QED
        BY <2>1, <2>3, <3>2 DEF Range
    <2>5. QED
      BY <2>1, <2>2, <2>3, <2>4
  <1>3. ASSUME NEW r \in Rows, NEW i \in 1..n, PageOf(i) \in 1..Len(table[r])
        PROVE  Stored(table, prefix, new)[table[r][PageOf(i)]][OffsetOf(i)]
               = IF i - 1 >= prefix THEN new[r][i] ELSE content[table[r][PageOf(i)]][OffsetOf(i)]
    <2> DEFINE p == table[r][PageOf(i)]
               off == OffsetOf(i)
               here == <<r, PageOf(i) - 1>>
    <2>1. /\ off \in 0..(PageSize - 1) /\ PageOf(i) \in 1..CeilDiv(n, PageSize)
          /\ (PageOf(i) - 1) * PageSize + off = i - 1 /\ i \in Nat
      <3>1. n \in Nat /\ i \in Nat
        BY <1>0
      <3>2. QED
        BY <3>1, PageFacts
    <2>2. table[r] \in Seq(Pages) /\ DOMAIN table[r] = 1..Len(table[r]) /\ p \in Pages /\ p \in Range(table[r])
      <3>1. table[r] \in Seq(Pages)
        OBVIOUS
      <3>2. QED
        BY <1>3, <3>1 DEF Range
    <2>3. ASSUME NEW x \in At(p, off) PROVE x = here /\ i - 1 >= prefix
      <3>1. /\ x[1] \in Rows /\ x[2] \in Nat /\ x[2] + 1 \in 1..Len(table[x[1]]) /\ x = <<x[1], x[2]>>
            /\ table[x[1]][x[2] + 1] = p /\ p \in Range(table[x[1]])
            /\ x[2] * PageSize + off >= prefix
        <4> HIDE DEF At, p, off
        <4>1. QED
          BY <1>2, <2>1, <2>2, <2>3
      <3>2. x[1] = r
        BY <2>2, <3>1
      <3>3. x[2] + 1 = PageOf(i)
        BY <1>3, <2>2, <3>1, <3>2 DEF IsInjective
      <3>4. x[2] = PageOf(i) - 1
        BY <2>1, <3>1, <3>3
      <3>5. QED
        BY <2>1, <3>1, <3>2, <3>4
    <2>4. CASE i - 1 >= prefix
      <3>1. here \in At(p, off)
        <4>1. PageOf(i) - 1 \in 0..(MaxPages - 1)
          <5>1. i \in 1..MaxRow
            BY <1>0
          <5>2. PageOf(i) \in 1..MaxPages /\ MaxPages \in Nat
            BY <1>0, <5>1, PageFacts DEF MaxPages
          <5>3. QED
            BY <5>2
        <4>2. PageOf(i) - 1 < Len(table[r]) /\ (PageOf(i) - 1) + 1 = PageOf(i)
          BY <1>3, <2>1
        <4>3. Stores((PageOf(i) - 1) * PageSize + off, prefix, Len(new[r]))
          BY <2>1, <2>4 DEF Stores
        <4>4. QED
          BY <4>1, <4>2, <4>3
      <3> HIDE DEF At
      <3>2. (CHOOSE x \in At(p, off) : TRUE) = here
        BY <2>3, <3>1
      <3>3. Stored(table, prefix, new)[p][off] = new[r][(PageOf(i) - 1) * PageSize + off + 1]
        <4>1. here[1] = r /\ here[2] = PageOf(i) - 1
          OBVIOUS
        <4> HIDE DEF here, p, off
        <4>2. Stored(table, prefix, new)[p][off]
              = LET x == CHOOSE x \in At(p, off) : TRUE IN new[x[1]][x[2] * PageSize + off + 1]
          BY <1>1, <2>1, <2>2, <3>1
        <4>3. QED
          BY <3>2, <4>1, <4>2
      <3>4. (PageOf(i) - 1) * PageSize + off + 1 = i
        BY <2>1
      <3>5. QED
        BY <2>4, <3>3, <3>4
    <2>5. CASE ~(i - 1 >= prefix)
      <3>1. At(p, off) = {}
        <4> HIDE DEF At
        <4>1. QED
          BY <2>3, <2>5
      <3> HIDE DEF At
      <3>2. QED
        BY <1>1, <2>1, <2>2, <2>5, <3>1
    <2>6. QED
      BY <2>4, <2>5
  <1>4. ASSUME NEW p \in Pages, NEW off \in 0..(PageSize - 1), \A r \in Rows : p \notin Range(table[r])
        PROVE  Stored(table, prefix, new)[p][off] = content[p][off]
    <2> HIDE DEF At
    <2>1. At(p, off) = {}
      BY <1>2, <1>4
    <2>2. QED
      BY <1>1, <2>1
  <1>5. QED
    BY <1>3, <1>4 DEF StoresThrough
-----------------------------------------------------------------------------
\* A step writes the tokens after its prefix, into pages of its rows and new ones, or
\* only leaves its rows longer when the pool has run out.
LEMMA ScatterKept ==
  ASSUME PoolInv, NEW s \in Slots, NEW prefix \in Nat, NEW n \in 0..MaxRow, prefix <= n,
         NEW new \in [Rows -> Seq(Tokens)],
         \A r \in Rows : /\ Len(new[r]) = n /\ prefix <= Len(hist[s][r])
                         /\ \A i \in 1..prefix : new[r][i] = hist[s][r][i],
         Scatter(s, prefix, new)
  PROVE  PoolInv'
  <1> DEFINE pages == CeilDiv(n, PageSize)
             need == Need(s, pages)
             got == Got(need)
             grown == [r \in Rows |-> tables[s][r] \o Popped(Before(got, r), got[r])]
  <1> USE DEF PoolInv
  <1>0. /\ PageSize \in Nat \ {0} /\ MaxRow \in Nat /\ n \in Nat /\ Batch \in Nat \ {0} /\ 1 \in Rows
        /\ freePages \subseteq Pages /\ NumFree \in Nat
    BY PoolAssumption, RankOrders DEF PoolTypes, Rows
  <1>a. pages \in Nat
    <2>1. n + PageSize - 1 \in Nat
      BY <1>0
    <2>2. QED
      BY <1>0, <2>1, DivMod DEF CeilDiv
  <1>1. \A r \in Rows : tables[s][r] \in Seq(Pages) /\ Len(tables[s][r]) \in Nat
    BY DEF PoolTypes
  <1>2. /\ need \in [Rows -> Nat]
        /\ \A r \in Rows : need[r] = IF pages > Len(tables[s][r]) THEN pages - Len(tables[s][r]) ELSE 0
    <2> SUFFICES ASSUME NEW r \in Rows
                 PROVE  Max({0, pages - Len(tables[s][r])})
                        = IF pages > Len(tables[s][r]) THEN pages - Len(tables[s][r]) ELSE 0
      BY <1>a, <1>1 DEF Need
    <2> DEFINE m == pages - Len(tables[s][r])
    <2>1. m \in Int /\ 0 \in Int /\ Len(tables[s][r]) \in Nat
      BY <1>a, <1>1
    <2>2. Max({0, m}) = IF 0 < m THEN m ELSE 0
      <3> HIDE DEF m
      <3>1. QED
        BY <2>1, MaxMin
    <2>3. QED
      BY <1>a, <2>1, <2>2
  <1> HIDE DEF need
  <1>3. /\ got \in [Rows -> Nat] /\ Total(got) <= NumFree
        /\ Total(need) <= NumFree => got = need
    BY <1>0, <1>2, GotFacts
  <1>4. /\ tables' = [tables EXCEPT ![s] = grown]
        /\ freePages' = freePages \ Range(Popped(0, Total(got)))
        /\ IF Total(need) > NumFree
           THEN UNCHANGED <<content, hist>>
           ELSE content' = Stored(tables'[s], prefix, new) /\ hist' = [hist EXCEPT ![s] = new]
        /\ status' = status
    BY <1>0 DEF Scatter, need
  <1> HIDE DEF got
  <1>5. /\ Range(Popped(0, Total(got))) \subseteq freePages
        /\ \A r \in Rows : /\ Fresh(got)[r] \in Seq(Pages) /\ Len(Fresh(got)[r]) = got[r]
                           /\ IsInjective(Fresh(got)[r])
                           /\ Range(Fresh(got)[r]) \subseteq Range(Popped(0, Total(got)))
        /\ \A r, q \in Rows : r # q => Range(Fresh(got)[r]) \cap Range(Fresh(got)[q]) = {}
    BY <1>0, <1>3, FreshFacts
  <1>6. \A r \in Rows : grown[r] = tables[s][r] \o Fresh(got)[r]
    BY DEF Fresh
  <1> HIDE DEF grown
  <1>7. ASSUME NEW r \in Rows
        PROVE  /\ grown[r] \in Seq(Pages) /\ Len(grown[r]) = Len(tables[s][r]) + got[r]
               /\ IsInjective(grown[r]) /\ Range(grown[r]) = Range(tables[s][r]) \cup Range(Fresh(got)[r])
               /\ \A i \in 1..Len(tables[s][r]) : grown[r][i] = tables[s][r][i]
    <2>1. IsInjective(tables[s][r]) /\ Range(tables[s][r]) \cap freePages = {}
      BY DEF NoSharing
    <2>2. Range(tables[s][r]) \cap Range(Fresh(got)[r]) = {}
      BY <1>5, <2>1
    <2>3. /\ Fresh(got)[r] \in Seq(Pages) /\ IsInjective(Fresh(got)[r]) /\ Len(Fresh(got)[r]) = got[r]
          /\ tables[s][r] \in Seq(Pages)
      BY <1>1, <1>5
    <2> DEFINE a == tables[s][r]
               b == Fresh(got)[r]
    <2>4. grown[r] = a \o b /\ Len(a) = Len(tables[s][r]) /\ Len(b) = got[r]
      BY <1>6, <2>3
    <2>5. a \in Seq(Pages) /\ b \in Seq(Pages) /\ IsInjective(a) /\ IsInjective(b) /\ Range(a) \cap Range(b) = {}
      BY <2>1, <2>2, <2>3
    <2>6. /\ a \o b \in Seq(Pages) /\ Len(a \o b) = Len(a) + Len(b)
          /\ IsInjective(a \o b) /\ Range(a \o b) = Range(a) \cup Range(b)
          /\ \A i \in 1..Len(a) : (a \o b)[i] = a[i]
      <3> HIDE DEF a, b
      <3>1. QED
        BY <2>5, ConcatFacts
    <2>7. QED
      BY <2>4, <2>6
  <1>8. grown \in [Rows -> Seq(Pages)]
    BY <1>7 DEF grown
  <1>9. \A r, q \in Rows : r # q => Range(grown[r]) \cap Range(grown[q]) = {}
    <2> SUFFICES ASSUME NEW r \in Rows, NEW q \in Rows, r # q PROVE Range(grown[r]) \cap Range(grown[q]) = {}
      OBVIOUS
    <2>1. Range(tables[s][r]) \cap Range(tables[s][q]) = {}
      BY RowsApart
    <2>2. Range(tables[s][r]) \cap freePages = {} /\ Range(tables[s][q]) \cap freePages = {}
      BY DEF NoSharing
    <2>3. /\ Range(Fresh(got)[r]) \subseteq freePages /\ Range(Fresh(got)[q]) \subseteq freePages
          /\ Range(Fresh(got)[r]) \cap Range(Fresh(got)[q]) = {}
      BY <1>5
    <2>4. QED
      BY <1>7, <2>1, <2>2, <2>3
  <1>10. NoSharing'
    <2>1. \A r \in Rows : Range(tables[s][r]) \subseteq PagesOf(tables[s]) /\ Range(tables[s][r]) \cap freePages = {}
      BY DEF PagesOf, NoSharing
    <2>2. \A r \in Rows : /\ IsInjective(grown[r]) /\ Range(grown[r]) \cap freePages' = {}
                          /\ Range(grown[r]) \subseteq PagesOf(tables[s]) \cup freePages
      BY <1>4, <1>5, <1>7, <2>1
    <2>3. freePages' \subseteq freePages \cup PagesOf(tables[s])
      BY <1>4
    <2>4. QED
      BY <1>4, <1>8, <1>9, <2>2, <2>3, SharingKept
  <1>11. tables'[s] = grown /\ \A u \in Slots \ {s} : tables'[u] = tables[u]
    BY <1>4 DEF PoolTypes
  <1>12. CASE Total(need) > NumFree
    <2>1. UNCHANGED <<content, hist>>
      BY <1>4, <1>12
    <2>2. PoolTypes'
      BY <1>4, <1>8, <2>1 DEF PoolTypes
    <2>3. \A u \in Slots, r \in Rows : \A i \in 1..Len(tables[u][r]) :
            /\ i \in 1..Len(tables'[u][r]) /\ tables'[u][r][i] = tables[u][r][i]
      <3> SUFFICES ASSUME NEW u \in Slots, NEW r \in Rows, NEW i \in 1..Len(tables[u][r])
                   PROVE  i \in 1..Len(tables'[u][r]) /\ tables'[u][r][i] = tables[u][r][i]
        OBVIOUS
      <3>1. CASE u = s
        <4>1. got[r] \in Nat /\ Len(tables[s][r]) \in Nat
          BY <1>1, <1>3
        <4>2. QED
          BY <1>7, <1>11, <3>1, <4>1
      <3>2. CASE u # s
        BY <1>11, <3>2
      <3>3. QED
        BY <3>1, <3>2
    <2>4. RowsFit'
      BY <2>1, <2>3 DEF RowsFit
    <2>5. TokensKept'
      <3> SUFFICES ASSUME NEW u \in Slots, NEW r \in Rows, NEW i \in 1..Len(hist'[u][r])
                   PROVE  content'[tables'[u][r][PageOf(i)]][OffsetOf(i)] = hist'[u][r][i]
        BY DEF TokensKept, PageOf, OffsetOf
      <3>1. i \in 1..Len(hist[u][r])
        BY <2>1
      <3>2. PageOf(i) \in 1..Len(tables[u][r])
        BY <3>1 DEF RowsFit
      <3>3. content[tables[u][r][PageOf(i)]][OffsetOf(i)] = hist[u][r][i]
        BY <3>1 DEF TokensKept
      <3>4. tables'[u][r][PageOf(i)] = tables[u][r][PageOf(i)]
        BY <2>3, <3>2
      <3>5. QED
        BY <2>1, <3>3, <3>4
    <2>6. QED
      BY <1>10, <2>2, <2>4, <2>5
  <1>13. CASE Total(need) <= NumFree
    <2>1. content' = Stored(grown, prefix, new) /\ hist' = [hist EXCEPT ![s] = new] /\ got = need
      <3>1. ~(Total(need) > NumFree)
        <4>1. Total(need) \in Nat
          BY <1>2, TotalIsNat
        <4>2. QED
          BY <1>0, <1>13, <4>1
      <3>2. QED
        BY <1>3, <1>4, <1>11, <1>13, <3>1
    <2>2. PoolTypes'
      BY <1>4, <1>8, <2>1 DEF PoolTypes
    <2>3. hist'[s] = new /\ \A u \in Slots \ {s} : hist'[u] = hist[u]
      BY <2>1 DEF PoolTypes
    <2>4. \A r \in Rows : Len(grown[r]) \in Nat /\ Len(grown[r]) >= pages
      <3> SUFFICES ASSUME NEW r \in Rows PROVE Len(grown[r]) \in Nat /\ Len(grown[r]) >= pages
        OBVIOUS
      <3>1. Len(grown[r]) = Len(tables[s][r]) + need[r] /\ need[r] \in Nat /\ Len(tables[s][r]) \in Nat
        BY <1>1, <1>2, <1>7, <2>1
      <3>2. need[r] = IF pages > Len(tables[s][r]) THEN pages - Len(tables[s][r]) ELSE 0
        BY <1>2
      <3> HIDE DEF pages
      <3>3. QED
        BY <1>a, <3>1, <3>2
    <2>5. \A r \in Rows : \A i \in 1..n : PageOf(i) \in 1..Len(grown[r])
      <3> SUFFICES ASSUME NEW r \in Rows, NEW i \in 1..n PROVE PageOf(i) \in 1..Len(grown[r])
        OBVIOUS
      <3>1. PageOf(i) \in 1..pages
        BY <1>0, PageFacts
      <3>2. Len(grown[r]) \in Nat /\ Len(grown[r]) >= pages
        BY <2>4
      <3> HIDE DEF pages
      <3>3. QED
        BY <1>a, <3>1, <3>2
    <2>6. RowsFit'
      <3> SUFFICES ASSUME NEW u \in Slots, NEW r \in Rows
                   PROVE  /\ Len(hist'[u][r]) = Len(hist'[u][1]) /\ Len(hist'[u][r]) <= MaxRow
                          /\ \A i \in 1..Len(hist'[u][r]) : PageOf(i) \in 1..Len(tables'[u][r])
        BY DEF RowsFit
      <3>1. CASE u = s
        BY <1>0, <1>11, <2>3, <2>5, <3>1
      <3>2. CASE u # s
        BY <1>11, <2>3, <3>2 DEF RowsFit
      <3>3. QED
        BY <3>1, <3>2
    <2>7. /\ \A r \in Rows : \A i \in 1..n : PageOf(i) \in 1..Len(grown[r]) =>
               content'[grown[r][PageOf(i)]][OffsetOf(i)]
               = IF i - 1 >= prefix THEN new[r][i] ELSE content[grown[r][PageOf(i)]][OffsetOf(i)]
          /\ \A p \in Pages, off \in 0..(PageSize - 1) :
               (\A r \in Rows : p \notin Range(grown[r])) => content'[p][off] = content[p][off]
      <3>1. \A r \in Rows : Len(new[r]) = n /\ IsInjective(grown[r])
        BY <1>7
      <3>2. StoresThrough(Stored(grown, prefix, new), grown, prefix, new, n)
        BY <1>8, <1>9, <3>1, StoredFacts
      <3> HIDE DEF pages
      <3>3. StoresThrough(content', grown, prefix, new, n)
        BY <2>1, <3>2
      <3>4. QED
        BY <3>3 DEF StoresThrough
    <2>8. ASSUME NEW r \in Rows, NEW i \in 1..n
          PROVE  content'[grown[r][PageOf(i)]][OffsetOf(i)] = new[r][i]
      <3>1. CASE i - 1 >= prefix
        BY <2>5, <2>7, <3>1
      <3>2. CASE ~(i - 1 >= prefix)
        <4>1. i \in 1..prefix /\ i \in 1..Len(hist[s][r])
          <5>1. i \in 1..prefix
            BY <1>0, <3>2
          <5>2. prefix <= Len(hist[s][r]) /\ Len(hist[s][r]) \in Nat
            BY DEF PoolTypes
          <5>3. QED
            BY <5>1, <5>2
        <4>2. PageOf(i) \in 1..Len(tables[s][r])
          BY <4>1 DEF RowsFit
        <4>3. content[grown[r][PageOf(i)]][OffsetOf(i)] = hist[s][r][i]
          <5>1. grown[r][PageOf(i)] = tables[s][r][PageOf(i)]
            BY <1>7, <4>2
          <5>2. content[tables[s][r][PageOf(i)]][OffsetOf(i)] = hist[s][r][i]
            BY <4>1 DEF TokensKept
          <5>3. QED
            BY <5>1, <5>2
        <4>4. content'[grown[r][PageOf(i)]][OffsetOf(i)]
              = IF i - 1 >= prefix THEN new[r][i] ELSE content[grown[r][PageOf(i)]][OffsetOf(i)]
          BY <2>5, <2>7
        <4>5. new[r][i] = hist[s][r][i]
          BY <4>1
        <4>6. QED
          BY <3>2, <4>3, <4>4, <4>5
      <3>3. QED
        BY <3>1, <3>2
    <2>9. ASSUME NEW u \in Slots \ {s}, NEW r \in Rows, NEW i \in 1..Len(hist[u][r])
          PROVE  content'[tables[u][r][PageOf(i)]][OffsetOf(i)] = hist[u][r][i]
      <3>1. PageOf(i) \in 1..Len(tables[u][r]) /\ tables[u][r] \in Seq(Pages)
        BY DEF RowsFit, PoolTypes
      <3>2. tables[u][r][PageOf(i)] \in Range(tables[u][r]) /\ tables[u][r][PageOf(i)] \in Pages
        <4>1. DOMAIN tables[u][r] = 1..Len(tables[u][r])
          BY <3>1
        <4>2. QED
          BY <3>1, <4>1 DEF Range
      <3>3. OffsetOf(i) \in 0..(PageSize - 1)
        <4>1. Len(hist[u][r]) \in Nat
          BY DEF PoolTypes
        <4>2. QED
          BY <4>1, PageFacts
      <3>4. \A q \in Rows : tables[u][r][PageOf(i)] \notin Range(grown[q])
        <4>1. Range(tables[u][r]) \cap PagesOf(tables[s]) = {} /\ Range(tables[u][r]) \cap freePages = {}
          BY SlotsApart DEF NoSharing
        <4>2. ASSUME NEW q \in Rows PROVE Range(grown[q]) \subseteq PagesOf(tables[s]) \cup freePages
          <5>1. Range(tables[s][q]) \subseteq PagesOf(tables[s])
            BY DEF PagesOf
          <5>2. Range(Fresh(got)[q]) \subseteq freePages
            BY <1>5
          <5>3. QED
            BY <1>7, <5>1, <5>2
        <4>3. QED
          BY <3>2, <4>1, <4>2
      <3>5. content[tables[u][r][PageOf(i)]][OffsetOf(i)] = hist[u][r][i]
        BY DEF TokensKept
      <3> DEFINE p == tables[u][r][PageOf(i)]
                 off == OffsetOf(i)
      <3>6. /\ p \in Pages /\ off \in 0..(PageSize - 1) /\ content[p][off] = hist[u][r][i]
            /\ \A q \in Rows : p \notin Range(grown[q])
        BY <3>2, <3>3, <3>4, <3>5
      <3>7. content'[p][off] = content[p][off]
        <4> HIDE DEF p, off
        <4>1. QED
          BY <2>7, <3>6
      <3>8. QED
        BY <3>6, <3>7
    <2>10. TokensKept'
      <3> SUFFICES ASSUME NEW u \in Slots, NEW r \in Rows, NEW i \in 1..Len(hist'[u][r])
                   PROVE  content'[tables'[u][r][PageOf(i)]][OffsetOf(i)] = hist'[u][r][i]
        BY DEF TokensKept, PageOf, OffsetOf
      <3>1. CASE u = s
        BY <1>11, <2>3, <2>8, <3>1
      <3>2. CASE u # s
        BY <1>11, <2>3, <2>9, <3>2
      <3>3. QED
        BY <3>1, <3>2
    <2>11. QED
      BY <1>10, <2>2, <2>6, <2>10
  <1>14. QED
    <2>1. Total(need) \in Nat
      BY <1>2, TotalIsNat
    <2>2. QED
      BY <1>0, <1>12, <1>13, <2>1
-----------------------------------------------------------------------------
\* A reorder gives every destination row the tokens of its source: in the source's own
\* pages where the row is its first destination, in copies elsewhere.
LEMMA ReorderKept ==
  ASSUME PoolInv, NEW s \in Slots, NEW hypo \in [Rows -> Rows], Reorder(s, hypo)
  PROVE  PoolInv'
  <1> DEFINE copies == Copies(s, hypo)
             moved == Reordered(s, hypo)
             taken == Range(Popped(0, Total(copies)))
             left == UNION {Range(tables[s][r]) : r \in Unused(hypo)}
  <1> USE DEF PoolInv
  <1>0. /\ PageSize \in Nat \ {0} /\ MaxRow \in Nat /\ Batch \in Nat \ {0} /\ 1 \in Rows
        /\ freePages \subseteq Pages /\ NumFree \in Nat /\ \A r \in Rows : r \in Nat
    <2>1. PageSize \in Nat \ {0} /\ MaxRow \in Nat /\ Batch \in Nat \ {0}
      BY PoolAssumption
    <2>2. freePages \subseteq Pages /\ NumFree \in Nat
      BY RankOrders DEF PoolTypes
    <2>3. 1 \in Rows /\ \A r \in Rows : r \in Nat
      BY <2>1 DEF Rows
    <2>4. QED
      BY <2>1, <2>2, <2>3
  <1>1. \A r \in Rows : /\ tables[s][r] \in Seq(Pages) /\ Len(tables[s][r]) \in Nat
                        /\ DOMAIN tables[s][r] = 1..Len(tables[s][r])
                        /\ IsInjective(tables[s][r]) /\ Range(tables[s][r]) \cap freePages = {}
                        /\ Range(tables[s][r]) \subseteq PagesOf(tables[s])
    BY DEF PoolTypes, NoSharing, PagesOf
  <1>2. copies \in [Rows -> Nat]
    BY <1>1 DEF Copies
  <1>3. /\ Total(copies) <= NumFree /\ tables' = [tables EXCEPT ![s] = moved]
        /\ freePages' = (freePages \ taken) \cup left
        /\ hist' = [hist EXCEPT ![s] = [d \in Rows |-> hist[s][hypo[d]]]]
        /\ status' = status
    BY DEF Reorder
  <1>4. tables'[s] = moved /\ \A u \in Slots \ {s} : tables'[u] = tables[u]
    BY <1>3 DEF PoolTypes
  <1>5. \A d \in Rows : moved[d] = IF FirstUse(hypo, d) THEN tables[s][hypo[d]] ELSE Fresh(copies)[d]
    BY DEF Reordered, Fresh
  <1> HIDE DEF moved
  <1>6. /\ taken \subseteq freePages
        /\ \A r \in Rows : /\ Fresh(copies)[r] \in Seq(Pages) /\ Len(Fresh(copies)[r]) = copies[r]
                           /\ IsInjective(Fresh(copies)[r]) /\ Range(Fresh(copies)[r]) \subseteq taken
        /\ \A r, q \in Rows : r # q => Range(Fresh(copies)[r]) \cap Range(Fresh(copies)[q]) = {}
    <2> HIDE DEF copies
    <2>1. QED
      BY <1>0, <1>2, <1>3, FreshFacts
  <1>7. \A d \in Rows : ~FirstUse(hypo, d) => copies[d] = Len(tables[s][hypo[d]])
    BY DEF Copies
  <1> HIDE DEF copies, taken, left
  <1>8. \A d \in Rows : /\ moved[d] \in Seq(Pages) /\ Len(moved[d]) = Len(tables[s][hypo[d]])
                        /\ IsInjective(moved[d]) /\ DOMAIN moved[d] = 1..Len(moved[d])
    <2> SUFFICES ASSUME NEW d \in Rows
                 PROVE  /\ moved[d] \in Seq(Pages) /\ Len(moved[d]) = Len(tables[s][hypo[d]])
                        /\ IsInjective(moved[d]) /\ DOMAIN moved[d] = 1..Len(moved[d])
      OBVIOUS
    <2>1. CASE FirstUse(hypo, d)
      BY <1>1, <1>5, <2>1
    <2>2. CASE ~FirstUse(hypo, d)
      BY <1>5, <1>6, <1>7, <2>2
    <2>3. QED
      BY <2>1, <2>2
  <1>9. \A d, e \in Rows : d # e /\ FirstUse(hypo, d) /\ FirstUse(hypo, e) => hypo[d] # hypo[e]
    <2>1. \A d, e \in Rows : d < e /\ FirstUse(hypo, e) => hypo[d] # hypo[e]
      <3>1. \A d, e \in Rows : d < e => d \in 1..(e - 1)
        BY <1>0 DEF Rows
      <3>2. QED
        BY <3>1 DEF FirstUse
    <2>2. \A d, e \in Rows : d # e => d < e \/ e < d
      BY <1>0
    <2>3. QED
      BY <2>1, <2>2
  <1>10. \A d \in Rows : FirstUse(hypo, d) => Range(moved[d]) = Range(tables[s][hypo[d]])
    BY <1>5
  <1>11. \A d \in Rows : ~FirstUse(hypo, d) => Range(moved[d]) = Range(Fresh(copies)[d]) /\ Range(moved[d]) \subseteq taken
    BY <1>5, <1>6
  <1>12. \A d, e \in Rows : d # e => Range(moved[d]) \cap Range(moved[e]) = {}
    <2> SUFFICES ASSUME NEW d \in Rows, NEW e \in Rows, d # e PROVE Range(moved[d]) \cap Range(moved[e]) = {}
      OBVIOUS
    <2>1. CASE FirstUse(hypo, d) /\ FirstUse(hypo, e)
      <3>1. hypo[d] \in Rows /\ hypo[e] \in Rows /\ hypo[d] # hypo[e]
        BY <1>9, <2>1
      <3>2. Range(tables[s][hypo[d]]) \cap Range(tables[s][hypo[e]]) = {}
        BY <3>1, RowsApart
      <3>3. QED
        BY <1>10, <2>1, <3>2
    <2>2. CASE FirstUse(hypo, d) /\ ~FirstUse(hypo, e)
      BY <1>1, <1>6, <1>10, <1>11, <2>2
    <2>3. CASE ~FirstUse(hypo, d) /\ FirstUse(hypo, e)
      BY <1>1, <1>6, <1>10, <1>11, <2>3
    <2>4. CASE ~FirstUse(hypo, d) /\ ~FirstUse(hypo, e)
      BY <1>6, <1>11, <2>4
    <2>5. QED
      BY <2>1, <2>2, <2>3, <2>4
  <1>13. \A d \in Rows : Range(moved[d]) \cap freePages' = {} /\ Range(moved[d]) \subseteq PagesOf(tables[s]) \cup freePages
    <2> SUFFICES ASSUME NEW d \in Rows
                 PROVE  Range(moved[d]) \cap freePages' = {} /\ Range(moved[d]) \subseteq PagesOf(tables[s]) \cup freePages
      OBVIOUS
    <2>1. CASE FirstUse(hypo, d)
      <3>1. \A r \in Unused(hypo) : r \in Rows /\ r # hypo[d]
        BY DEF Unused
      <3>2. \A r \in Unused(hypo) : Range(tables[s][hypo[d]]) \cap Range(tables[s][r]) = {}
        BY <3>1, RowsApart
      <3>3. Range(tables[s][hypo[d]]) \cap left = {}
        BY <3>2 DEF left
      <3>4. QED
        BY <1>1, <1>3, <1>10, <2>1, <3>3
    <2>2. CASE ~FirstUse(hypo, d)
      <3>1. left \cap freePages = {}
        BY <1>1 DEF left, Unused
      <3>2. QED
        BY <1>3, <1>6, <1>11, <2>2, <3>1
    <2>3. QED
      BY <2>1, <2>2
  <1>14. moved \in [Rows -> Seq(Pages)]
    BY <1>8 DEF moved, Reordered
  <1>15. freePages' \subseteq freePages \cup PagesOf(tables[s])
    BY <1>3 DEF left, Unused, PagesOf
  <1>16. NoSharing'
    BY <1>3, <1>8, <1>12, <1>13, <1>14, <1>15, SharingKept
  <1>17. PoolTypes'
    <2>1. PagesOf(tables[s]) \subseteq Pages
      <3>1. \A r \in Rows : Range(tables[s][r]) \subseteq Pages
        BY <1>1 DEF Range
      <3>2. QED
        BY <3>1 DEF PagesOf
    <2>2. [d \in Rows |-> hist[s][hypo[d]]] \in [Rows -> Seq(Tokens)]
      BY DEF PoolTypes
    <2>3. QED
      BY <1>0, <1>3, <1>14, <1>15, <2>1, <2>2 DEF PoolTypes
  <1>18. /\ \A d \in Rows : hist'[s][d] = hist[s][hypo[d]]
         /\ \A u \in Slots \ {s} : hist'[u] = hist[u]
    BY <1>3 DEF PoolTypes
  <1>19. RowsFit'
    <2> SUFFICES ASSUME NEW u \in Slots, NEW r \in Rows
                 PROVE  /\ Len(hist'[u][r]) = Len(hist'[u][1]) /\ Len(hist'[u][r]) <= MaxRow
                        /\ \A i \in 1..Len(hist'[u][r]) : PageOf(i) \in 1..Len(tables'[u][r])
      BY DEF RowsFit
    <2>1. CASE u = s
      <3>1. hypo[r] \in Rows /\ hypo[1] \in Rows
        BY <1>0
      <3>2. /\ Len(hist[s][hypo[r]]) = Len(hist[s][1]) /\ Len(hist[s][hypo[1]]) = Len(hist[s][1])
            /\ Len(hist[s][hypo[r]]) <= MaxRow
            /\ \A i \in 1..Len(hist[s][hypo[r]]) : PageOf(i) \in 1..Len(tables[s][hypo[r]])
        BY <3>1 DEF RowsFit
      <3>3. QED
        BY <1>0, <1>4, <1>8, <1>18, <2>1, <3>2
    <2>2. CASE u # s
      BY <1>4, <1>18, <2>2 DEF RowsFit
    <2>3. QED
      BY <2>1, <2>2
  <1> DEFINE Into(p) == {x \in Rows \X (1..MaxPages) :
                           /\ ~FirstUse(hypo, x[1]) /\ x[2] <= Len(tables'[s][x[1]])
                           /\ tables'[s][x[1]][x[2]] = p}
  <1>20. \A p \in Pages :
           content'[p] = IF Into(p) = {} THEN content[p]
                         ELSE LET x == CHOOSE x \in Into(p) : TRUE IN content[tables[s][hypo[x[1]]][x[2]]]
    BY DEF Reorder
  <1>21. \A p \in Pages : \A x \in Into(p) :
           /\ x[1] \in Rows /\ ~FirstUse(hypo, x[1]) /\ x[2] \in 1..Len(moved[x[1]]) /\ x = <<x[1], x[2]>>
           /\ moved[x[1]][x[2]] = p /\ p \in Range(moved[x[1]])
    <2> SUFFICES ASSUME NEW p \in Pages, NEW x \in Into(p)
                 PROVE  /\ x[1] \in Rows /\ ~FirstUse(hypo, x[1]) /\ x[2] \in 1..Len(moved[x[1]])
                        /\ x = <<x[1], x[2]>> /\ moved[x[1]][x[2]] = p /\ p \in Range(moved[x[1]])
      OBVIOUS
    <2>1. /\ x \in Rows \X (1..MaxPages) /\ ~FirstUse(hypo, x[1]) /\ x[2] <= Len(moved[x[1]])
          /\ moved[x[1]][x[2]] = p
      BY <1>4
    <2>2. x[1] \in Rows /\ x[2] \in 1..Len(moved[x[1]]) /\ x = <<x[1], x[2]>>
      <3>1. x[1] \in Rows /\ x[2] \in 1..MaxPages /\ x = <<x[1], x[2]>>
        BY <2>1
      <3>2. x[2] \in Nat \ {0}
        BY <3>1
      <3>3. Len(moved[x[1]]) \in Nat
        BY <1>8, <3>1
      <3>4. QED
        BY <2>1, <3>1, <3>2, <3>3
    <2>3. p \in Range(moved[x[1]])
      BY <1>8, <2>1, <2>2 DEF Range
    <2>4. QED
      BY <2>1, <2>2, <2>3
  <1>22. \A p \in Pages : p \notin freePages => content'[p] = content[p]
    <2> SUFFICES ASSUME NEW p \in Pages, p \notin freePages PROVE content'[p] = content[p]
      OBVIOUS
    <2> HIDE DEF Into
    <2>1. ASSUME NEW x \in Into(p) PROVE FALSE
      <3>1. x[1] \in Rows /\ ~FirstUse(hypo, x[1]) /\ p \in Range(moved[x[1]])
        BY <1>21
      <3>2. QED
        BY <1>6, <1>11, <3>1
    <2>2. QED
      BY <1>20, <2>1
  <1>23. \A d \in Rows, k \in 1..MaxPages :
           ~FirstUse(hypo, d) /\ k \in 1..Len(moved[d]) => content'[moved[d][k]] = content[tables[s][hypo[d]][k]]
    <2> SUFFICES ASSUME NEW d \in Rows, NEW k \in 1..MaxPages, ~FirstUse(hypo, d), k \in 1..Len(moved[d])
                 PROVE  content'[moved[d][k]] = content[tables[s][hypo[d]][k]]
      OBVIOUS
    <2> DEFINE p == moved[d][k]
    <2>1. p \in Pages /\ p \in Range(moved[d])
      BY <1>8 DEF Range
    <2>2. <<d, k>> \in Into(p)
      <3>1. Len(moved[d]) \in Nat
        BY <1>8
      <3>2. k <= Len(moved[d])
        BY <3>1
      <3>3. QED
        BY <1>4, <3>2
    <2> HIDE DEF Into, p
    <2>3. \A x \in Into(p) : x = <<d, k>>
      <3> SUFFICES ASSUME NEW x \in Into(p) PROVE x = <<d, k>>
        OBVIOUS
      <3>1. /\ x[1] \in Rows /\ x[2] \in 1..Len(moved[x[1]]) /\ x = <<x[1], x[2]>>
            /\ moved[x[1]][x[2]] = p /\ p \in Range(moved[x[1]])
        BY <1>21, <2>1
      <3>2. x[1] = d
        BY <1>12, <2>1, <3>1
      <3>3. x[2] = k
        BY <1>8, <3>1, <3>2 DEF IsInjective, p
      <3>4. QED
        BY <3>1, <3>2, <3>3
    <2> DEFINE y == CHOOSE x \in Into(p) : TRUE
    <2>4. y[1] = d /\ y[2] = k
      BY <2>2, <2>3
    <2>5. content'[p] = content[tables[s][hypo[y[1]]][y[2]]]
      BY <1>20, <2>1, <2>2
    <2> HIDE DEF y
    <2>6. content'[p] = content[tables[s][hypo[d]][k]]
      BY <2>4, <2>5
    <2>7. QED
      BY <2>6 DEF p
  <1> HIDE DEF Into
  <1>24. \A u \in Slots, r \in Rows : \A i \in 1..Len(hist[u][r]) :
           /\ PageOf(i) \in 1..Len(tables[u][r]) /\ PageOf(i) \in 1..MaxPages
           /\ tables[u][r][PageOf(i)] \in Pages /\ tables[u][r][PageOf(i)] \notin freePages
    <2> SUFFICES ASSUME NEW u \in Slots, NEW r \in Rows, NEW i \in 1..Len(hist[u][r])
                 PROVE  /\ PageOf(i) \in 1..Len(tables[u][r]) /\ PageOf(i) \in 1..MaxPages
                        /\ tables[u][r][PageOf(i)] \in Pages /\ tables[u][r][PageOf(i)] \notin freePages
      OBVIOUS
    <2>1. PageOf(i) \in 1..Len(tables[u][r]) /\ tables[u][r] \in Seq(Pages)
      BY DEF RowsFit, PoolTypes
    <2>2. tables[u][r][PageOf(i)] \in Pages /\ tables[u][r][PageOf(i)] \notin freePages
      <3>1. DOMAIN tables[u][r] = 1..Len(tables[u][r])
        BY <2>1
      <3>2. tables[u][r][PageOf(i)] \in Range(tables[u][r])
        BY <2>1, <3>1 DEF Range
      <3>3. QED
        BY <2>1, <3>2 DEF NoSharing
    <2>3. PageOf(i) \in 1..MaxPages
      <3>1. Len(hist[u][r]) \in Nat /\ Len(hist[u][r]) <= MaxRow
        BY DEF PoolTypes, RowsFit
      <3>2. i \in 1..MaxRow
        BY <1>0, <3>1
      <3>3. QED
        BY <1>0, <3>2, PageFacts DEF MaxPages
    <2>4. QED
      BY <2>1, <2>2, <2>3
  <1>25. TokensKept'
    <2> SUFFICES ASSUME NEW u \in Slots, NEW r \in Rows, NEW i \in 1..Len(hist'[u][r])
                 PROVE  content'[tables'[u][r][PageOf(i)]][OffsetOf(i)] = hist'[u][r][i]
      BY DEF TokensKept, PageOf, OffsetOf
    <2>1. CASE u # s
      <3>1. /\ i \in 1..Len(hist[u][r]) /\ hist'[u] = hist[u] /\ tables'[u] = tables[u]
        BY <1>4, <1>18, <2>1
      <3>2. content'[tables[u][r][PageOf(i)]] = content[tables[u][r][PageOf(i)]]
        BY <1>22, <1>24, <3>1
      <3>3. content[tables[u][r][PageOf(i)]][OffsetOf(i)] = hist[u][r][i]
        BY <3>1 DEF TokensKept
      <3>4. QED
        BY <3>1, <3>2, <3>3
    <2>2. CASE u = s
      <3>1. hypo[r] \in Rows /\ i \in 1..Len(hist[s][hypo[r]]) /\ hist'[s][r] = hist[s][hypo[r]] /\ tables'[s][r] = moved[r]
        BY <1>4, <1>18, <2>2
      <3>2. /\ PageOf(i) \in 1..Len(tables[s][hypo[r]]) /\ PageOf(i) \in 1..MaxPages
            /\ tables[s][hypo[r]][PageOf(i)] \in Pages /\ tables[s][hypo[r]][PageOf(i)] \notin freePages
        BY <1>24, <3>1
      <3>3. content[tables[s][hypo[r]][PageOf(i)]][OffsetOf(i)] = hist[s][hypo[r]][i]
        BY <3>1 DEF TokensKept
      <3>4. content'[moved[r][PageOf(i)]] = content[tables[s][hypo[r]][PageOf(i)]]
        <4>1. CASE FirstUse(hypo, r)
          BY <1>5, <1>22, <3>2, <4>1
        <4>2. CASE ~FirstUse(hypo, r)
          BY <1>8, <1>23, <3>2, <4>2
        <4>3. QED
          BY <4>1, <4>2
      <3>5. QED
        BY <2>2, <3>1, <3>3, <3>4
    <2>3. QED
      BY <2>1, <2>2
  <1>26. QED
    BY <1>16, <1>17, <1>19, <1>25
-----------------------------------------------------------------------------
\* Registering a slot gives it no pages, and freeing it gives all of them back.
LEMMA SlotKept ==
  ASSUME PoolInv, NEW s \in Slots, RegisterSlot(s) \/ FreeSlot(s)
  PROVE  PoolInv'
  <1> USE DEF PoolInv
  <1>1. /\ tables' = [tables EXCEPT ![s] = NoRows] /\ hist' = [hist EXCEPT ![s] = NoRows]
        /\ content' = content
    BY DEF RegisterSlot, FreeSlot
  <1>2. /\ freePages \subseteq freePages' /\ freePages' \subseteq freePages \cup PagesOf(tables[s])
        /\ DOMAIN status' = Slots
    BY DEF RegisterSlot, FreeSlot, PoolTypes
  <1>3. /\ NoRows \in [Rows -> Seq(Pages)] /\ NoRows \in [Rows -> Seq(Tokens)]
        /\ \A r \in Rows : NoRows[r] = <<>> /\ Range(NoRows[r]) = {} /\ IsInjective(NoRows[r]) /\ Len(NoRows[r]) = 0
    BY DEF NoRows, Range, IsInjective
  <1>4. /\ tables'[s] = NoRows /\ \A u \in Slots \ {s} : tables'[u] = tables[u]
        /\ hist'[s] = NoRows /\ \A u \in Slots \ {s} : hist'[u] = hist[u]
    BY <1>1 DEF PoolTypes
  <1>5. NoSharing'
    <2> DEFINE new == NoRows
    <2>1. \A r \in Rows : /\ IsInjective(new[r]) /\ Range(new[r]) \cap freePages' = {}
                          /\ Range(new[r]) \subseteq PagesOf(tables[s]) \cup freePages
      BY <1>3
    <2>2. \A r, q \in Rows : r # q => Range(new[r]) \cap Range(new[q]) = {}
      BY <1>3
    <2>3. freePages' \subseteq freePages \cup PagesOf(tables[s])
      BY <1>2
    <2>4. new \in [Rows -> Seq(Pages)] /\ tables' = [tables EXCEPT ![s] = new]
      BY <1>1, <1>3
    <2> HIDE DEF new
    <2>5. QED
      BY <2>1, <2>2, <2>3, <2>4, SharingKept
  <1>6. PoolTypes'
    <2>1. PagesOf(tables[s]) \subseteq Pages
      <3>1. \A r \in Rows : Range(tables[s][r]) \subseteq Pages
        BY DEF Range, PoolTypes
      <3>2. QED
        BY <3>1 DEF PagesOf
    <2>2. freePages' \subseteq Pages
      BY <1>2, <2>1 DEF PoolTypes
    <2>3. QED
      BY <1>1, <1>2, <1>3, <2>2 DEF PoolTypes
  <1>7. 1 \in Rows /\ MaxRow \in Nat
    BY PoolAssumption DEF Rows
  <1>8. RowsFit'
    <2> SUFFICES ASSUME NEW u \in Slots, NEW r \in Rows
                 PROVE  /\ Len(hist'[u][r]) = Len(hist'[u][1]) /\ Len(hist'[u][r]) <= MaxRow
                        /\ \A i \in 1..Len(hist'[u][r]) : PageOf(i) \in 1..Len(tables'[u][r])
      BY DEF RowsFit
    <2>1. CASE u = s
      BY <1>3, <1>4, <1>7, <2>1
    <2>2. CASE u # s
      BY <1>4, <2>2 DEF RowsFit
    <2>3. QED
      BY <2>1, <2>2
  <1>9. TokensKept'
    <2> SUFFICES ASSUME NEW u \in Slots, NEW r \in Rows, NEW i \in 1..Len(hist'[u][r])
                 PROVE  content'[tables'[u][r][PageOf(i)]][OffsetOf(i)] = hist'[u][r][i]
      BY DEF TokensKept, PageOf, OffsetOf
    <2>1. CASE u = s
      BY <1>3, <1>4, <2>1
    <2>2. CASE u # s
      BY <1>1, <1>4, <2>2 DEF TokensKept
    <2>3. QED
      BY <2>1, <2>2
  <1>10. QED
    BY <1>5, <1>6, <1>8, <1>9

\* A reorder that runs out of pages loses the free ones and touches nothing else.
LEMMA ReorderFailsKept ==
  ASSUME PoolInv, NEW s \in Slots, NEW hypo \in [Rows -> Rows], ReorderFails(s, hypo)
  PROVE  PoolInv'
  <1>1. freePages' = {} /\ UNCHANGED <<tables, status, content, hist>>
    BY DEF ReorderFails
  <1>2. PoolTypes'
    BY <1>1 DEF PoolInv, PoolTypes
  <1>3. NoSharing'
    BY <1>1 DEF PoolInv, NoSharing
  <1>4. RowsFit'
    BY <1>1 DEF PoolInv, RowsFit
  <1>5. TokensKept'
    BY <1>1 DEF PoolInv, TokensKept
  <1>6. QED
    BY <1>2, <1>3, <1>4, <1>5 DEF PoolInv

LEMMA PoolUnchanged ==
  ASSUME PoolInv, UNCHANGED poolVars
  PROVE  PoolInv'
  <1>1. UNCHANGED <<freePages, tables, status, content, hist>>
    BY DEF poolVars
  <1>2. PoolTypes'
    BY <1>1 DEF PoolInv, PoolTypes
  <1>3. NoSharing'
    BY <1>1 DEF PoolInv, NoSharing
  <1>4. RowsFit'
    BY <1>1 DEF PoolInv, RowsFit
  <1>5. TokensKept'
    BY <1>1 DEF PoolInv, TokensKept
  <1>6. QED
    BY <1>2, <1>3, <1>4, <1>5 DEF PoolInv

\* A step stores, in each row, some of the row's tokens and as many new ones.
Extends(s, prefix, n, new) ==
  /\ prefix <= n
  /\ \A r \in Rows : /\ Len(new[r]) = n /\ prefix <= Len(hist[s][r])
                     /\ \A i \in 1..prefix : new[r][i] = hist[s][r][i]
  /\ Scatter(s, prefix, new)

LEMMA StepScatters ==
  ASSUME PoolInv, NEW s \in Slots, PoolStep(s)
  PROVE  \E prefix \in Nat, n \in 0..MaxRow, new \in [Rows -> Seq(Tokens)] : Extends(s, prefix, n, new)
  <1>1. PICK prefix \in 0..Len(hist[s][1]), k \in 1..MaxRow, v \in Versions :
          /\ prefix + k <= MaxRow
          /\ Scatter(s, prefix, [r \in Rows |-> SubSeq(hist[s][r], 1, prefix) \o [i \in 1..k |-> <<r, v>>]])
    BY DEF PoolStep
  <1> DEFINE new == [r \in Rows |-> SubSeq(hist[s][r], 1, prefix) \o [i \in 1..k |-> <<r, v>>]]
             n == prefix + k
  <1>2. 1 \in Rows /\ MaxRow \in Nat
    BY PoolAssumption DEF Rows
  <1>3. prefix \in Nat /\ n \in 0..MaxRow /\ prefix <= n
    BY <1>1, <1>2 DEF PoolInv, PoolTypes
  <1>4. ASSUME NEW r \in Rows
        PROVE  /\ new[r] \in Seq(Tokens) /\ Len(new[r]) = n /\ prefix <= Len(hist[s][r])
               /\ \A i \in 1..prefix : new[r][i] = hist[s][r][i]
    <2> DEFINE old == hist[s][r]
               more == [i \in 1..k |-> <<r, v>>]
    <2>1. old \in Seq(Tokens) /\ Len(old) = Len(hist[s][1]) /\ prefix <= Len(old) /\ Len(old) \in Nat
      BY <1>1, <1>2 DEF PoolInv, PoolTypes, RowsFit
    <2>2. more \in Seq(Tokens) /\ Len(more) = k
      <3>1. <<r, v>> \in Tokens /\ k \in Nat
        BY DEF Tokens
      <3>2. QED
        BY <3>1
    <2>3. new[r] = SubSeq(old, 1, prefix) \o more
      OBVIOUS
    <2> HIDE DEF old, more, new
    <2>4. /\ SubSeq(old, 1, prefix) \in Seq(Tokens) /\ Len(SubSeq(old, 1, prefix)) = prefix
          /\ \A i \in 1..prefix : SubSeq(old, 1, prefix)[i] = old[i]
      BY <1>3, <2>1
    <2> DEFINE kept == SubSeq(old, 1, prefix)
    <2>5. kept \in Seq(Tokens) /\ Len(kept) = prefix /\ \A i \in 1..prefix : kept[i] = old[i]
      BY <2>4
    <2>6. new[r] = kept \o more
      BY <2>3
    <2> HIDE DEF kept
    <2>7. kept \o more \in Seq(Tokens) /\ Len(kept \o more) = prefix + k /\ \A i \in 1..prefix : (kept \o more)[i] = old[i]
      BY <1>3, <2>2, <2>5
    <2>8. QED
      BY <2>1, <2>6, <2>7 DEF old
  <1>5. new \in [Rows -> Seq(Tokens)]
    BY <1>4
  <1>6. Scatter(s, prefix, new)
    BY <1>1
  <1> HIDE DEF new, n
  <1>7. Extends(s, prefix, n, new)
    BY <1>3, <1>4, <1>6 DEF Extends
  <1>8. QED
    BY <1>3, <1>5, <1>7

LEMMA PoolStepKept ==
  ASSUME PoolInv, NEW s \in Slots, PoolStep(s)
  PROVE  PoolInv'
  <1>1. PICK prefix \in Nat, n \in 0..MaxRow, new \in [Rows -> Seq(Tokens)] : Extends(s, prefix, n, new)
    BY StepScatters
  <1>2. QED
    BY <1>1, ScatterKept DEF Extends
-----------------------------------------------------------------------------
\* Every step keeps what the pool's invariant says.
LEMMA PoolInvKept ==
  ASSUME PoolInv, PipeTypes, JobKnown, [PagedNext]_pagedVars
  PROVE  PoolInv'
  <1>1. CASE UNCHANGED poolVars
    BY <1>1, PoolUnchanged
  <1>2. CASE Drain
    <2>1. \E s \in Slots : RegisterSlot(s) \/ FreeSlot(s)
      <3>1. Head(pagedPipe)[2] \in Slots
        BY <1>2 DEF Drain, PipeTypes
      <3>2. QED
        BY <1>2, <3>1 DEF Drain
    <2>2. QED
      BY <2>1, SlotKept
  <1>3. CASE Permute
    <2>1. pagedJob \in Slots /\ \E hypo \in [Rows -> Rows] : Reorder(pagedJob, hypo)
      BY <1>3 DEF Permute, Drained, JobKnown
    <2>2. QED
      BY <2>1, ReorderKept
  <1>4. CASE PermuteFails
    <2>1. pagedJob \in Slots /\ \E hypo \in [Rows -> Rows] : ReorderFails(pagedJob, hypo)
      BY <1>4 DEF PermuteFails, Drained, JobKnown
    <2>2. QED
      BY <2>1, ReorderFailsKept
  <1>5. CASE Forward
    <2>1. pagedJob \in Slots /\ PoolStep(pagedJob)
      BY <1>5 DEF Forward, Drained, JobKnown
    <2>2. QED
      BY <2>1, PoolStepKept
  <1>6. QED
    <2>1. [PagedNext]_pagedVars => UNCHANGED poolVars \/ Drain \/ Permute \/ PermuteFails \/ Forward
      BY DEF PagedNext, pagedVars, AdmitSlot, Refuse, Block, Wait, Clear, CloseSlot, TakePagedJob,
             SlotGone, FinishStep
    <2>2. QED
      BY <1>1, <1>2, <1>3, <1>4, <1>5, <2>1

\* The pipe after a message is sent, and after one is drained.
LEMMA PipeGrows ==
  ASSUME PipeTypes, NEW m \in {"register", "free"} \X Slots, pagedPipe' = Append(pagedPipe, m)
  PROVE  /\ pagedPipe' \in Seq({"register", "free"} \X Slots)
         /\ \A x : InPipe(x)' <=> InPipe(x) \/ x = m
         /\ PipeOrdered /\ ~InPipe(m) /\ (m[1] = "register" => ~InPipe(<<"free", m[2]>>)) => PipeOrdered'
  <1> DEFINE n == Len(pagedPipe)
  <1>1. /\ n \in Nat /\ Len(pagedPipe') = n + 1 /\ pagedPipe'[n + 1] = m
        /\ \A i \in 1..n : pagedPipe'[i] = pagedPipe[i]
        /\ pagedPipe' \in Seq({"register", "free"} \X Slots)
    BY DEF PipeTypes
  <1>2. \A i \in 1..(n + 1) : i \in 1..n \/ i = n + 1
    BY <1>1
  <1>3. n + 1 \in 1..(n + 1) /\ \A i \in 1..n : i \in 1..(n + 1) /\ i < n + 1
    BY <1>1
  <1>4. ASSUME NEW x PROVE InPipe(x)' <=> InPipe(x) \/ x = m
    BY <1>1, <1>2, <1>3 DEF InPipe
  <1>5. ASSUME PipeOrdered, ~InPipe(m), m[1] = "register" => ~InPipe(<<"free", m[2]>>) PROVE PipeOrdered'
    <2> SUFFICES ASSUME NEW i \in 1..(n + 1), NEW j \in 1..(n + 1)
                 PROVE  /\ pagedPipe'[i] = pagedPipe'[j] => i = j
                        /\ pagedPipe'[i][1] = "register" /\ pagedPipe'[j] = <<"free", pagedPipe'[i][2]>> => i < j
      BY <1>1 DEF PipeOrdered
    <2>1. CASE i \in 1..n /\ j \in 1..n
      BY <1>1, <1>5, <2>1 DEF PipeOrdered
    <2>2. CASE i \in 1..n /\ j = n + 1
      BY <1>1, <1>3, <1>5, <2>2 DEF InPipe
    <2>3. CASE i = n + 1 /\ j \in 1..n
      BY <1>1, <1>5, <2>3 DEF InPipe
    <2>4. CASE i = n + 1 /\ j = n + 1
      <3>1. m # <<"free", m[2]>> \/ m[1] # "register"
        OBVIOUS
      <3>2. QED
        BY <1>1, <2>4, <3>1
    <2>5. QED
      BY <1>2, <2>1, <2>2, <2>3, <2>4
  <1>6. QED
    BY <1>1, <1>4, <1>5

LEMMA PipeShrinks ==
  ASSUME PipeTypes, PipeOrdered, pagedPipe # <<>>, pagedPipe' = Tail(pagedPipe)
  PROVE  /\ pagedPipe' \in Seq({"register", "free"} \X Slots)
         /\ Head(pagedPipe) \in {"register", "free"} \X Slots /\ InPipe(Head(pagedPipe))
         /\ \A x : InPipe(x)' <=> InPipe(x) /\ x # Head(pagedPipe)
         /\ PipeOrdered'
         /\ \A s \in Slots : Head(pagedPipe) = <<"free", s>> => ~InPipe(<<"register", s>>)
  <1> DEFINE n == Len(pagedPipe)
  <1>1. /\ n \in Nat \ {0} /\ Len(pagedPipe') = n - 1 /\ Head(pagedPipe) = pagedPipe[1]
        /\ \A i \in 1..(n - 1) : pagedPipe'[i] = pagedPipe[i + 1]
        /\ pagedPipe' \in Seq({"register", "free"} \X Slots)
        /\ Head(pagedPipe) \in {"register", "free"} \X Slots
    BY DEF PipeTypes
  <1>2. /\ 1 \in 1..n
        /\ \A i \in 1..(n - 1) : i + 1 \in 1..n /\ i + 1 # 1
        /\ \A i \in 1..n : i = 1 \/ (i - 1 \in 1..(n - 1) /\ (i - 1) + 1 = i)
        /\ \A i, j \in 1..(n - 1) : (i + 1 = j + 1 => i = j) /\ (i + 1 < j + 1 => i < j)
    BY <1>1
  <1>3. ASSUME NEW x PROVE InPipe(x)' <=> InPipe(x) /\ x # Head(pagedPipe)
    <2>1. ASSUME NEW i \in 1..(n - 1), pagedPipe'[i] = x PROVE InPipe(x) /\ x # Head(pagedPipe)
      <3>1. pagedPipe[i + 1] = x /\ i + 1 \in 1..n /\ i + 1 # 1
        BY <1>1, <1>2, <2>1
      <3>2. QED
        BY <1>1, <1>2, <3>1 DEF InPipe, PipeOrdered
    <2>2. ASSUME NEW i \in 1..n, pagedPipe[i] = x, x # Head(pagedPipe) PROVE \E k \in 1..(n - 1) : pagedPipe'[k] = x
      <3>1. i # 1
        BY <1>1, <2>2
      <3>2. i - 1 \in 1..(n - 1) /\ (i - 1) + 1 = i
        BY <1>2, <3>1
      <3>3. pagedPipe'[i - 1] = x
        BY <1>1, <2>2, <3>2
      <3>4. QED
        BY <3>2, <3>3
    <2>3. QED
      BY <1>1, <2>1, <2>2 DEF InPipe
  <1>4. PipeOrdered'
    <2> SUFFICES ASSUME NEW i \in 1..(n - 1), NEW j \in 1..(n - 1)
                 PROVE  /\ pagedPipe'[i] = pagedPipe'[j] => i = j
                        /\ pagedPipe'[i][1] = "register" /\ pagedPipe'[j] = <<"free", pagedPipe'[i][2]>> => i < j
      BY <1>1 DEF PipeOrdered
    <2>1. pagedPipe'[i] = pagedPipe[i + 1] /\ pagedPipe'[j] = pagedPipe[j + 1]
      BY <1>1
    <2>2. /\ pagedPipe[i + 1] = pagedPipe[j + 1] => i + 1 = j + 1
          /\ pagedPipe[i + 1][1] = "register" /\ pagedPipe[j + 1] = <<"free", pagedPipe[i + 1][2]>> => i + 1 < j + 1
      BY <1>2 DEF PipeOrdered
    <2>3. QED
      BY <1>2, <2>1, <2>2
  <1>5. ASSUME NEW s \in Slots, Head(pagedPipe) = <<"free", s>>, InPipe(<<"register", s>>) PROVE FALSE
    <2>1. PICK i \in 1..n : pagedPipe[i] = <<"register", s>>
      BY <1>5 DEF InPipe
    <2>2. pagedPipe[i][1] = "register" /\ pagedPipe[1] = <<"free", pagedPipe[i][2]>>
      BY <1>1, <1>5, <2>1
    <2>3. i < 1
      BY <1>2, <2>2 DEF PipeOrdered
    <2>4. QED
      BY <1>1, <2>3
  <1>6. InPipe(Head(pagedPipe))
    BY <1>1, <1>2 DEF InPipe
  <1>7. QED
    BY <1>1, <1>3, <1>4, <1>5, <1>6

LEMMA PipeInvKept ==
  ASSUME PipeInv, [PagedNext]_pagedVars
  PROVE  PipeInv'
  <1> USE DEF PipeInv
  <1>1. ASSUME NEW s \in Slots, AdmitSlot(s) PROVE PipeInv'
    <2> DEFINE m == <<"register", s>>
    <2>1. /\ pagedPc[s] \notin Joined /\ pagedPipe' = Append(pagedPipe, m)
          /\ pagedPc' = [pagedPc EXCEPT ![s] = "open"] /\ status' = status
      BY <1>1 DEF AdmitSlot, PagedGoto, Joined, poolVars
    <2>2. m \in {"register", "free"} \X Slots /\ ~InPipe(m) /\ ~InPipe(<<"free", s>>) /\ status[s] = "new"
      BY <2>1 DEF PipeExact, Joined
    <2>3. /\ pagedPipe' \in Seq({"register", "free"} \X Slots)
          /\ \A x : InPipe(x)' <=> InPipe(x) \/ x = m
          /\ PipeOrdered'
      BY <2>1, <2>2, PipeGrows
    <2>4. PipeTypes'
      BY <2>1, <2>3 DEF PipeTypes
    <2>5. PipeExact'
      <3>1. pagedPc'[s] = "open" /\ \A u \in Slots \ {s} : pagedPc'[u] = pagedPc[u]
        BY <2>1 DEF PipeTypes
      <3>2. /\ \A u \in Slots : InPipe(<<"free", u>>)' <=> InPipe(<<"free", u>>)
            /\ \A u \in Slots \ {s} : InPipe(<<"register", u>>)' <=> InPipe(<<"register", u>>)
            /\ InPipe(<<"register", s>>)'
        BY <2>3
      <3> SUFFICES ASSUME NEW u \in Slots
                   PROVE  /\ InPipe(<<"register", u>>)' <=> pagedPc'[u] \in Joined /\ status'[u] = "new"
                          /\ InPipe(<<"free", u>>)' <=> pagedPc'[u] = "closed" /\ status'[u] # "freed"
                          /\ pagedPc'[u] \notin Joined => status'[u] = "new"
                          /\ pagedPc'[u] = "open" => status'[u] # "freed"
                          /\ status'[u] \in {"new", "live", "freed"}
        BY DEF PipeExact, InPipe
      <3>3. CASE u = s
        BY <2>1, <2>2, <3>1, <3>2, <3>3 DEF PipeExact, Joined
      <3>4. CASE u # s
        BY <2>1, <3>1, <3>2, <3>4 DEF PipeExact
      <3>5. QED
        BY <3>3, <3>4
    <2>6. QED
      BY <2>3, <2>4, <2>5
  <1>2. ASSUME NEW s \in Slots, CloseSlot(s) PROVE PipeInv'
    <2> DEFINE m == <<"free", s>>
    <2>1. /\ pagedPc[s] = "open" /\ pagedPipe' = Append(pagedPipe, m)
          /\ pagedPc' = [pagedPc EXCEPT ![s] = "closed"] /\ status' = status
      BY <1>2 DEF CloseSlot, PagedGoto, poolVars
    <2>2. m \in {"register", "free"} \X Slots /\ ~InPipe(m) /\ status[s] # "freed"
      BY <2>1 DEF PipeExact, Joined
    <2>3. /\ pagedPipe' \in Seq({"register", "free"} \X Slots)
          /\ \A x : InPipe(x)' <=> InPipe(x) \/ x = m
          /\ PipeOrdered'
      BY <2>1, <2>2, PipeGrows
    <2>4. PipeTypes'
      BY <2>1, <2>3 DEF PipeTypes
    <2>5. PipeExact'
      <3>1. pagedPc'[s] = "closed" /\ \A u \in Slots \ {s} : pagedPc'[u] = pagedPc[u]
        BY <2>1 DEF PipeTypes
      <3>2. /\ \A u \in Slots : InPipe(<<"register", u>>)' <=> InPipe(<<"register", u>>)
            /\ \A u \in Slots \ {s} : InPipe(<<"free", u>>)' <=> InPipe(<<"free", u>>)
            /\ InPipe(<<"free", s>>)'
        BY <2>3
      <3> SUFFICES ASSUME NEW u \in Slots
                   PROVE  /\ InPipe(<<"register", u>>)' <=> pagedPc'[u] \in Joined /\ status'[u] = "new"
                          /\ InPipe(<<"free", u>>)' <=> pagedPc'[u] = "closed" /\ status'[u] # "freed"
                          /\ pagedPc'[u] \notin Joined => status'[u] = "new"
                          /\ pagedPc'[u] = "open" => status'[u] # "freed"
                          /\ status'[u] \in {"new", "live", "freed"}
        BY DEF PipeExact, InPipe
      <3>3. CASE u = s
        BY <2>1, <2>2, <3>1, <3>2, <3>3 DEF PipeExact, Joined
      <3>4. CASE u # s
        BY <2>1, <3>1, <3>2, <3>4 DEF PipeExact
      <3>5. QED
        BY <3>3, <3>4
    <2>6. QED
      BY <2>3, <2>4, <2>5
  <1>3. CASE Drain
    <2>1. pagedPipe # <<>> /\ pagedPipe' = Tail(pagedPipe)
      BY <1>3 DEF Drain
    <2>2. /\ pagedPipe' \in Seq({"register", "free"} \X Slots)
          /\ Head(pagedPipe) \in {"register", "free"} \X Slots /\ InPipe(Head(pagedPipe))
          /\ \A x : InPipe(x)' <=> InPipe(x) /\ x # Head(pagedPipe)
          /\ PipeOrdered'
          /\ \A u \in Slots : Head(pagedPipe) = <<"free", u>> => ~InPipe(<<"register", u>>)
      BY <2>1, PipeShrinks
    <2>3. PICK s \in Slots : Head(pagedPipe) = <<"register", s>> \/ Head(pagedPipe) = <<"free", s>>
      <3>1. Head(pagedPipe)[2] \in Slots
        BY <2>2
      <3>2. Head(pagedPipe) = <<"register", Head(pagedPipe)[2]>> \/ Head(pagedPipe) = <<"free", Head(pagedPipe)[2]>>
        BY <2>2
      <3>3. QED
        BY <3>1, <3>2
    <2>4. CASE Head(pagedPipe) = <<"register", s>>
      <3>1. status' = [status EXCEPT ![s] = "live"] /\ pagedPc' = pagedPc /\ status[s] = "new"
        BY <1>3, <2>4 DEF Drain, RegisterSlot
      <3>2. status'[s] = "live" /\ \A u \in Slots \ {s} : status'[u] = status[u]
        BY <2>3, <3>1 DEF PipeTypes
      <3>3. PipeTypes'
        BY <2>2, <3>1 DEF PipeTypes
      <3>4. /\ \A u \in Slots : InPipe(<<"free", u>>)' <=> InPipe(<<"free", u>>)
            /\ \A u \in Slots \ {s} : InPipe(<<"register", u>>)' <=> InPipe(<<"register", u>>)
            /\ ~InPipe(<<"register", s>>)' /\ InPipe(<<"register", s>>)
        BY <2>2, <2>3, <2>4
      <3>a. pagedPc[s] \in Joined /\ (InPipe(<<"free", s>>) <=> pagedPc[s] = "closed")
        BY <2>3, <3>1, <3>4 DEF PipeExact
      <3>5. PipeExact'
        <4> SUFFICES ASSUME NEW u \in Slots
                     PROVE  /\ InPipe(<<"register", u>>)' <=> pagedPc'[u] \in Joined /\ status'[u] = "new"
                            /\ InPipe(<<"free", u>>)' <=> pagedPc'[u] = "closed" /\ status'[u] # "freed"
                            /\ pagedPc'[u] \notin Joined => status'[u] = "new"
                            /\ pagedPc'[u] = "open" => status'[u] # "freed"
                            /\ status'[u] \in {"new", "live", "freed"}
          BY DEF PipeExact, InPipe
        <4>1. CASE u = s
          BY <2>3, <3>1, <3>2, <3>4, <3>a, <4>1
        <4>2. CASE u # s
          BY <3>1, <3>2, <3>4, <4>2 DEF PipeExact
        <4>3. QED
          BY <4>1, <4>2
      <3>6. QED
        BY <2>2, <3>3, <3>5
    <2>5. CASE Head(pagedPipe) = <<"free", s>>
      <3>1. /\ status' = [status EXCEPT ![s] = "freed"] /\ status[s] = "live"
            /\ pagedPc' = [u \in PagedSessions |-> IF pagedPc[u] = "waiting" THEN "clear" ELSE pagedPc[u]]
        BY <1>3, <2>5 DEF Drain, FreeSlot
      <3>2. /\ status'[s] = "freed" /\ \A u \in Slots \ {s} : status'[u] = status[u]
            /\ \A u \in Slots : pagedPc'[u] \in Joined \/ pagedPc[u] \in Joined => pagedPc'[u] = pagedPc[u]
        BY <2>3, <3>1 DEF PipeTypes, PagedSessions, Joined
      <3>3. PipeTypes'
        BY <2>2, <3>1 DEF PipeTypes, PagedSessions
      <3>4. /\ \A u \in Slots : InPipe(<<"register", u>>)' <=> InPipe(<<"register", u>>)
            /\ \A u \in Slots \ {s} : InPipe(<<"free", u>>)' <=> InPipe(<<"free", u>>)
            /\ ~InPipe(<<"free", s>>)' /\ InPipe(<<"free", s>>) /\ ~InPipe(<<"register", s>>)
        <4>1. \A x : InPipe(x)' <=> InPipe(x) /\ x # <<"free", s>>
          BY <2>2, <2>5
        <4>2. \A u \in Slots : InPipe(<<"register", u>>)' <=> InPipe(<<"register", u>>)
          BY <4>1
        <4>3. \A u \in Slots \ {s} : InPipe(<<"free", u>>)' <=> InPipe(<<"free", u>>)
          BY <4>1
        <4>4. ~InPipe(<<"free", s>>)'
          BY <4>1
        <4>5. InPipe(<<"free", s>>) /\ ~InPipe(<<"register", s>>)
          BY <2>2, <2>3, <2>5
        <4>6. QED
          BY <4>2, <4>3, <4>4, <4>5
      <3>a. pagedPc[s] = "closed"
        BY <2>3, <3>4 DEF PipeExact
      <3>5. PipeExact'
        <4> SUFFICES ASSUME NEW u \in Slots
                     PROVE  /\ InPipe(<<"register", u>>)' <=> pagedPc'[u] \in Joined /\ status'[u] = "new"
                            /\ InPipe(<<"free", u>>)' <=> pagedPc'[u] = "closed" /\ status'[u] # "freed"
                            /\ pagedPc'[u] \notin Joined => status'[u] = "new"
                            /\ pagedPc'[u] = "open" => status'[u] # "freed"
                            /\ status'[u] \in {"new", "live", "freed"}
          BY DEF PipeExact, InPipe
        <4>1. CASE u = s
          BY <2>3, <3>1, <3>2, <3>4, <3>a, <4>1 DEF Joined
        <4>2. CASE u # s
          BY <3>1, <3>2, <3>4, <4>2 DEF PipeExact, Joined
        <4>3. QED
          BY <4>1, <4>2
      <3>6. QED
        BY <2>2, <3>3, <3>5
    <2>6. QED
      BY <2>3, <2>4, <2>5
  <1>4. CASE /\ UNCHANGED <<pagedPipe, status>> /\ DOMAIN pagedPc' = Slots
             /\ \A u \in Slots : pagedPc'[u] \in Joined \/ pagedPc[u] \in Joined => pagedPc'[u] = pagedPc[u]
    <2>1. \A x : InPipe(x)' <=> InPipe(x)
      BY <1>4 DEF InPipe
    <2>2. PipeTypes' /\ PipeOrdered'
      BY <1>4 DEF PipeTypes, PipeOrdered
    <2>3. PipeExact'
      <3> SUFFICES ASSUME NEW u \in Slots
                   PROVE  /\ InPipe(<<"register", u>>)' <=> pagedPc'[u] \in Joined /\ status'[u] = "new"
                          /\ InPipe(<<"free", u>>)' <=> pagedPc'[u] = "closed" /\ status'[u] # "freed"
                          /\ pagedPc'[u] \notin Joined => status'[u] = "new"
                          /\ pagedPc'[u] = "open" => status'[u] # "freed"
                          /\ status'[u] \in {"new", "live", "freed"}
        BY DEF PipeExact, InPipe
      <3>1. status' = status
        BY <1>4
      <3>2. CASE pagedPc'[u] = pagedPc[u]
        BY <2>1, <3>1, <3>2 DEF PipeExact
      <3>3. CASE pagedPc'[u] \notin Joined /\ pagedPc[u] \notin Joined
        BY <2>1, <3>1, <3>3 DEF PipeExact, Joined
      <3>4. QED
        BY <1>4, <3>2, <3>3
    <2>4. QED
      BY <2>2, <2>3
  <1>5. ASSUME NEW s \in Slots, Refuse(s) \/ Block(s) \/ Wait(s) \/ Clear(s) PROVE PipeInv'
    <2>1. PICK p \in {"refused", "blocking", "clear", "waiting", "check"} :
            UNCHANGED <<pagedPipe, status>> /\ pagedPc' = [pagedPc EXCEPT ![s] = p] /\ pagedPc[s] \notin Joined
      BY <1>5 DEF Refuse, Block, Wait, Clear, PagedGoto, Joined, poolVars
    <2>2. /\ DOMAIN pagedPc' = Slots
          /\ \A u \in Slots : pagedPc'[u] \in Joined \/ pagedPc[u] \in Joined => pagedPc'[u] = pagedPc[u]
      BY <2>1 DEF PipeTypes, Joined
    <2>3. QED
      BY <1>4, <2>1, <2>2
  <1>6. CASE UNCHANGED <<pagedPipe, status, pagedPc>>
    BY <1>4, <1>6 DEF PipeTypes
  <1>7. QED
    <2>1. (\E s \in Slots : TakePagedJob(s)) \/ SlotGone \/ Permute \/ PermuteFails \/ Forward \/ FinishStep
          \/ UNCHANGED pagedVars => UNCHANGED <<pagedPipe, status, pagedPc>>
      BY DEF TakePagedJob, SlotGone, Permute, Reorder, PermuteFails, ReorderFails, Forward, PoolStep, Scatter,
             FinishStep, UnchangedAround, poolVars, pagedVars
    <2>2. QED
      BY <1>1, <1>2, <1>3, <1>5, <1>6, <2>1 DEF PagedNext, PagedSessions
-----------------------------------------------------------------------------
LEMMA CounterKept ==
  ASSUME CounterStored, JobKnown, [PagedNext]_pagedVars
  PROVE  CounterStored' /\ JobKnown'
  <1>1. CASE FinishStep
    BY <1>1 DEF FinishStep, CounterStored, JobKnown, NumFree, poolVars
  <1>2. CASE UNCHANGED <<phase, pagedJob, used, freePages>>
    BY <1>2 DEF CounterStored, JobKnown, NumFree
  <1>3. CASE phase' \notin {"idle"} /\ (pagedJob' \in Slots \/ (phase # "idle" /\ pagedJob' = pagedJob))
    BY <1>3 DEF CounterStored, JobKnown
  <1>4. (\E s \in Slots : AdmitSlot(s) \/ Refuse(s) \/ Block(s) \/ Wait(s) \/ Clear(s) \/ CloseSlot(s))
        \/ UNCHANGED pagedVars => UNCHANGED <<phase, pagedJob, used, freePages>>
    BY DEF AdmitSlot, Refuse, Block, Wait, Clear, CloseSlot, pagedVars, poolVars
  <1>5. (\E s \in Slots : TakePagedJob(s)) => phase' \notin {"idle"} /\ pagedJob' \in Slots
    BY DEF TakePagedJob
  <1>6. Drain \/ SlotGone \/ Permute \/ PermuteFails \/ Forward
        => phase' \notin {"idle"} /\ phase # "idle" /\ pagedJob' = pagedJob
    BY DEF Drain, SlotGone, Permute, PermuteFails, Forward, Drained, UnchangedAround
  <1>7. QED
    BY <1>1, <1>2, <1>3, <1>4, <1>5, <1>6 DEF PagedNext, PagedSessions

LEMMA PagedInitHolds ==
  ASSUME PagedInit
  PROVE  PoolInv /\ PipeInv /\ CounterStored /\ JobKnown
  <1>1. /\ freePages = Pages /\ tables = [s \in Slots |-> NoRows] /\ hist = [s \in Slots |-> NoRows]
        /\ status = [s \in Slots |-> "new"]
    BY DEF PagedInit, PoolInit
  <1>2. /\ NoRows \in [Rows -> Seq(Pages)] /\ NoRows \in [Rows -> Seq(Tokens)]
        /\ \A r \in Rows : NoRows[r] = <<>> /\ Range(NoRows[r]) = {} /\ IsInjective(NoRows[r]) /\ Len(NoRows[r]) = 0
    BY DEF NoRows, Range, IsInjective
  <1>3. \A s \in Slots, r \in Rows :
          /\ tables[s][r] = <<>> /\ Range(tables[s][r]) = {} /\ IsInjective(tables[s][r])
          /\ hist[s][r] = <<>> /\ Len(hist[s][r]) = 0
    BY <1>1, <1>2
  <1>4. PoolTypes
    BY <1>1, <1>2 DEF PoolTypes
  <1>5. NoSharing
    BY <1>3 DEF NoSharing
  <1>6. RowsFit
    <2>1. 1 \in Rows /\ MaxRow \in Nat
      BY PoolAssumption DEF Rows
    <2>2. QED
      BY <1>3, <2>1 DEF RowsFit
  <1>7. TokensKept
    BY <1>3 DEF TokensKept
  <1>8. PipeInv
    <2>1. pagedPipe = <<>> /\ pagedPc = [s \in Slots |-> "new"]
      BY DEF PagedInit, PagedSessions
    <2>2. Len(pagedPipe) = 0
      BY <2>1
    <2>3. PipeTypes
      BY <1>1, <2>1 DEF PipeTypes
    <2>4. PipeOrdered
      BY <2>2 DEF PipeOrdered
    <2>5. \A x : ~InPipe(x)
      BY <2>2 DEF InPipe
    <2>6. PipeExact
      BY <1>1, <2>1, <2>5 DEF PipeExact, Joined
    <2>7. QED
      BY <2>3, <2>4, <2>6 DEF PipeInv
  <1>9. CounterStored
    <2>1. NumPages \in Nat /\ 0 \in Int /\ NumPages - 1 \in Int
      BY PoolAssumption
    <2>2. Cardinality(Pages) = NumPages
      BY <2>1, FS_Interval DEF Pages
    <2>3. QED
      BY <1>1, <2>1, <2>2 DEF PagedInit, CounterStored, NumFree
  <1>10. JobKnown
    BY DEF PagedInit, JobKnown
  <1>11. QED
    BY <1>4, <1>5, <1>6, <1>7, <1>8, <1>9, <1>10 DEF PoolInv

(* Whatever the slots, pages and tokens, no page is ever in two rows or in *)
(* a row and the free list, gather returns for each row the tokens that    *)
(* were stored for it, and the runtime's view of the sessions and of the   *)
(* used pages is right where admission and the next step rely on it        *)
(* (PagedKVPool's scatter, gather, reorder and free_slot in                *)
(* memory_cache.py).                                                       *)
THEOREM PagesAreExact == PagedSpec => []PagesExact
  <1>1. PagedInit => PoolInv /\ PipeInv /\ CounterStored /\ JobKnown
    BY PagedInitHolds
  <1>2. PoolInv /\ PipeInv /\ CounterStored /\ JobKnown /\ [PagedNext]_pagedVars
        => (PoolInv /\ PipeInv /\ CounterStored /\ JobKnown)'
    <2> SUFFICES ASSUME PoolInv, PipeInv, CounterStored, JobKnown, [PagedNext]_pagedVars
                 PROVE  (PoolInv /\ PipeInv /\ CounterStored /\ JobKnown)'
      OBVIOUS
    <2>1. PipeTypes
      BY DEF PipeInv
    <2>2. QED
      BY <2>1, PoolInvKept, PipeInvKept, CounterKept
  <1>3. PoolInv /\ PipeInv /\ CounterStored => PagesExact
    <2> SUFFICES ASSUME PoolInv, PipeInv, CounterStored PROVE PagesExact
      OBVIOUS
    <2>1. NoSharing
      BY DEF PoolInv
    <2>2. GatherExact
      <3> SUFFICES ASSUME NEW s \in Slots, NEW r \in Rows PROVE Gather(s, Len(hist[s][r]))[r] = hist[s][r]
        BY DEF GatherExact
      <3>1. hist[s][r] \in Seq(Tokens) /\ Len(hist[s][r]) \in Nat
        BY DEF PoolInv, PoolTypes
      <3>2. Gather(s, Len(hist[s][r]))[r]
            = [i \in 1..Len(hist[s][r]) |-> content[tables[s][r][PageOf(i)]][OffsetOf(i)]]
        BY DEF Gather, PageOf, OffsetOf
      <3>3. \A i \in 1..Len(hist[s][r]) : content[tables[s][r][PageOf(i)]][OffsetOf(i)] = hist[s][r][i]
        BY DEF PoolInv, TokensKept
      <3>4. hist[s][r] = [i \in 1..Len(hist[s][r]) |-> hist[s][r][i]]
        BY <3>1
      <3>5. QED
        BY <3>2, <3>3, <3>4
    <2>3. pagedPipe = <<>> => Registered = {s \in PagedSessions : pagedPc[s] = "open"}
      <3> SUFFICES ASSUME pagedPipe = <<>>
                   PROVE  \A s \in Slots : status[s] = "live" <=> pagedPc[s] = "open"
        BY DEF Registered, PagedSessions
      <3>1. \A x : ~InPipe(x)
        BY DEF InPipe
      <3>2. QED
        BY <3>1 DEF PipeInv, PipeExact, Joined
    <2>4. phase = "idle" => Cardinality(UNION {PagesOf(tables[s]) : s \in PagedSessions}) <= used
      <3> SUFFICES ASSUME phase = "idle"
                   PROVE  Cardinality(UNION {PagesOf(tables[s]) : s \in PagedSessions}) <= used
        OBVIOUS
      <3> DEFINE inUse == UNION {PagesOf(tables[s]) : s \in PagedSessions}
      <3>1. freePages \subseteq Pages /\ NumFree \in Nat
        BY RankOrders DEF PoolInv, PoolTypes
      <3>2. inUse \subseteq Pages \ freePages
        <4>1. \A s \in Slots, r \in Rows : Range(tables[s][r]) \subseteq Pages /\ Range(tables[s][r]) \cap freePages = {}
          <5>1. \A s \in Slots, r \in Rows : tables[s][r] \in Seq(Pages)
            BY DEF PoolInv, PoolTypes
          <5>2. \A s \in Slots, r \in Rows : Range(tables[s][r]) \subseteq Pages
            BY <5>1 DEF Range
          <5>3. QED
            BY <2>1, <5>2 DEF NoSharing
        <4>2. QED
          BY <4>1 DEF PagesOf, PagedSessions
      <3> HIDE DEF inUse
      <3>3. NumPages \in Nat /\ 0 \in Int /\ NumPages - 1 \in Int
        BY PoolAssumption
      <3>4. IsFiniteSet(Pages) /\ Cardinality(Pages) = NumPages
        BY <3>3, FS_Interval DEF Pages
      <3>5. Pages \cap freePages = freePages
        BY <3>1
      <3>6. IsFiniteSet(Pages \ freePages) /\ Cardinality(Pages \ freePages) = NumPages - NumFree
        BY <3>4, <3>5, FS_Difference DEF NumFree
      <3>7. Cardinality(inUse) <= Cardinality(Pages \ freePages)
        BY <3>2, <3>6, FS_Subset
      <3>8. used = NumPages - NumFree
        BY DEF CounterStored
      <3>9. QED
        BY <3>6, <3>7, <3>8 DEF inUse
    <2>5. QED
      BY <2>1, <2>2, <2>3, <2>4 DEF PagesExact, DrainedPagesExact
  <1>4. QED
    BY <1>1, <1>2, <1>3, PTL DEF PagedSpec

(* Types of the paged cache.  The pool's part is what its pages hold.      *)
Contents == [Pages -> [0..(PageSize - 1) -> Tokens]]
PagedPlaces ==
  /\ status \in [Slots -> {"new", "live", "freed"}]
  /\ used \in 0..NumPages /\ pagedEvent \in BOOLEAN
  /\ pagedJob \in PagedSessions \cup {NoSlot} /\ phase \in {"idle", "drain", "forward", "leave"}
  /\ pagedPc \in [PagedSessions -> {"new", "check", "blocking", "waiting", "clear", "open", "closed", "refused"}]
  /\ steps \in 0..MaxSteps

LEMMA StoredContents ==
  ASSUME content \in Contents, NEW table, NEW prefix \in Nat, NEW new \in [Rows -> Seq(Tokens)]
  PROVE  Stored(table, prefix, new) \in Contents
  <1> SUFFICES ASSUME NEW p \in Pages, NEW off \in 0..(PageSize - 1)
               PROVE  Stored(table, prefix, new)[p][off] \in Tokens
    BY DEF Stored, Contents
  <1> DEFINE at == {x \in Rows \X (0..(MaxPages - 1)) :
                      /\ x[2] < Len(table[x[1]]) /\ table[x[1]][x[2] + 1] = p
                      /\ Stores(x[2] * PageSize + off, prefix, Len(new[x[1]]))}
             x == CHOOSE y \in at : TRUE
  <1>1. Stored(table, prefix, new)[p][off]
        = IF at = {} THEN content[p][off] ELSE new[x[1]][x[2] * PageSize + off + 1]
    BY DEF Stored
  <1>2. content[p][off] \in Tokens
    BY DEF Contents
  <1>3. ASSUME at # {} PROVE new[x[1]][x[2] * PageSize + off + 1] \in Tokens
    <2>1. x \in at
      BY <1>3
    <2>2. x \in Rows \X (0..(MaxPages - 1)) /\ Stores(x[2] * PageSize + off, prefix, Len(new[x[1]]))
      BY <2>1
    <2> HIDE DEF x
    <2> DEFINE i == x[2] * PageSize + off
    <2>3. i \in Int
      <3>1. x[2] \in Int /\ PageSize \in Int /\ off \in Int
        BY <2>2, PoolAssumption
      <3> QED BY <3>1
    <2>4. new[x[1]] \in Seq(Tokens) /\ i >= prefix /\ i < Len(new[x[1]])
      BY <2>2 DEF Stores
    <2> HIDE DEF i
    <2>5. i + 1 \in 1..Len(new[x[1]])
      BY <2>3, <2>4
    <2>6. new[x[1]][i + 1] \in Tokens
      BY <2>4, <2>5
    <2> QED BY <2>6 DEF i
  <1> QED BY <1>1, <1>2, <1>3

LEMMA ReorderedContents ==
  ASSUME PoolTypes, content \in Contents, NEW s \in Slots, NEW hypo \in [Rows -> Rows], Reorder(s, hypo)
  PROVE  content' \in Contents
  <1> SUFFICES ASSUME NEW p \in Pages PROVE content'[p] \in [0..(PageSize - 1) -> Tokens]
    BY DEF Reorder, Contents
  <1> DEFINE moved == tables'[s]
             copies == {x \in Rows \X (1..MaxPages) : /\ ~FirstUse(hypo, x[1]) /\ x[2] <= Len(moved[x[1]])
                                                      /\ moved[x[1]][x[2]] = p}
             x == CHOOSE y \in copies : TRUE
  <1>1. content'[p] = IF copies = {} THEN content[p] ELSE content[tables[s][hypo[x[1]]][x[2]]]
    BY DEF Reorder
  <1>2. content[p] \in [0..(PageSize - 1) -> Tokens]
    BY DEF Contents
  <1>3. moved = Reordered(s, hypo)
    BY DEF Reorder, PoolTypes
  <1> HIDE DEF moved
  <1>4. ASSUME copies # {} PROVE tables[s][hypo[x[1]]][x[2]] \in Pages
    <2>1. x \in copies
      BY <1>4
    <2> HIDE DEF x
    <2>2. x[1] \in Rows /\ x[2] \in 1..MaxPages /\ ~FirstUse(hypo, x[1]) /\ x[2] <= Len(moved[x[1]])
      BY <2>1
    <2> DEFINE k == Len(tables[s][hypo[x[1]]])
    <2>3. tables[s][hypo[x[1]]] \in Seq(Pages) /\ k \in Nat
      BY <2>2 DEF PoolTypes
    <2>4. Copies(s, hypo)[x[1]] = k
      BY <2>2 DEF Copies
    <2>5. moved[x[1]] = Popped(Before(Copies(s, hypo), x[1]), k)
      BY <1>3, <2>2, <2>4 DEF Reordered
    <2> HIDE DEF k
    <2>6. ASSUME NEW a PROVE Len(Popped(a, k)) = k
      <3> DEFINE g == [i \in 1..k |-> Nth(a + i - 1)]
      <3>1. Popped(a, k) = g
        BY DEF Popped, Nth, Rank
      <3>2. g \in [1..k -> {Nth(a + i - 1) : i \in 1..k}]
        OBVIOUS
      <3> HIDE DEF g
      <3> QED BY <2>3, <3>1, <3>2
    <2>7. x[2] \in 1..k
      BY <2>2, <2>3, <2>5, <2>6
    <2> QED BY <2>3, <2>7 DEF k
  <1>5. copies # {} => content[tables[s][hypo[x[1]]][x[2]]] \in [0..(PageSize - 1) -> Tokens]
    BY <1>4 DEF Contents
  <1> QED BY <1>1, <1>2, <1>5

LEMMA ContentsKept ==
  ASSUME PoolInv, JobKnown, content \in Contents, [PagedNext]_pagedVars
  PROVE  content' \in Contents
  <1>1. CASE Permute
    <2>1. PICK hypo \in [Rows -> Rows] : Reorder(pagedJob, hypo)
      BY <1>1 DEF Permute
    <2>2. pagedJob \in Slots
      BY <1>1 DEF Permute, Drained, JobKnown
    <2> QED BY <2>1, <2>2, ReorderedContents DEF PoolInv
  <1>2. CASE Forward
    <2>1. pagedJob \in Slots /\ PoolStep(pagedJob)
      BY <1>2 DEF Forward, Drained, JobKnown
    <2>2. PICK s \in Slots : s = pagedJob
      BY <2>1
    <2>3. PICK prefix \in Nat, n \in 0..MaxRow, new \in [Rows -> Seq(Tokens)] : Scatter(s, prefix, new)
      BY <2>1, <2>2, StepScatters DEF Extends
    <2>4. content' = content \/ \E table : content' = Stored(table, prefix, new)
      BY <2>3 DEF Scatter
    <2> QED BY <2>4, StoredContents
  <1>3. CASE Drain \/ PermuteFails
    BY <1>3 DEF Drain, RegisterSlot, FreeSlot, PermuteFails, ReorderFails
  <1>4. CASE UNCHANGED poolVars
    BY <1>4 DEF poolVars
  <1>5. UNCHANGED poolVars \/ Drain \/ Permute \/ PermuteFails \/ Forward
    BY DEF PagedNext, pagedVars, AdmitSlot, Refuse, Block, Wait, Clear, CloseSlot, TakePagedJob, SlotGone, FinishStep
  <1> QED BY <1>1, <1>2, <1>3, <1>4, <1>5

LEMMA PagedPlacesKept ==
  ASSUME PagedPlaces, freePages \subseteq Pages, JobKnown, PipeTypes, [PagedNext]_pagedVars
  PROVE  PagedPlaces'
  <1> USE DEF PagedPlaces, PagedSessions
  <1>1. CASE UNCHANGED pagedVars
    BY <1>1 DEF pagedVars, poolVars
  <1>2. ASSUME NEW s \in Slots, AdmitSlot(s) \/ Refuse(s) \/ Block(s) \/ Clear(s) \/ CloseSlot(s)
        PROVE  PagedPlaces'
    BY <1>2 DEF AdmitSlot, Refuse, Block, Clear, CloseSlot, PagedGoto, poolVars
  <1>3. ASSUME NEW s \in Slots, Wait(s) PROVE PagedPlaces'
    <2>1. PICK p \in {"clear", "waiting"} : PagedGoto(s, p)
      BY <1>3 DEF Wait
    <2> QED BY <1>3, <2>1 DEF Wait, PagedGoto, poolVars
  <1>4. ASSUME NEW s \in Slots, TakePagedJob(s) PROVE PagedPlaces'
    <2>1. steps' \in 0..MaxSteps
      BY <1>4, StepsAssumption DEF TakePagedJob
    <2>2. UNCHANGED <<status, used, pagedEvent, pagedPc>> /\ pagedJob' = s /\ phase' = "drain"
      BY <1>4 DEF TakePagedJob, poolVars
    <2> QED BY <2>1, <2>2
  <1>5. CASE Drain
    <2>1. UNCHANGED <<used, pagedJob, phase, steps>> /\ pagedEvent' \in BOOLEAN
      BY <1>5 DEF Drain
    <2>2. Head(pagedPipe)[2] \in Slots
      BY <1>5 DEF Drain, PipeTypes
    <2>3. status' \in [Slots -> {"new", "live", "freed"}]
      BY <1>5, <2>2 DEF Drain, RegisterSlot, FreeSlot
    <2>4. \/ pagedPc' = pagedPc
          \/ pagedPc' = [u \in PagedSessions |-> IF pagedPc[u] = "waiting" THEN "clear" ELSE pagedPc[u]]
      BY <1>5 DEF Drain
    <2>5. pagedPc' \in [PagedSessions -> {"new", "check", "blocking", "waiting", "clear", "open", "closed", "refused"}]
      BY <2>4
    <2> QED BY <2>1, <2>3, <2>5
  <1>6. CASE SlotGone \/ Permute \/ PermuteFails \/ Forward
    <2>1. status' = status
      BY <1>6 DEF SlotGone, Permute, Reorder, PermuteFails, ReorderFails, Forward, PoolStep, Scatter, poolVars
    <2>2. UnchangedAround /\ phase' \in {"leave", "forward"}
      BY <1>6 DEF SlotGone, Permute, PermuteFails, Forward
    <2> QED BY <2>1, <2>2 DEF UnchangedAround
  <1>7. CASE FinishStep
    <2>1. NumPages \in Nat /\ 0 \in Int /\ NumPages - 1 \in Int
      BY PoolAssumption
    <2>2. IsFiniteSet(Pages) /\ Cardinality(Pages) = NumPages
      BY <2>1, FS_Interval DEF Pages
    <2>3. NumFree \in Nat /\ NumFree <= NumPages
      BY <2>2, FS_Subset, FS_CardinalityType DEF NumFree
    <2>4. used' \in 0..NumPages
      BY <1>7, <2>1, <2>3 DEF FinishStep
    <2>5. UNCHANGED <<status, pagedEvent, pagedPc, steps>> /\ pagedJob' = NoSlot /\ phase' = "idle"
      BY <1>7 DEF FinishStep, poolVars
    <2> QED BY <2>4, <2>5
  <1> QED BY <1>1, <1>2, <1>3, <1>4, <1>5, <1>6, <1>7 DEF PagedNext

(* PagedTypeOK: pages only hold tokens that were stored for a row, block   *)
(* tables only pages of the pool, and the counter of used pages is one.    *)
THEOREM PagedTypesHold == PagedSpec => []PagedTypeOK
  <1> DEFINE Inv == PoolInv /\ PipeInv /\ CounterStored /\ JobKnown /\ content \in Contents /\ PagedPlaces
  <1>1. PagedInit => Inv
    <2> SUFFICES ASSUME PagedInit PROVE content \in Contents /\ PagedPlaces
      BY PagedInitHolds
    <2>1. content \in Contents
      <3>1. \E t : t \in Tokens
        <4>1. 1 \in Rows /\ \E v : v \in Versions
          BY PoolAssumption DEF Rows
        <4>2. PICK v : v \in Versions
          BY <4>1
        <4>3. <<1, v>> \in Tokens
          BY <4>1, <4>2 DEF Tokens
        <4> QED BY <4>3
      <3>2. (CHOOSE t \in Tokens : TRUE) \in Tokens
        BY <3>1
      <3> QED BY <3>2 DEF PagedInit, PoolInit, Contents
    <2>2. PagedPlaces
      <3>1. status = [s \in Slots |-> "new"] /\ pagedPc = [s \in Slots |-> "new"] /\ phase = "idle" /\ pagedJob = NoSlot
        BY DEF PagedInit, PoolInit, PagedSessions
      <3>2. used = 0 /\ steps = 0
        BY DEF PagedInit
      <3>3. used \in 0..NumPages /\ steps \in 0..MaxSteps
        BY <3>2, PoolAssumption, StepsAssumption
      <3>4. pagedEvent \in BOOLEAN
        BY DEF PagedInit
      <3> QED BY <3>1, <3>3, <3>4 DEF PagedPlaces, PagedSessions
    <2> QED BY <2>1, <2>2
  <1>2. Inv /\ [PagedNext]_pagedVars => Inv'
    <2> SUFFICES ASSUME Inv, [PagedNext]_pagedVars PROVE Inv'
      OBVIOUS
    <2>1. PipeTypes /\ freePages \subseteq Pages
      BY DEF PipeInv, PoolInv, PoolTypes
    <2>2. (PoolInv /\ PipeInv /\ CounterStored /\ JobKnown)'
      BY <2>1, PoolInvKept, PipeInvKept, CounterKept
    <2>3. content' \in Contents
      BY ContentsKept
    <2>4. Contents' = Contents
      BY DEF Contents, Pages, Tokens, Rows
    <2>5. PagedPlaces'
      BY <2>1, PagedPlacesKept
    <2> QED BY <2>2, <2>3, <2>4, <2>5
  <1>3. Inv => PagedTypeOK
    <2> SUFFICES ASSUME Inv PROVE PagedTypeOK
      OBVIOUS
    <2>1. PoolTypeOK
      BY DEF PoolTypeOK, PoolInv, PoolTypes, RowsFit, PagedPlaces, Contents
    <2> QED BY <2>1 DEF PagedTypeOK, PagedPlaces, PipeInv, PipeTypes, PagedSessions
  <1> QED BY <1>1, <1>2, <1>3, PTL DEF PagedSpec
=============================================================================
