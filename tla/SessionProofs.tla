---------------------------- MODULE SessionProofs ----------------------------
(***************************************************************************)
(* Proofs about what an inference session meets at a server, but for its   *)
(* caches, which CacheProofs is about, and about the session's client.     *)
(*                                                                         *)
(* The admission authority is exact, for any numbers of streams and peers  *)
(* and any policy it accepts.  Rates are about all of the past, a record   *)
(* only has a number of tokens.  What joins them is Within: since any      *)
(* instant, the streams admitted and the tokens left are worth no more     *)
(* than the burst and what the rate has given since.  A refill keeps it    *)
(* (RefillKeeps), an admission keeps it (TakeKeeps), a record that is      *)
(* forgotten keeps it if its bucket would be full by then (FullAgain), and *)
(* it implies the rate for every interval that ends now (RateKeeps).  To a *)
(* lease and a bucket every step is one of three kinds (StepKinds): calm,  *)
(* one that returns a lease, one that decides about a stream.              *)
(*                                                                         *)
(* The budget of activation pushes is exact.                               *)
(*                                                                         *)
(* A client's session keeps the types of its variables, its chain of       *)
(* server sessions stays a tiling of the blocks, and as long as no call    *)
(* has raised, repairs are possible, exact and leave no trace.             *)
(*                                                                         *)
(* At the end, the instance that TLC explores is composed of these parts.  *)
(***************************************************************************)
EXTENDS MCServerSessions, CacheProofs, SumTheorems, FiniteSetTheorems, SequenceTheorems,
        WellFoundedInduction, TLAPS

(* The streams in S that were opened at or after an instant.               *)
Since(f, S, a) == {s \in S : f[s] >= a}

(* What a bucket that was last refilled at updated has left, and what it   *)
(* has given to the streams in S, opened at the instants f: from any       *)
(* instant on, no more than the burst and the rate since then.             *)
Within(f, S, credit, updated, rate, burst) ==
  /\ credit \in 0..(burst * Unit)
  /\ \A s \in S : f[s] \in 0..updated
  /\ \A a \in 0..updated :
       Cardinality(Since(f, S, a)) * Unit + credit <= burst * Unit + rate * (updated - a)

(* Arithmetic for the buckets: the solver needs products one at a time.    *)
LEMMA Products ==
  /\ \A x, y \in Nat : x * y \in Nat
  /\ \A x, y, z \in Nat : x * (y + z) = x * y + x * z
  /\ \A x, y, z \in Nat : (y + z) * x = y * x + z * x
  /\ \A x, y, z \in Nat : y <= z => x * y <= x * z
  <1>1. \A x, y \in Nat : x * y \in Nat
    OBVIOUS
  <1>2. \A x, y, z \in Nat : x * (y + z) = x * y + x * z
    OBVIOUS
  <1>3. \A x, y, z \in Nat : (y + z) * x = y * x + z * x
    OBVIOUS
  <1>4. \A x, y, z \in Nat : y <= z => x * y <= x * z
    OBVIOUS
  <1>5. QED
    BY <1>1, <1>2, <1>3, <1>4

(* Min, of the two arguments of a refill.                                  *)
LEMMA MinOfTwo ==
  ASSUME NEW a \in Int, NEW b \in Int
  PROVE  Min({a, b}) = IF a <= b THEN a ELSE b
  <1>1. \E x \in {a, b} : \A y \in {a, b} : x <= y
    OBVIOUS
  <1>2. QED
    BY <1>1 DEF Min

(* What a refill returns: within the burst, no more than the rate gives,   *)
(* and the burst itself after long enough.                                 *)
LEMMA RefillFacts ==
  ASSUME NEW t \in Nat, NEW u \in Nat, NEW now \in Nat, u <= now,
         NEW rate \in Nat, NEW burst \in Nat, t <= burst * Unit
  PROVE  /\ Refill(t, u, now, rate, burst) \in 0..(burst * Unit)
         /\ Refill(t, u, now, rate, burst) <= t + rate * (now - u)
         /\ rate * (now - u) >= burst * Unit => Refill(t, u, now, rate, burst) = burst * Unit
         /\ t = burst * Unit => Refill(t, u, now, rate, burst) = burst * Unit
  <1> DEFINE gain == (now - u) * rate  full == burst * Unit
  <1>1. Unit \in Nat /\ now - u \in Nat
    BY PolicyAssumption
  <1>2. gain \in Nat /\ full \in Nat /\ gain = rate * (now - u)
    <2> DEFINE d == now - u
    <2>1. d \in Nat
      BY <1>1
    <2>2. gain = d * rate
      OBVIOUS
    <2>3. rate * (now - u) = rate * d
      OBVIOUS
    <2> HIDE DEF d, gain
    <2>4. QED
      BY <1>1, <2>1, <2>2, <2>3
  <1>3. Refill(t, u, now, rate, burst) = Min({full, t + gain})
    BY DEF Refill
  <1> HIDE DEF gain, full
  <1>4. Min({full, t + gain}) = IF full <= t + gain THEN full ELSE t + gain
    BY <1>2, MinOfTwo
  <1>5. Refill(t, u, now, rate, burst) \in 0..full /\ Refill(t, u, now, rate, burst) <= t + gain
    BY <1>2, <1>3, <1>4
  <1>6. t <= full
    BY DEF full
  <1>7. QED
    BY <1>2, <1>3, <1>4, <1>5, <1>6 DEF full

(* A bucket that is refilled stays within its bound.                       *)
LEMMA RefillKeeps ==
  ASSUME NEW f, NEW S, IsFiniteSet(S), NEW t, NEW u \in Nat, NEW now \in Nat, u <= now,
         NEW rate \in Nat, NEW burst \in Nat, Within(f, S, t, u, rate, burst)
  PROVE  Within(f, S, Refill(t, u, now, rate, burst), now, rate, burst)
  <1> DEFINE n == Refill(t, u, now, rate, burst)  full == burst * Unit
  <1>1. Unit \in Nat /\ t \in Nat /\ full \in Nat /\ t <= full
    <2>1. Unit \in Nat
      BY PolicyAssumption
    <2>2. full \in Nat
      BY <2>1, Products
    <2>3. t \in 0..full
      BY DEF Within
    <2> HIDE DEF full
    <2>4. QED
      BY <2>1, <2>2, <2>3
  <1>2. n \in 0..full /\ n <= t + rate * (now - u)
    BY <1>1, RefillFacts
  <1> HIDE DEF n
  <1>3. \A s \in S : f[s] \in 0..u /\ f[s] \in 0..now
    BY DEF Within
  <1>4. ASSUME NEW a \in 0..now
        PROVE  Cardinality(Since(f, S, a)) * Unit + n <= full + rate * (now - a)
    <2> DEFINE c == Cardinality(Since(f, S, a))
    <2>1. c \in Nat
      BY FS_Subset, FS_CardinalityType DEF Since
    <2>2. CASE a <= u
      <3> DEFINE x == u - a  y == now - u
      <3>1. x \in Nat /\ y \in Nat /\ now - a = x + y
        BY <1>4, <2>2
      <3>2. c * Unit + t <= full + rate * x
        BY <2>2 DEF Within
      <3>3. n <= t + rate * y
        BY <1>2
      <3> HIDE DEF x, y, c
      <3>4. rate * (x + y) = rate * x + rate * y /\ rate * x \in Nat /\ rate * y \in Nat /\ c * Unit \in Nat
        BY <1>1, <2>1, <3>1, Products
      <3>5. c * Unit + n <= full + rate * (now - a)
        <4> DEFINE X == rate * x  Y == rate * y  C == c * Unit
        <4>1. X \in Nat /\ Y \in Nat /\ C \in Nat /\ rate * (now - a) = X + Y
          BY <3>1, <3>4
        <4>2. C + t <= full + X /\ n <= t + Y
          BY <3>2, <3>3
        <4> HIDE DEF X, Y, full
        <4>3. C + n <= full + (X + Y)
          <5> HIDE DEF C
          <5>1. QED
            BY <1>1, <1>2, <4>1, <4>2
        <4>4. QED
          BY <4>1, <4>3 DEF full
      <3>6. QED
        BY <3>5 DEF c
    <2>3. CASE u < a
      <3>1. Since(f, S, a) = {}
        BY <1>3, <2>3 DEF Since
      <3>2. c = 0
        BY <3>1, FS_EmptySet
      <3> DEFINE d == now - a
      <3>3. d \in Nat
        BY <1>4
      <3>4. rate * d \in Nat
        <4> HIDE DEF d
        <4>1. QED
          BY <3>3, Products
      <3> HIDE DEF c, d, full
      <3>5. c * Unit + n <= full + rate * d
        BY <1>1, <1>2, <3>2, <3>4
      <3>6. QED
        BY <3>5 DEF c, d, full
    <2>4. QED
      BY <1>4, <2>2, <2>3
  <1>5. QED
    BY <1>2, <1>3, <1>4 DEF Within, n

(* One more stream is admitted, now, at the price of one unit.             *)
LEMMA TakeKeeps ==
  ASSUME NEW f, NEW S, IsFiniteSet(S), NEW t, NEW now \in Nat, NEW rate \in Nat, NEW burst \in Nat,
         Within(f, S, t, now, rate, burst), t >= Unit, NEW s, s \notin S, f[s] = now
  PROVE  Within(f, S \cup {s}, t - Unit, now, rate, burst)
  <1> DEFINE full == burst * Unit
  <1>1. Unit \in Nat /\ t \in 0..full /\ full \in Nat
    BY PolicyAssumption, Products DEF Within
  <1>2. ASSUME NEW a \in 0..now
        PROVE  Cardinality(Since(f, S \cup {s}, a)) * Unit + (t - Unit) <= full + rate * (now - a)
    <2> DEFINE c == Cardinality(Since(f, S, a))  bound == full + rate * (now - a)
    <2>1. IsFiniteSet(Since(f, S, a)) /\ c \in Nat
      BY FS_Subset, FS_CardinalityType DEF Since
    <2>2. Since(f, S \cup {s}, a) = Since(f, S, a) \cup {s} /\ s \notin Since(f, S, a)
      BY <1>2 DEF Since
    <2>3. Cardinality(Since(f, S \cup {s}, a)) = c + 1
      BY <2>1, <2>2, FS_AddElement
    <2>4. c * Unit + t <= bound
      BY DEF Within
    <2>5. bound \in Int
      <3> DEFINE d == now - a
      <3>1. d \in Nat
        BY <1>2
      <3> HIDE DEF d, full
      <3>2. rate * d \in Nat
        BY <3>1, Products
      <3>3. full + rate * d \in Int
        BY <1>1, <3>2
      <3>4. QED
        BY <3>3 DEF d, full
    <2> HIDE DEF c, bound
    <2>6. (c + 1) * Unit = c * Unit + Unit /\ c * Unit \in Nat
      BY <1>1, <2>1, Products
    <2>7. (c + 1) * Unit + (t - Unit) <= bound
      <3> DEFINE C == c * Unit
      <3> HIDE DEF full
      <3>1. C + t <= bound /\ C \in Nat /\ (c + 1) * Unit = C + Unit
        BY <2>4, <2>6
      <3> HIDE DEF C
      <3>2. QED
        BY <1>1, <2>5, <3>1
    <2>8. QED
      BY <2>3, <2>7 DEF bound
  <1>3. t - Unit \in 0..full
    <2> HIDE DEF full
    <2>1. QED
      BY <1>1
  <1>4. \A x \in S \cup {s} : f[x] \in 0..now
    BY DEF Within
  <1>5. QED
    BY <1>2, <1>3, <1>4 DEF Within

(* A bucket that is forgotten after enough time would be full anyway.      *)
LEMMA FullAgain ==
  ASSUME NEW f, NEW S, IsFiniteSet(S), NEW t, NEW u \in Nat, NEW now \in Nat, u <= now,
         NEW rate \in Nat, NEW burst \in Nat, Within(f, S, t, u, rate, burst),
         rate * (now - u) >= burst * Unit \/ t = burst * Unit
  PROVE  Within(f, S, burst * Unit, now, rate, burst)
  <1>1. burst * Unit \in Nat
    BY PolicyAssumption, Products
  <1>2. t \in Nat /\ t <= burst * Unit
    BY <1>1 DEF Within
  <1>3. Refill(t, u, now, rate, burst) = burst * Unit
    BY <1>2, RefillFacts
  <1>4. Within(f, S, Refill(t, u, now, rate, burst), now, rate, burst)
    BY RefillKeeps
  <1>5. QED
    BY <1>3, <1>4

(* Only the instants of the streams in S matter.                           *)
LEMMA WithinOfSame ==
  ASSUME NEW f, NEW g, NEW S, \A s \in S : f[s] = g[s],
         NEW t, NEW u, NEW rate, NEW burst, Within(f, S, t, u, rate, burst)
  PROVE  Within(g, S, t, u, rate, burst)
  <1>1. \A a : Since(f, S, a) = Since(g, S, a)
    BY DEF Since
  <1>2. QED
    BY <1>1 DEF Within

(* RateHolds, with the instants as a parameter.                            *)
Rate(f, S, rate, burst) ==
  \A a, b \in 0..MaxClock :
    a <= b => Cardinality({s \in S : f[s] \in a..b}) * Unit <= burst * Unit + rate * (b - a)

(* Only the instants of the streams in S matter to a rate.                 *)
LEMMA RateOfSame ==
  ASSUME NEW f, NEW g, NEW S, \A s \in S : f[s] = g[s], NEW rate, NEW burst, Rate(f, S, rate, burst)
  PROVE  Rate(g, S, rate, burst)
  <1>1. \A a, b : {s \in S : f[s] \in a..b} = {s \in S : g[s] \in a..b}
    OBVIOUS
  <1>2. QED
    BY <1>1 DEF Rate

(* The bound holds for every interval of time: one that ends before now    *)
(* has no new stream, and one that ends later has no more than the bucket  *)
(* has given since it began.                                               *)
LEMMA RateKeeps ==
  ASSUME NEW f, NEW S, IsFiniteSet(S), NEW rate \in Nat, NEW burst \in Nat, Rate(f, S, rate, burst),
         NEW t, NEW now \in Nat, NEW s, f[s] = now, Within(f, S \cup {s}, t, now, rate, burst)
  PROVE  Rate(f, S \cup {s}, rate, burst)
  <1> DEFINE In(T, a, b) == {x \in T : f[x] \in a..b}  full == burst * Unit
  <1>1. MaxClock \in Nat /\ Unit \in Nat /\ full \in Nat /\ t \in Nat
    BY PolicyAssumption, BoundsAssumption, Products DEF Within
  <1>2. SUFFICES ASSUME NEW a \in 0..MaxClock, NEW b \in 0..MaxClock, a <= b
                 PROVE  Cardinality(In(S \cup {s}, a, b)) * Unit <= full + rate * (b - a)
    BY DEF Rate
  <1>3. CASE ~(now \in a..b)
    <2>1. In(S \cup {s}, a, b) = In(S, a, b)
      BY <1>3
    <2>2. QED
      BY <1>2, <2>1 DEF Rate
  <1>4. CASE now \in a..b
    <2> DEFINE c == Cardinality(In(S \cup {s}, a, b))  d == Cardinality(Since(f, S \cup {s}, a))
               x == now - a  y == b - a
    <2>1. IsFiniteSet(S \cup {s})
      BY FS_AddElement
    <2>2. In(S \cup {s}, a, b) \subseteq Since(f, S \cup {s}, a) /\ Since(f, S \cup {s}, a) \subseteq S \cup {s}
      BY <1>2, <1>4 DEF Since
    <2>3. IsFiniteSet(Since(f, S \cup {s}, a))
      BY <2>1, <2>2, FS_Subset
    <2>4. IsFiniteSet(In(S \cup {s}, a, b)) /\ c <= d
      BY <2>2, <2>3, FS_Subset
    <2>5. c \in Nat /\ d \in Nat
      BY <2>3, <2>4, FS_CardinalityType
    <2>6. x \in Nat /\ y \in Nat /\ x <= y /\ a \in 0..now
      BY <1>2, <1>4
    <2>7. d * Unit + t <= full + rate * x
      BY <2>6 DEF Within
    <2> HIDE DEF c, d, x, y, full
    <2>8. Unit * c <= Unit * d /\ c * Unit = Unit * c /\ d * Unit = Unit * d
      BY <1>1, <2>4, <2>5, Products
    <2>9. rate * x <= rate * y /\ rate * x \in Nat /\ rate * y \in Nat /\ Unit * c \in Nat /\ Unit * d \in Nat
      BY <1>1, <2>5, <2>6, Products
    <2>10. c * Unit <= full + rate * y
      <3> DEFINE C == Unit * c  D == Unit * d  X == rate * x  Y == rate * y
      <3>1. D + t <= full + X /\ C <= D /\ X <= Y /\ {C, D, X, Y} \subseteq Nat /\ c * Unit = C
        BY <2>7, <2>8, <2>9
      <3> HIDE DEF C, D, X, Y
      <3>2. C <= full + Y
        BY <1>1, <3>1
      <3>3. QED
        BY <3>1, <3>2 DEF Y
    <2>11. QED
      BY <2>10 DEF c, y, full
  <1>5. QED
    BY <1>3, <1>4
-----------------------------------------------------------------------------
GlobalTokens(s) == Refill(global.tokens, global.updated, opened[s], GlobalRate, GlobalBurst)

Mine(s) ==
  LET old == peers[peer[s]] IN
  IF peer[s] \in Tracked
  THEN [active |-> old.active,
        tokens |-> Refill(old.tokens, old.updated, opened[s], PeerRate, PeerBurst)]
  ELSE [active |-> 0, tokens |-> PeerBurst * Unit]

(* The peers that are still tracked when acquire goes on: all, or, for a   *)
(* new peer, all but one that is idle and was not seen for PeerTtl.        *)
KeptBy(s, tracked) ==
  \/ tracked = Tracked
  \/ /\ peer[s] \notin Tracked
     /\ \E q \in Tracked : /\ tracked = Tracked \ {q}
                           /\ peers[q].active = 0 /\ opened[s] - peers[q].seen >= PeerTtl

Admits(s, tracked) ==
  /\ Admit(s, tracked, GlobalTokens(s), Mine(s))
  /\ peer[s] \in Tracked \/ ~(Cardinality(tracked) >= MaxTracked)
Rejects(s, tracked) == \E full \in BOOLEAN : Overload(s, tracked, GlobalTokens(s), full)

(* What acquire does, once it holds the lock.                              *)
LEMMA AcquireCases ==
  ASSUME NEW s, Acquire(s)
  PROVE  /\ streamPc[s] = "acquiring" /\ MayAcquire(s)
         /\ UNCHANGED <<clock, health, routes, peer, opened, closed, lockFaults>>
         /\ \E tracked : KeptBy(s, tracked) /\ (Admits(s, tracked) \/ Rejects(s, tracked))
  <1> DEFINE mine == IF peer[s] \in Tracked
                     THEN [active |-> peers[peer[s]].active,
                           tokens |-> Refill(peers[peer[s]].tokens, peers[peer[s]].updated, opened[s], PeerRate, PeerBurst)]
                     ELSE [active |-> 0, tokens |-> PeerBurst * Unit]
             full == \/ global.active >= MaxActive \/ mine.active >= MaxPerPeer
                     \/ GlobalTokens(s) < Unit \/ mine.tokens < Unit
  <1>1. Mine(s) = mine
    BY DEF Mine
  <1>2. PICK tracked \in IF peer[s] \in Tracked THEN {Tracked} ELSE Prune(opened[s]) :
          IF peer[s] \notin Tracked /\ Cardinality(tracked) >= MaxTracked
          THEN Overload(s, tracked, GlobalTokens(s), TRUE)
          ELSE \/ Admit(s, tracked, GlobalTokens(s), mine)
               \/ Overload(s, tracked, GlobalTokens(s), full)
    BY Zenon DEF Acquire, GlobalTokens
  <1>3. KeptBy(s, tracked)
    BY DEF KeptBy, Prune
  <1>4. full \in BOOLEAN
    OBVIOUS
  <1> HIDE DEF full, mine
  <1>5. Admits(s, tracked) \/ Rejects(s, tracked)
    BY <1>1, <1>2, <1>4 DEF Admits, Rejects
  <1>6. QED
    BY <1>3, <1>5 DEF Acquire
-----------------------------------------------------------------------------
(* Where a stream's two instants stand.                                    *)
Instants ==
  \A s \in Streams :
    /\ streamPc[s] # "new" => peer[s] \in Peers
    /\ streamPc[s] \in {"releasing", "release_failed"} => opened[s] <= closed[s]
    /\ streamPc[s] = "releasing" => clock <= closed[s] + MaxStall

(* A lock timeout comes before all that it leads to.                       *)
Faulty ==
  \A s \in Streams :
    streamPc[s] \in {"unroute_failed", "unroute_mark", "release_failed", "release_mark"} => lockFaults > 0

(* A peer was seen no longer before its bucket was refilled than a release *)
(* may be late; not at all if it has one session at a time.                *)
Slack == IF MaxPerPeer = 1 THEN 0 ELSE MaxStall
Seen ==
  /\ \A p \in Tracked : peers[p].updated <= global.updated
  /\ Healthy => \A p \in Tracked : peers[p].updated <= peers[p].seen + Slack
  /\ Healthy /\ MaxPerPeer = 1 => \A s \in Live : peers[peer[s]].updated = opened[s]

Constants == {MaxActive, MaxPerPeer, MaxTracked, Unit, GlobalRate, GlobalBurst, PeerRate,
              PeerBurst, PeerTtl, MaxClock, MaxStall, MaxLockFaults}

(* What the assumptions say of the constants, in the form the proofs need. *)
LEMMA ConstantsFacts ==
  /\ Constants \subseteq Nat /\ Unit > 0 /\ MaxPerPeer > 0
  /\ GlobalBurst * Unit \in Nat /\ PeerBurst * Unit \in Nat /\ PeerBurst * Unit >= Unit
  <1>1. Constants \subseteq Nat /\ Unit > 0 /\ MaxPerPeer > 0 /\ PeerBurst >= 1
    BY PolicyAssumption, BoundsAssumption DEF Constants
  <1>2. {Unit, GlobalBurst, PeerBurst} \subseteq Nat
    BY <1>1 DEF Constants
  <1>3. Unit * PeerBurst >= Unit * 1 /\ Unit * PeerBurst = PeerBurst * Unit /\ Unit * 1 = Unit
    BY <1>1, <1>2, Products
  <1>4. QED
    BY <1>1, <1>2, <1>3, Products

(* What a stream's own bucket has after the refill, and its peer's count.  *)
LEMMA MineFacts ==
  ASSUME AdmissionTypeOK, Seen, NEW s \in Streams, peer[s] \in Peers, MayAcquire(s)
  PROVE  /\ GlobalTokens(s) \in 0..(GlobalBurst * Unit)
         /\ Mine(s).active \in Nat /\ Mine(s).tokens \in 0..(PeerBurst * Unit)
         /\ peer[s] \in Tracked => Mine(s).active = peers[peer[s]].active
         /\ peer[s] \notin Tracked => Mine(s).active = 0
  <1>1. opened[s] \in Nat /\ opened[s] <= clock /\ global.updated \in Nat /\ global.updated <= opened[s]
    BY BoundsAssumption DEF AdmissionTypeOK, MayAcquire
  <1>2. GlobalTokens(s) \in 0..(GlobalBurst * Unit)
    <2>1. global.tokens \in Nat /\ global.tokens <= GlobalBurst * Unit
      BY DEF AdmissionTypeOK
    <2>2. GlobalRate \in Nat /\ GlobalBurst \in Nat
      BY ConstantsFacts DEF Constants
    <2>3. QED
      BY <1>1, <2>1, <2>2, RefillFacts DEF GlobalTokens
  <1>3. CASE peer[s] \in Tracked
    <2> DEFINE old == peers[peer[s]]
    <2>1. old \in PeerRecord /\ old.tokens <= PeerBurst * Unit /\ old.updated <= global.updated
      BY <1>3 DEF AdmissionTypeOK, Tracked, Seen
    <2>2. old.tokens \in Nat /\ old.updated \in Nat /\ old.active \in Nat /\ old.updated <= opened[s]
      BY <1>1, <2>1 DEF PeerRecord
    <2>3. PeerRate \in Nat /\ PeerBurst \in Nat
      BY ConstantsFacts DEF Constants
    <2> DEFINE n == Refill(old.tokens, old.updated, opened[s], PeerRate, PeerBurst)
    <2>4. Mine(s) = [active |-> old.active, tokens |-> n]
      BY <1>3 DEF Mine
    <2> HIDE DEF old
    <2>5. n \in 0..(PeerBurst * Unit)
      BY <1>1, <2>1, <2>2, <2>3, RefillFacts
    <2> HIDE DEF n
    <2>6. QED
      BY <1>2, <1>3, <2>2, <2>4, <2>5 DEF old
  <1>4. CASE peer[s] \notin Tracked
    <2>1. Mine(s) = [active |-> 0, tokens |-> PeerBurst * Unit]
      BY <1>4 DEF Mine
    <2>2. QED
      BY <1>2, <1>4, <2>1, ConstantsFacts
  <1>5. QED
    BY <1>3, <1>4

(* The records after acquire has admitted or rejected a stream.            *)
LEMMA AcquireRecords ==
  ASSUME AdmissionTypeOK, Seen, NEW s \in Streams, peer[s] \in Peers, MayAcquire(s),
         UNCHANGED <<clock, health, opened>>, NEW tracked, KeptBy(s, tracked),
         Admits(s, tracked) \/ Rejects(s, tracked)
  PROVE  /\ tracked \subseteq Tracked
         /\ \A p \in Peers \ {peer[s]} : peers'[p] = IF p \in tracked THEN peers[p] ELSE NoName
         /\ peers' \in [Peers -> PeerRecord \cup {NoName}]
         /\ global'.updated = opened[s] /\ global'.healthy = global.healthy
         /\ global' \in [active : Nat, tokens : Nat, updated : 0..clock',
                         accepted : Nat, rejected : Nat, healthy : BOOLEAN]
         /\ Rejects(s, tracked) => /\ Tracked' = tracked
                                   /\ \A p \in tracked : peers'[p] = peers[p]
                                   /\ global'.active = global.active
                                   /\ global'.accepted = global.accepted
                                   /\ global'.tokens = GlobalTokens(s)
         /\ Admits(s, tracked) =>
              /\ Tracked' = tracked \cup {peer[s]}
              /\ peers'[peer[s]] = [active |-> Mine(s).active + 1, tokens |-> Mine(s).tokens - Unit,
                                    updated |-> opened[s], seen |-> opened[s]]
              /\ global'.active = global.active + 1
              /\ global'.tokens = GlobalTokens(s) - Unit
              /\ GlobalTokens(s) >= Unit /\ Mine(s).tokens >= Unit
              /\ global.active < MaxActive /\ Mine(s).active < MaxPerPeer
  <1> DEFINE mine == [active |-> Mine(s).active + 1, tokens |-> Mine(s).tokens - Unit,
                      updated |-> opened[s], seen |-> opened[s]]
  <1>0. clock' = clock
    OBVIOUS
  <1>1. tracked \subseteq Tracked /\ Tracked \subseteq Peers
    BY DEF KeptBy, Tracked
  <1>2. GlobalTokens(s) \in Nat /\ Mine(s).active \in Nat /\ Mine(s).tokens \in Nat /\ Unit \in Nat
    BY MineFacts, ConstantsFacts DEF Constants
  <1>3. opened[s] \in 0..clock /\ opened[s] \in Nat
    BY BoundsAssumption DEF AdmissionTypeOK
  <1>4. global \in [active : Nat, tokens : Nat, updated : 0..clock,
                    accepted : Nat, rejected : Nat, healthy : BOOLEAN]
    BY DEF AdmissionTypeOK
  <1>5. \A p \in tracked : peers[p] \in PeerRecord /\ peers[p] # NoName
    BY <1>1 DEF AdmissionTypeOK, Tracked
  <1>6. CASE Rejects(s, tracked)
    <2>1. /\ global' = [global EXCEPT !.tokens = GlobalTokens(s), !.updated = opened[s], !.rejected = @ + 1]
          /\ peers' = [p \in Peers |-> IF p \in tracked THEN peers[p] ELSE NoName]
          /\ streamPc' = [streamPc EXCEPT ![s] = "rejected"]
      BY <1>6 DEF Rejects, Overload, StreamGoto
    <2>2. ~Admits(s, tracked)
      <3>1. streamPc \in [Streams -> HasLease \cup {"new", "acquiring", "rejected", "release_mark", "done"}]
        BY DEF AdmissionTypeOK
      <3>2. streamPc'[s] = "rejected"
        BY <2>1, <3>1
      <3>3. Admits(s, tracked) => streamPc'[s] = "leased"
        BY <3>1 DEF Admits, Admit, StreamGoto
      <3>4. QED
        BY <3>2, <3>3
    <2>3. /\ global' \in [active : Nat, tokens : Nat, updated : 0..clock',
                          accepted : Nat, rejected : Nat, healthy : BOOLEAN]
          /\ global'.updated = opened[s] /\ global'.healthy = global.healthy
          /\ global'.active = global.active /\ global'.accepted = global.accepted
          /\ global'.tokens = GlobalTokens(s)
      <3> DEFINE g == GlobalTokens(s)  u == opened[s]  n == global.rejected + 1
      <3>1. g \in Nat /\ n \in Nat /\ u \in 0..clock'
        BY <1>0, <1>2, <1>3, <1>4
      <3>2. global' = [global EXCEPT !.tokens = g, !.updated = u, !.rejected = n]
        BY <2>1
      <3> HIDE DEF g, u, n
      <3>3. QED
        BY <1>0, <1>4, <3>1, <3>2 DEF g, u
    <2>4. \A p \in Peers : peers'[p] = IF p \in tracked THEN peers[p] ELSE NoName
      BY <2>1
    <2>5. Tracked' = tracked
      BY <1>1, <1>5, <2>4 DEF Tracked
    <2>6. peers' \in [Peers -> PeerRecord \cup {NoName}]
      BY <1>5, <2>1
    <2>7. QED
      BY <1>1, <2>2, <2>3, <2>4, <2>5, <2>6
  <1>7. CASE Admits(s, tracked)
    <2>1. /\ global' = [global EXCEPT !.active = @ + 1, !.tokens = GlobalTokens(s) - Unit,
                                      !.updated = opened[s], !.accepted = @ + 1]
          /\ peers' = [p \in Peers |-> IF p = peer[s] THEN mine
                                       ELSE IF p \in tracked THEN peers[p] ELSE NoName]
          /\ global.active < MaxActive /\ Mine(s).active < MaxPerPeer
          /\ GlobalTokens(s) >= Unit /\ Mine(s).tokens >= Unit
          /\ streamPc' = [streamPc EXCEPT ![s] = "leased"]
      BY <1>7 DEF Admits, Admit, StreamGoto
    <2>2. ~Rejects(s, tracked)
      <3>1. streamPc \in [Streams -> HasLease \cup {"new", "acquiring", "rejected", "release_mark", "done"}]
        BY DEF AdmissionTypeOK
      <3>2. streamPc'[s] = "leased"
        BY <2>1, <3>1
      <3>3. Rejects(s, tracked) => streamPc'[s] = "rejected"
        BY <3>1 DEF Rejects, Overload, StreamGoto
      <3>4. QED
        BY <3>2, <3>3
    <2>3. mine \in PeerRecord /\ mine # NoName
      <3>1. mine \in PeerRecord
        BY <1>2, <1>3, <2>1 DEF PeerRecord
      <3>2. QED
        BY <3>1, BoundsAssumption
    <2> DEFINE left == GlobalTokens(s) - Unit
    <2>4. left \in Nat
      BY <1>2, <2>1
    <2>5. /\ global' \in [active : Nat, tokens : Nat, updated : 0..clock',
                          accepted : Nat, rejected : Nat, healthy : BOOLEAN]
          /\ global'.updated = opened[s] /\ global'.healthy = global.healthy
          /\ global'.active = global.active + 1 /\ global'.tokens = left
      <3> DEFINE u == opened[s]  n == global.active + 1  m == global.accepted + 1
      <3>1. n \in Nat /\ m \in Nat /\ u \in 0..clock'
        BY <1>0, <1>3, <1>4
      <3>2. global' = [global EXCEPT !.active = n, !.tokens = left, !.updated = u, !.accepted = m]
        BY <2>1
      <3> HIDE DEF left, u, n, m
      <3>3. QED
        BY <1>0, <1>4, <2>4, <3>1, <3>2 DEF u, n
    <2> HIDE DEF mine
    <2>6. /\ peers'[peer[s]] = mine
          /\ \A p \in Peers \ {peer[s]} : peers'[p] = IF p \in tracked THEN peers[p] ELSE NoName
      BY <2>1
    <2>7. Tracked' = tracked \cup {peer[s]}
      BY <1>1, <1>5, <2>3, <2>6 DEF Tracked
    <2>8. peers' \in [Peers -> PeerRecord \cup {NoName}]
      BY <1>5, <2>1, <2>3
    <2>9. QED
      BY <1>1, <2>1, <2>2, <2>5, <2>6, <2>7, <2>8 DEF mine
  <1>8. QED
    BY <1>6, <1>7

(* Every step keeps the types.                                             *)
LEMMA TypesStay ==
  ASSUME AdmissionTypeOK, Instants, Seen, AdmissionNext
  PROVE  AdmissionTypeOK'
  <1> DEFINE Pcs == HasLease \cup {"new", "acquiring", "rejected", "release_mark", "done"}
             Global(c) == [active : Nat, tokens : Nat, updated : 0..c,
                           accepted : Nat, rejected : Nat, healthy : BOOLEAN]
  <1>1. clock \in Nat /\ MaxClock \in Nat /\ clock <= MaxClock /\ MaxLockFaults \in Nat
    BY BoundsAssumption DEF AdmissionTypeOK
  <1>2. ASSUME NEW s \in Streams, NEW p \in Peers, Open(s, p) PROVE AdmissionTypeOK'
    BY <1>1, <1>2 DEF Open, AdmissionTypeOK, StreamGoto, Tracked
  <1>3. ASSUME NEW s \in Streams, RefuseUnavailable(s) \/ EndUnrouted(s) \/ AuthorityTimeout(s)
        PROVE  AdmissionTypeOK'
    BY <1>1, <1>3 DEF RefuseUnavailable, EndUnrouted, AuthorityTimeout, AdmissionTypeOK, StreamGoto,
                      Tracked, HasLease
  <1>4. ASSUME NEW s \in Streams, Acquire(s) PROVE AdmissionTypeOK'
    <2>1. /\ streamPc[s] = "acquiring" /\ MayAcquire(s) /\ peer[s] \in Peers
          /\ UNCHANGED <<clock, health, routes, peer, opened, closed, lockFaults>>
      BY <1>4, AcquireCases DEF Instants
    <2>2. PICK tracked : KeptBy(s, tracked) /\ (Admits(s, tracked) \/ Rejects(s, tracked))
      BY <1>4, AcquireCases
    <2>3. /\ GlobalTokens(s) \in 0..(GlobalBurst * Unit) /\ Mine(s).tokens \in 0..(PeerBurst * Unit)
      BY <2>1, MineFacts
    <2>4. streamPc' \in [Streams -> Pcs]
      BY <2>2 DEF Admits, Admit, Rejects, Overload, StreamGoto, AdmissionTypeOK, HasLease
    <2>5. /\ tracked \subseteq Tracked /\ peers' \in [Peers -> PeerRecord \cup {NoName}]
          /\ global' \in Global(clock')
          /\ \A p \in Peers \ {peer[s]} : peers'[p] = IF p \in tracked THEN peers[p] ELSE NoName
      BY <2>1, <2>2, AcquireRecords
    <2>6. opened[s] <= clock /\ opened[s] \in Nat /\ Unit \in Nat
      BY <1>1, ConstantsFacts DEF AdmissionTypeOK, Constants
    <2>7. /\ global'.tokens <= GlobalBurst * Unit
          /\ \A p \in Tracked' : /\ peers'[p].updated <= clock /\ peers'[p].seen <= clock
                                 /\ peers'[p].tokens <= PeerBurst * Unit
      <3>1. CASE Rejects(s, tracked)
        <4>1. Tracked' = tracked /\ (\A p \in tracked : peers'[p] = peers[p]) /\ global'.tokens = GlobalTokens(s)
          BY <2>1, <2>2, <3>1, AcquireRecords
        <4>2. QED
          BY <2>3, <2>5, <4>1, ConstantsFacts DEF AdmissionTypeOK
      <3>2. CASE Admits(s, tracked)
        <4>1. /\ Tracked' = tracked \cup {peer[s]}
              /\ peers'[peer[s]] = [active |-> Mine(s).active + 1, tokens |-> Mine(s).tokens - Unit,
                                    updated |-> opened[s], seen |-> opened[s]]
              /\ global'.tokens = GlobalTokens(s) - Unit
          BY <2>1, <2>2, <3>2, AcquireRecords
        <4>2. \A p \in tracked \ {peer[s]} : p \in Peers /\ peers'[p] = peers[p]
          BY <2>5 DEF Tracked
        <4>3. global'.tokens <= GlobalBurst * Unit /\ peers'[peer[s]].tokens <= PeerBurst * Unit
          <5> DEFINE G == GlobalBurst * Unit  P == PeerBurst * Unit  a == GlobalTokens(s)  b == Mine(s).tokens
          <5>1. G \in Nat /\ P \in Nat /\ a \in 0..G /\ b \in 0..P /\ global'.tokens = a - Unit
                /\ peers'[peer[s]].tokens = b - Unit
            BY <2>3, <4>1, ConstantsFacts
          <5> HIDE DEF G, P, a, b
          <5>2. global'.tokens <= G /\ peers'[peer[s]].tokens <= P
            BY <2>6, <5>1
          <5>3. QED
            BY <5>2 DEF G, P
        <4>4. peers'[peer[s]].updated <= clock /\ peers'[peer[s]].seen <= clock
          BY <2>6, <4>1
        <4>5. QED
          BY <2>5, <4>1, <4>2, <4>3, <4>4 DEF AdmissionTypeOK
      <3>3. QED
        BY <2>2, <3>1, <3>2
    <2>8. QED
      BY <1>1, <2>1, <2>4, <2>5, <2>7 DEF AdmissionTypeOK
  <1>5. ASSUME NEW s \in Streams, NEW n \in SessionNames, Register(s, n) PROVE AdmissionTypeOK'
    BY <1>1, <1>5 DEF Register, AdmissionTypeOK, StreamGoto, Tracked, HasLease
  <1>6. ASSUME NEW s \in Streams, Unregister(s) \/ Poison(s) \/ Mark(s) PROVE AdmissionTypeOK'
    <2>1. /\ UNCHANGED <<clock, peers, peer, opened, closed>>
          /\ health' \in BOOLEAN /\ lockFaults' \in 0..MaxLockFaults
          /\ routes' \in [SessionNames -> Streams \cup {NoName}]
      <3>1. health \in BOOLEAN /\ lockFaults \in 0..MaxLockFaults /\ routes \in [SessionNames -> Streams \cup {NoName}]
        BY DEF AdmissionTypeOK
      <3>2. CASE Unregister(s)
        <4>1. UNCHANGED <<clock, peers, peer, opened, closed, lockFaults>> /\ health' \in {health, FALSE}
          BY <3>2 DEF Unregister
        <4>2. routes' = routes \/ \E mine : routes' = [n \in SessionNames |-> IF n \in mine THEN NoName ELSE routes[n]]
          BY <3>2 DEF Unregister
        <4>3. QED
          BY <3>1, <4>1, <4>2
      <3>3. CASE Poison(s)
        BY <3>1, <3>3 DEF Poison
      <3>4. CASE Mark(s)
        <4>1. /\ UNCHANGED <<clock, peers, routes, peer, opened, closed>>
              /\ \/ health' = FALSE /\ lockFaults' = lockFaults
                 \/ health' = health /\ lockFaults < MaxLockFaults /\ lockFaults' = lockFaults + 1
          BY <3>4 DEF Mark
        <4>2. lockFaults' \in 0..MaxLockFaults
          BY <1>1, <3>1, <4>1
        <4>3. health' \in BOOLEAN
          BY <3>1, <4>1
        <4>4. QED
          BY <3>1, <4>1, <4>2, <4>3
      <3>5. QED
        BY <1>6, <3>2, <3>3, <3>4
    <2>2. streamPc' \in [Streams -> Pcs]
      BY <1>6 DEF Unregister, Poison, Mark, AdmissionTypeOK, StreamGoto, HasLease
    <2>3. global' \in Global(clock') /\ global'.tokens = global.tokens
      BY <1>6, <2>1 DEF Unregister, Poison, Mark, AdmissionTypeOK
    <2>4. QED
      BY <1>1, <2>1, <2>2, <2>3 DEF AdmissionTypeOK, Tracked
  <1>7. ASSUME NEW s \in Streams, CloseStream(s) PROVE AdmissionTypeOK'
    BY <1>1, <1>7 DEF CloseStream, AdmissionTypeOK, StreamGoto, Tracked, HasLease
  <1>8. ASSUME NEW s \in Streams, Release(s) PROVE AdmissionTypeOK'
    <2> DEFINE p == peer[s]
               lost == global.active < 1 \/ peers[p] = NoName \/ peers[p].active < 1
    <2>1. UNCHANGED <<clock, health, routes, peer, opened, closed, lockFaults>>
      BY <1>8 DEF Release
    <2>2. p \in Peers /\ closed[s] \in 0..clock /\ closed[s] \in Nat
      BY <1>1, <1>8 DEF Release, Instants, AdmissionTypeOK
    <2>3. streamPc' \in [Streams -> Pcs]
      BY <1>8 DEF Release, AdmissionTypeOK, StreamGoto, HasLease
    <2>4. CASE lost
      <3>1. global' = [global EXCEPT !.healthy = FALSE] /\ UNCHANGED peers
        BY <1>8, <2>4 DEF Release
      <3>2. global' \in Global(clock') /\ global'.tokens = global.tokens
        BY <2>1, <3>1 DEF AdmissionTypeOK
      <3>3. QED
        BY <1>1, <2>1, <2>3, <3>1, <3>2 DEF AdmissionTypeOK, Tracked
    <2>5. CASE ~lost
      <3> DEFINE n == global.active - 1  m == peers[p].active - 1
                 r == [peers[p] EXCEPT !.active = m, !.seen = closed[s]]
      <3>1. global' = [global EXCEPT !.active = n] /\ peers' = [peers EXCEPT ![p] = r]
        BY <1>8, <2>5 DEF Release
      <3>2. p \in Tracked /\ peers[p] \in PeerRecord
        BY <2>2, <2>5 DEF Tracked, AdmissionTypeOK
      <3>3. n \in Nat /\ m \in Nat
        BY <2>5, <3>2 DEF AdmissionTypeOK, PeerRecord
      <3>4. r \in PeerRecord /\ r.updated = peers[p].updated /\ r.seen = closed[s] /\ r.tokens = peers[p].tokens
        <4> HIDE DEF m
        <4>1. QED
          BY <2>2, <3>2, <3>3 DEF PeerRecord
      <3>5. global' \in Global(clock') /\ global'.tokens = global.tokens
        <4> HIDE DEF n
        <4>1. QED
          BY <2>1, <3>1, <3>3 DEF AdmissionTypeOK
      <3> HIDE DEF r, n, p
      <3>6. /\ peers' \in [Peers -> PeerRecord \cup {NoName}]
            /\ peers'[p] = r /\ \A q \in Peers \ {p} : peers'[q] = peers[q]
        BY <2>2, <3>1, <3>4 DEF AdmissionTypeOK
      <3>7. \A q \in Tracked' : /\ peers'[q].updated <= clock /\ peers'[q].seen <= clock
                                /\ peers'[q].tokens <= PeerBurst * Unit
        BY <1>1, <2>2, <3>2, <3>4, <3>6 DEF AdmissionTypeOK, Tracked
      <3>8. QED
        BY <1>1, <2>1, <2>3, <3>5, <3>6, <3>7 DEF AdmissionTypeOK
    <2>6. QED
      BY <2>4, <2>5
  <1>9. CASE Tick
    <2>1. clock' = clock + 1 /\ clock' \in 0..MaxClock /\ 0..clock \subseteq 0..clock'
      BY <1>1, <1>9 DEF Tick
    <2>2. UNCHANGED <<health, global, peers, routes, streamPc, peer, opened, closed, lockFaults>>
      BY <1>9 DEF Tick
    <2>3. global' \in Global(clock')
      BY <2>1, <2>2 DEF AdmissionTypeOK
    <2>4. opened' \in [Streams -> 0..clock'] /\ closed' \in [Streams -> 0..clock']
      BY <2>1, <2>2 DEF AdmissionTypeOK
    <2>5. \A p \in Tracked' : /\ peers'[p].updated <= clock' /\ peers'[p].seen <= clock'
                              /\ peers'[p].tokens <= PeerBurst * Unit
      BY <1>1, <2>1, <2>2 DEF AdmissionTypeOK, Tracked, PeerRecord
    <2>6. QED
      BY <2>1, <2>2, <2>3, <2>4, <2>5 DEF AdmissionTypeOK
  <1>10. QED
    BY <1>2, <1>3, <1>4, <1>5, <1>6, <1>7, <1>8, <1>9 DEF AdmissionNext
-----------------------------------------------------------------------------
(* What a step does to leases and buckets: nothing, but for the authority  *)
(* that may become unhealthy ...                                           *)
Calm ==
  /\ Live' = Live \/ ~Healthy'
  /\ Healthy' => Healthy
  /\ Admitted' = Admitted
  /\ \A s \in Admitted : opened'[s] = opened[s] /\ peer'[s] = peer[s]
  /\ peers' = peers
  /\ global'.active = global.active /\ global'.accepted = global.accepted
  /\ global'.tokens = global.tokens /\ global'.updated = global.updated

(* ... or it gives a lease back ...                                        *)
Returns(s) ==
  /\ streamPc[s] = "releasing" /\ s \in Live
  /\ Live' = Live \ {s} /\ Admitted' = Admitted
  /\ UNCHANGED <<clock, health, routes, peer, opened, closed, lockFaults>>
  /\ peer[s] \in Tracked /\ Tracked' = Tracked
  /\ peers[peer[s]].active \in Nat \ {0} /\ global.active \in Nat \ {0}
  /\ \A p \in Tracked \ {peer[s]} : peers'[p] = peers[p]
  /\ peers'[peer[s]].active = peers[peer[s]].active - 1
  /\ peers'[peer[s]].tokens = peers[peer[s]].tokens
  /\ peers'[peer[s]].updated = peers[peer[s]].updated
  /\ peers'[peer[s]].seen = closed[s]
  /\ global'.active = global.active - 1 /\ global'.accepted = global.accepted
  /\ global'.tokens = global.tokens /\ global'.updated = global.updated
  /\ global'.healthy = global.healthy

(* ... or it decides about a stream.                                       *)
Decides(s) ==
  /\ MayAcquire(s) /\ peer[s] \in Peers /\ s \notin Admitted
  /\ UNCHANGED <<clock, health, routes, peer, opened, closed, lockFaults>>
  /\ global'.healthy = global.healthy
  /\ \E tracked :
       /\ KeptBy(s, tracked)
       /\ \/ Admits(s, tracked) /\ Live' = Live \cup {s} /\ Admitted' = Admitted \cup {s}
          \/ Rejects(s, tracked) /\ Live' = Live /\ Admitted' = Admitted

(* A stream with a lease was admitted.                                     *)
LEMMA LiveAreAdmitted == Live \subseteq Admitted
  BY DEF Live, Admitted

(* A stream that moves between two places keeps or lacks its lease.        *)
LEMMA MovesKeep ==
  ASSUME AdmissionTypeOK, NEW s \in Streams, NEW pc, StreamGoto(s, pc)
  PROVE  /\ pc \in HasLease /\ streamPc[s] \in HasLease => Live' = Live
         /\ pc \notin HasLease /\ streamPc[s] \notin HasLease => Live' = Live
         /\ pc \in HasLease /\ streamPc[s] \notin HasLease => Live' = Live \cup {s} /\ s \notin Live
         /\ pc \notin HasLease /\ streamPc[s] \in HasLease => Live' = Live \ {s} /\ s \in Live
         /\ LET after == HasLease \cup {"release_mark", "done"} IN
            /\ pc \in after /\ streamPc[s] \in after => Admitted' = Admitted /\ s \in Admitted
            /\ pc \notin after /\ streamPc[s] \notin after => Admitted' = Admitted /\ s \notin Admitted
            /\ pc \in after /\ streamPc[s] \notin after => Admitted' = Admitted \cup {s} /\ s \notin Admitted
  <1>1. streamPc'[s] = pc /\ \A x \in Streams \ {s} : streamPc'[x] = streamPc[x]
    BY DEF StreamGoto, AdmissionTypeOK
  <1> HIDE DEF HasLease
  <1>2. QED
    BY <1>1 DEF Live, Admitted

(* Every step is of one of the three kinds.                                *)
LEMMA StepKinds ==
  ASSUME AdmissionTypeOK, Instants, Seen, AdmissionNext
  PROVE  Calm \/ \E s \in Streams : Returns(s) \/ Decides(s)
  <1> DEFINE Moves(s) == \E pc : StreamGoto(s, pc)
  <1>0. global \in [active : Nat, tokens : Nat, updated : 0..clock,
                    accepted : Nat, rejected : Nat, healthy : BOOLEAN]
    BY DEF AdmissionTypeOK
  <1>1. ASSUME NEW s \in Streams, NEW p \in Peers, Open(s, p) PROVE Calm
    <2>1. Live' = Live /\ Admitted' = Admitted /\ s \notin Admitted
      BY <1>1, MovesKeep DEF Open, HasLease
    <2>2. \A x \in Streams \ {s} : opened'[x] = opened[x] /\ peer'[x] = peer[x]
      BY <1>1 DEF Open, AdmissionTypeOK
    <2>3. QED
      BY <1>1, <2>1, <2>2 DEF Open, Calm, Healthy, Admitted
  <1>2. ASSUME NEW s \in Streams,
               RefuseUnavailable(s) \/ EndUnrouted(s) \/ CloseStream(s) \/ AuthorityTimeout(s)
        PROVE  Calm
    <2>1. Live' = Live /\ Admitted' = Admitted
      BY <1>2, MovesKeep DEF RefuseUnavailable, EndUnrouted, CloseStream, AuthorityTimeout, HasLease
    <2>2. UNCHANGED <<health, global, peers, opened, peer>>
      BY <1>2 DEF RefuseUnavailable, EndUnrouted, CloseStream, AuthorityTimeout
    <2>3. QED
      BY <2>1, <2>2 DEF Calm, Healthy
  <1>3. ASSUME NEW s \in Streams, NEW n \in SessionNames, Register(s, n) PROVE Calm
    <2>1. Live' = Live /\ Admitted' = Admitted
      BY <1>3, MovesKeep DEF Register, HasLease
    <2>2. QED
      BY <1>3, <2>1 DEF Register, Calm, Healthy
  <1>4. ASSUME NEW s \in Streams, Unregister(s) \/ Poison(s) \/ Mark(s) PROVE Calm
    <2>1. Live' = Live \/ health' = FALSE
      BY <1>4, MovesKeep DEF Unregister, Poison, Mark, HasLease
    <2>2. Admitted' = Admitted
      BY <1>4, MovesKeep DEF Unregister, Poison, Mark, HasLease
    <2>3. UNCHANGED <<peers, opened, peer>> /\ (health' = health \/ health' = FALSE)
      BY <1>4 DEF Unregister, Poison, Mark
    <2>4. global' = global \/ global' = [global EXCEPT !.healthy = FALSE]
      BY <1>4 DEF Unregister, Poison, Mark
    <2>5. /\ global'.active = global.active /\ global'.accepted = global.accepted
          /\ global'.tokens = global.tokens /\ global'.updated = global.updated
          /\ global'.healthy => global.healthy
      BY <1>0, <2>4
    <2>6. QED
      BY <2>1, <2>2, <2>3, <2>5 DEF Calm, Healthy
  <1>5. ASSUME NEW s \in Streams, Release(s) PROVE Calm \/ Returns(s)
    <2> DEFINE p == peer[s]
               lost == global.active < 1 \/ peers[p] = NoName \/ peers[p].active < 1
    <2>1. /\ UNCHANGED <<clock, health, routes, peer, opened, closed, lockFaults>>
          /\ streamPc[s] = "releasing" /\ p \in Peers
      BY <1>5 DEF Release, Instants
    <2>2. Live' = Live \ {s} /\ s \in Live /\ Admitted' = Admitted
      BY <1>5, MovesKeep DEF Release, HasLease
    <2>3. CASE lost
      <3>1. global' = [global EXCEPT !.healthy = FALSE] /\ UNCHANGED peers
        BY <1>5, <2>3 DEF Release
      <3>2. /\ global'.active = global.active /\ global'.accepted = global.accepted
            /\ global'.tokens = global.tokens /\ global'.updated = global.updated
            /\ ~global'.healthy
        BY <1>0, <3>1
      <3>3. QED
        BY <2>1, <2>2, <3>1, <3>2 DEF Calm, Healthy
    <2>4. CASE ~lost
      <3> DEFINE n == global.active - 1  m == peers[p].active - 1
                 r == [peers[p] EXCEPT !.active = m, !.seen = closed[s]]
      <3>1. global' = [global EXCEPT !.active = n] /\ peers' = [peers EXCEPT ![p] = r]
        BY <1>5, <2>4 DEF Release
      <3>2. p \in Tracked /\ peers[p] \in PeerRecord
        BY <2>1, <2>4 DEF Tracked, AdmissionTypeOK
      <3>3. /\ peers[p].active \in Nat \ {0} /\ global.active \in Nat \ {0}
            /\ closed[s] \in Nat /\ m \in Nat
        BY <1>0, <2>4, <3>2, BoundsAssumption DEF PeerRecord, AdmissionTypeOK
      <3>4. /\ r \in PeerRecord /\ r.updated = peers[p].updated /\ r.seen = closed[s]
            /\ r.tokens = peers[p].tokens /\ r.active = m
        <4> HIDE DEF m
        <4>1. QED
          BY <3>2, <3>3 DEF PeerRecord
      <3>5. /\ global'.active = n /\ global'.accepted = global.accepted
            /\ global'.tokens = global.tokens /\ global'.updated = global.updated
            /\ global'.healthy = global.healthy
        <4> HIDE DEF n
        <4>1. QED
          BY <1>0, <3>1
      <3>6. peers'[p] = r /\ \A q \in Peers \ {p} : peers'[q] = peers[q]
        <4> HIDE DEF r, p
        <4>1. QED
          BY <2>1, <3>1 DEF AdmissionTypeOK
      <3>7. r # NoName
        BY <3>4, BoundsAssumption
      <3> HIDE DEF r
      <3>8. Tracked' = Tracked
        BY <3>2, <3>6, <3>7 DEF Tracked
      <3>9. QED
        BY <2>1, <2>2, <3>2, <3>3, <3>4, <3>5, <3>6, <3>8 DEF Returns, Tracked
    <2>5. QED
      BY <2>3, <2>4
  <1>6. ASSUME NEW s \in Streams, Acquire(s) PROVE Decides(s)
    <2>1. /\ streamPc[s] = "acquiring" /\ MayAcquire(s) /\ peer[s] \in Peers
          /\ UNCHANGED <<clock, health, routes, peer, opened, closed, lockFaults>>
      BY <1>6, AcquireCases DEF Instants
    <2>2. PICK tracked : KeptBy(s, tracked) /\ (Admits(s, tracked) \/ Rejects(s, tracked))
      BY <1>6, AcquireCases
    <2>3. global'.healthy = global.healthy
      BY <2>1, <2>2, AcquireRecords
    <2>4. Admits(s, tracked) => Live' = Live \cup {s} /\ Admitted' = Admitted \cup {s}
      BY <2>1, MovesKeep DEF Admits, Admit, HasLease
    <2>5. Rejects(s, tracked) => Live' = Live /\ Admitted' = Admitted
      BY <2>1, MovesKeep DEF Rejects, Overload, HasLease
    <2>6. s \notin Admitted
      BY <2>1 DEF Admitted, HasLease
    <2>7. QED
      BY <2>1, <2>2, <2>3, <2>4, <2>5, <2>6 DEF Decides
  <1>7. CASE Tick
    BY <1>7 DEF Tick, Calm, Healthy, Live, Admitted
  <1>8. QED
    BY <1>1, <1>2, <1>3, <1>4, <1>5, <1>6, <1>7 DEF AdmissionNext
-----------------------------------------------------------------------------
LeasesOf(p) == {s \in Live : peer[s] = p}

(* Streams and peers are finitely many.                                    *)
LEMMA FiniteStreams ==
  /\ \A S \in SUBSET Streams : IsFiniteSet(S)
  /\ \A S \in SUBSET Peers : IsFiniteSet(S)
  BY BoundsAssumption, FS_Subset

(* The counts stay those of the live leases.                               *)
LEMMA CountsStay ==
  ASSUME AdmissionTypeOK, Seen, LeasesExact, Calm \/ \E s \in Streams : Returns(s) \/ Decides(s)
  PROVE  LeasesExact'
  <1> DEFINE Tally == /\ global.active = Cardinality(Live)
                      /\ \A p \in Peers : Cardinality(LeasesOf(p)) = IF p \in Tracked THEN peers[p].active ELSE 0
             Next(p) == {s \in Live' : peer'[s] = p}
  <1>1. LeasesExact <=> (Healthy => Tally)
    BY DEF LeasesExact, LeasesOf
  <1>2. LeasesExact' <=> (Healthy' => /\ global'.active = Cardinality(Live')
                                      /\ \A p \in Peers : Cardinality(Next(p)) = IF p \in Tracked' THEN peers'[p].active ELSE 0)
    BY DEF LeasesExact
  <1>3. IsFiniteSet(Live) /\ \A p : IsFiniteSet(LeasesOf(p))
    BY FiniteStreams DEF Live, LeasesOf
  <1>4. CASE Calm
    <2>1. SUFFICES ASSUME Healthy' PROVE LeasesExact'
      BY DEF LeasesExact
    <2>2. Healthy /\ Live' = Live /\ Tracked' = Tracked /\ peers' = peers /\ global'.active = global.active
      BY <1>4, <2>1 DEF Calm, Tracked
    <2>3. \A p : Next(p) = LeasesOf(p)
      BY <1>4, <2>2, LiveAreAdmitted DEF Calm, LeasesOf
    <2>4. QED
      BY <1>1, <1>2, <2>2, <2>3
  <1>5. ASSUME NEW s \in Streams, Returns(s) PROVE LeasesExact'
    <2>1. SUFFICES ASSUME Healthy' PROVE LeasesExact'
      BY DEF LeasesExact
    <2>2. Healthy
      BY <1>5, <2>1 DEF Returns, Healthy
    <2>3. Tally
      BY <1>1, <2>2
    <2>4. global'.active = Cardinality(Live')
      BY <1>3, <1>5, <2>3, FS_RemoveElement DEF Returns
    <2>5. \A p \in Peers \ {peer[s]} : Next(p) = LeasesOf(p)
      BY <1>5 DEF Returns, LeasesOf
    <2>6. Next(peer[s]) = LeasesOf(peer[s]) \ {s} /\ s \in LeasesOf(peer[s])
      BY <1>5 DEF Returns, LeasesOf
    <2>7. Cardinality(Next(peer[s])) = Cardinality(LeasesOf(peer[s])) - 1
      BY <1>3, <2>6, FS_RemoveElement
    <2>8. peer[s] \in Peers /\ peer[s] \in Tracked'
      BY <1>5 DEF Returns, Tracked
    <2>9. \A p \in Peers : Cardinality(Next(p)) = IF p \in Tracked' THEN peers'[p].active ELSE 0
      BY ZenonT(40), <1>5, <2>3, <2>5, <2>7, <2>8 DEF Returns
    <2>10. QED
      BY <1>2, <2>4, <2>9
  <1>6. ASSUME NEW s \in Streams, Decides(s) PROVE LeasesExact'
    <2>1. Healthy /\ MayAcquire(s) /\ peer[s] \in Peers /\ s \notin Live
      BY <1>6, LiveAreAdmitted DEF Decides, MayAcquire
    <2>2. Tally
      BY <1>1, <2>1
    <2>3. PICK tracked : /\ KeptBy(s, tracked)
                         /\ \/ Admits(s, tracked) /\ Live' = Live \cup {s}
                            \/ Rejects(s, tracked) /\ Live' = Live
      BY <1>6 DEF Decides
    <2>4. peer' = peer /\ UNCHANGED <<clock, health, opened>>
      BY <1>6 DEF Decides
    <2> HIDE DEF Tally, Next
    <2>5. \A p \in Tracked \ tracked : peers[p].active = 0
      BY <2>3 DEF KeptBy
    <2>6. CASE Rejects(s, tracked) /\ Live' = Live
      <3>1. /\ Tracked' = tracked /\ tracked \subseteq Tracked /\ global'.active = global.active
            /\ \A p \in tracked : peers'[p] = peers[p]
        BY <2>1, <2>3, <2>4, <2>6, AcquireRecords
      <3>2. \A p : Next(p) = LeasesOf(p)
        BY <2>4, <2>6 DEF LeasesOf, Next
      <3>3. \A p \in Peers : Cardinality(Next(p)) = IF p \in Tracked' THEN peers'[p].active ELSE 0
        BY <2>2, <2>5, <3>1, <3>2 DEF Tally
      <3>4. QED
        BY <1>2, <2>2, <2>6, <3>1, <3>3 DEF Tally, Next
    <2>7. CASE Admits(s, tracked) /\ Live' = Live \cup {s}
      <3>1. /\ Tracked' = tracked \cup {peer[s]} /\ tracked \subseteq Tracked
            /\ global'.active = global.active + 1
            /\ \A p \in Peers \ {peer[s]} : peers'[p] = IF p \in tracked THEN peers[p] ELSE NoName
            /\ peers'[peer[s]].active = Mine(s).active + 1
        <4>1. /\ Tracked' = tracked \cup {peer[s]} /\ tracked \subseteq Tracked
              /\ global'.active = global.active + 1
              /\ peers'[peer[s]] = [active |-> Mine(s).active + 1, tokens |-> Mine(s).tokens - Unit,
                                    updated |-> opened[s], seen |-> opened[s]]
          BY <2>1, <2>3, <2>4, <2>7, AcquireRecords
        <4>2. \A p \in Peers \ {peer[s]} : peers'[p] = IF p \in tracked THEN peers[p] ELSE NoName
          BY <2>1, <2>3, <2>4, <2>7, AcquireRecords
        <4>3. QED
          BY <4>1, <4>2
      <3>2. Mine(s).active = IF peer[s] \in Tracked THEN peers[peer[s]].active ELSE 0
        BY <2>1, MineFacts
      <3>3. global'.active = Cardinality(Live')
        <4>1. Cardinality(Live') = Cardinality(Live) + 1
          BY <1>3, <2>1, <2>7, FS_AddElement
        <4>2. QED
          BY <2>2, <3>1, <4>1 DEF Tally
      <3>4. \A p \in Peers \ {peer[s]} : Next(p) = LeasesOf(p)
        BY <2>4, <2>7 DEF LeasesOf, Next
      <3>5. Next(peer[s]) = LeasesOf(peer[s]) \cup {s} /\ s \notin LeasesOf(peer[s])
        BY <2>1, <2>4, <2>7 DEF LeasesOf, Next
      <3>6. Cardinality(Next(peer[s])) = Cardinality(LeasesOf(peer[s])) + 1
        BY <1>3, <3>5, FS_AddElement
      <3>7. \A p \in Peers : Cardinality(Next(p)) = IF p \in Tracked' THEN peers'[p].active ELSE 0
        <4>1. Cardinality(Next(peer[s])) = peers'[peer[s]].active
          BY <2>1, <2>2, <3>1, <3>2, <3>6 DEF Tally
        <4>2. \A p \in Peers \ {peer[s]} : Cardinality(Next(p)) = IF p \in Tracked' THEN peers'[p].active ELSE 0
          BY <2>2, <2>5, <3>1, <3>4 DEF Tally
        <4>3. QED
          BY <3>1, <4>1, <4>2
      <3>8. QED
        BY <1>2, <3>3, <3>7 DEF Next
    <2>8. QED
      BY <2>3, <2>6, <2>7
  <1>7. QED
    BY <1>4, <1>5, <1>6
-----------------------------------------------------------------------------
(* The ceilings.                                                           *)
Ceilings ==
  /\ global.active <= MaxActive /\ Cardinality(Tracked) <= MaxTracked
  /\ \A p \in Tracked : peers[p].active <= MaxPerPeer

(* No ceiling is exceeded: acquire looks at each under the lock.           *)
LEMMA CeilingsStay ==
  ASSUME AdmissionTypeOK, Seen, Ceilings, Calm \/ \E s \in Streams : Returns(s) \/ Decides(s)
  PROVE  Ceilings'
  <1>1. {MaxActive, MaxPerPeer, MaxTracked} \subseteq Nat /\ MaxPerPeer > 0
    BY ConstantsFacts DEF Constants
  <1>2. IsFiniteSet(Tracked) /\ Cardinality(Tracked) \in Nat /\ global.active \in Nat
    BY FiniteStreams, FS_CardinalityType DEF Tracked, AdmissionTypeOK
  <1>3. \A p \in Tracked : peers[p].active \in Nat
    BY DEF AdmissionTypeOK, Tracked, PeerRecord
  <1>4. CASE Calm
    BY <1>4 DEF Calm, Ceilings, Tracked
  <1>5. ASSUME NEW s \in Streams, Returns(s) PROVE Ceilings'
    <2>1. global'.active <= MaxActive
      BY <1>1, <1>5 DEF Returns, Ceilings
    <2>2. \A p \in Tracked' : peers'[p].active <= MaxPerPeer
      BY <1>1, <1>3, <1>5 DEF Returns, Ceilings
    <2>3. QED
      BY <1>5, <2>1, <2>2 DEF Returns, Ceilings
  <1>6. ASSUME NEW s \in Streams, Decides(s) PROVE Ceilings'
    <2>1. MayAcquire(s) /\ peer[s] \in Peers /\ UNCHANGED <<clock, health, opened>>
      BY <1>6 DEF Decides
    <2>2. PICK tracked : KeptBy(s, tracked) /\ (Admits(s, tracked) \/ Rejects(s, tracked))
      BY <1>6 DEF Decides
    <2>3. tracked \subseteq Tracked
      BY <2>1, <2>2, AcquireRecords
    <2>4. IsFiniteSet(tracked) /\ Cardinality(tracked) <= Cardinality(Tracked) /\ Cardinality(tracked) \in Nat
      BY <1>2, <2>3, FS_Subset, FS_CardinalityType
    <2>5. CASE Rejects(s, tracked)
      <3>1. /\ Tracked' = tracked /\ global'.active = global.active
            /\ \A p \in tracked : peers'[p] = peers[p]
        BY <2>1, <2>2, <2>5, AcquireRecords
      <3>2. Cardinality(tracked) <= MaxTracked
        BY <1>1, <1>2, <2>4 DEF Ceilings
      <3>3. QED
        BY <2>3, <3>1, <3>2 DEF Ceilings
    <2>6. CASE Admits(s, tracked)
      <3>1. /\ Tracked' = tracked \cup {peer[s]}
            /\ global'.active = global.active + 1 /\ global.active < MaxActive
            /\ \A p \in Peers \ {peer[s]} : peers'[p] = IF p \in tracked THEN peers[p] ELSE NoName
            /\ peers'[peer[s]].active = Mine(s).active + 1 /\ Mine(s).active < MaxPerPeer
        <4>1. /\ Tracked' = tracked \cup {peer[s]}
              /\ global'.active = global.active + 1 /\ global.active < MaxActive
              /\ peers'[peer[s]] = [active |-> Mine(s).active + 1, tokens |-> Mine(s).tokens - Unit,
                                    updated |-> opened[s], seen |-> opened[s]]
              /\ Mine(s).active < MaxPerPeer
          BY <2>1, <2>2, <2>6, AcquireRecords
        <4>2. \A p \in Peers \ {peer[s]} : peers'[p] = IF p \in tracked THEN peers[p] ELSE NoName
          BY <2>1, <2>2, <2>6, AcquireRecords
        <4>3. QED
          BY <4>1, <4>2
      <3>2. Mine(s).active \in Nat
        BY <2>1, MineFacts
      <3>3. Cardinality(Tracked') <= MaxTracked
        <4>1. CASE peer[s] \in Tracked
          <5>1. Tracked' = Tracked
            BY <2>2, <3>1, <4>1 DEF KeptBy
          <5>2. QED
            BY <5>1 DEF Ceilings
        <4>2. CASE peer[s] \notin Tracked
          <5>1. Cardinality(tracked) < MaxTracked
            BY <1>1, <2>4, <2>6, <4>2 DEF Admits
          <5>2. Cardinality(Tracked') = Cardinality(tracked) + 1
            BY <2>3, <2>4, <3>1, <4>2, FS_AddElement
          <5>3. QED
            BY <1>1, <2>4, <5>1, <5>2
        <4>3. QED
          BY <4>1, <4>2
      <3>4. \A p \in Tracked' : peers'[p].active <= MaxPerPeer
        <4>1. peers'[peer[s]].active <= MaxPerPeer
          BY <1>1, <3>1, <3>2
        <4>2. \A p \in tracked \ {peer[s]} : peers'[p] = peers[p]
          BY <2>3, <3>1 DEF Tracked
        <4>3. QED
          BY <2>3, <3>1, <4>1, <4>2 DEF Ceilings
      <3>5. QED
        BY <1>1, <1>2, <3>1, <3>3, <3>4 DEF Ceilings
    <2>7. QED
      BY <2>2, <2>5, <2>6
  <1>7. QED
    BY <1>4, <1>5, <1>6
-----------------------------------------------------------------------------
(* The bucket of a peer that is not tracked is full: it would be made so.  *)
TokensOf(p) == IF p \in Tracked THEN peers[p].tokens ELSE PeerBurst * Unit
Updated(p) == IF p \in Tracked THEN peers[p].updated ELSE global.updated
AdmittedOf(p) == {s \in Admitted : peer[s] = p}

GlobalBucket == Within(opened, Admitted, global.tokens, global.updated, GlobalRate, GlobalBurst)
PeerBucket(p) == Within(opened, AdmittedOf(p), TokensOf(p), Updated(p), PeerRate, PeerBurst)
PeerBuckets == \A p \in Peers : PeerBucket(p)

(* A forgotten peer's bucket would be full again, however late its last    *)
(* release came to hold the lock.                                          *)
PrunedIsFull == MaxPerPeer = 1 \/ PeerRate * (PeerTtl - MaxStall) >= PeerBurst * Unit

(* When acquire holds the lock its instant is not before any bucket's.     *)
LEMMA DecideFacts ==
  ASSUME AdmissionTypeOK, Seen, NEW s \in Streams, MayAcquire(s)
  PROVE  /\ opened[s] \in Nat /\ global.updated \in Nat /\ global.updated <= opened[s]
         /\ \A p \in Peers : Updated(p) \in Nat /\ Updated(p) <= opened[s]
         /\ {GlobalRate, GlobalBurst, PeerRate, PeerBurst} \subseteq Nat
  <1>1. opened[s] \in Nat /\ global.updated \in Nat /\ global.updated <= opened[s]
    BY BoundsAssumption DEF AdmissionTypeOK, MayAcquire
  <1>2. \A p \in Tracked : peers[p].updated \in Nat /\ peers[p].updated <= global.updated
    BY DEF AdmissionTypeOK, Tracked, Seen, PeerRecord
  <1>3. QED
    BY <1>1, <1>2, ConstantsFacts DEF Updated, Constants

(* The worker's bucket stays within its bound.                             *)
LEMMA GlobalBucketStays ==
  ASSUME AdmissionTypeOK, Seen, GlobalBucket, Calm \/ \E s \in Streams : Returns(s) \/ Decides(s)
  PROVE  GlobalBucket'
  <1>1. CASE Calm
    <2>1. /\ Admitted' = Admitted /\ global'.tokens = global.tokens /\ global'.updated = global.updated
          /\ \A x \in Admitted : opened[x] = opened'[x]
      BY <1>1 DEF Calm
    <2>2. Within(opened', Admitted, global.tokens, global.updated, GlobalRate, GlobalBurst)
      BY <2>1, WithinOfSame DEF GlobalBucket
    <2>3. QED
      BY <2>1, <2>2 DEF GlobalBucket
  <1>2. ASSUME NEW s \in Streams, Returns(s) PROVE GlobalBucket'
    <2>1. /\ Admitted' = Admitted /\ global'.tokens = global.tokens /\ global'.updated = global.updated
          /\ opened' = opened
      BY <1>2 DEF Returns
    <2>2. QED
      BY <2>1 DEF GlobalBucket
  <1>3. ASSUME NEW s \in Streams, Decides(s) PROVE GlobalBucket'
    <2>1. /\ MayAcquire(s) /\ peer[s] \in Peers /\ UNCHANGED <<clock, health, opened>>
          /\ s \notin Admitted
      BY <1>3 DEF Decides
    <2>2. PICK tracked : /\ KeptBy(s, tracked)
                         /\ \/ Admits(s, tracked) /\ Admitted' = Admitted \cup {s}
                            \/ Rejects(s, tracked) /\ Admitted' = Admitted
      BY <1>3 DEF Decides
    <2>3. IsFiniteSet(Admitted)
      BY FiniteStreams DEF Admitted
    <2>4. /\ opened[s] \in Nat /\ global.updated \in Nat /\ global.updated <= opened[s]
          /\ GlobalRate \in Nat /\ GlobalBurst \in Nat
      BY <2>1, DecideFacts
    <2>5. Within(opened, Admitted, GlobalTokens(s), opened[s], GlobalRate, GlobalBurst)
      BY <2>3, <2>4, RefillKeeps DEF GlobalBucket, GlobalTokens
    <2>6. CASE Rejects(s, tracked) /\ Admitted' = Admitted
      <3>1. global'.tokens = GlobalTokens(s) /\ global'.updated = opened[s]
        BY <2>1, <2>2, <2>6, AcquireRecords
      <3>2. QED
        BY <2>1, <2>5, <2>6, <3>1 DEF GlobalBucket
    <2>7. CASE Admits(s, tracked) /\ Admitted' = Admitted \cup {s}
      <3>1. /\ global'.tokens = GlobalTokens(s) - Unit /\ global'.updated = opened[s]
            /\ GlobalTokens(s) >= Unit
        BY <2>1, <2>2, <2>7, AcquireRecords
      <3>2. Within(opened, Admitted \cup {s}, GlobalTokens(s) - Unit, opened[s], GlobalRate, GlobalBurst)
        BY <2>1, <2>3, <2>4, <2>5, <3>1, TakeKeeps
      <3>3. QED
        BY <2>1, <2>7, <3>1, <3>2 DEF GlobalBucket
    <2>8. QED
      BY <2>2, <2>6, <2>7
  <1>4. QED
    BY <1>1, <1>2, <1>3

(* A peer that is pruned would have a full bucket by now.                  *)
LEMMA PrunedFacts ==
  ASSUME AdmissionTypeOK, Seen, PrunedIsFull, NEW s \in Streams, MayAcquire(s),
         NEW q \in Tracked, opened[s] - peers[q].seen >= PeerTtl
  PROVE  PeerRate * (opened[s] - peers[q].updated) >= PeerBurst * Unit
  <1> DEFINE full == PeerBurst * Unit  age == opened[s] - peers[q].updated
  <1>1. /\ peers[q].updated \in Nat /\ peers[q].seen \in Nat
        /\ opened[s] \in Nat /\ peers[q].updated <= opened[s]
    <2>1. q \in Peers /\ Updated(q) = peers[q].updated
      BY DEF Tracked, Updated
    <2>2. peers[q] \in PeerRecord
      BY DEF AdmissionTypeOK, Tracked
    <2>3. QED
      BY <2>1, <2>2, DecideFacts DEF PeerRecord
  <1>2. /\ {PeerRate, PeerTtl, MaxStall} \subseteq Nat /\ PeerRate > 0 /\ full \in Nat /\ full > 0
        /\ PeerRate * PeerTtl >= full
    <2>1. {PeerRate, PeerTtl, PeerBurst, Unit, MaxPerPeer, MaxStall} \subseteq Nat
      BY ConstantsFacts DEF Constants
    <2>2. PeerRate * PeerTtl = PeerTtl * PeerRate
      BY <2>1
    <2>3. QED
      BY <2>1, <2>2, PolicyAssumption, ConstantsFacts
  <1>3. age \in Nat /\ age >= PeerTtl - Slack
    <2>1. Healthy
      BY DEF MayAcquire
    <2>2. peers[q].updated <= peers[q].seen + Slack /\ Slack \in Nat
      BY <1>2, <2>1 DEF Seen, Slack
    <2>3. QED
      BY <1>1, <1>2, <2>2
  <1> HIDE DEF full, age
  <1>4. PeerRate * age \in Nat
    BY <1>2, <1>3, Products
  <1>5. CASE MaxPerPeer = 1
    <2>1. PeerTtl <= age
      BY <1>2, <1>3, <1>5 DEF Slack
    <2>2. PeerRate * PeerTtl <= PeerRate * age /\ PeerRate * PeerTtl \in Nat
      BY <1>2, <1>3, <2>1, Products
    <2>3. PeerRate * age >= full
      <3> DEFINE A == PeerRate * PeerTtl  B == PeerRate * age
      <3>1. A <= B /\ A \in Nat /\ B \in Nat /\ A >= full
        BY <1>2, <1>4, <2>2
      <3> HIDE DEF A, B
      <3>2. B >= full
        BY <1>2, <3>1
      <3>3. QED
        BY <3>2 DEF B
    <2>4. QED
      BY <2>3 DEF full, age
  <1>6. CASE MaxPerPeer # 1
    <2> DEFINE d == PeerTtl - MaxStall
    <2>1. d \in Int /\ d <= age /\ PeerRate * d >= full
      BY <1>2, <1>3, <1>6 DEF Slack, PrunedIsFull, full
    <2> HIDE DEF d
    <2>2. d >= 0
      <3>1. SUFFICES ASSUME d < 0 PROVE FALSE
        BY <2>1
      <3>2. PeerRate * d <= 0
        BY <1>2, <2>1, <3>1
      <3>3. PeerRate * d \in Int
        BY <1>2, <2>1
      <3>4. QED
        BY <1>2, <2>1, <3>2, <3>3
    <2>3. d \in Nat
      BY <2>1, <2>2
    <2>4. PeerRate * d <= PeerRate * age /\ PeerRate * d \in Nat
      BY <1>2, <1>3, <2>1, <2>3, Products
    <2>5. PeerRate * age >= full
      <3> DEFINE A == PeerRate * d  B == PeerRate * age
      <3>1. A <= B /\ A \in Nat /\ B \in Nat /\ A >= full
        BY <1>4, <2>1, <2>4
      <3> HIDE DEF A, B
      <3>2. B >= full
        BY <1>2, <3>1
      <3>3. QED
        BY <3>2 DEF B
    <2>6. QED
      BY <2>5 DEF full, age
  <1>7. QED
    BY <1>5, <1>6

(* A peer's bucket, when acquire has decided about some stream, and the    *)
(* peer's own record and streams are not those it changes.                 *)
LEMMA OtherBucketStays ==
  ASSUME AdmissionTypeOK, Seen, PrunedIsFull, NEW s \in Streams, MayAcquire(s), opened' = opened,
         NEW tracked, KeptBy(s, tracked), global'.updated = opened[s],
         NEW p \in Peers, PeerBucket(p), AdmittedOf(p)' = AdmittedOf(p), p \in Tracked' <=> p \in tracked,
         p \in tracked => peers'[p] = peers[p]
  PROVE  PeerBucket(p)'
  <1>1. IsFiniteSet(AdmittedOf(p))
    BY FiniteStreams DEF AdmittedOf, Admitted
  <1>2. tracked \subseteq Tracked
    BY DEF KeptBy
  <1>3. CASE p \in tracked
    <2>1. TokensOf(p)' = TokensOf(p) /\ Updated(p)' = Updated(p)
      BY <1>2, <1>3 DEF TokensOf, Updated
    <2>2. QED
      BY <2>1 DEF PeerBucket
  <1>4. CASE p \notin tracked
    <2>1. TokensOf(p)' = PeerBurst * Unit /\ Updated(p)' = opened[s]
      BY <1>4 DEF TokensOf, Updated
    <2>2. PeerRate * (opened[s] - Updated(p)) >= PeerBurst * Unit \/ TokensOf(p) = PeerBurst * Unit
      <3>1. CASE p \in Tracked
        <4>1. opened[s] - peers[p].seen >= PeerTtl
          BY <1>4, <3>1 DEF KeptBy
        <4>2. QED
          BY <3>1, <4>1, PrunedFacts DEF Updated
      <3>2. CASE p \notin Tracked
        BY <3>2 DEF TokensOf
      <3>3. QED
        BY <3>1, <3>2
    <2>3. /\ opened[s] \in Nat /\ Updated(p) \in Nat /\ Updated(p) <= opened[s]
          /\ PeerRate \in Nat /\ PeerBurst \in Nat
      BY DecideFacts
    <2>4. Within(opened, AdmittedOf(p), TokensOf(p), Updated(p), PeerRate, PeerBurst)
      BY DEF PeerBucket
    <2>5. Within(opened, AdmittedOf(p), PeerBurst * Unit, opened[s], PeerRate, PeerBurst)
      BY <1>1, <2>2, <2>3, <2>4, FullAgain
    <2>6. QED
      BY <2>1, <2>5 DEF PeerBucket
  <1>5. QED
    BY <1>3, <1>4

(* So do the peers', if what is pruned would be full.                      *)
LEMMA PeerBucketsStay ==
  ASSUME AdmissionTypeOK, Seen, PrunedIsFull, PeerBuckets,
         Calm \/ \E s \in Streams : Returns(s) \/ Decides(s)
  PROVE  PeerBuckets'
  <1>0. SUFFICES ASSUME NEW p \in Peers PROVE PeerBucket(p)'
    BY DEF PeerBuckets
  <1>1. PeerBucket(p)
    BY DEF PeerBuckets
  <1>2. CASE Calm
    <2>1. AdmittedOf(p)' = AdmittedOf(p) /\ \A x \in AdmittedOf(p) : opened[x] = opened'[x]
      BY <1>2 DEF Calm, AdmittedOf
    <2>2. TokensOf(p)' = TokensOf(p) /\ Updated(p)' = Updated(p)
      BY <1>2 DEF Calm, TokensOf, Updated, Tracked
    <2>3. Within(opened', AdmittedOf(p), TokensOf(p), Updated(p), PeerRate, PeerBurst)
      BY <1>1, <2>1, WithinOfSame DEF PeerBucket
    <2>4. QED
      BY <2>1, <2>2, <2>3 DEF PeerBucket
  <1>3. ASSUME NEW s \in Streams, Returns(s) PROVE PeerBucket(p)'
    <2>1. AdmittedOf(p)' = AdmittedOf(p) /\ opened' = opened
      BY <1>3 DEF Returns, AdmittedOf
    <2>2. TokensOf(p)' = TokensOf(p) /\ Updated(p)' = Updated(p)
      BY <1>3 DEF Returns, TokensOf, Updated
    <2>3. QED
      BY <1>1, <2>1, <2>2 DEF PeerBucket
  <1>4. ASSUME NEW s \in Streams, Decides(s) PROVE PeerBucket(p)'
    <2>1. /\ MayAcquire(s) /\ peer[s] \in Peers /\ UNCHANGED <<clock, health, opened>>
          /\ s \notin Admitted /\ peer' = peer
      BY <1>4 DEF Decides
    <2>2. PICK tracked : /\ KeptBy(s, tracked)
                         /\ \/ Admits(s, tracked) /\ Admitted' = Admitted \cup {s}
                            \/ Rejects(s, tracked) /\ Admitted' = Admitted
      BY <1>4 DEF Decides
    <2>3. CASE Rejects(s, tracked) /\ Admitted' = Admitted
      <3>1. /\ Tracked' = tracked /\ (\A q \in tracked : peers'[q] = peers[q])
            /\ global'.updated = opened[s]
        BY <2>1, <2>2, <2>3, AcquireRecords
      <3>2. AdmittedOf(p)' = AdmittedOf(p)
        BY <2>1, <2>3 DEF AdmittedOf
      <3>3. QED
        BY <1>1, <2>1, <2>2, <3>1, <3>2, OtherBucketStays
    <2>4. CASE Admits(s, tracked) /\ Admitted' = Admitted \cup {s}
      <3>1. /\ Tracked' = tracked \cup {peer[s]} /\ tracked \subseteq Tracked
            /\ global'.updated = opened[s] /\ Mine(s).tokens >= Unit
            /\ peers'[peer[s]] = [active |-> Mine(s).active + 1, tokens |-> Mine(s).tokens - Unit,
                                  updated |-> opened[s], seen |-> opened[s]]
        BY <2>1, <2>2, <2>4, AcquireRecords
      <3>2. \A q \in Peers \ {peer[s]} : peers'[q] = IF q \in tracked THEN peers[q] ELSE NoName
        BY <2>1, <2>2, <2>4, AcquireRecords
      <3>3. CASE p # peer[s]
        <4>1. AdmittedOf(p)' = AdmittedOf(p)
          BY <2>1, <2>4, <3>3 DEF AdmittedOf
        <4>2. (p \in Tracked' <=> p \in tracked) /\ (p \in tracked => peers'[p] = peers[p])
          BY <3>1, <3>2, <3>3
        <4>3. QED
          BY <1>1, <2>1, <2>2, <3>1, <4>1, <4>2, OtherBucketStays
      <3>4. CASE p = peer[s]
        <4>1. TokensOf(p)' = Mine(s).tokens - Unit /\ Updated(p)' = opened[s]
          BY <3>1, <3>4 DEF TokensOf, Updated
        <4>2. AdmittedOf(p)' = AdmittedOf(p) \cup {s} /\ s \notin AdmittedOf(p)
          BY <2>1, <2>4, <3>4 DEF AdmittedOf, Admitted
        <4>3. IsFiniteSet(AdmittedOf(p))
          BY FiniteStreams DEF AdmittedOf, Admitted
        <4>4. /\ opened[s] \in Nat /\ Updated(p) \in Nat /\ Updated(p) <= opened[s]
              /\ PeerRate \in Nat /\ PeerBurst \in Nat
          BY <2>1, DecideFacts
        <4>5. Within(opened, AdmittedOf(p), Mine(s).tokens, opened[s], PeerRate, PeerBurst)
          <5>1. CASE p \in Tracked
            <6>1. Mine(s).tokens = Refill(TokensOf(p), Updated(p), opened[s], PeerRate, PeerBurst)
              BY <3>4, <5>1 DEF Mine, TokensOf, Updated
            <6>2. Within(opened, AdmittedOf(p), Refill(TokensOf(p), Updated(p), opened[s], PeerRate, PeerBurst),
                         opened[s], PeerRate, PeerBurst)
              BY <1>1, <4>3, <4>4, RefillKeeps DEF PeerBucket
            <6>3. QED
              BY <6>1, <6>2
          <5>2. CASE p \notin Tracked
            <6>1. Mine(s).tokens = PeerBurst * Unit /\ TokensOf(p) = PeerBurst * Unit
              BY <3>4, <5>2 DEF Mine, TokensOf
            <6>2. Within(opened, AdmittedOf(p), PeerBurst * Unit, opened[s], PeerRate, PeerBurst)
              BY <1>1, <4>3, <4>4, <6>1, FullAgain DEF PeerBucket
            <6>3. QED
              BY <6>1, <6>2
          <5>3. QED
            BY <5>1, <5>2
        <4>6. Within(opened, AdmittedOf(p) \cup {s}, Mine(s).tokens - Unit, opened[s], PeerRate, PeerBurst)
          BY <3>1, <4>2, <4>3, <4>4, <4>5, TakeKeeps
        <4>7. QED
          BY <2>1, <4>1, <4>2, <4>6 DEF PeerBucket
      <3>5. QED
        BY <3>3, <3>4
    <2>5. QED
      BY <2>2, <2>3, <2>4
  <1>5. QED
    BY <1>2, <1>3, <1>4
-----------------------------------------------------------------------------
GlobalRateHolds == Rate(opened, Admitted, GlobalRate, GlobalBurst)
PeerRatesHold == \A p \in Peers : Rate(opened, AdmittedOf(p), PeerRate, PeerBurst)

(* The buckets after a step bound what was admitted in any interval.       *)
LEMMA GlobalRateStays ==
  ASSUME AdmissionTypeOK, Seen, GlobalRateHolds, GlobalBucket',
         Calm \/ \E s \in Streams : Returns(s) \/ Decides(s)
  PROVE  GlobalRateHolds'
  <1>1. CASE Calm
    BY <1>1, RateOfSame DEF Calm, GlobalRateHolds
  <1>2. ASSUME NEW s \in Streams, Returns(s) PROVE GlobalRateHolds'
    BY <1>2 DEF Returns, GlobalRateHolds
  <1>3. ASSUME NEW s \in Streams, Decides(s) PROVE GlobalRateHolds'
    <2>1. MayAcquire(s) /\ peer[s] \in Peers /\ UNCHANGED <<clock, health, opened>>
      BY <1>3 DEF Decides
    <2>2. PICK tracked : /\ KeptBy(s, tracked)
                         /\ \/ Admits(s, tracked) /\ Admitted' = Admitted \cup {s}
                            \/ Rejects(s, tracked) /\ Admitted' = Admitted
      BY <1>3 DEF Decides
    <2>3. CASE Admitted' = Admitted
      BY <2>1, <2>3 DEF GlobalRateHolds
    <2>4. CASE Admitted' = Admitted \cup {s}
      <3>1. global'.updated = opened[s]
        BY <2>1, <2>2, AcquireRecords
      <3>2. Within(opened, Admitted \cup {s}, global'.tokens, opened[s], GlobalRate, GlobalBurst)
        BY <2>1, <2>4, <3>1 DEF GlobalBucket
      <3>3. IsFiniteSet(Admitted)
        BY FiniteStreams DEF Admitted
      <3>4. opened[s] \in Nat /\ GlobalRate \in Nat /\ GlobalBurst \in Nat
        BY <2>1, DecideFacts
      <3>5. Rate(opened, Admitted \cup {s}, GlobalRate, GlobalBurst)
        BY <3>2, <3>3, <3>4, RateKeeps DEF GlobalRateHolds
      <3>6. QED
        BY <2>1, <2>4, <3>5 DEF GlobalRateHolds
    <2>5. QED
      BY <2>2, <2>3, <2>4
  <1>4. QED
    BY <1>1, <1>2, <1>3

(* The same for each peer.                                                 *)
LEMMA PeerRatesStay ==
  ASSUME AdmissionTypeOK, Seen, PeerRatesHold, PeerBuckets',
         Calm \/ \E s \in Streams : Returns(s) \/ Decides(s)
  PROVE  PeerRatesHold'
  <1>0. SUFFICES ASSUME NEW p \in Peers PROVE Rate(opened', AdmittedOf(p)', PeerRate, PeerBurst)
    BY DEF PeerRatesHold
  <1>1. Rate(opened, AdmittedOf(p), PeerRate, PeerBurst)
    BY DEF PeerRatesHold
  <1>2. CASE Calm
    <2>1. AdmittedOf(p)' = AdmittedOf(p) /\ \A x \in AdmittedOf(p) : opened[x] = opened'[x]
      BY <1>2 DEF Calm, AdmittedOf
    <2>2. QED
      BY <1>1, <2>1, RateOfSame
  <1>3. ASSUME NEW s \in Streams, Returns(s) PROVE Rate(opened', AdmittedOf(p)', PeerRate, PeerBurst)
    <2>1. AdmittedOf(p)' = AdmittedOf(p) /\ opened' = opened
      BY <1>3 DEF Returns, AdmittedOf
    <2>2. QED
      BY <1>1, <2>1
  <1>4. ASSUME NEW s \in Streams, Decides(s) PROVE Rate(opened', AdmittedOf(p)', PeerRate, PeerBurst)
    <2>1. /\ MayAcquire(s) /\ peer[s] \in Peers /\ UNCHANGED <<clock, health, opened>>
          /\ peer' = peer
      BY <1>4 DEF Decides
    <2>2. PICK tracked : /\ KeptBy(s, tracked)
                         /\ \/ Admits(s, tracked) /\ Admitted' = Admitted \cup {s}
                            \/ Rejects(s, tracked) /\ Admitted' = Admitted
      BY <1>4 DEF Decides
    <2>3. CASE AdmittedOf(p)' = AdmittedOf(p)
      BY <1>1, <2>1, <2>3
    <2>4. CASE AdmittedOf(p)' # AdmittedOf(p)
      <3>1. /\ Admits(s, tracked) /\ p = peer[s]
            /\ AdmittedOf(p)' = AdmittedOf(p) \cup {s}
        BY <2>1, <2>2, <2>4 DEF AdmittedOf
      <3>2. peers'[p].updated = opened[s] /\ p \in Tracked'
        <4>1. /\ Tracked' = tracked \cup {peer[s]}
              /\ peers'[peer[s]] = [active |-> Mine(s).active + 1, tokens |-> Mine(s).tokens - Unit,
                                    updated |-> opened[s], seen |-> opened[s]]
          BY <2>1, <2>2, <3>1, AcquireRecords
        <4>2. QED
          BY <3>1, <4>1
      <3>3. Within(opened, AdmittedOf(p) \cup {s}, peers'[p].tokens, opened[s], PeerRate, PeerBurst)
        BY <2>1, <3>1, <3>2 DEF PeerBuckets, PeerBucket, TokensOf, Updated
      <3>4. IsFiniteSet(AdmittedOf(p))
        BY FiniteStreams DEF AdmittedOf, Admitted
      <3>5. opened[s] \in Nat /\ PeerRate \in Nat /\ PeerBurst \in Nat
        BY <2>1, DecideFacts
      <3>6. Rate(opened, AdmittedOf(p) \cup {s}, PeerRate, PeerBurst)
        BY <1>1, <3>3, <3>4, <3>5, RateKeeps
      <3>7. QED
        BY <2>1, <3>1, <3>6
    <2>5. QED
      BY <2>3, <2>4
  <1>5. QED
    BY <1>2, <1>3, <1>4
-----------------------------------------------------------------------------
(* Every step keeps the order of a stream's instants.                      *)
LEMMA InstantsStay ==
  ASSUME AdmissionTypeOK, Instants, AdmissionNext
  PROVE  Instants'
  <1>1. /\ clock \in Nat /\ MaxStall \in Nat
        /\ \A s \in Streams : opened[s] \in 0..clock /\ closed[s] \in 0..clock
    BY BoundsAssumption DEF AdmissionTypeOK
  <1>2. ASSUME NEW s \in Streams, NEW p \in Peers, Open(s, p) PROVE Instants'
    <2>1. \A x \in Streams \ {s} : /\ streamPc'[x] = streamPc[x] /\ peer'[x] = peer[x]
                                   /\ opened'[x] = opened[x]
      BY <1>2 DEF Open, StreamGoto, AdmissionTypeOK
    <2>2. streamPc'[s] = "acquiring" /\ peer'[s] = p /\ closed' = closed /\ clock' = clock
      BY <1>2 DEF Open, StreamGoto, AdmissionTypeOK
    <2>3. QED
      BY <2>1, <2>2 DEF Instants
  <1>3. ASSUME NEW s \in Streams, NEW pc, StreamGoto(s, pc), streamPc[s] # "new",
               pc \notin {"releasing", "release_failed"}, UNCHANGED <<clock, peer, opened, closed>>
        PROVE  Instants'
    <2>1. streamPc'[s] = pc /\ \A x \in Streams \ {s} : streamPc'[x] = streamPc[x]
      BY <1>3 DEF StreamGoto, AdmissionTypeOK
    <2>2. QED
      BY <1>3, <2>1 DEF Instants
  <1>4. ASSUME NEW s \in Streams,
               RefuseUnavailable(s) \/ EndUnrouted(s) \/ Unregister(s) \/ Poison(s) \/ Mark(s) \/ Release(s)
        PROVE  Instants'
    BY <1>3, <1>4 DEF RefuseUnavailable, EndUnrouted, Unregister, Poison, Mark, Release
  <1>5. ASSUME NEW s \in Streams, NEW n \in SessionNames, Register(s, n) PROVE Instants'
    BY <1>3, <1>5 DEF Register
  <1>6. ASSUME NEW s \in Streams, Acquire(s) PROVE Instants'
    <2>1. streamPc[s] = "acquiring" /\ UNCHANGED <<clock, peer, opened, closed>>
      BY <1>6, AcquireCases
    <2>2. StreamGoto(s, "leased") \/ StreamGoto(s, "rejected")
      BY <1>6, AcquireCases DEF Admits, Admit, Rejects, Overload
    <2>3. QED
      BY <1>3, <2>1, <2>2
  <1>7. ASSUME NEW s \in Streams, AuthorityTimeout(s) PROVE Instants'
    <2>1. UNCHANGED <<clock, peer, opened, closed>>
      BY <1>7 DEF AuthorityTimeout
    <2>2. CASE streamPc[s] = "routed" /\ StreamGoto(s, "unroute_failed")
      BY <1>3, <2>1, <2>2
    <2>3. CASE streamPc[s] = "releasing" /\ StreamGoto(s, "release_failed")
      <3>1. streamPc'[s] = "release_failed" /\ \A x \in Streams \ {s} : streamPc'[x] = streamPc[x]
        BY <2>3 DEF StreamGoto, AdmissionTypeOK
      <3>2. QED
        BY <2>1, <2>3, <3>1 DEF Instants
    <2>4. QED
      BY <1>7, <2>2, <2>3 DEF AuthorityTimeout
  <1>8. ASSUME NEW s \in Streams, CloseStream(s) PROVE Instants'
    <2>1. /\ streamPc[s] = "closing" /\ streamPc'[s] = "releasing" /\ closed'[s] = clock
          /\ \A x \in Streams \ {s} : streamPc'[x] = streamPc[x] /\ closed'[x] = closed[x]
          /\ UNCHANGED <<clock, peer, opened>>
      BY <1>8 DEF CloseStream, StreamGoto, AdmissionTypeOK
    <2>2. opened[s] <= clock /\ clock <= clock + MaxStall
      BY <1>1
    <2>3. QED
      BY <2>1, <2>2 DEF Instants
  <1>9. CASE Tick
    <2>1. /\ UNCHANGED <<streamPc, peer, opened, closed>> /\ clock' = clock + 1
          /\ \A s \in Streams : streamPc[s] = "releasing" => clock - closed[s] < MaxStall
      BY <1>9 DEF Tick
    <2>2. \A s \in Streams : streamPc[s] = "releasing" => clock' <= closed[s] + MaxStall
      BY <1>1, <2>1
    <2>3. QED
      BY <2>1, <2>2 DEF Instants
  <1>10. QED
    BY <1>2, <1>4, <1>5, <1>6, <1>7, <1>8, <1>9 DEF AdmissionNext

(* A stream gets to where a timeout leads only by a timeout.               *)
LEMMA FaultyStay ==
  ASSUME AdmissionTypeOK, Faulty, AdmissionNext
  PROVE  Faulty'
  <1> DEFINE Failed == {"unroute_failed", "unroute_mark", "release_failed", "release_mark"}
  <1>1. lockFaults \in Nat
    BY BoundsAssumption DEF AdmissionTypeOK
  <1>2. ASSUME NEW s \in Streams, NEW pc, StreamGoto(s, pc), lockFaults' \in Nat, lockFaults' >= lockFaults,
               pc \in Failed => streamPc[s] \in Failed \/ lockFaults' > 0
        PROVE  Faulty'
    <2>1. streamPc'[s] = pc /\ \A x \in Streams \ {s} : streamPc'[x] = streamPc[x]
      BY <1>2 DEF StreamGoto, AdmissionTypeOK
    <2>2. QED
      BY <1>1, <1>2, <2>1 DEF Faulty
  <1>3. ASSUME NEW s \in Streams, NEW p \in Peers, Open(s, p) PROVE Faulty'
    BY <1>1, <1>2, <1>3 DEF Open
  <1>4. ASSUME NEW s \in Streams,
               RefuseUnavailable(s) \/ EndUnrouted(s) \/ Unregister(s) \/ Release(s) \/ CloseStream(s)
        PROVE  Faulty'
    <2>1. lockFaults' \in {lockFaults, lockFaults + 1}
      BY <1>4 DEF RefuseUnavailable, EndUnrouted, Unregister, Release, CloseStream
    <2>2. QED
      BY <1>1, <1>2, <1>4, <2>1 DEF RefuseUnavailable, EndUnrouted, Unregister, Release, CloseStream
  <1>5. ASSUME NEW s \in Streams, Poison(s) \/ Mark(s) PROVE Faulty'
    <2>1. lockFaults' \in {lockFaults, lockFaults + 1}
      BY <1>5 DEF Poison, Mark
    <2>2. QED
      BY <1>1, <1>2, <1>5, <2>1 DEF Poison, Mark
  <1>6. ASSUME NEW s \in Streams, AuthorityTimeout(s) PROVE Faulty'
    BY <1>1, <1>2, <1>6 DEF AuthorityTimeout
  <1>7. ASSUME NEW s \in Streams, NEW n \in SessionNames, Register(s, n) PROVE Faulty'
    BY <1>1, <1>2, <1>7 DEF Register
  <1>8. ASSUME NEW s \in Streams, Acquire(s) PROVE Faulty'
    <2>1. StreamGoto(s, "leased") \/ StreamGoto(s, "rejected")
      BY <1>8, AcquireCases DEF Admits, Admit, Rejects, Overload
    <2>2. QED
      BY <1>1, <1>2, <1>8, <2>1, AcquireCases
  <1>9. CASE Tick
    BY <1>9 DEF Tick, Faulty
  <1>10. QED
    BY <1>3, <1>4, <1>5, <1>6, <1>7, <1>8, <1>9 DEF AdmissionNext
-----------------------------------------------------------------------------
(* While the authority is healthy, the routes and the streams that have to *)
(* have one belong to each other.                                          *)
RoutesLead == \A n \in SessionNames : routes[n] # NoName =>
                routes[n] \in Streams /\ streamPc[routes[n]] \in {"routed", "unroute_failed"}
RoutesDiffer == \A n, m \in SessionNames : routes[n] = routes[m] /\ routes[n] # NoName => n = m
RoutedHave == \A s \in Streams : streamPc[s] = "routed" => \E n \in SessionNames : routes[n] = s
RoutesExact == Healthy => RoutesLead /\ RoutesDiffer /\ RoutedHave

(* Routes and routed streams stay each other's: a generation is            *)
(* registered once, under a free name, and removed by its own stream.      *)
LEMMA RoutesStay ==
  ASSUME AdmissionTypeOK, Seen, Instants, RoutesExact, AdmissionNext
  PROVE  RoutesExact'
  <1>0. /\ \A n \in SessionNames : routes[n] \in Streams \cup {NoName}
        /\ NoName \notin Streams
    BY BoundsAssumption DEF AdmissionTypeOK
  <1>1. Healthy' => Healthy
    BY StepKinds DEF Calm, Returns, Decides, Healthy
  <1>2. ASSUME NEW s \in Streams, NEW pc, StreamGoto(s, pc), routes' = routes,
               streamPc[s] = "routed" => pc = "unroute_failed",
               pc # "routed", streamPc[s] # "unroute_failed"
        PROVE  RoutesExact'
    <2>1. streamPc'[s] = pc /\ \A x \in Streams \ {s} : streamPc'[x] = streamPc[x]
      BY <1>2 DEF StreamGoto, AdmissionTypeOK
    <2>2. SUFFICES ASSUME Healthy' PROVE (RoutesLead /\ RoutesDiffer /\ RoutedHave)'
      BY DEF RoutesExact
    <2>3. RoutesLead /\ RoutesDiffer /\ RoutedHave
      BY <1>1, <2>2 DEF RoutesExact
    <2>4. RoutesLead'
      BY <1>2, <2>1, <2>3 DEF RoutesLead
    <2>5. RoutesDiffer' /\ RoutedHave'
      BY <1>2, <2>1, <2>3 DEF RoutesDiffer, RoutedHave
    <2>6. QED
      BY <2>4, <2>5
  <1>3. ASSUME NEW s \in Streams, NEW p \in Peers, Open(s, p) PROVE RoutesExact'
    BY <1>2, <1>3 DEF Open
  <1>4. ASSUME NEW s \in Streams, RefuseUnavailable(s) \/ EndUnrouted(s) \/ CloseStream(s) \/ Release(s)
        PROVE  RoutesExact'
    BY <1>2, <1>4 DEF RefuseUnavailable, EndUnrouted, CloseStream, Release
  <1>5. ASSUME NEW s \in Streams, AuthorityTimeout(s) PROVE RoutesExact'
    BY <1>2, <1>5 DEF AuthorityTimeout
  <1>6. ASSUME NEW s \in Streams, Acquire(s) PROVE RoutesExact'
    <2>1. StreamGoto(s, "leased") \/ StreamGoto(s, "rejected")
      BY <1>6, AcquireCases DEF Admits, Admit, Rejects, Overload
    <2>2. streamPc[s] = "acquiring" /\ routes' = routes
      BY <1>6, AcquireCases
    <2>3. QED
      BY <1>2, <2>1, <2>2
  <1>7. ASSUME NEW s \in Streams, Poison(s) PROVE RoutesExact'
    BY <1>7 DEF Poison, RoutesExact, Healthy
  <1>8. ASSUME NEW s \in Streams, Mark(s) PROVE RoutesExact'
    BY <1>2, <1>8 DEF Mark
  <1>9. ASSUME NEW s \in Streams, NEW n \in SessionNames, Register(s, n) PROVE RoutesExact'
    <2>1. /\ streamPc[s] = "leased" /\ streamPc'[s] = "routed" /\ Healthy
          /\ \A x \in Streams \ {s} : streamPc'[x] = streamPc[x]
          /\ routes[n] = NoName /\ routes'[n] = s
          /\ \A m \in SessionNames \ {n} : routes'[m] = routes[m]
      BY <1>9 DEF Register, StreamGoto, AdmissionTypeOK
    <2>2. RoutesLead /\ RoutesDiffer /\ RoutedHave
      BY <2>1 DEF RoutesExact
    <2>3. \A m \in SessionNames : routes[m] # s
      BY <1>0, <2>1, <2>2 DEF RoutesLead
    <2>4. RoutesLead'
      BY <1>0, <2>1, <2>2 DEF RoutesLead
    <2>5. RoutesDiffer'
      BY <2>1, <2>2, <2>3 DEF RoutesDiffer
    <2>6. RoutedHave'
      BY <1>0, <2>1, <2>2 DEF RoutedHave
    <2>7. QED
      BY <2>4, <2>5, <2>6 DEF RoutesExact
  <1>10. ASSUME NEW s \in Streams, Unregister(s) PROVE RoutesExact'
    <2> DEFINE mine == {n \in SessionNames : routes[n] = s}
    <2>1. /\ streamPc[s] = "routed" /\ streamPc'[s] = "closing"
          /\ \A x \in Streams \ {s} : streamPc'[x] = streamPc[x]
      BY <1>10 DEF Unregister, StreamGoto, AdmissionTypeOK
    <2>2. SUFFICES ASSUME Healthy' PROVE (RoutesLead /\ RoutesDiffer /\ RoutedHave)'
      BY DEF RoutesExact
    <2>3. RoutesLead /\ RoutesDiffer /\ RoutedHave
      BY <1>1, <2>2 DEF RoutesExact
    <2>4. routes' = [n \in SessionNames |-> IF n \in mine THEN NoName ELSE routes[n]]
      BY <1>10, <2>2 DEF Unregister, Healthy
    <2>5. \A n \in SessionNames : routes'[n] = IF routes[n] = s THEN NoName ELSE routes[n]
      BY <2>4
    <2>6. RoutesLead'
      BY <2>1, <2>3, <2>5 DEF RoutesLead
    <2>7. RoutesDiffer'
      BY <2>3, <2>5 DEF RoutesDiffer
    <2>8. RoutedHave'
      BY <2>1, <2>3, <2>5 DEF RoutedHave
    <2>9. QED
      BY <2>6, <2>7, <2>8
  <1>11. CASE Tick
    BY <1>11 DEF Tick, RoutesExact, RoutesLead, RoutesDiffer, RoutedHave, Healthy
  <1>12. QED
    BY <1>3, <1>4, <1>5, <1>6, <1>7, <1>8, <1>9, <1>10, <1>11 DEF AdmissionNext

(* A live lease is in the records.                                         *)
LEMMA LeaseIsRecorded ==
  ASSUME AdmissionTypeOK, Instants, LeasesExact, Healthy, NEW x \in Live
  PROVE  /\ peer[x] \in Tracked /\ peers[peer[x]].active \in Nat \ {0}
         /\ global.active \in Nat \ {0}
  <1>1. x \in Streams /\ peer[x] \in Peers
    BY DEF Live, HasLease, Instants
  <1>2. IsFiniteSet(Live) /\ IsFiniteSet(LeasesOf(peer[x]))
    BY FiniteStreams DEF Live, LeasesOf
  <1>3. x \in LeasesOf(peer[x])
    BY DEF LeasesOf
  <1>4. Cardinality(Live) \in Nat \ {0} /\ Cardinality(LeasesOf(peer[x])) \in Nat \ {0}
    BY <1>2, <1>3, FS_EmptySet, FS_CardinalityType
  <1>5. /\ global.active = Cardinality(Live)
        /\ Cardinality(LeasesOf(peer[x])) = IF peer[x] \in Tracked THEN peers[peer[x]].active ELSE 0
    BY <1>1 DEF LeasesExact, LeasesOf
  <1>6. QED
    BY <1>4, <1>5

(* No more streams are routed than are counted.                            *)
LEMMA RoutedAreLive ==
  ASSUME AdmissionTypeOK, RoutesExact, LeasesExact, Healthy
  PROVE  Cardinality(Routed) <= global.active
  <1> DEFINE f == [n \in Routed |-> routes[n]]
  <1>1. RoutesLead /\ RoutesDiffer /\ global.active = Cardinality(Live)
    BY DEF RoutesExact, LeasesExact
  <1>2. f \in [Routed -> Live]
    BY <1>1 DEF RoutesLead, Routed, Live, HasLease
  <1>3. IsFiniteSet(Routed) /\ IsFiniteSet(Live)
    BY FiniteStreams, BoundsAssumption, FS_Subset DEF Routed, Live
  <1>4. Cardinality(Routed) \in Nat /\ Cardinality(Live) \in Nat
    BY <1>3, FS_CardinalityType
  <1>5. \A n, m \in Routed : f[n] = f[m] => n = m
    BY <1>1 DEF RoutesDiffer, Routed
  <1> HIDE DEF f
  <1>6. ~(Cardinality(Live) < Cardinality(Routed))
    BY <1>2, <1>3, <1>5, FS_PigeonHole
  <1>7. QED
    BY <1>1, <1>4, <1>6

(* A release stores an instant that is MaxStall old at most.               *)
LEMMA SeenStays ==
  ASSUME AdmissionTypeOK, Instants, Seen, LeasesExact,
         Calm \/ \E s \in Streams : Returns(s) \/ Decides(s)
  PROVE  Seen'
  <1>1. /\ clock \in Nat /\ global.updated \in Nat /\ MaxStall \in Nat /\ Slack \in Nat /\ MaxPerPeer \in Nat
        /\ \A p \in Tracked : peers[p].updated \in Nat /\ peers[p].seen \in Nat /\ peers[p].updated <= clock
        /\ \A s \in Streams : opened[s] \in Nat /\ closed[s] \in Nat
    BY ConstantsFacts DEF AdmissionTypeOK, Tracked, PeerRecord, Slack, Constants
  <1>2. Live \subseteq Streams /\ \A x \in Live : peer[x] \in Peers
    BY DEF Live, HasLease, Instants
  <1>3. CASE Calm
    <2>1. Tracked' = Tracked /\ peers' = peers /\ global'.updated = global.updated
      BY <1>3 DEF Calm, Tracked
    <2>2. Healthy' => Healthy /\ Live' = Live /\ \A x \in Live : opened'[x] = opened[x] /\ peer'[x] = peer[x]
      BY <1>3, LiveAreAdmitted DEF Calm
    <2>3. QED
      BY <2>1, <2>2 DEF Seen, Slack
  <1>4. ASSUME NEW s \in Streams, Returns(s) PROVE Seen'
    <2> DEFINE p == peer[s]
    <2>1. /\ (Healthy' <=> Healthy) /\ Tracked' = Tracked /\ p \in Tracked /\ s \in Live
          /\ global'.updated = global.updated /\ opened' = opened /\ peer' = peer
          /\ Live' \subseteq Live
      BY <1>4 DEF Returns, Healthy
    <2>2. /\ \A q \in Tracked : peers'[q].updated = peers[q].updated
          /\ \A q \in Tracked \ {p} : peers'[q].seen = peers[q].seen
          /\ peers'[p].seen = closed[s]
      BY <1>4 DEF Returns
    <2>3. Healthy => peers[p].updated <= closed[s] + Slack
      <3>1. SUFFICES ASSUME Healthy PROVE peers[p].updated <= closed[s] + Slack
        OBVIOUS
      <3>2. opened[s] <= closed[s] /\ clock <= closed[s] + MaxStall
        BY <1>4 DEF Returns, Instants
      <3>3. CASE MaxPerPeer = 1
        <4>1. peers[p].updated = opened[s]
          BY <2>1, <3>1, <3>3 DEF Seen
        <4>2. QED
          BY <1>1, <3>2, <3>3, <4>1 DEF Slack
      <3>4. CASE MaxPerPeer # 1
        <4>1. peers[p].updated <= clock /\ peers[p].updated \in Nat /\ Slack = MaxStall
          BY <1>1, <2>1, <3>4 DEF Slack
        <4>2. QED
          BY <1>1, <3>2, <4>1
      <3>5. QED
        BY <3>3, <3>4
    <2>4. Healthy /\ MaxPerPeer = 1 => \A x \in Live' : peers'[peer[x]].updated = opened[x]
      <3>1. SUFFICES ASSUME Healthy, MaxPerPeer = 1, NEW x \in Live'
                     PROVE  peers'[peer[x]].updated = opened[x]
        OBVIOUS
      <3>2. peer[x] \in Tracked /\ x \in Live
        BY <2>1, <3>1, LeaseIsRecorded
      <3>3. QED
        BY <2>2, <3>1, <3>2 DEF Seen
    <2> HIDE DEF p
    <2>5. \A q \in Tracked' : peers'[q].updated <= global'.updated
      BY <2>1, <2>2 DEF Seen
    <2>6. Healthy' => \A q \in Tracked' : peers'[q].updated <= peers'[q].seen + Slack
      BY <2>1, <2>2, <2>3 DEF Seen
    <2>7. QED
      BY <2>1, <2>4, <2>5, <2>6 DEF Seen, Slack
  <1>5. ASSUME NEW s \in Streams, Decides(s) PROVE Seen'
    <2>1. /\ MayAcquire(s) /\ Healthy /\ peer[s] \in Peers /\ UNCHANGED <<clock, health, opened>>
          /\ peer' = peer
      BY <1>5 DEF Decides, MayAcquire
    <2>2. PICK tracked : /\ KeptBy(s, tracked)
                         /\ \/ Admits(s, tracked) /\ Live' = Live \cup {s}
                            \/ Rejects(s, tracked) /\ Live' = Live
      BY <1>5 DEF Decides
    <2>3. tracked \subseteq Tracked /\ global'.updated = opened[s] /\ global.updated <= opened[s]
      BY <2>1, <2>2, AcquireRecords DEF MayAcquire
    <2>4. \A x \in Live : peer[x] \in tracked
      <3>1. \A x \in Live : peer[x] \in Tracked /\ peers[peer[x]].active # 0
        BY <2>1, LeaseIsRecorded
      <3>2. QED
        BY <2>2, <3>1 DEF KeptBy
    <2>5. \A q \in tracked : /\ peers[q].updated \in Nat /\ peers[q].seen \in Nat
                             /\ peers[q].updated <= global'.updated
                             /\ peers[q].updated <= peers[q].seen + Slack
      <3>1. \A q \in Tracked : peers[q].updated <= global.updated /\ peers[q].updated <= peers[q].seen + Slack
        BY <2>1 DEF Seen
      <3>2. opened[s] \in Nat
        BY <1>1
      <3>3. QED
        BY <1>1, <2>3, <3>1, <3>2
    <2>6. CASE Rejects(s, tracked) /\ Live' = Live
      <3>1. Tracked' = tracked /\ \A q \in tracked : peers'[q] = peers[q]
        BY <2>1, <2>2, <2>6, AcquireRecords
      <3>2. MaxPerPeer = 1 => \A x \in Live' : peers'[peer[x]].updated = opened[x]
        BY <2>1, <2>4, <2>6, <3>1 DEF Seen
      <3>3. QED
        BY <2>1, <2>5, <3>1, <3>2 DEF Seen, Slack
    <2>7. CASE Admits(s, tracked) /\ Live' = Live \cup {s}
      <3>1. /\ Tracked' = tracked \cup {peer[s]} /\ Mine(s).active < MaxPerPeer
            /\ peers'[peer[s]] = [active |-> Mine(s).active + 1, tokens |-> Mine(s).tokens - Unit,
                                  updated |-> opened[s], seen |-> opened[s]]
        BY <2>1, <2>2, <2>7, AcquireRecords
      <3>2. \A q \in tracked \ {peer[s]} : peers'[q] = peers[q]
        <4>1. \A q \in Peers \ {peer[s]} : peers'[q] = IF q \in tracked THEN peers[q] ELSE NoName
          BY <2>1, <2>2, <2>7, AcquireRecords
        <4>2. QED
          BY <2>3, <4>1 DEF Tracked
      <3>3. peers'[peer[s]].updated = opened[s] /\ peers'[peer[s]].seen = opened[s]
        BY <3>1
      <3>4. MaxPerPeer = 1 => \A x \in Live' : peers'[peer[x]].updated = opened[x]
        <4>1. SUFFICES ASSUME MaxPerPeer = 1, NEW x \in Live' PROVE peers'[peer[x]].updated = opened[x]
          OBVIOUS
        <4>2. CASE x = s
          BY <3>3, <4>2
        <4>3. CASE x # s
          <5>1. x \in Live /\ peer[x] \in tracked
            BY <2>4, <2>7, <4>1, <4>3
          <5>2. peer[x] # peer[s]
            <6>1. peer[x] \in Tracked /\ peers[peer[x]].active \in Nat \ {0}
              BY <2>1, <5>1, LeaseIsRecorded
            <6>2. Mine(s).active \in Nat /\ (peer[s] \in Tracked => Mine(s).active = peers[peer[s]].active)
              BY <2>1, MineFacts
            <6>3. Mine(s).active = 0
              BY <3>1, <4>1, <6>2
            <6>4. QED
              BY <6>1, <6>2, <6>3
          <5>3. QED
            BY <2>1, <3>2, <4>1, <5>1, <5>2 DEF Seen
        <4>4. QED
          BY <4>2, <4>3
      <3>5. \A q \in Tracked' : /\ peers'[q].updated <= global'.updated
                                /\ peers'[q].updated <= peers'[q].seen + Slack
        <4>1. opened[s] \in Nat /\ opened[s] <= opened[s] + Slack
          BY <1>1
        <4>2. QED
          BY <2>3, <2>5, <3>1, <3>2, <3>3, <4>1
      <3>6. QED
        BY <2>1, <3>4, <3>5 DEF Seen, Slack
    <2>8. QED
      BY <2>2, <2>6, <2>7
  <1>6. QED
    BY <1>3, <1>4, <1>5

(* Without a lock timeout there is no transition that the authority calls  *)
(* impossible, and none that finds another's generation.                   *)
LEMMA HealthStays ==
  ASSUME AdmissionTypeOK, Instants, Faulty, RoutesExact, LeasesExact, AuthorityHealthy, AdmissionNext
  PROVE  AuthorityHealthy'
  <1>1. lockFaults \in Nat
    BY BoundsAssumption DEF AdmissionTypeOK
  <1>2. global \in [active : Nat, tokens : Nat, updated : 0..clock,
                    accepted : Nat, rejected : Nat, healthy : BOOLEAN]
    BY DEF AdmissionTypeOK
  <1>3. ASSUME lockFaults' \in {lockFaults, lockFaults + 1}, lockFaults = 0 => (Healthy => Healthy')
        PROVE  AuthorityHealthy'
    BY <1>1, <1>3 DEF AuthorityHealthy
  <1>4. ASSUME NEW s \in Streams, NEW p \in Peers, Open(s, p) PROVE AuthorityHealthy'
    BY <1>3, <1>4 DEF Open, Healthy
  <1>5. ASSUME NEW s \in Streams,
               RefuseUnavailable(s) \/ EndUnrouted(s) \/ CloseStream(s) \/ AuthorityTimeout(s)
        PROVE  AuthorityHealthy'
    BY <1>3, <1>5 DEF RefuseUnavailable, EndUnrouted, CloseStream, AuthorityTimeout, Healthy
  <1>6. ASSUME NEW s \in Streams, NEW n \in SessionNames, Register(s, n) PROVE AuthorityHealthy'
    BY <1>3, <1>6 DEF Register, Healthy
  <1>7. ASSUME NEW s \in Streams, Acquire(s) PROVE AuthorityHealthy'
    <2>1. UNCHANGED <<health, lockFaults>>
      BY <1>7, AcquireCases
    <2>2. global'.healthy = global.healthy
      <3>1. PICK tracked : Admits(s, tracked) \/ Rejects(s, tracked)
        BY <1>7, AcquireCases
      <3>2. QED
        BY <1>2, <3>1 DEF Admits, Admit, Rejects, Overload
    <2>3. QED
      BY <1>3, <2>1, <2>2 DEF Healthy
  <1>8. ASSUME NEW s \in Streams, Unregister(s) PROVE AuthorityHealthy'
    <2>1. lockFaults' = lockFaults /\ streamPc[s] = "routed"
      BY <1>8 DEF Unregister
    <2>2. Healthy => UNCHANGED <<health, global>>
      BY <1>8, <2>1 DEF Unregister, RoutesExact, RoutedHave
    <2>3. QED
      BY <1>3, <2>1, <2>2 DEF Healthy
  <1>9. ASSUME NEW s \in Streams, Poison(s) \/ Mark(s) PROVE AuthorityHealthy'
    <2>1. lockFaults' \in {lockFaults, lockFaults + 1}
      BY <1>9 DEF Poison, Mark
    <2>2. lockFaults # 0
      BY <1>1, <1>9 DEF Poison, Mark, Faulty
    <2>3. QED
      BY <1>3, <2>1, <2>2
  <1>10. ASSUME NEW s \in Streams, Release(s) PROVE AuthorityHealthy'
    <2>1. /\ streamPc[s] = "releasing" /\ UNCHANGED <<health, lockFaults>> /\ s \in Live
      BY <1>10 DEF Release, Live, HasLease
    <2>2. Healthy => ~(global.active < 1 \/ peers[peer[s]] = NoName \/ peers[peer[s]].active < 1)
      BY <2>1, LeaseIsRecorded DEF Tracked
    <2>3. Healthy => global' = [global EXCEPT !.active = @ - 1]
      BY <1>10, <2>2 DEF Release
    <2>4. Healthy => global'.healthy = global.healthy
      BY <1>2, <2>3
    <2>5. QED
      BY <1>3, <2>1, <2>4 DEF Healthy
  <1>11. CASE Tick
    BY <1>3, <1>11 DEF Tick, Healthy
  <1>12. QED
    BY <1>4, <1>5, <1>6, <1>7, <1>8, <1>9, <1>10, <1>11 DEF AdmissionNext
-----------------------------------------------------------------------------
(* What holds whatever the policy: the counts, the ceilings, the worker's  *)
(* own rate and the health, with all they rest on.                         *)
AdmissionInv ==
  /\ AdmissionTypeOK /\ Instants /\ Faulty /\ Seen
  /\ LeasesExact /\ Ceilings /\ RoutesExact /\ AuthorityHealthy
  /\ GlobalBucket /\ GlobalRateHolds

(* An empty set of streams leaves any bucket full.                         *)
LEMMA NoneYet ==
  ASSUME NEW f, NEW rate \in Nat, NEW burst \in Nat
  PROVE  Within(f, {}, burst * Unit, 0, rate, burst) /\ Rate(f, {}, rate, burst)
  <1>1. burst * Unit \in Nat /\ Unit \in Nat /\ MaxClock \in Nat
    BY PolicyAssumption, BoundsAssumption, Products
  <1>2. \A a : Since(f, {}, a) = {} /\ \A b : {s \in {} : f[s] \in a..b} = {}
    BY DEF Since
  <1>3. Cardinality({}) = 0
    BY FS_EmptySet
  <1>4. \A x \in Nat : rate * x \in Nat
    BY Products
  <1> DEFINE full == burst * Unit
  <1> HIDE DEF full
  <1>5. full \in Nat /\ 0 * Unit = 0
    BY <1>1 DEF full
  <1>6. \A a \in 0..0 : 0 * Unit + full <= full + rate * (0 - a)
    <2>1. rate * (0 - 0) = 0
      OBVIOUS
    <2>2. \A a \in 0..0 : a = 0
      OBVIOUS
    <2>3. QED
      BY <1>5, <2>1, <2>2
  <1>7. \A a, b \in 0..MaxClock : a <= b => 0 * Unit <= full + rate * (b - a)
    <2>1. SUFFICES ASSUME NEW a \in 0..MaxClock, NEW b \in 0..MaxClock, a <= b
                   PROVE  0 * Unit <= full + rate * (b - a)
      OBVIOUS
    <2> DEFINE d == b - a
    <2>2. d \in Nat
      BY <1>1, <2>1
    <2> HIDE DEF d
    <2>3. rate * d \in Nat
      BY <1>4, <2>2
    <2>4. 0 * Unit <= full + rate * d
      BY <1>5, <2>3
    <2>5. QED
      BY <2>4 DEF d
  <1>8. Within(f, {}, burst * Unit, 0, rate, burst)
    BY <1>1, <1>2, <1>3, <1>6 DEF Within, full
  <1>9. Rate(f, {}, rate, burst)
    BY <1>2, <1>3, <1>7 DEF Rate, full
  <1>10. QED
    BY <1>8, <1>9

(* The initial state.                                                      *)
LEMMA AdmissionStarts ==
  ASSUME AdmissionInit
  PROVE  AdmissionInv /\ PeerBuckets /\ PeerRatesHold
  <1>1. /\ GlobalBurst * Unit \in Nat /\ {GlobalRate, GlobalBurst, PeerRate, PeerBurst} \subseteq Nat
        /\ {MaxActive, MaxPerPeer, MaxTracked, MaxClock, MaxStall, MaxLockFaults} \subseteq Nat
    BY ConstantsFacts DEF Constants
  <1>2. Tracked = {} /\ Live = {} /\ Admitted = {} /\ Cardinality({}) = 0
    BY FS_EmptySet DEF AdmissionInit, Tracked, Live, Admitted, HasLease
  <1>3. global = [active |-> 0, tokens |-> GlobalBurst * Unit, updated |-> 0,
                  accepted |-> 0, rejected |-> 0, healthy |-> TRUE]
    BY DEF AdmissionInit
  <1>4. /\ global.active = 0 /\ global.tokens = GlobalBurst * Unit /\ global.updated = 0 /\ global.healthy
        /\ global \in [active : Nat, tokens : Nat, updated : 0..0,
                       accepted : Nat, rejected : Nat, healthy : BOOLEAN]
    <2> DEFINE full == GlobalBurst * Unit
    <2>1. full \in Nat
      BY <1>1
    <2> HIDE DEF full
    <2>2. global = [active |-> 0, tokens |-> full, updated |-> 0,
                    accepted |-> 0, rejected |-> 0, healthy |-> TRUE]
      BY <1>3 DEF full
    <2>3. QED
      BY <2>1, <2>2 DEF full
  <1>5. AdmissionTypeOK
    BY <1>1, <1>2, <1>4 DEF AdmissionInit, AdmissionTypeOK
  <1>6. Instants /\ Faulty /\ Seen
    BY <1>2 DEF AdmissionInit, Instants, Faulty, Seen
  <1>7. LeasesExact /\ Ceilings
    BY <1>1, <1>2, <1>4 DEF LeasesExact, Ceilings
  <1>8. RoutesExact /\ AuthorityHealthy
    BY <1>4 DEF AdmissionInit, RoutesExact, RoutesLead, RoutesDiffer, RoutedHave, AuthorityHealthy, Healthy
  <1>9. GlobalBucket /\ GlobalRateHolds
    BY <1>1, <1>2, <1>4, NoneYet DEF GlobalBucket, GlobalRateHolds
  <1>10. PeerBuckets /\ PeerRatesHold
    <2>1. SUFFICES ASSUME NEW p \in Peers
                   PROVE  PeerBucket(p) /\ Rate(opened, AdmittedOf(p), PeerRate, PeerBurst)
      BY DEF PeerBuckets, PeerRatesHold
    <2>2. AdmittedOf(p) = {} /\ TokensOf(p) = PeerBurst * Unit /\ Updated(p) = 0
      BY <1>2, <1>4 DEF AdmittedOf, TokensOf, Updated
    <2>3. QED
      BY <1>1, <2>2, NoneYet DEF PeerBucket
  <1>11. QED
    BY <1>5, <1>6, <1>7, <1>8, <1>9, <1>10 DEF AdmissionInv

(* The invariant is inductive.                                             *)
LEMMA AdmissionSteps ==
  ASSUME AdmissionInv, [AdmissionNext]_admissionVars
  PROVE  /\ AdmissionInv'
         /\ PrunedIsFull /\ PeerBuckets /\ PeerRatesHold => PeerBuckets' /\ PeerRatesHold'
  <1>1. CASE AdmissionNext
    <2>1. Calm \/ \E s \in Streams : Returns(s) \/ Decides(s)
      BY <1>1, StepKinds DEF AdmissionInv
    <2>2. AdmissionTypeOK' /\ Instants' /\ Faulty' /\ RoutesExact' /\ AuthorityHealthy'
      BY <1>1, TypesStay, InstantsStay, FaultyStay, RoutesStay, HealthStays DEF AdmissionInv
    <2>3. Seen' /\ LeasesExact' /\ Ceilings'
      BY <2>1, SeenStays, CountsStay, CeilingsStay DEF AdmissionInv
    <2>4. GlobalBucket'
      BY <2>1, GlobalBucketStays DEF AdmissionInv
    <2>5. GlobalRateHolds'
      BY <2>1, <2>4, GlobalRateStays DEF AdmissionInv
    <2>6. ASSUME PrunedIsFull, PeerBuckets, PeerRatesHold PROVE PeerBuckets' /\ PeerRatesHold'
      <3>1. PeerBuckets'
        BY <2>1, <2>6, PeerBucketsStay DEF AdmissionInv
      <3>2. PeerRatesHold'
        BY <2>1, <2>6, <3>1, PeerRatesStay DEF AdmissionInv
      <3>3. QED
        BY <3>1, <3>2
    <2>7. QED
      BY <2>2, <2>3, <2>4, <2>5, <2>6 DEF AdmissionInv
  <1>2. CASE UNCHANGED admissionVars
    <2>1. UNCHANGED <<clock, health, global, peers, routes, streamPc, peer, opened, closed, lockFaults>>
      BY <1>2 DEF admissionVars
    <2>2. /\ Healthy' = Healthy /\ Tracked' = Tracked /\ Routed' = Routed /\ Live' = Live /\ Admitted' = Admitted
      BY <2>1 DEF Healthy, Tracked, Routed, Live, Admitted
    <2>3. AdmissionTypeOK' /\ Instants' /\ Faulty' /\ Seen'
      BY <2>1, <2>2 DEF AdmissionInv, AdmissionTypeOK, Instants, Faulty, Seen, Slack
    <2>4. LeasesExact' /\ Ceilings' /\ AuthorityHealthy'
      BY <2>1, <2>2 DEF AdmissionInv, LeasesExact, Ceilings, AuthorityHealthy
    <2>5. RoutesExact' /\ GlobalBucket' /\ GlobalRateHolds'
      BY <2>1, <2>2 DEF AdmissionInv, RoutesExact, RoutesLead, RoutesDiffer, RoutedHave, GlobalBucket, GlobalRateHolds
    <2>6. PeerBuckets /\ PeerRatesHold => PeerBuckets' /\ PeerRatesHold'
      BY <2>1, <2>2 DEF PeerBuckets, PeerBucket, PeerRatesHold, AdmittedOf, TokensOf, Updated
    <2>7. QED
      BY <2>3, <2>4, <2>5, <2>6 DEF AdmissionInv
  <1>3. QED
    BY <1>1, <1>2

(* While the authority is healthy its counts are those of the live leases, *)
(* none of its ceilings is exceeded, and no interleaving of admissions and *)
(* releases makes it unhealthy but a lock timeout; the worker's own rate   *)
(* holds whatever happens.                                                 *)
THEOREM WorkerIsGuarded ==
  AdmissionSpec => [](LeasesExact /\ SampleBounds /\ AuthorityHealthy
                      /\ RateHolds(Admitted, GlobalRate, GlobalBurst))
  <1>1. AdmissionInit => AdmissionInv
    BY AdmissionStarts
  <1>2. AdmissionInv /\ [AdmissionNext]_admissionVars => AdmissionInv'
    BY AdmissionSteps
  <1>3. AdmissionInv => LeasesExact /\ SampleBounds /\ AuthorityHealthy
                        /\ RateHolds(Admitted, GlobalRate, GlobalBurst)
    BY RoutedAreLive DEF AdmissionInv, SampleBounds, Ceilings, GlobalRateHolds, Rate, RateHolds
  <1>4. QED
    BY <1>1, <1>2, <1>3, PTL DEF AdmissionSpec

(* All of it, each peer's own rate included, when a peer has one session   *)
(* at a time or its record outlives the refill of its bucket by the time a *)
(* release may wait for the lock.                                          *)
THEOREM AdmissionIsExact ==
  ASSUME MaxPerPeer = 1 \/ PeerRate * (PeerTtl - MaxStall) >= PeerBurst * Unit
  PROVE  AdmissionSpec => []AdmissionExact
  <1> DEFINE Inv == AdmissionInv /\ PeerBuckets /\ PeerRatesHold
  <1>1. PrunedIsFull
    BY DEF PrunedIsFull
  <1>2. AdmissionInit => Inv
    BY AdmissionStarts
  <1>3. Inv /\ [AdmissionNext]_admissionVars => Inv'
    BY <1>1, AdmissionSteps
  <1>4. Inv => AdmissionExact
    <2>1. SUFFICES ASSUME Inv PROVE AdmissionExact
      OBVIOUS
    <2>2. LeasesExact /\ AuthorityHealthy /\ SampleBounds
      BY <2>1, RoutedAreLive DEF AdmissionInv, SampleBounds, Ceilings
    <2>3. RatesHold
      BY <2>1 DEF AdmissionInv, GlobalRateHolds, PeerRatesHold, AdmittedOf, Rate, RatesHold, RateHolds
    <2>4. QED
      BY <2>2, <2>3 DEF AdmissionExact
  <1>5. QED
    BY <1>2, <1>3, <1>4, PTL DEF AdmissionSpec

(* An unhealthy authority stays so, and neither admits a stream nor        *)
(* registers a session's route; nothing is said of samples.                *)
THEOREM UnhealthyStaysClosed == AdmissionSpec => FailsClosed
  <1> DEFINE Frozen == ~Healthy => /\ ~Healthy' /\ global'.accepted = global.accepted
                                   /\ \A n \in SessionNames : routes'[n] \in {routes[n], NoName}
  <1>1. AdmissionInit => AdmissionInv
    BY AdmissionStarts
  <1>2. AdmissionInv /\ [AdmissionNext]_admissionVars => AdmissionInv'
    BY AdmissionSteps
  <1>3. AdmissionInv /\ [AdmissionNext]_admissionVars => [Frozen]_admissionVars
    <2>1. SUFFICES ASSUME AdmissionInv, AdmissionNext PROVE Frozen
      OBVIOUS
    <2>2. SUFFICES ASSUME ~Healthy
                   PROVE  /\ ~Healthy' /\ global'.accepted = global.accepted
                          /\ \A n \in SessionNames : routes'[n] \in {routes[n], NoName}
      OBVIOUS
    <2>3. ~Healthy' /\ global'.accepted = global.accepted
      <3>1. Calm \/ \E s \in Streams : Returns(s) \/ Decides(s)
        BY <2>1, StepKinds DEF AdmissionInv
      <3>2. QED
        BY <2>2, <3>1 DEF Calm, Returns, Decides, MayAcquire, Healthy
    <2>4. routes' = routes \/ \E s \in Streams : Unregister(s)
      <3>1. \A s \in Streams : Acquire(s) => routes' = routes
        BY AcquireCases
      <3>2. QED
        BY <2>1, <2>2, <3>1
        DEF AdmissionNext, Open, RefuseUnavailable, Register, EndUnrouted, AuthorityTimeout, Poison,
            Mark, CloseStream, Release, Tick
    <2>5. \A n \in SessionNames : routes'[n] \in {routes[n], NoName}
      BY <2>4 DEF Unregister
    <2>6. QED
      BY <2>3, <2>5
  <1>4. QED
    BY <1>1, <1>2, <1>3, PTL DEF AdmissionSpec, FailsClosed
-----------------------------------------------------------------------------
(* Activation pushes.  To the pushes that exist and to their count every   *)
(* step is one of four kinds (HeldCases): nothing, one more of both, one   *)
(* less of both, or a push that passes from a handler to another.          *)

\* A name's route is that of the session which is registered there.
Owns ==
  \A h \in Handlers, n \in PushNames :
    local[h][n] # 0 => route[n] = [handler |-> h, gen |-> local[h][n]]

\* A loop that still has a push in hand has nothing to give back.
OneAtATime == \A h \in Handlers : hand[h] # NoPush => owed[h] = 0

PushInv == PushTypeOK /\ Owns /\ OneAtATime /\ PushesExact

\* A sum changes with one of its terms.
Shifts(f, g, S, x, d) == g[x] = f[x] + d /\ \A y \in S \ {x} : g[y] = f[y]

LEMMA SumChanges ==
  ASSUME NEW S, IsFiniteSet(S), NEW f, NEW g, NEW x \in S, NEW d \in Int,
         \A y \in S : f[y] \in Int, Shifts(f, g, S, x, d)
  PROVE  SumFunctionOnSet(g, S) = SumFunctionOnSet(f, S) + d
  <1> USE DEF Shifts
  <1>1. IsFiniteSet(S \ {x})
    BY FS_RemoveElement
  <1>2. \A y \in S : g[y] \in Int
    OBVIOUS
  <1>3. SumFunctionOnSet(f, S) = f[x] + SumFunctionOnSet(f, S \ {x})
    BY SumWithout
  <1>4. SumFunctionOnSet(g, S) = g[x] + SumFunctionOnSet(g, S \ {x})
    BY <1>2, SumWithout
  <1>5. SumFunctionOnSet(f, S \ {x}) = SumFunctionOnSet(g, S \ {x})
    BY <1>1, SumOfSame
  <1>6. SumFunctionOnSet(f, S \ {x}) \in Int
    BY <1>1, SumIsInt
  <1>7. QED
    BY <1>3, <1>4, <1>5, <1>6

LEMMA PushTypesKept ==
  ASSUME PushTypeOK, OneAtATime, [PushNext]_pushVars
  PROVE  PushTypeOK'
  <1> USE PushAssumption DEF PushTypeOK
  <1>a. \A h \in Handlers, n \in PushNames, q \in Seq(1..MaxGens) :
          [queue EXCEPT ![h][n] = q] \in [Handlers -> [PushNames -> Seq(1..MaxGens)]]
    OBVIOUS
  <1>b. MaxPending \in Nat \ {0} /\ MaxGens \in Nat /\ MaxPushes \in Nat /\ MaxPushFaults \in Nat
    OBVIOUS
  <1>1. ASSUME NEW h \in Handlers, NEW n \in PushNames, Start(h, n) PROVE PushTypeOK'
    <2>1. gens' \in 1..MaxGens /\ [handler |-> h, gen |-> gens'] \in Route
      BY <1>1 DEF Start, Route
    <2>2. QED
      BY <1>1, <2>1 DEF Start
  <1>2. ASSUME NEW h \in Handlers, NEW n \in PushNames, FinishSession(h, n) PROVE PushTypeOK'
    <2>1. local' \in [Handlers -> [PushNames -> 0..MaxGens]] /\ owed' \in [Handlers -> Nat]
      BY <1>2 DEF FinishSession
    <2>2. queue' \in [Handlers -> [PushNames -> Seq(1..MaxGens)]]
      BY <1>2, <1>a DEF FinishSession
    <2>3. route' \in [PushNames -> Route \cup {NoPush}] /\ healthy' \in BOOLEAN
      BY <1>2 DEF FinishSession
    <2>4. UNCHANGED <<pending, events, heard, hand, outbound, gens, pushes, pushFaults>>
      BY <1>2 DEF FinishSession
    <2>5. QED
      BY <2>1, <2>2, <2>3, <2>4
  <1>3. ASSUME NEW h \in Handlers, NEW n \in PushNames, Consume(h, n) PROVE PushTypeOK'
    <2> DEFINE q == queue[h][n]
    <2>1. Tail(queue[h][n]) \in Seq(1..MaxGens)
      <3>1. q \in Seq(1..MaxGens) /\ q # <<>>
        BY <1>3 DEF Consume
      <3> HIDE DEF q
      <3>2. Tail(q) \in Seq(1..MaxGens)
        BY <3>1
      <3>3. QED
        BY <3>2 DEF q
    <2>2. queue' \in [Handlers -> [PushNames -> Seq(1..MaxGens)]]
      BY <1>3, <1>a, <2>1 DEF Consume
    <2>3. owed' \in [Handlers -> Nat]
      BY <1>3 DEF Consume
    <2>4. UNCHANGED <<healthy, pending, route, local, events, heard, hand, outbound, gens, pushes, pushFaults>>
      BY <1>3 DEF Consume
    <2>5. QED
      BY <2>2, <2>3, <2>4
  <1>4. ASSUME NEW h \in Handlers, NEW n \in PushNames, Reserve(h, n) PROVE PushTypeOK'
    <2>1. [to |-> route[n].handler, push |-> [name |-> n, gen |-> route[n].gen]] \in [to : Handlers, push : Push]
      BY <1>4 DEF Reserve, Route, Push
    <2>2. pending' \in 0..MaxPending /\ pushes' \in 0..MaxPushes
      BY <1>4, <1>b DEF Reserve
    <2>3. QED
      BY <1>4, <2>1, <2>2 DEF Reserve
  <1>5. ASSUME NEW h \in Handlers, NEW n \in PushNames, SendPush(h, n) PROVE PushTypeOK'
    <2>1. pending' \in 0..MaxPending /\ pushes' \in 0..MaxPushes
      BY <1>5, <1>b DEF SendPush
    <2>2. outbound' \in [Handlers -> [PushNames -> Nat]]
      <3>1. outbound' = [outbound EXCEPT ![h][n] = @ + 1]
        BY <1>5 DEF SendPush
      <3>2. outbound[h][n] + 1 \in Nat
        OBVIOUS
      <3>3. outbound \in [Handlers -> [PushNames -> Nat]]
        OBVIOUS
      <3>4. QED
        BY <3>1, <3>2, <3>3, Zenon
    <2>3. UNCHANGED <<healthy, route, local, queue, events, heard, hand, owed, gens, pushFaults>>
      BY <1>5 DEF SendPush
    <2>4. QED
      BY <2>1, <2>2, <2>3
  <1>6. ASSUME NEW h \in Handlers, NEW n \in PushNames, PushSent(h, n) PROVE PushTypeOK'
    <2>1. outbound' = [outbound EXCEPT ![h][n] = @ - 1] /\ owed' = [owed EXCEPT ![h] = 1]
      BY <1>6 DEF PushSent
    <2>2. outbound' \in [Handlers -> [PushNames -> Nat]]
      <3>1. outbound[h][n] - 1 \in Nat
        BY <1>6 DEF PushSent
      <3>2. outbound \in [Handlers -> [PushNames -> Nat]]
        OBVIOUS
      <3>3. QED
        BY <2>1, <3>1, <3>2, Zenon
    <2>3. owed' \in [Handlers -> Nat]
      BY <2>1
    <2>4. UNCHANGED <<healthy, pending, route, local, queue, events, heard, hand, gens, pushes, pushFaults>>
      BY <1>6 DEF PushSent
    <2>5. QED
      BY <2>2, <2>3, <2>4
  <1>7. ASSUME NEW h \in Handlers, Invalid(h) PROVE PushTypeOK'
    BY <1>7 DEF Invalid
  <1>8. ASSUME NEW h \in Handlers, Put(h) PROVE PushTypeOK'
    <2> DEFINE to == hand[h].to
               push == hand[h].push
    <2>1. to \in Handlers /\ push \in Push /\ push.name \in PushNames /\ push.gen \in 1..MaxGens
      BY <1>8 DEF Put, Push
    <2>2. /\ hand' = [hand EXCEPT ![h] = NoPush] /\ \E k \in {0, 1} : owed' = [owed EXCEPT ![h] = k]
          /\ UNCHANGED <<healthy, pending, route, local, heard, outbound, gens, pushes, pushFaults>>
      BY <1>8 DEF Put
    <2>3. queue' = queue \/ queue' = [queue EXCEPT ![h][push.name] = Append(queue[h][push.name], push.gen)]
      BY <1>8 DEF Put
    <2>4. events' = events \/ events' = [events EXCEPT ![to] = Append(@, push)]
      BY <1>8 DEF Put
    <2> HIDE DEF to, push
    <2>5. queue' \in [Handlers -> [PushNames -> Seq(1..MaxGens)]]
      <3>1. queue[h][push.name] \in Seq(1..MaxGens)
        BY <2>1
      <3>2. Append(queue[h][push.name], push.gen) \in Seq(1..MaxGens)
        BY <2>1, <3>1
      <3> DEFINE n == push.name
                 q == Append(queue[h][n], push.gen)
      <3>3. n \in PushNames /\ q \in Seq(1..MaxGens) /\ (queue' = queue \/ queue' = [queue EXCEPT ![h][n] = q])
        BY <2>1, <2>3, <3>2
      <3> HIDE DEF n, q
      <3>4. CASE queue' = [queue EXCEPT ![h][n] = q]
        <4>1. queue \in [Handlers -> [PushNames -> Seq(1..MaxGens)]]
          OBVIOUS
        <4>2. QED
          BY <3>3, <3>4, <4>1
      <3>5. QED
        BY <3>3, <3>4
    <2>a. events' \in [Handlers -> Seq(Push)]
      <3>1. Append(events[to], push) \in Seq(Push)
        BY <2>1
      <3>2. QED
        BY <2>1, <2>4, <3>1
    <2>6. hand' \in [Handlers -> [to : Handlers, push : Push] \cup {NoPush}] /\ owed' \in [Handlers -> Nat]
      BY <2>2
    <2>7. QED
      BY <2>2, <2>5, <2>6, <2>a
  <1>9. ASSUME NEW h \in Handlers, Hear(h) PROVE PushTypeOK'
    BY <1>9 DEF Hear
  <1>10. ASSUME NEW h \in Handlers, Deliver(h) PROVE PushTypeOK'
    <2> DEFINE push == heard[h]
    <2>1. push \in Push /\ push.name \in PushNames /\ push.gen \in 1..MaxGens
      BY <1>10 DEF Deliver, Push
    <2>2. /\ heard' = [heard EXCEPT ![h] = NoPush] /\ \E k \in {0, 1} : owed' = [owed EXCEPT ![h] = k]
          /\ UNCHANGED <<healthy, pending, route, local, events, hand, outbound, gens, pushes, pushFaults>>
      BY <1>10 DEF Deliver
    <2>3. queue' = queue \/ queue' = [queue EXCEPT ![h][push.name] = Append(queue[h][push.name], push.gen)]
      BY <1>10 DEF Deliver
    <2> HIDE DEF push
    <2>4. queue' \in [Handlers -> [PushNames -> Seq(1..MaxGens)]]
      <3>1. queue[h][push.name] \in Seq(1..MaxGens)
        BY <2>1
      <3>2. Append(queue[h][push.name], push.gen) \in Seq(1..MaxGens)
        BY <2>1, <3>1
      <3> DEFINE n == push.name
                 q == Append(queue[h][n], push.gen)
      <3>3. n \in PushNames /\ q \in Seq(1..MaxGens) /\ (queue' = queue \/ queue' = [queue EXCEPT ![h][n] = q])
        BY <2>1, <2>3, <3>2
      <3> HIDE DEF n, q
      <3>4. CASE queue' = [queue EXCEPT ![h][n] = q]
        <4>1. queue \in [Handlers -> [PushNames -> Seq(1..MaxGens)]]
          OBVIOUS
        <4>2. QED
          BY <3>3, <3>4, <4>1
      <3>5. QED
        BY <3>3, <3>4
    <2>5. heard' \in [Handlers -> Push \cup {NoPush}] /\ owed' \in [Handlers -> Nat]
      BY <2>2
    <2>6. QED
      BY <2>2, <2>4, <2>5
  <1>11. ASSUME NEW h \in Handlers, ReleasePush(h) \/ ReleaseTimeout(h) PROVE PushTypeOK'
    <2>a. owed' = [owed EXCEPT ![h] = owed[h] - 1] /\ owed[h] \in Nat \ {0}
      BY <1>11 DEF ReleasePush, ReleaseTimeout
    <2>b. (pending' = pending \/ (~(pending < 1) /\ pending' = pending - 1))
          /\ (pushFaults' = pushFaults \/ (pushFaults < MaxPushFaults /\ pushFaults' = pushFaults + 1))
      BY <1>11 DEF ReleasePush, ReleaseTimeout
    <2>c. healthy' \in BOOLEAN
      BY <1>11 DEF ReleasePush, ReleaseTimeout
    <2>d. pending \in 0..MaxPending /\ pushFaults \in 0..MaxPushFaults
      OBVIOUS
    <2>e. pending' \in 0..MaxPending /\ pushFaults' \in 0..MaxPushFaults
      BY <1>b, <2>b, <2>d
    <2>1. owed' \in [Handlers -> Nat] /\ healthy' \in BOOLEAN /\ pending' \in 0..MaxPending /\ pushFaults' \in 0..MaxPushFaults
      BY <2>a, <2>c, <2>e
    <2>2. UNCHANGED <<route, local, queue, events, heard, hand, outbound, gens, pushes>>
      BY <1>11 DEF ReleasePush, ReleaseTimeout
    <2>3. QED
      BY <2>1, <2>2
  <1>12. CASE UNCHANGED pushVars
    BY <1>12 DEF pushVars
  <1>13. QED
    BY <1>1, <1>2, <1>3, <1>4, <1>5, <1>6, <1>7, <1>8, <1>9, <1>10, <1>11, <1>12 DEF PushNext
-----------------------------------------------------------------------------
\* A loop does one thing at a time, and a generation is started once.
LEMMA OneAtATimeKept ==
  ASSUME PushTypeOK, OneAtATime, [PushNext]_pushVars
  PROVE  OneAtATime'
  <1> USE DEF OneAtATime, PushTypeOK
  <1>1. ASSUME NEW h \in Handlers, NEW n \in PushNames,
               FinishSession(h, n) \/ Consume(h, n) \/ Reserve(h, n) \/ PushSent(h, n)
        PROVE  OneAtATime'
    BY <1>1 DEF FinishSession, Consume, Reserve, PushSent, AtWait
  <1>2. ASSUME NEW h \in Handlers, Invalid(h) \/ Put(h) PROVE OneAtATime'
    <2>1. hand' = [hand EXCEPT ![h] = NoPush] /\ \A g \in Handlers \ {h} : owed'[g] = owed[g]
      BY <1>2 DEF Invalid, Put
    <2>2. QED
      BY <2>1
  <1>3. ASSUME NEW h \in Handlers, Deliver(h) PROVE OneAtATime'
    <2>1. hand' = hand /\ hand[h] = NoPush /\ \A g \in Handlers \ {h} : owed'[g] = owed[g]
      BY <1>3 DEF Deliver, AtWait
    <2>2. QED
      BY <2>1
  <1>4. ASSUME NEW h \in Handlers, ReleasePush(h) \/ ReleaseTimeout(h) PROVE OneAtATime'
    <2>1. hand' = hand /\ owed[h] # 0 /\ \A g \in Handlers \ {h} : owed'[g] = owed[g]
      BY <1>4 DEF ReleasePush, ReleaseTimeout
    <2>2. QED
      BY <2>1
  <1>5. CASE UNCHANGED <<hand, owed>>
    BY <1>5
  <1>6. QED
    <2>1. (\E h \in Handlers, n \in PushNames : Start(h, n) \/ SendPush(h, n)) \/ (\E h \in Handlers : Hear(h))
          \/ UNCHANGED pushVars => UNCHANGED <<hand, owed>>
      BY DEF Start, SendPush, Hear, pushVars
    <2>2. QED
      BY <1>1, <1>2, <1>3, <1>4, <1>5, <2>1 DEF PushNext

LEMMA OwnsKept ==
  ASSUME PushTypeOK, Owns, [PushNext]_pushVars
  PROVE  Owns'
  <1> USE DEF Owns, PushTypeOK
  <1>1. ASSUME NEW h \in Handlers, NEW n \in PushNames, Start(h, n) PROVE Owns'
    <2>1. \A g \in Handlers : local[g][n] = 0
      <3> SUFFICES ASSUME NEW g \in Handlers, local[g][n] # 0 PROVE FALSE
        OBVIOUS
      <3>1. route[n] = NoPush /\ route[n] = [handler |-> g, gen |-> local[g][n]]
        BY <1>1 DEF Start
      <3>2. local[g][n] \in 1..MaxGens
        BY PushAssumption
      <3>3. [handler |-> g, gen |-> local[g][n]] \in Route
        BY <3>2 DEF Route
      <3>4. QED
        BY <3>1, <3>3, NoPushAssumption
    <2>2. /\ local' = [local EXCEPT ![h][n] = gens'] /\ route' = [route EXCEPT ![n] = [handler |-> h, gen |-> gens']]
      BY <1>1 DEF Start
    <2>3. QED
      BY <2>1, <2>2
  <1>2. ASSUME NEW h \in Handlers, NEW n \in PushNames, FinishSession(h, n) PROVE Owns'
    <2>1. route[n] = [handler |-> h, gen |-> local[h][n]]
      BY <1>2 DEF FinishSession
    <2>2. local' = [local EXCEPT ![h][n] = 0] /\ route' = [route EXCEPT ![n] = NoPush]
      BY <1>2, <2>1 DEF FinishSession
    <2>3. \A g \in Handlers \ {h} : local[g][n] = 0
      <3> SUFFICES ASSUME NEW g \in Handlers \ {h}, local[g][n] # 0 PROVE FALSE
        OBVIOUS
      <3>1. [handler |-> h, gen |-> local[h][n]] = [handler |-> g, gen |-> local[g][n]]
        BY <2>1
      <3>2. QED
        BY <3>1
    <2>4. QED
      BY <2>2, <2>3
  <1>3. CASE UNCHANGED <<local, route>>
    BY <1>3
  <1>4. QED
    <2>1. (\E h \in Handlers, n \in PushNames : Consume(h, n) \/ Reserve(h, n) \/ SendPush(h, n) \/ PushSent(h, n))
          \/ (\E h \in Handlers : \/ Invalid(h) \/ Put(h) \/ Hear(h) \/ Deliver(h)
                                  \/ ReleasePush(h) \/ ReleaseTimeout(h))
          \/ UNCHANGED pushVars => UNCHANGED <<local, route>>
      BY DEF Consume, Reserve, SendPush, PushSent, Invalid, Put, Hear, Deliver, ReleasePush, ReleaseTimeout, pushVars
    <2>2. QED
      BY <1>1, <1>2, <1>3, <2>1 DEF PushNext

LEMMA DeliveryKept ==
  ASSUME PushTypeOK, NoStaleDelivery, [PushNext]_pushVars
  PROVE  NoStaleDelivery'
  <1> USE DEF NoStaleDelivery
  <1>0. /\ \A h \in Handlers, n \in PushNames : queue[h][n] \in Seq(1..MaxGens) /\ local[h][n] \in Nat
        /\ local \in [Handlers -> [PushNames -> Nat]] /\ queue \in [Handlers -> [PushNames -> Seq(1..MaxGens)]]
    BY PushAssumption DEF PushTypeOK
  <1>1. ASSUME NEW h \in Handlers, NEW n \in PushNames, Start(h, n) PROVE NoStaleDelivery'
    <2>1. local[h][n] = 0 /\ queue' = queue /\ local' = [local EXCEPT ![h][n] = gens']
      BY <1>1 DEF Start
    <2>2. DOMAIN queue[h][n] = {}
      <3> SUFFICES ASSUME NEW i \in DOMAIN queue[h][n] PROVE FALSE
        OBVIOUS
      <3> DEFINE q == queue[h][n]
      <3>1. q \in Seq(1..MaxGens) /\ i \in DOMAIN q /\ q[i] = 0
        BY <1>0, <2>1
      <3> HIDE DEF q
      <3>2. i \in 1..Len(q)
        BY <3>1
      <3>3. q[i] \in 1..MaxGens
        BY <3>1, <3>2, ElementOfSeq
      <3>4. QED
        BY <3>1, <3>3, PushAssumption
    <2>3. QED
      BY <1>0, <2>1, <2>2
  <1>2. ASSUME NEW h \in Handlers, NEW n \in PushNames, FinishSession(h, n) PROVE NoStaleDelivery'
    <2>1. local' = [local EXCEPT ![h][n] = 0] /\ queue' = [queue EXCEPT ![h][n] = <<>>]
      BY <1>2 DEF FinishSession
    <2>2. DOMAIN <<>> = {}
      OBVIOUS
    <2>3. QED
      BY <1>0, <2>1, <2>2
  <1>3. ASSUME NEW h \in Handlers, NEW n \in PushNames, Consume(h, n) PROVE NoStaleDelivery'
    <2> DEFINE q == queue[h][n]
    <2>1. q \in Seq(1..MaxGens) /\ q # <<>> /\ local' = local /\ queue' = [queue EXCEPT ![h][n] = Tail(q)]
          /\ \A i \in DOMAIN q : q[i] = local[h][n]
      BY <1>0, <1>3 DEF Consume
    <2>2. \A i \in DOMAIN Tail(q) : Tail(q)[i] = local[h][n]
      <3> HIDE DEF q
      <3>1. QED
        BY <2>1
    <2> HIDE DEF q
    <2>3. QED
      BY <1>0, <2>1, <2>2
  <1>4. ASSUME NEW h \in Handlers, NEW n \in PushNames, local' = local,
               queue' = [queue EXCEPT ![h][n] = Append(queue[h][n], local[h][n])]
        PROVE  NoStaleDelivery'
    <2> DEFINE q == queue[h][n]
    <2>1. q \in Seq(1..MaxGens) /\ queue' = [queue EXCEPT ![h][n] = Append(q, local[h][n])]
          /\ \A i \in DOMAIN q : q[i] = local[h][n]
      BY <1>0, <1>4
    <2>2. \A i \in DOMAIN Append(q, local[h][n]) : Append(q, local[h][n])[i] = local[h][n]
      <3> DEFINE v == local[h][n]
      <3>1. q \in Seq(1..MaxGens) /\ v \in Nat
        BY <1>0, <2>1
      <3> HIDE DEF q, v
      <3>2. DOMAIN q = 1..Len(q) /\ DOMAIN Append(q, v) = 1..(Len(q) + 1) /\ Len(q) \in Nat
        BY <3>1
      <3>3. Append(q, v)[Len(q) + 1] = v /\ \A i \in 1..Len(q) : Append(q, v)[i] = q[i]
        BY <3>1
      <3>4. \A i \in 1..Len(q) : q[i] = v
        BY <2>1, <3>2 DEF v
      <3>5. \A i \in DOMAIN Append(q, v) : Append(q, v)[i] = v
        BY <3>2, <3>3, <3>4
      <3>6. QED
        BY <3>5 DEF v
    <2> HIDE DEF q
    <2>3. QED
      BY <1>0, <1>4, <2>1, <2>2
  <1>5. ASSUME NEW h \in Handlers, Put(h) PROVE NoStaleDelivery'
    <2> DEFINE push == hand[h].push
    <2>1. push.name \in PushNames /\ local' = local
      BY <1>5 DEF Put, Push, PushTypeOK
    <2>2. \/ queue' = queue
          \/ /\ local[h][push.name] = push.gen
             /\ queue' = [queue EXCEPT ![h][push.name] = Append(queue[h][push.name], push.gen)]
      BY <1>5 DEF Put
    <2> HIDE DEF push
    <2>3. CASE queue' = queue
      BY <2>1, <2>3
    <2>4. CASE queue' # queue
      BY <1>4, <2>1, <2>2, <2>4
    <2>5. QED
      BY <2>3, <2>4
  <1>6. ASSUME NEW h \in Handlers, Deliver(h) PROVE NoStaleDelivery'
    <2> DEFINE push == heard[h]
    <2>1. push.name \in PushNames /\ local' = local
      BY <1>6 DEF Deliver, Push, PushTypeOK
    <2>2. \/ queue' = queue
          \/ /\ local[h][push.name] = push.gen
             /\ queue' = [queue EXCEPT ![h][push.name] = Append(queue[h][push.name], push.gen)]
      BY <1>6 DEF Deliver
    <2> HIDE DEF push
    <2>3. CASE queue' = queue
      BY <2>1, <2>3
    <2>4. CASE queue' # queue
      BY <1>4, <2>1, <2>2, <2>4
    <2>5. QED
      BY <2>3, <2>4
  <1>7. CASE UNCHANGED <<local, queue>>
    BY <1>7
  <1>8. QED
    <2>1. (\E h \in Handlers, n \in PushNames : Reserve(h, n) \/ SendPush(h, n) \/ PushSent(h, n))
          \/ (\E h \in Handlers : Invalid(h) \/ Hear(h) \/ ReleasePush(h) \/ ReleaseTimeout(h))
          \/ UNCHANGED pushVars => UNCHANGED <<local, queue>>
      BY DEF Reserve, SendPush, PushSent, Invalid, Hear, ReleasePush, ReleaseTimeout, pushVars
    <2>2. QED
      BY <1>1, <1>2, <1>3, <1>5, <1>6, <1>7, <2>1 DEF PushNext
-----------------------------------------------------------------------------
\* What a handler holds: every part of it is a number, and so is the whole.
LEMMA HeldParts ==
  ASSUME PushTypeOK, NEW h \in Handlers
  PROVE  /\ SessionSlots(h) \in Nat /\ Len(events[h]) \in Nat /\ owed[h] \in Nat
         /\ One(heard[h]) \in {0, 1} /\ One(hand[h]) \in {0, 1}
         /\ Held(h) \in Nat /\ Held(h) >= owed[h]
  <1> DEFINE f == [n \in PushNames |-> Len(queue[h][n]) + outbound[h][n]]
  <1>1. \A n \in PushNames : f[n] \in Nat
    <2> SUFFICES ASSUME NEW n \in PushNames PROVE Len(queue[h][n]) + outbound[h][n] \in Nat
      OBVIOUS
    <2>1. queue[h][n] \in Seq(1..MaxGens) /\ outbound[h][n] \in Nat
      BY DEF PushTypeOK
    <2>2. Len(queue[h][n]) \in Nat
      BY <2>1, LenProperties
    <2>3. QED
      BY <2>1, <2>2
  <1>2. SumFunctionOnSet(f, PushNames) \in Nat
    <2> HIDE DEF f
    <2>1. IsFiniteSet(PushNames) /\ {} \in SUBSET PushNames
      BY PushAssumption
    <2>2. SumFunctionOnSet(f, PushNames) \in Int /\ SumFunctionOnSet(f, {}) = 0
      BY <1>1, <2>1, SumIsInt, SumOfEmpty
    <2>3. SumFunctionOnSet(f, {}) <= SumFunctionOnSet(f, PushNames)
      BY <1>1, <2>1, SumOfMore
    <2>4. QED
      BY <2>2, <2>3
  <1>3. SessionSlots(h) \in Nat
    BY <1>2 DEF SessionSlots
  <1>4. Len(events[h]) \in Nat /\ owed[h] \in Nat /\ One(heard[h]) \in {0, 1} /\ One(hand[h]) \in {0, 1}
    BY LenProperties DEF PushTypeOK, One
  <1>5. Held(h) = SessionSlots(h) + Len(events[h]) + owed[h] + One(heard[h]) + One(hand[h])
    BY DEF Held
  <1>6. QED
    BY <1>3, <1>4, <1>5

\* What changes the session queues and push tasks of a handler.
LEMMA QueuedChanges ==
  ASSUME PushTypeOK, NEW h \in Handlers, NEW n \in PushNames, NEW d \in Int,
         Len(queue'[h][n]) + outbound'[h][n] = Len(queue[h][n]) + outbound[h][n] + d,
         \A m \in PushNames \ {n} : queue'[h][m] = queue[h][m] /\ outbound'[h][m] = outbound[h][m]
  PROVE  SessionSlots(h)' = SessionSlots(h) + d
  <1> DEFINE f == [m \in PushNames |-> Len(queue[h][m]) + outbound[h][m]]
             g == [m \in PushNames |-> Len(queue'[h][m]) + outbound'[h][m]]
  <1>1. \A m \in PushNames : f[m] \in Int
    <2> SUFFICES ASSUME NEW m \in PushNames PROVE Len(queue[h][m]) + outbound[h][m] \in Int
      OBVIOUS
    <2>1. queue[h][m] \in Seq(1..MaxGens) /\ outbound[h][m] \in Nat
      BY DEF PushTypeOK
    <2>2. Len(queue[h][m]) \in Nat
      BY <2>1, LenProperties
    <2>3. QED
      BY <2>1, <2>2
  <1>2. Shifts(f, g, PushNames, n, d)
    BY DEF Shifts
  <1>3. SumFunctionOnSet(g, PushNames) = SumFunctionOnSet(f, PushNames) + d
    <2> HIDE DEF f, g
    <2>1. QED
      BY <1>1, <1>2, PushAssumption, SumChanges
  <1>4. QED
    BY <1>3 DEF SessionSlots

\* One more push in a session's queue.
LEMMA QueuedGains ==
  ASSUME PushTypeOK, NEW h \in Handlers, NEW n \in PushNames, NEW v \in 1..MaxGens,
         queue' = [queue EXCEPT ![h][n] = Append(queue[h][n], v)], outbound' = outbound
  PROVE  SessionSlots(h)' = SessionSlots(h) + 1
  <1>1. queue'[h][n] = Append(queue[h][n], v) /\ \A m \in PushNames \ {n} : queue'[h][m] = queue[h][m]
    BY DEF PushTypeOK
  <1>2. queue[h][n] \in Seq(1..MaxGens) /\ outbound[h][n] \in Nat
    BY DEF PushTypeOK
  <1>3. Len(queue'[h][n]) = Len(queue[h][n]) + 1 /\ Len(queue[h][n]) \in Nat
    BY <1>1, <1>2, AppendProperties, LenProperties
  <1>4. Len(queue'[h][n]) + outbound'[h][n] = Len(queue[h][n]) + outbound[h][n] + 1
    BY <1>2, <1>3
  <1>5. QED
    BY <1>1, <1>4, QueuedChanges

\* One push task more or less.
LEMMA OutboundChanges ==
  ASSUME PushTypeOK, NEW h \in Handlers, NEW n \in PushNames, NEW d \in {1, -1},
         outbound' = [outbound EXCEPT ![h][n] = outbound[h][n] + d], queue' = queue
  PROVE  SessionSlots(h)' = SessionSlots(h) + d
  <1>1. /\ outbound'[h][n] = outbound[h][n] + d
        /\ \A m \in PushNames \ {n} : outbound'[h][m] = outbound[h][m]
    BY DEF PushTypeOK
  <1>2. Len(queue[h][n]) \in Nat /\ outbound[h][n] \in Nat
    BY LenProperties DEF PushTypeOK
  <1>3. Len(queue'[h][n]) + outbound'[h][n] = Len(queue[h][n]) + outbound[h][n] + d
    BY <1>1, <1>2
  <1>4. d \in Int
    OBVIOUS
  <1>5. QED
    BY <1>1, <1>3, <1>4, QueuedChanges

\* A handler of which nothing changes holds what it held.
LEMMA HeldSame ==
  ASSUME NEW h \in Handlers, queue'[h] = queue[h], outbound'[h] = outbound[h], events'[h] = events[h],
         owed'[h] = owed[h], heard'[h] = heard[h], hand'[h] = hand[h]
  PROVE  Held(h)' = Held(h)
  BY DEF Held, SessionSlots, One

\* And otherwise it gains and loses what its parts do.
Moves(h, a, b, c, d, e) ==
  /\ SessionSlots(h)' = SessionSlots(h) + a /\ Len(events'[h]) = Len(events[h]) + b /\ owed'[h] = owed[h] + c
  /\ One(heard'[h]) = One(heard[h]) + d /\ One(hand'[h]) = One(hand[h]) + e

LEMMA HeldMoves ==
  ASSUME PushTypeOK, NEW h \in Handlers,
         NEW a \in Int, NEW b \in Int, NEW c \in Int, NEW d \in Int, NEW e \in Int,
         Moves(h, a, b, c, d, e)
  PROVE  Held(h)' = Held(h) + (a + b + c + d + e)
  <1> DEFINE q == SessionSlots(h)  l == Len(events[h])  o == owed[h]  x == One(heard[h])  y == One(hand[h])
  <1>1. /\ q \in Int /\ l \in Int /\ o \in Int /\ x \in Int /\ y \in Int
        /\ Held(h) = q + l + o + x + y
    BY HeldParts DEF Held
  <1>2. Held(h)' = (q + a) + (l + b) + (o + c) + (x + d) + (y + e)
    BY DEF Moves, Held
  <1> HIDE DEF q, l, o, x, y
  <1>3. QED
    BY <1>1, <1>2

\* A part that does not change.
LEMMA PartsKept ==
  ASSUME PushTypeOK, NEW h \in Handlers
  PROVE  /\ queue'[h] = queue[h] /\ outbound'[h] = outbound[h] => SessionSlots(h)' = SessionSlots(h) + 0
         /\ events'[h] = events[h] => Len(events'[h]) = Len(events[h]) + 0
         /\ owed'[h] = owed[h] => owed'[h] = owed[h] + 0
         /\ heard'[h] = heard[h] => One(heard'[h]) = One(heard[h]) + 0
         /\ hand'[h] = hand[h] => One(hand'[h]) = One(hand[h]) + 0
  <1>1. SessionSlots(h) \in Int /\ Len(events[h]) \in Int /\ owed[h] \in Int /\ One(heard[h]) \in Int /\ One(hand[h]) \in Int
    BY HeldParts
  <1>2. queue'[h] = queue[h] /\ outbound'[h] = outbound[h] => SessionSlots(h)' = SessionSlots(h)
    BY DEF SessionSlots
  <1>3. QED
    BY <1>1, <1>2
-----------------------------------------------------------------------------
\* The pushes of the other handlers stay.
Only(H) == \A g \in Handlers \ H : Held(g)' = Held(g)

\* What a step does to the pushes that exist and to their count: nothing; one more of both;
\* one less of both, or the authority is unhealthy; or a push passes from one handler to another.
Unmoved == Only({}) /\ pending' = pending
Takes(h) == Only({h}) /\ Held(h)' = Held(h) + 1 /\ pending' = pending + 1
GivesBack(h) == Only({h}) /\ Held(h)' = Held(h) - 1 /\ (pending' = pending - 1 \/ ~healthy')
Passes(h, to) ==
  /\ to # h /\ Only({h, to}) /\ pending' = pending
  /\ Held(h)' = Held(h) - 1 /\ Held(to)' = Held(to) + 1

LEMMA PushIsOne ==
  /\ One(NoPush) = 0 /\ \A p \in Push : p # NoPush /\ One(p) = 1
  /\ \A p \in [to : Handlers, push : Push] : p # NoPush /\ One(p) = 1
  BY NoPushAssumption DEF One

LEMMA HeldCases ==
  ASSUME PushTypeOK, OneAtATime, [PushNext]_pushVars
  PROVE  \/ Unmoved
         \/ \E h \in Handlers : Takes(h) \/ GivesBack(h)
         \/ \E h, to \in Handlers : Passes(h, to)
  <1> USE DEF Only
  <1>0. /\ \A h \in Handlers : owed[h] \in Nat
        /\ owed \in [Handlers -> Nat] /\ DOMAIN hand = Handlers /\ DOMAIN heard = Handlers
        /\ DOMAIN events = Handlers /\ DOMAIN queue = Handlers /\ DOMAIN outbound = Handlers
    BY DEF PushTypeOK
  <1>1. CASE UNCHANGED <<queue, outbound, events, owed, heard, hand, pending>>
    BY <1>1, HeldSame DEF Unmoved
  <1>2. ASSUME NEW h \in Handlers, NEW n \in PushNames, FinishSession(h, n) PROVE Unmoved
    <2>1. /\ outbound[h][n] = 0 /\ owed[h] = 0 /\ queue' = [queue EXCEPT ![h][n] = <<>>]
          /\ owed' = [owed EXCEPT ![h] = Len(queue[h][n])]
          /\ UNCHANGED <<pending, events, heard, hand, outbound>>
      BY <1>2 DEF FinishSession, AtWait
    <2>2. \A g \in Handlers \ {h} : Held(g)' = Held(g)
      BY <1>0, <2>1, HeldSame
    <2> DEFINE k == Len(queue[h][n])
    <2>3. k \in Nat /\ owed'[h] = owed[h] + k
      <3>1. k \in Nat
        BY LenProperties DEF PushTypeOK
      <3>2. owed'[h] = k /\ owed[h] = 0
        BY <1>0, <2>1
      <3> HIDE DEF k
      <3>3. QED
        BY <3>1, <3>2
    <2>4. SessionSlots(h)' = SessionSlots(h) + (0 - k)
      <3>1. queue'[h][n] = <<>> /\ \A m \in PushNames \ {n} : queue'[h][m] = queue[h][m]
        BY <2>1 DEF PushTypeOK
      <3>2. Len(queue'[h][n]) + outbound'[h][n] = k + outbound[h][n] + (0 - k)
        <4>1. Len(queue'[h][n]) = 0 /\ outbound'[h][n] = 0 /\ outbound[h][n] = 0
          BY <2>1, <3>1, EmptySeq
        <4> HIDE DEF k
        <4>2. QED
          BY <2>3, <4>1
      <3>3. 0 - k \in Int
        <4> HIDE DEF k
        <4>1. QED
          BY <2>3
      <3>4. QED
        BY <2>1, <3>1, <3>2, <3>3, QueuedChanges
    <2>5. Held(h)' = Held(h)
      <3> HIDE DEF k
      <3> DEFINE j == 0 - k
      <3>1. Moves(h, j, 0, k, 0, 0)
        BY <2>1, <2>3, <2>4, PartsKept DEF Moves
      <3>2. j \in Int /\ k \in Int /\ j + 0 + k + 0 + 0 = 0
        BY <2>3
      <3> HIDE DEF j
      <3>3. Held(h)' = Held(h) + (j + 0 + k + 0 + 0)
        BY <3>1, <3>2, HeldMoves
      <3>4. QED
        BY <3>2, <3>3, HeldParts
    <2>6. QED
      BY <2>1, <2>2, <2>5 DEF Unmoved
  <1>3. ASSUME NEW h \in Handlers, NEW n \in PushNames, Consume(h, n) PROVE Unmoved
    <2>1. /\ owed[h] = 0 /\ queue' = [queue EXCEPT ![h][n] = Tail(queue[h][n])] /\ queue[h][n] # <<>>
          /\ owed' = [owed EXCEPT ![h] = 1]
          /\ UNCHANGED <<pending, events, heard, hand, outbound>>
      BY <1>3 DEF Consume, AtWait
    <2>2. \A g \in Handlers \ {h} : Held(g)' = Held(g)
      BY <1>0, <2>1, HeldSame
    <2>3. owed'[h] = owed[h] + 1
      BY <1>0, <2>1
    <2>4. SessionSlots(h)' = SessionSlots(h) + (-1)
      <3>1. queue'[h][n] = Tail(queue[h][n]) /\ \A m \in PushNames \ {n} : queue'[h][m] = queue[h][m]
        BY <2>1 DEF PushTypeOK
      <3>2. Len(Tail(queue[h][n])) = Len(queue[h][n]) - 1 /\ Len(queue[h][n]) \in Nat /\ outbound[h][n] \in Nat
        <4> DEFINE q == queue[h][n]
        <4>1. q \in Seq(1..MaxGens) /\ q # <<>> /\ outbound[h][n] \in Nat
          BY <2>1 DEF PushTypeOK
        <4> HIDE DEF q
        <4>2. Len(Tail(q)) = Len(q) - 1 /\ Len(q) \in Nat
          BY <4>1, HeadTailProperties, LenProperties
        <4>3. QED
          BY <4>1, <4>2 DEF q
      <3>3. Len(queue'[h][n]) + outbound'[h][n] = Len(queue[h][n]) + outbound[h][n] + (-1)
        <4>1. Len(queue'[h][n]) = Len(queue[h][n]) - 1 /\ outbound'[h][n] = outbound[h][n]
          BY <2>1, <3>1, <3>2
        <4>2. QED
          BY <3>2, <4>1
      <3>4. QED
        BY <2>1, <3>1, <3>3, QueuedChanges
    <2>5. Held(h)' = Held(h)
      <3>1. Moves(h, -1, 0, 1, 0, 0)
        BY <2>1, <2>3, <2>4, PartsKept DEF Moves
      <3>2. QED
        <4>1. Held(h)' = Held(h) + ((-1) + 0 + 1 + 0 + 0)
          BY <3>1, HeldMoves
        <4>2. Held(h) \in Int
          BY HeldParts
        <4>3. QED
          BY <4>1, <4>2
    <2>6. QED
      BY <2>1, <2>2, <2>5 DEF Unmoved
  <1>4. ASSUME NEW h \in Handlers, NEW n \in PushNames, Reserve(h, n) PROVE Takes(h)
    <2>1. /\ hand[h] = NoPush /\ hand'[h] \in [to : Handlers, push : Push] /\ pending' = pending + 1
          /\ \A g \in Handlers \ {h} : hand'[g] = hand[g]
          /\ UNCHANGED <<queue, events, heard, owed, outbound>>
      <3>1. route[n] \in Route
        BY <1>4 DEF Reserve, PushTypeOK
      <3>2. [to |-> route[n].handler, push |-> [name |-> n, gen |-> route[n].gen]] \in [to : Handlers, push : Push]
        BY <3>1 DEF Route, Push
      <3>3. QED
        BY <1>0, <1>4, <3>2 DEF Reserve, AtWait
    <2>2. \A g \in Handlers \ {h} : Held(g)' = Held(g)
      BY <2>1, HeldSame
    <2>3. One(hand[h])' = One(hand[h]) + 1
      <3>1. One(hand[h]) = 0 /\ One(hand[h])' = 1
        BY <2>1, PushIsOne DEF One
      <3>2. QED
        BY <3>1
    <2>4. Held(h)' = Held(h) + 1
      <3>1. Moves(h, 0, 0, 0, 0, 1)
        BY <2>1, <2>3, PartsKept DEF Moves
      <3>2. QED
        <4>1. Held(h)' = Held(h) + (0 + 0 + 0 + 0 + 1)
          BY <3>1, HeldMoves
        <4>2. Held(h) \in Int
          BY HeldParts
        <4>3. QED
          BY <4>1, <4>2
    <2>5. QED
      BY <2>1, <2>2, <2>4 DEF Takes
  <1>5. ASSUME NEW h \in Handlers, Invalid(h) PROVE Unmoved
    <2>1. /\ hand[h] # NoPush /\ owed[h] = 0 /\ hand' = [hand EXCEPT ![h] = NoPush]
          /\ owed' = [owed EXCEPT ![h] = 1] /\ UNCHANGED <<pending, queue, events, heard, outbound>>
      BY <1>5 DEF Invalid, OneAtATime
    <2>2. \A g \in Handlers \ {h} : Held(g)' = Held(g)
      BY <1>0, <2>1, HeldSame
    <2>3. owed'[h] = owed[h] + 1 /\ One(hand'[h]) = One(hand[h]) + (-1)
      <3>1. owed'[h] = 1 /\ hand'[h] = NoPush
        BY <1>0, <2>1
      <3>2. One(hand'[h]) = 0 /\ One(hand[h]) = 1
        BY <2>1, <3>1 DEF One
      <3>3. QED
        BY <2>1, <3>1, <3>2
    <2>4. Moves(h, 0, 0, 1, 0, -1)
      BY <2>1, <2>3, PartsKept DEF Moves
    <2>5. Held(h)' = Held(h)
      <3>1. Held(h)' = Held(h) + (0 + 0 + 1 + 0 + (-1))
        BY <2>4, HeldMoves
      <3>2. Held(h) \in Int
        BY HeldParts
      <3>3. QED
        BY <3>1, <3>2
    <2>6. QED
      BY <2>1, <2>2, <2>5 DEF Unmoved
  <1>6. ASSUME NEW h \in Handlers, Put(h)
        PROVE  Unmoved \/ \E to \in Handlers : Passes(h, to)
    <2>0. PICK to \in Handlers, push \in Push : to = hand[h].to /\ push = hand[h].push
      <3>1. hand[h] # NoPush /\ hand[h] \in [to : Handlers, push : Push] \cup {NoPush}
        BY <1>6 DEF Put, PushTypeOK
      <3>2. QED
        BY <3>1
    <2> DEFINE n == push.name
    <2>1. /\ hand[h] # NoPush /\ owed[h] = 0 /\ hand' = [hand EXCEPT ![h] = NoPush]
          /\ n \in PushNames /\ UNCHANGED <<pending, heard, outbound>>
      BY <1>6 DEF Put, OneAtATime, Push
    <2>2. \/ /\ queue' = [queue EXCEPT ![h][n] = Append(queue[h][n], push.gen)]
             /\ events' = events /\ owed' = [owed EXCEPT ![h] = 0]
          \/ /\ to # h /\ queue' = queue /\ owed' = [owed EXCEPT ![h] = 0]
             /\ events' = [events EXCEPT ![to] = Append(events[to], push)]
          \/ queue' = queue /\ events' = events /\ owed' = [owed EXCEPT ![h] = 1]
      BY <1>6, <2>0 DEF Put
    <2>3. /\ One(hand'[h]) = One(hand[h]) + (-1) /\ \A g \in Handlers \ {h} : hand'[g] = hand[g]
      <3>1. hand'[h] = NoPush /\ \A g \in Handlers \ {h} : hand'[g] = hand[g]
        BY <1>0, <2>1
      <3>2. One(hand'[h]) = 0 /\ One(hand[h]) = 1
        BY <2>1, <3>1 DEF One
      <3>3. QED
        BY <3>1, <3>2
    <2>4. push.gen \in 1..MaxGens
      BY <2>1 DEF Push
    <2> HIDE DEF n
    <2>5. CASE /\ queue' = [queue EXCEPT ![h][n] = Append(queue[h][n], push.gen)]
               /\ events' = events /\ owed' = [owed EXCEPT ![h] = 0]
      <3>1. \A g \in Handlers \ {h} : Held(g)' = Held(g)
        BY <1>0, <2>1, <2>3, <2>5, HeldSame
      <3>2. owed'[h] = owed[h]
        BY <1>0, <2>1, <2>5
      <3>3. SessionSlots(h)' = SessionSlots(h) + 1
        BY <2>1, <2>4, <2>5, QueuedGains
      <3>4. Moves(h, 1, 0, 0, 0, -1)
        BY <2>1, <2>3, <2>5, <3>2, <3>3, PartsKept DEF Moves
      <3>5. Held(h)' = Held(h)
        <4>1. Held(h)' = Held(h) + (1 + 0 + 0 + 0 + (-1))
          BY <3>4, HeldMoves
        <4>2. Held(h) \in Int
          BY HeldParts
        <4>3. QED
          BY <4>1, <4>2
      <3>6. QED
        BY <2>1, <3>1, <3>5 DEF Unmoved
    <2>6. CASE /\ to # h /\ queue' = queue /\ owed' = [owed EXCEPT ![h] = 0]
               /\ events' = [events EXCEPT ![to] = Append(events[to], push)]
      <3>1. \A g \in Handlers \ {h, to} : Held(g)' = Held(g)
        BY <1>0, <2>1, <2>3, <2>6, HeldSame
      <3>2. owed'[h] = owed[h] /\ owed'[to] = owed[to] /\ events'[h] = events[h]
        BY <1>0, <2>1, <2>6
      <3>3. Len(events'[to]) = Len(events[to]) + 1
        <4>1. events'[to] = Append(events[to], push) /\ events[to] \in Seq(Push)
          BY <1>0, <2>1, <2>6 DEF PushTypeOK
        <4>2. QED
          BY <2>1, <4>1, AppendProperties
      <3>4. Moves(h, 0, 0, 0, 0, -1)
        BY <2>1, <2>3, <2>6, <3>2, PartsKept DEF Moves
      <3>5. Moves(to, 0, 1, 0, 0, 0)
        BY <2>1, <2>3, <2>6, <3>2, <3>3, PartsKept DEF Moves
      <3>6. Held(h)' = Held(h) - 1 /\ Held(to)' = Held(to) + 1
        <4>1. Held(h)' = Held(h) + (0 + 0 + 0 + 0 + (-1))
          BY <3>4, HeldMoves
        <4>a. Held(to)' = Held(to) + (0 + 1 + 0 + 0 + 0)
          BY <3>5, HeldMoves
        <4>2. Held(h) \in Int /\ Held(to) \in Int
          BY <2>1, HeldParts
        <4>3. QED
          BY <4>1, <4>a, <4>2
      <3>7. QED
        BY <2>1, <2>6, <3>1, <3>6 DEF Passes
    <2>7. CASE queue' = queue /\ events' = events /\ owed' = [owed EXCEPT ![h] = 1]
      <3>1. \A g \in Handlers \ {h} : Held(g)' = Held(g)
        BY <1>0, <2>1, <2>3, <2>7, HeldSame
      <3>2. owed'[h] = owed[h] + 1
        BY <1>0, <2>1, <2>7
      <3>3. Moves(h, 0, 0, 1, 0, -1)
        BY <2>1, <2>3, <2>7, <3>2, PartsKept DEF Moves
      <3>4. Held(h)' = Held(h)
        <4>1. Held(h)' = Held(h) + (0 + 0 + 1 + 0 + (-1))
          BY <3>3, HeldMoves
        <4>2. Held(h) \in Int
          BY HeldParts
        <4>3. QED
          BY <4>1, <4>2
      <3>5. QED
        BY <2>1, <3>1, <3>4 DEF Unmoved
    <2>8. QED
      BY <2>2, <2>5, <2>6, <2>7
  <1>7. ASSUME NEW h \in Handlers, Hear(h) PROVE Unmoved
    <2>1. /\ heard[h] = NoPush /\ events[h] # <<>> /\ heard' = [heard EXCEPT ![h] = Head(events[h])]
          /\ events' = [events EXCEPT ![h] = Tail(events[h])]
          /\ UNCHANGED <<pending, queue, hand, owed, outbound>>
      BY <1>7 DEF Hear
    <2>2. \A g \in Handlers \ {h} : Held(g)' = Held(g)
      BY <1>0, <2>1, HeldSame
    <2>3. /\ Len(events'[h]) = Len(events[h]) + (-1) /\ One(heard'[h]) = One(heard[h]) + 1
      <3> DEFINE q == events[h]
      <3>1. q \in Seq(Push) /\ q # <<>> /\ events'[h] = Tail(q) /\ heard'[h] = Head(q)
        BY <1>0, <2>1 DEF PushTypeOK
      <3> HIDE DEF q
      <3>2. Len(Tail(q)) = Len(q) - 1 /\ Len(q) \in Nat /\ Head(q) \in Push
        BY <3>1, HeadTailProperties, LenProperties
      <3>3. Len(events'[h]) = Len(q) + (-1)
        BY <3>1, <3>2
      <3>4. One(heard'[h]) = 1 /\ One(heard[h]) = 0
        BY <2>1, <3>1, <3>2, PushIsOne
      <3>5. QED
        BY <3>3, <3>4 DEF q
    <2>4. Moves(h, 0, -1, 0, 1, 0)
      BY <2>1, <2>3, PartsKept DEF Moves
    <2>5. Held(h)' = Held(h)
      <3>1. Held(h)' = Held(h) + (0 + (-1) + 0 + 1 + 0)
        BY <2>4, HeldMoves
      <3>2. Held(h) \in Int
        BY HeldParts
      <3>3. QED
        BY <3>1, <3>2
    <2>6. QED
      BY <2>1, <2>2, <2>5 DEF Unmoved
  <1>8. ASSUME NEW h \in Handlers, Deliver(h) PROVE Unmoved
    <2>0. PICK push \in Push : push = heard[h]
      BY <1>8 DEF Deliver, PushTypeOK
    <2> DEFINE n == push.name
    <2>1. /\ owed[h] = 0 /\ heard' = [heard EXCEPT ![h] = NoPush] /\ n \in PushNames
          /\ push.gen \in 1..MaxGens /\ UNCHANGED <<pending, events, hand, outbound>>
      BY <1>8 DEF Deliver, AtWait, Push
    <2>2. \/ queue' = [queue EXCEPT ![h][n] = Append(queue[h][n], push.gen)] /\ owed' = [owed EXCEPT ![h] = 0]
          \/ queue' = queue /\ owed' = [owed EXCEPT ![h] = 1]
      BY <1>8, <2>0 DEF Deliver
    <2>3. \A g \in Handlers \ {h} : Held(g)' = Held(g)
      BY <1>0, <2>1, <2>2, HeldSame
    <2>4. One(heard'[h]) = One(heard[h]) + (-1)
      <3>1. heard'[h] = NoPush
        BY <1>0, <2>1
      <3>2. One(heard'[h]) = 0 /\ One(heard[h]) = 1
        BY <2>0, <3>1, PushIsOne
      <3>3. QED
        BY <3>2
    <2> HIDE DEF n
    <2>5. CASE queue' = [queue EXCEPT ![h][n] = Append(queue[h][n], push.gen)] /\ owed' = [owed EXCEPT ![h] = 0]
      <3>1. SessionSlots(h)' = SessionSlots(h) + 1 /\ owed'[h] = owed[h]
        BY <1>0, <2>1, <2>5, QueuedGains
      <3>2. Moves(h, 1, 0, 0, -1, 0)
        BY <2>1, <2>4, <3>1, PartsKept DEF Moves
      <3>3. Held(h)' = Held(h)
        <4>1. Held(h)' = Held(h) + (1 + 0 + 0 + (-1) + 0)
          BY <3>2, HeldMoves
        <4>2. Held(h) \in Int
          BY HeldParts
        <4>3. QED
          BY <4>1, <4>2
      <3>4. QED
        BY <2>1, <2>3, <3>3 DEF Unmoved
    <2>6. CASE queue' = queue /\ owed' = [owed EXCEPT ![h] = 1]
      <3>1. owed'[h] = owed[h] + 1
        BY <1>0, <2>1, <2>6
      <3>2. Moves(h, 0, 0, 1, -1, 0)
        BY <2>1, <2>4, <2>6, <3>1, PartsKept DEF Moves
      <3>3. Held(h)' = Held(h)
        <4>1. Held(h)' = Held(h) + (0 + 0 + 1 + (-1) + 0)
          BY <3>2, HeldMoves
        <4>2. Held(h) \in Int
          BY HeldParts
        <4>3. QED
          BY <4>1, <4>2
      <3>4. QED
        BY <2>1, <2>3, <3>3 DEF Unmoved
    <2>7. QED
      BY <2>2, <2>5, <2>6
  <1>9. ASSUME NEW h \in Handlers, NEW n \in PushNames, SendPush(h, n) PROVE Takes(h)
    <2>1. /\ outbound' = [outbound EXCEPT ![h][n] = outbound[h][n] + 1] /\ pending' = pending + 1
          /\ UNCHANGED <<queue, events, heard, hand, owed>>
      BY <1>9 DEF SendPush
    <2>2. \A g \in Handlers \ {h} : Held(g)' = Held(g)
      BY <1>0, <2>1, HeldSame
    <2>3. SessionSlots(h)' = SessionSlots(h) + 1
      BY <2>1, OutboundChanges
    <2>4. Moves(h, 1, 0, 0, 0, 0)
      BY <2>1, <2>3, PartsKept DEF Moves
    <2>5. Held(h)' = Held(h) + 1
      <3>1. Held(h)' = Held(h) + (1 + 0 + 0 + 0 + 0)
        BY <2>4, HeldMoves
      <3>2. Held(h) \in Int
        BY HeldParts
      <3>3. QED
        BY <3>1, <3>2
    <2>6. QED
      BY <2>1, <2>2, <2>5 DEF Takes
  <1>10. ASSUME NEW h \in Handlers, NEW n \in PushNames, PushSent(h, n) PROVE Unmoved
    <2>1. /\ outbound' = [outbound EXCEPT ![h][n] = outbound[h][n] - 1] /\ owed[h] = 0
          /\ owed' = [owed EXCEPT ![h] = 1] /\ UNCHANGED <<pending, queue, events, heard, hand>>
      BY <1>10 DEF PushSent, AtWait
    <2>2. \A g \in Handlers \ {h} : Held(g)' = Held(g)
      BY <1>0, <2>1, HeldSame
    <2>3. SessionSlots(h)' = SessionSlots(h) + (-1)
      <3>1. outbound[h][n] - 1 = outbound[h][n] + (-1)
        BY DEF PushTypeOK
      <3>2. QED
        BY <2>1, <3>1, OutboundChanges
    <2>4. owed'[h] = owed[h] + 1
      BY <1>0, <2>1
    <2>5. Moves(h, -1, 0, 1, 0, 0)
      BY <2>1, <2>3, <2>4, PartsKept DEF Moves
    <2>6. Held(h)' = Held(h)
      <3>1. Held(h)' = Held(h) + ((-1) + 0 + 1 + 0 + 0)
        BY <2>5, HeldMoves
      <3>2. Held(h) \in Int
        BY HeldParts
      <3>3. QED
        BY <3>1, <3>2
    <2>7. QED
      BY <2>1, <2>2, <2>6 DEF Unmoved
  <1>11. ASSUME NEW h \in Handlers, ReleasePush(h) \/ ReleaseTimeout(h) PROVE GivesBack(h)
    <2>1. /\ owed' = [owed EXCEPT ![h] = owed[h] - 1] /\ (pending' = pending - 1 \/ ~healthy')
          /\ UNCHANGED <<queue, events, heard, hand, outbound>>
      BY <1>11 DEF ReleasePush, ReleaseTimeout
    <2>2. \A g \in Handlers \ {h} : Held(g)' = Held(g)
      BY <1>0, <2>1, HeldSame
    <2>3. owed'[h] = owed[h] + (-1)
      BY <1>0, <2>1
    <2>4. Moves(h, 0, 0, -1, 0, 0)
      BY <2>1, <2>3, PartsKept DEF Moves
    <2>5. Held(h)' = Held(h) - 1
      <3>1. Held(h)' = Held(h) + (0 + 0 + (-1) + 0 + 0)
        BY <2>4, HeldMoves
      <3>2. Held(h) \in Int
        BY HeldParts
      <3>3. QED
        BY <3>1, <3>2
    <2>6. QED
      BY <2>1, <2>2, <2>5 DEF GivesBack
  <1>12. ASSUME NEW h \in Handlers, NEW n \in PushNames, Start(h, n) PROVE Unmoved
    <2>1. UNCHANGED <<queue, outbound, events, owed, heard, hand, pending>>
      BY <1>12 DEF Start
    <2>2. QED
      BY <2>1, HeldSame DEF Unmoved
  <1>13. CASE UNCHANGED pushVars
    BY <1>1, <1>13 DEF pushVars
  <1>14. QED
    BY <1>2, <1>3, <1>4, <1>5, <1>6, <1>7, <1>8, <1>9, <1>10, <1>11, <1>12, <1>13 DEF PushNext
-----------------------------------------------------------------------------
\* The count follows the pushes that exist.
LEMMA SlotsKept ==
  ASSUME PushTypeOK, OneAtATime, SlotsExact, [PushNext]_pushVars
  PROVE  SlotsExact'
  <1> DEFINE f == [h \in Handlers |-> Held(h)]
             g == [h \in Handlers |-> Held(h)']
  <1>1. /\ \A h \in Handlers : f[h] = Held(h) /\ g[h] = Held(h)' /\ f[h] \in Int
        /\ IsFiniteSet(Handlers) /\ SumFunctionOnSet(f, Handlers) \in Int /\ pending \in Int
    <2>1. \A h \in Handlers : f[h] = Held(h) /\ g[h] = Held(h)' /\ f[h] \in Int
      BY HeldParts
    <2>2. SumFunctionOnSet(f, Handlers) \in Int
      <3> HIDE DEF f
      <3>1. QED
        BY <2>1, PushAssumption, SumIsInt
    <2>3. pending \in Int
      BY PushAssumption DEF PushTypeOK
    <2>4. QED
      BY <2>1, <2>2, <2>3, PushAssumption
  <1>2. SUFFICES ASSUME healthy' PROVE pending' = SumFunctionOnSet(g, Handlers)
    BY DEF SlotsExact
  <1>3. pending = SumFunctionOnSet(f, Handlers)
    <2>1. healthy
      <3>1. ASSUME NEW h \in Handlers, NEW n \in PushNames,
                   \/ Start(h, n) \/ FinishSession(h, n) \/ Consume(h, n)
                   \/ Reserve(h, n) \/ SendPush(h, n) \/ PushSent(h, n)
            PROVE  healthy
        BY <1>2, <3>1 DEF Start, FinishSession, Consume, Reserve, SendPush, PushSent
      <3>2. ASSUME NEW h \in Handlers,
                   \/ Invalid(h) \/ Put(h) \/ Hear(h) \/ Deliver(h)
                   \/ ReleasePush(h) \/ ReleaseTimeout(h)
            PROVE  healthy
        BY <1>2, <3>2 DEF Invalid, Put, Hear, Deliver, ReleasePush, ReleaseTimeout
      <3>3. QED
        BY <1>2, <3>1, <3>2 DEF PushNext, pushVars
    <2>2. QED
      BY <2>1 DEF SlotsExact
  <1> HIDE DEF f, g
  <1>4. CASE Unmoved
    <2>1. \A h \in Handlers : f[h] = g[h]
      BY <1>1, <1>4 DEF Unmoved, Only
    <2>2. SumFunctionOnSet(f, Handlers) = SumFunctionOnSet(g, Handlers)
      BY <1>1, <2>1, SumOfSame
    <2>3. QED
      BY <1>3, <1>4, <2>2 DEF Unmoved
  <1>5. ASSUME NEW h \in Handlers, Takes(h) PROVE pending' = SumFunctionOnSet(g, Handlers)
    <2>1. Shifts(f, g, Handlers, h, 1)
      BY <1>1, <1>5 DEF Takes, Only, Shifts
    <2>2. SumFunctionOnSet(g, Handlers) = SumFunctionOnSet(f, Handlers) + 1
      BY <1>1, <2>1, SumChanges
    <2>3. QED
      BY <1>3, <1>5, <2>2 DEF Takes
  <1>6. ASSUME NEW h \in Handlers, GivesBack(h) PROVE pending' = SumFunctionOnSet(g, Handlers)
    <2>1. Shifts(f, g, Handlers, h, -1)
      BY <1>1, <1>6 DEF GivesBack, Only, Shifts
    <2>2. SumFunctionOnSet(g, Handlers) = SumFunctionOnSet(f, Handlers) + (-1)
      BY <1>1, <2>1, SumChanges
    <2>3. pending' = pending - 1
      BY <1>2, <1>6 DEF GivesBack
    <2>4. QED
      BY <1>1, <1>3, <2>2, <2>3
  <1>7. ASSUME NEW h \in Handlers, NEW to \in Handlers, Passes(h, to)
        PROVE  pending' = SumFunctionOnSet(g, Handlers)
    <2> DEFINE m == [y \in Handlers |-> IF y = h THEN f[h] + (-1) ELSE f[y]]
    <2>1. /\ to # h /\ g[h] = f[h] + (-1) /\ g[to] = f[to] + 1 /\ pending' = pending
          /\ \A y \in Handlers \ {h, to} : g[y] = f[y]
      BY <1>1, <1>7 DEF Passes, Only
    <2>2. /\ Shifts(f, m, Handlers, h, -1) /\ Shifts(m, g, Handlers, to, 1)
          /\ \A y \in Handlers : m[y] \in Int
      BY <1>1, <2>1 DEF Shifts
    <2> HIDE DEF m
    <2>3. SumFunctionOnSet(m, Handlers) = SumFunctionOnSet(f, Handlers) + (-1)
      BY <1>1, <2>2, SumChanges
    <2>4. SumFunctionOnSet(g, Handlers) = SumFunctionOnSet(m, Handlers) + 1
      BY <1>1, <2>2, SumChanges
    <2>5. QED
      BY <1>1, <1>3, <2>1, <2>3, <2>4
  <1>8. QED
    BY <1>4, <1>5, <1>6, <1>7, HeldCases

\* While nothing was lost the count covers what a handler has to give back.
LEMMA OwedIsCounted ==
  ASSUME PushTypeOK, SlotsExact, healthy, NEW h \in Handlers
  PROVE  owed[h] <= pending
  <1> DEFINE f == [g \in Handlers |-> Held(g)]
  <1>1. \A g \in Handlers : f[g] \in Nat
    BY HeldParts
  <1>2. f[h] = Held(h) /\ pending = SumFunctionOnSet(f, Handlers)
    BY DEF SlotsExact
  <1> HIDE DEF f
  <1>3. IsFiniteSet(Handlers) /\ {h} \in SUBSET Handlers /\ IsFiniteSet({h}) /\ {h} \ {h} = {}
    BY PushAssumption, FS_Singleton
  <1>4. SumFunctionOnSet(f, {h}) <= SumFunctionOnSet(f, Handlers)
    BY <1>1, <1>3, SumOfMore
  <1>5. SumFunctionOnSet(f, {h}) = f[h] + 0
    <2>1. SumFunctionOnSet(f, {h}) = f[h] + SumFunctionOnSet(f, {h} \ {h})
      BY <1>1, <1>3, SumWithout
    <2>2. QED
      BY <1>3, <2>1, SumOfEmpty
  <1>6. Held(h) >= owed[h] /\ owed[h] \in Nat /\ Held(h) \in Nat
    BY HeldParts
  <1>7. pending \in Int
    BY PushAssumption DEF PushTypeOK
  <1>8. QED
    BY <1>2, <1>4, <1>5, <1>6, <1>7

\* Only a lock timeout poisons the authority.
LEMMA HealthKept ==
  ASSUME PushTypeOK, Owns, SlotsExact, BudgetHealthy, [PushNext]_pushVars
  PROVE  BudgetHealthy'
  <1>0. pushFaults \in Nat
    BY PushAssumption DEF PushTypeOK
  <1>1. ASSUME NEW h \in Handlers, NEW n \in PushNames, FinishSession(h, n) PROVE BudgetHealthy'
    <2>1. route[n] = [handler |-> h, gen |-> local[h][n]]
      BY <1>1 DEF FinishSession, Owns
    <2>2. UNCHANGED <<healthy, pushFaults>>
      BY <1>1, <2>1 DEF FinishSession
    <2>3. QED
      BY <2>2 DEF BudgetHealthy
  <1>2. ASSUME NEW h \in Handlers, ReleasePush(h) PROVE BudgetHealthy'
    <2>1. CASE healthy
      <3>1. pending >= 1
        <4>1. owed[h] <= pending /\ owed[h] \in Nat /\ owed[h] > 0 /\ pending \in Int
          BY <1>2, <2>1, OwedIsCounted, PushAssumption DEF ReleasePush, PushTypeOK
        <4>2. QED
          BY <4>1
      <3>2. ~(pending < 1)
        BY <3>1, PushAssumption DEF PushTypeOK
      <3>3. UNCHANGED <<healthy, pushFaults>>
        BY <1>2, <3>2 DEF ReleasePush
      <3>4. QED
        BY <3>3 DEF BudgetHealthy
    <2>2. CASE ~healthy
      BY <1>2, <2>2 DEF ReleasePush, BudgetHealthy
    <2>3. QED
      BY <2>1, <2>2
  <1>3. ASSUME NEW h \in Handlers, ReleaseTimeout(h) PROVE BudgetHealthy'
    <2>1. pushFaults' = pushFaults + 1
      BY <1>3 DEF ReleaseTimeout
    <2>2. pushFaults' # 0
      BY <1>0, <2>1
    <2>3. QED
      BY <2>2 DEF BudgetHealthy
  <1>4. CASE UNCHANGED <<healthy, pushFaults>>
    BY <1>4 DEF BudgetHealthy
  <1>5. QED
    <2>1. ASSUME NEW h \in Handlers, NEW n \in PushNames,
                 Start(h, n) \/ Consume(h, n) \/ Reserve(h, n) \/ SendPush(h, n) \/ PushSent(h, n)
          PROVE  UNCHANGED <<healthy, pushFaults>>
      BY <2>1 DEF Start, Consume, Reserve, SendPush, PushSent
    <2>2. ASSUME NEW h \in Handlers, Invalid(h) \/ Put(h) \/ Hear(h) \/ Deliver(h)
          PROVE  UNCHANGED <<healthy, pushFaults>>
      BY <2>2 DEF Invalid, Put, Hear, Deliver
    <2>3. UNCHANGED pushVars => UNCHANGED <<healthy, pushFaults>>
      BY DEF pushVars
    <2>4. QED
      BY <1>1, <1>2, <1>3, <1>4, <2>1, <2>2, <2>3 DEF PushNext
-----------------------------------------------------------------------------
LEMMA PushInvInit == PushInit => PushInv
  <1> SUFFICES ASSUME PushInit PROVE PushInv
    OBVIOUS
  <1> USE PushAssumption DEF PushInit
  <1>1. PushTypeOK
    <2>1. \A S : <<>> \in Seq(S)
      BY EmptySeq
    <2>2. QED
      BY <2>1 DEF PushTypeOK
  <1>2. Owns /\ OneAtATime /\ NoStaleDelivery /\ BudgetHealthy
    BY DEF Owns, OneAtATime, NoStaleDelivery, BudgetHealthy
  <1>3. SlotsExact
    <2>1. ASSUME NEW h \in Handlers PROVE Held(h) = 0
      <3> DEFINE f == [n \in PushNames |-> Len(queue[h][n]) + outbound[h][n]]
      <3>1. \A n \in PushNames : f[n] = 0
        BY EmptySeq
      <3>2. SumFunctionOnSet(f, PushNames) = 0
        <4> HIDE DEF f
        <4>1. QED
          BY <3>1, SumOfZeros
      <3>3. SessionSlots(h) = 0
        BY <3>2 DEF SessionSlots
      <3>4. Len(events[h]) = 0 /\ owed[h] = 0 /\ One(heard[h]) = 0 /\ One(hand[h]) = 0
        BY EmptySeq DEF One
      <3>5. QED
        BY <3>3, <3>4 DEF Held
    <2> DEFINE f == [h \in Handlers |-> Held(h)]
    <2>2. \A h \in Handlers : f[h] = 0
      BY <2>1
    <2>3. SumFunctionOnSet(f, Handlers) = 0
      <3> HIDE DEF f
      <3>1. QED
        BY <2>2, SumOfZeros
    <2>4. QED
      BY <2>3 DEF SlotsExact
  <1>4. QED
    BY <1>1, <1>2, <1>3 DEF PushInv, PushesExact

\* What the pushes' proofs rest on holds in every state.
LEMMA PushInvHolds == PushSpec => []PushInv
  <1>1. ASSUME PushInv, [PushNext]_pushVars PROVE PushInv'
    <2> USE <1>1 DEF PushInv, PushesExact
    <2>1. PushTypeOK'
      BY PushTypesKept
    <2>2. Owns' /\ OneAtATime'
      BY OwnsKept, OneAtATimeKept
    <2>3. SlotsExact'
      BY SlotsKept
    <2>4. NoStaleDelivery'
      BY DeliveryKept
    <2>5. BudgetHealthy'
      BY HealthKept
    <2>6. QED
      BY <2>1, <2>2, <2>3, <2>4, <2>5
  <1>2. QED
    BY <1>1, PushInvInit, PTL DEF PushSpec

\* The budget counts the pushes that exist, no push reaches a later session of its name, and
\* only a lock timeout makes the authority unhealthy.
THEOREM PushesAreExact == PushSpec => []PushesExact
  <1>1. PushInv => PushesExact
    BY DEF PushInv
  <1>2. QED
    BY <1>1, PushInvHolds, PTL

-----------------------------------------------------------------------------
(***************************************************************************)
(* The inference session.                                                  *)
(***************************************************************************)
(* The larger and the smaller of two numbers.                              *)
LEMMA LargerOfTwo ==
  ASSUME NEW a \in Int, NEW b \in Int PROVE Max({a, b}) = IF a > b THEN a ELSE b
BY DEF Max

LEMMA SmallerOfTwo ==
  ASSUME NEW a \in Int, NEW b \in Int PROVE Min({a, b}) = IF a < b THEN a ELSE b
BY DEF Min

(* The last elements of a sequence, as many as there are of them.          *)
LEMMA LastElements ==
  ASSUME NEW S, NEW s \in Seq(S), NEW n \in Nat
  PROVE  /\ LastN(s, n) \in Seq(S)
         /\ Len(LastN(s, n)) = IF n <= Len(s) THEN n ELSE Len(s)
<1> DEFINE m == IF 1 > Len(s) - n + 1 THEN 1 ELSE Len(s) - n + 1
<1>1. Len(s) \in Nat /\ m \in Int /\ m >= 1
  BY LenProperties
<1>2. LastN(s, n) = SubSeq(s, m, Len(s))
  <2>1. Max({1, Len(s) - n + 1}) = m
    BY <1>1, LargerOfTwo
  <2> QED BY <2>1 DEF LastN
<1>3. \A i \in m..Len(s) : s[i] \in S
  BY <1>1, ElementOfSeq
<1> HIDE DEF m
<1>4. /\ SubSeq(s, m, Len(s)) \in Seq(S)
      /\ Len(SubSeq(s, m, Len(s))) = IF m <= Len(s) THEN Len(s) - m + 1 ELSE 0
  BY <1>1, <1>3, SubSeqProperties
<1>5. (IF m <= Len(s) THEN Len(s) - m + 1 ELSE 0) = IF n <= Len(s) THEN n ELSE Len(s)
  <2>1. CASE Len(s) - n + 1 >= 1
    <3>1. m = Len(s) - n + 1
      BY <1>1, <2>1 DEF m
    <3> QED BY <1>1, <2>1, <3>1
  <2>2. CASE ~(Len(s) - n + 1 >= 1)
    <3>1. m = 1
      BY <1>1, <2>2 DEF m
    <3> QED BY <1>1, <2>2, <3>1
  <2> QED BY <2>1, <2>2
<1>6. LastN(s, n) \in Seq(S) /\ Len(LastN(s, n)) = IF m <= Len(s) THEN Len(s) - m + 1 ELSE 0
  BY <1>2, <1>4
<1>7. Len(LastN(s, n)) = IF n <= Len(s) THEN n ELSE Len(s)
  BY ONLY <1>5, <1>6
<1> QED BY <1>6, <1>7

(* All of a sequence, and nothing of it.                                   *)
LEMMA LastOfAll ==
  ASSUME NEW S, NEW s \in Seq(S)
  PROVE  LastN(s, Len(s)) = s /\ LastN(s, 0) = <<>>
<1>1. Len(s) \in Nat
  BY LenProperties
<1>2. LastN(s, Len(s)) = SubSeq(s, 1, Len(s))
  BY <1>1, LargerOfTwo DEF LastN
<1>3. LastN(s, 0) = SubSeq(s, Len(s) + 1, Len(s)) \/ (Len(s) = 0 /\ LastN(s, 0) = SubSeq(s, 1, 0))
  BY <1>1, LargerOfTwo DEF LastN
<1>4. LastN(s, 0) = <<>>
  BY <1>1, <1>3, SubSeqEmpty
<1> QED BY <1>2, <1>4, SubSeqFull

(* The two parts of a concatenation.                                       *)
LEMMA PartsOfConcat ==
  ASSUME NEW S, NEW s \in Seq(S), NEW t \in Seq(S)
  PROVE  /\ s \o t \in Seq(S) /\ Len(s \o t) = Len(s) + Len(t)
         /\ SubSeq(s \o t, 1, Len(s)) = s
         /\ LastN(s \o t, Len(t)) = t
<1>1. Len(s) \in Nat /\ Len(t) \in Nat
  BY LenProperties
<1>2. s \o t \in Seq(S) /\ Len(s \o t) = Len(s) + Len(t)
  BY ConcatProperties
<1>3. SubSeq(s \o t, 1, Len(s)) = s
  <2>1. CASE Len(s) = 0
    BY <2>1, EmptySeq, SubSeqEmpty
  <2>2. CASE Len(s) > 0
    <3>1. SubSeq(s \o t, 1, Len(s)) = SubSeq(s, 1, Len(s))
      BY <1>1, <2>2, SubSeqOfConcat1
    <3> QED BY <3>1, SubSeqFull
  <2> QED BY <1>1, <2>1, <2>2
<1>4. LastN(s \o t, Len(t)) = t
  <2>1. CASE Len(t) = 0
    BY <1>2, <2>1, EmptySeq, LastOfAll
  <2>2. CASE Len(t) > 0
    <3>1. LastN(s \o t, Len(t)) = SubSeq(s \o t, Len(s) + 1, Len(s) + Len(t))
      <4>1. Len(s \o t) - Len(t) + 1 = Len(s) + 1 /\ Len(s) + 1 \in Int /\ ~(1 > Len(s) + 1)
        BY <1>1, <1>2
      <4>2. Max({1, Len(s) + 1}) = Len(s) + 1
        BY <4>1, LargerOfTwo
      <4> QED BY <1>2, <4>1, <4>2 DEF LastN
    <3>2. SubSeq(s \o t, Len(s) + 1, Len(s) + Len(t)) = SubSeq(t, 1, Len(t))
      <4>1. Len(s) + 1 \in Len(s) + 1..Len(s) + Len(t) /\ Len(s) + Len(t) \in Len(s) + 1..Len(s) + Len(t)
        BY <1>1, <2>2
      <4>2. SubSeq(s \o t, Len(s) + 1, Len(s) + Len(t))
              = SubSeq(t, (Len(s) + 1) - Len(s), (Len(s) + Len(t)) - Len(s))
        BY <4>1, SubSeqOfConcat2
      <4>3. (Len(s) + 1) - Len(s) = 1 /\ (Len(s) + Len(t)) - Len(s) = Len(t)
        BY <1>1
      <4> QED BY <4>2, <4>3
    <3> QED BY <3>1, <3>2, SubSeqFull
  <2> QED BY <1>1, <2>1, <2>2
<1> QED BY <1>2, <1>3, <1>4

(* What comes of a sequence when its k-th element is replaced by q.        *)
Spliced(c, k, q) == SubSeq(c, 1, k - 1) \o q \o SubSeq(c, k + 1, Len(c))

SplicedFrom(c, k, q, d) ==
  /\ Len(d) = Len(c) + Len(q) - 1
  /\ \A i \in 1..(Len(c) + Len(q) - 1) :
       /\ i < k => d[i] = c[i]
       /\ i >= k /\ i < k + Len(q) => d[i] = q[i - k + 1]
       /\ i >= k + Len(q) => d[i] = c[i - Len(q) + 1]

LEMMA SplicedElements ==
  ASSUME NEW S, NEW c \in Seq(S), NEW q \in Seq(S), NEW k \in 1..Len(c)
  PROVE  /\ Spliced(c, k, q) \in Seq(S)
         /\ SplicedFrom(c, k, q, Spliced(c, k, q))
<1> DEFINE a == SubSeq(c, 1, k - 1)
           b == SubSeq(c, k + 1, Len(c))
<1>1. Len(c) \in Nat /\ Len(q) \in Nat /\ k \in Int /\ 1 <= k /\ k <= Len(c)
  BY LenProperties
<1>2. \A i \in 1..Len(c) : c[i] \in S
  BY ElementOfSeq
<1>3. a \in Seq(S) /\ Len(a) = k - 1 /\ \A i \in 1..(k - 1) : a[i] = c[i]
  <2>1. \A i \in 1..(k - 1) : c[i] \in S
    BY <1>1, <1>2
  <2>2. /\ a \in Seq(S) /\ Len(a) = IF 1 <= k - 1 THEN (k - 1) - 1 + 1 ELSE 0
        /\ \A i \in 1..((k - 1) - 1 + 1) : a[i] = c[1 + i - 1]
    BY <1>1, <2>1, SubSeqProperties
  <2>3. \A i \in 1..(k - 1) : a[i] = c[i]
    <3> TAKE i \in 1..(k - 1)
    <3>1. i \in 1..((k - 1) - 1 + 1) /\ 1 + i - 1 = i
      BY <1>1
    <3> QED BY <2>2, <3>1
  <2> HIDE DEF a
  <2>4. Len(a) = k - 1
    BY <1>1, <2>2
  <2> QED BY <2>2, <2>3, <2>4
<1>4. b \in Seq(S) /\ Len(b) = Len(c) - k /\ \A i \in 1..(Len(c) - k) : b[i] = c[i + k]
  <2>1. \A i \in (k + 1)..Len(c) : c[i] \in S
    BY <1>1, <1>2
  <2>2. /\ b \in Seq(S) /\ Len(b) = IF k + 1 <= Len(c) THEN Len(c) - (k + 1) + 1 ELSE 0
        /\ \A i \in 1..(Len(c) - (k + 1) + 1) : b[i] = c[(k + 1) + i - 1]
    BY <1>1, <2>1, SubSeqProperties
  <2>3. \A i \in 1..(Len(c) - k) : b[i] = c[i + k]
    <3> TAKE i \in 1..(Len(c) - k)
    <3>1. i \in 1..(Len(c) - (k + 1) + 1) /\ (k + 1) + i - 1 = i + k
      BY <1>1
    <3> QED BY <2>2, <3>1
  <2> HIDE DEF b
  <2>4. Len(b) = Len(c) - k
    BY <1>1, <2>2
  <2> QED BY <2>2, <2>3, <2>4
<1> HIDE DEF a, b
<1>5. /\ a \o q \in Seq(S) /\ Len(a \o q) = k - 1 + Len(q)
      /\ \A i \in 1..(k - 1 + Len(q)) : (a \o q)[i] = IF i <= k - 1 THEN a[i] ELSE q[i - (k - 1)]
  <2>1. a \in Seq(S)
    BY <1>3
  <2>2. /\ a \o q \in Seq(S) /\ Len(a \o q) = Len(a) + Len(q)
        /\ \A i \in 1..(Len(a) + Len(q)) : (a \o q)[i] = IF i <= Len(a) THEN a[i] ELSE q[i - Len(a)]
    BY <2>1, ConcatProperties
  <2>3. Len(a) = k - 1
    BY <1>3
  <2> QED BY <2>2, <2>3
<1> DEFINE aq == a \o q
<1> HIDE DEF aq
<1>6. aq \in Seq(S) /\ Len(aq) = k - 1 + Len(q)
  BY <1>5 DEF aq
<1>7. /\ aq \o b \in Seq(S) /\ Len(aq \o b) = Len(aq) + Len(b)
      /\ \A i \in 1..(Len(aq) + Len(b)) : (aq \o b)[i] = IF i <= Len(aq) THEN aq[i] ELSE b[i - Len(aq)]
  <2>1. aq \in Seq(S) /\ b \in Seq(S)
    BY <1>4, <1>6
  <2> QED BY <2>1, ConcatProperties
<1>8. Spliced(c, k, q) = aq \o b
  BY DEF Spliced, aq, a, b
<1>9. Len(aq \o b) = Len(c) + Len(q) - 1
  BY <1>1, <1>4, <1>6, <1>7
<1>10. ASSUME NEW i \in 1..(Len(c) + Len(q) - 1)
       PROVE  /\ i < k => (aq \o b)[i] = c[i]
              /\ i >= k /\ i < k + Len(q) => (aq \o b)[i] = q[i - k + 1]
              /\ i >= k + Len(q) => (aq \o b)[i] = c[i - Len(q) + 1]
  <2>1. i \in 1..(Len(aq) + Len(b))
    BY <1>1, <1>4, <1>6
  <2>2. CASE i < k
    <3>1. i \in 1..(k - 1) /\ i \in 1..(k - 1 + Len(q)) /\ i <= Len(aq)
      BY <1>1, <1>6, <2>2
    <3>2. (aq \o b)[i] = aq[i] /\ aq[i] = a[i] /\ a[i] = c[i]
      BY <1>3, <1>5, <1>7, <2>1, <3>1 DEF aq
    <3> QED BY <1>1, <2>2, <3>2
  <2>3. CASE i >= k /\ i < k + Len(q)
    <3>1. i \in 1..(k - 1 + Len(q)) /\ i <= Len(aq) /\ ~(i <= k - 1) /\ i - (k - 1) = i - k + 1
      BY <1>1, <1>6, <2>3
    <3>2. (aq \o b)[i] = aq[i] /\ aq[i] = q[i - (k - 1)]
      BY <1>5, <1>7, <2>1, <3>1 DEF aq
    <3> QED BY <1>1, <2>3, <3>1, <3>2
  <2>4. CASE i >= k + Len(q)
    <3>1. ~(i <= Len(aq)) /\ i - Len(aq) \in 1..(Len(c) - k) /\ (i - Len(aq)) + k = i - Len(q) + 1
      BY <1>1, <1>6, <2>4
    <3>2. (aq \o b)[i] = b[i - Len(aq)]
      BY <1>7, <2>1, <3>1
    <3>3. b[i - Len(aq)] = c[(i - Len(aq)) + k]
      BY <1>4, <3>1
    <3>4. ~(i < k) /\ ~(i >= k /\ i < k + Len(q))
      BY <1>1, <2>4
    <3> QED BY <3>1, <3>2, <3>3, <3>4
  <2> QED BY <1>1, <2>2, <2>3, <2>4
<1> QED BY <1>7, <1>8, <1>9, <1>10 DEF SplicedFrom
-----------------------------------------------------------------------------
(* Least counterexamples.                                                  *)
LEMMA LeastElement ==
  ASSUME NEW T, T \subseteq Nat, T # {}
  PROVE  \E x \in T : \A y \in T : x <= y
<1>1. PICK x \in T : \A y \in T : <<y, x>> \notin OpToRel(<, Nat)
  BY WFMin, NatLessThanWellFounded, Zenon
<1>2. \A y \in T : ~(y < x)
  BY <1>1, Zenon DEF OpToRel
<1> QED BY <1>2

(* In a chain in which every span ends where the next one starts, no span  *)
(* reaches beyond the start of a later one.                                *)
Tiling(c) == \A i \in 1..(Len(c) - 1) : c[i].end = c[i + 1].start
Spans(c) == \A i \in 1..Len(c) : /\ c[i].start \in 0..NumBlocks /\ c[i].end \in 0..NumBlocks
                                 /\ c[i].start < c[i].end
NoOverlap(c) == \A i, j \in 1..Len(c) : i < j => c[i].end <= c[j].start

LEMMA TilesInOrder ==
  ASSUME NEW c, Len(c) \in Nat, Tiling(c), Spans(c) PROVE NoOverlap(c)
<1> SUFFICES ASSUME NEW i \in 1..Len(c)
             PROVE  \A j \in 1..Len(c) : i < j => c[i].end <= c[j].start
  BY DEF NoOverlap
<1> DEFINE T == {j \in 1..Len(c) : i < j /\ ~(c[i].end <= c[j].start)}
<1>1. ASSUME T # {} PROVE FALSE
  <2>1. T \subseteq Nat
    OBVIOUS
  <2>2. PICK j \in T : \A k \in T : j <= k
    BY <1>1, <2>1, LeastElement
  <2>3. /\ j \in 1..Len(c) /\ i < j /\ ~(c[i].end <= c[j].start)
        /\ j - 1 \in 1..(Len(c) - 1) /\ j - 1 \in 1..Len(c) /\ (j - 1) + 1 = j
    BY <2>2
  <2>4. c[j - 1].end = c[j].start
    BY <2>3 DEF Tiling
  <2>5. c[i].end \in Int /\ c[j - 1].start \in Int /\ c[j - 1].end \in Int /\ c[j - 1].start < c[j - 1].end
    BY <2>3 DEF Spans
  <2>6. CASE j - 1 = i
    BY <2>3, <2>4, <2>5, <2>6
  <2>7. CASE i < j - 1
    <3>1. j - 1 \notin T
      <4>1. j - 1 \in T => j <= j - 1
        BY <2>2
      <4> HIDE DEF T
      <4> QED BY <2>3, <4>1
    <3>2. c[i].end <= c[j - 1].start
      BY <2>3, <2>7, <3>1
    <3>3. c[j - 1].end = c[j].start /\ ~(c[i].end <= c[j].start)
      BY <2>3, <2>4
    <3> HIDE DEF T
    <3> QED BY <2>5, <3>2, <3>3
  <2> QED BY <2>3, <2>6, <2>7
<1> QED BY <1>1
-----------------------------------------------------------------------------
(* A new session, for a span of blocks.                                    *)
LEMMA NewSessionType ==
  ASSUME NEW a \in 0..NumBlocks, NEW b \in 0..NumBlocks PROVE NewSession(a, b) \in Session
<1>1. <<>> \in Seq(1..MaxTokens) /\ 0 \in 0..MaxLength
  BY SessionAssumption, EmptySeq
<1> QED BY <1>1 DEF NewSession, Session

(* What Routes promises of a chain of new sessions for blocks a to b.      *)
AsNew(s) == s = NewSession(s.start, s.end)
RouteFor(spans, a, b) ==
  /\ spans \in Seq(Session) /\ spans # <<>>
  /\ Tiling(spans) /\ Spans(spans)
  /\ \A i \in 1..Len(spans) : AsNew(spans[i]) /\ spans[i].end <= b
  /\ spans[1].start = a /\ spans[Len(spans)].end = b

LEMMA RoutesAreTilings ==
  ASSUME NEW a \in 0..NumBlocks, NEW b \in 0..NumBlocks, a < b, NEW spans \in Routes(a, b)
  PROVE  RouteFor(spans, a, b)
<1> DEFINE stop(v) == Min({Serves[v].end, b})
           has(v, i) == Serves[v].start <= i /\ i < Serves[v].end
           valid(r) == /\ has(r[1], a) /\ stop(r[Len(r)]) = b
                       /\ \A i \in 1..(Len(r) - 1) : Serves[r[i]].end < b /\ has(r[i + 1], Serves[r[i]].end)
           start(r, i) == IF i = 1 THEN a ELSE Serves[r[i - 1]].end
           path(r) == [i \in DOMAIN r |-> NewSession(start(r, i), stop(r[i]))]
<1>1. PICK r \in SeqOf(Servers, b - a) : r # <<>> /\ valid(r) /\ spans = path(r)
  BY DEF Routes
<1>2. PICK m \in 0..(b - a) : r \in [1..m -> Servers]
  BY DEF SeqOf
<1>3. m >= 1 /\ Len(r) = m /\ DOMAIN r = 1..m
  <2>1. a \in Int /\ b \in Int /\ m \in Nat
    BY SessionAssumption
  <2>2. r \in Seq(Servers) /\ Len(r) = m
    BY <1>2, <2>1
  <2>3. Len(r) # 0
    BY <1>1, <2>2, EmptySeq
  <2> QED BY <1>2, <2>1, <2>2, <2>3
<1>4. NumBlocks \in Nat /\ a \in Int /\ b \in Int /\ 0 <= a /\ a <= NumBlocks /\ 0 <= b /\ b <= NumBlocks
  BY SessionAssumption
<1>5. ASSUME NEW v \in Servers
      PROVE  /\ Serves[v].start \in Int /\ Serves[v].end \in Int
             /\ 0 < Serves[v].end /\ Serves[v].end <= NumBlocks
             /\ stop(v) = IF Serves[v].end < b THEN Serves[v].end ELSE b
  <2>1. Serves[v].start \in 0..(NumBlocks - 1) /\ Serves[v].end \in (Serves[v].start + 1)..NumBlocks
    BY SessionAssumption
  <2>2. Serves[v].start \in Int /\ Serves[v].end \in Int /\ 0 < Serves[v].end /\ Serves[v].end <= NumBlocks
    BY <1>4, <2>1
  <2>3. Min({Serves[v].end, b}) = IF Serves[v].end < b THEN Serves[v].end ELSE b
    BY <1>4, <2>2, SmallerOfTwo
  <2> QED BY <2>2, <2>3
<1>6. ASSUME NEW i \in 1..m
      PROVE  /\ start(r, i) \in Int /\ 0 <= start(r, i) /\ start(r, i) < b
             /\ start(r, i) < Serves[r[i]].end
  <2>1. r[i] \in Servers
    BY <1>2
  <2>2. CASE i = 1
    BY <1>1, <1>4, <2>2
  <2>3. CASE i # 1
    <3>1. i - 1 \in 1..m /\ i - 1 \in 1..(Len(r) - 1) /\ (i - 1) + 1 = i
      BY <1>3, <2>3
    <3>2. Serves[r[i - 1]].end < b /\ has(r[i], Serves[r[i - 1]].end)
      BY <1>1, <3>1
    <3>3. r[i - 1] \in Servers
      BY <1>2, <3>1
    <3>4. Serves[r[i - 1]].end \in Int /\ 0 < Serves[r[i - 1]].end
      BY <1>5, <3>3
    <3>5. start(r, i) = Serves[r[i - 1]].end
      BY <2>3
    <3> HIDE DEF start
    <3> QED BY <3>2, <3>4, <3>5
  <2> QED BY <2>2, <2>3
<1>7. ASSUME NEW i \in 1..m
      PROVE  /\ stop(r[i]) \in Int /\ start(r, i) < stop(r[i]) /\ stop(r[i]) <= b
             /\ stop(r[i]) <= NumBlocks
  <2>1. r[i] \in Servers
    BY <1>2
  <2>2. stop(r[i]) = IF Serves[r[i]].end < b THEN Serves[r[i]].end ELSE b
    BY <1>5, <2>1
  <2>3. Serves[r[i]].end \in Int /\ Serves[r[i]].end <= NumBlocks
    BY <1>5, <2>1
  <2>4. start(r, i) \in Int /\ start(r, i) < b /\ start(r, i) < Serves[r[i]].end
    BY <1>6
  <2> HIDE DEF stop, start
  <2> QED BY <1>4, <2>2, <2>3, <2>4
<1>8. /\ spans = [i \in 1..m |-> NewSession(start(r, i), stop(r[i]))]
  BY <1>1, <1>3
<1> HIDE DEF stop, start
<1>9. ASSUME NEW i \in 1..m
      PROVE  /\ spans[i] = NewSession(start(r, i), stop(r[i]))
             /\ spans[i].start = start(r, i) /\ spans[i].end = stop(r[i])
             /\ spans[i] \in Session
  <2>1. spans[i] = NewSession(start(r, i), stop(r[i]))
    BY <1>8
  <2>2. start(r, i) \in 0..NumBlocks /\ stop(r[i]) \in 0..NumBlocks
    BY <1>4, <1>6, <1>7
  <2>3. NewSession(start(r, i), stop(r[i])) \in Session
    BY <2>2, NewSessionType
  <2> QED BY <2>1, <2>3 DEF NewSession
<1>10. spans \in Seq(Session) /\ Len(spans) = m /\ spans # <<>>
  <2>1. spans \in [1..m -> Session]
    BY <1>8, <1>9
  <2>2. spans \in Seq(Session) /\ Len(spans) = m
    BY <1>3, <2>1
  <2> QED BY <1>3, <2>2, EmptySeq
<1>11. Tiling(spans)
  <2> SUFFICES ASSUME NEW i \in 1..(m - 1) PROVE spans[i].end = spans[i + 1].start
    BY <1>10 DEF Tiling
  <2>1. i \in 1..m /\ i + 1 \in 1..m /\ i + 1 # 1 /\ (i + 1) - 1 = i
    BY <1>3
  <2>2. Serves[r[i]].end < b
    BY <1>1, <1>3
  <2>3. r[i] \in Servers
    BY <1>2, <2>1
  <2>4. stop(r[i]) = Serves[r[i]].end
    BY <1>5, <2>2, <2>3
  <2>5. start(r, i + 1) = Serves[r[i]].end
    BY <2>1 DEF start
  <2> QED BY <1>9, <2>1, <2>4, <2>5
<1>12. Spans(spans)
  <2> SUFFICES ASSUME NEW i \in 1..m
               PROVE  /\ spans[i].start \in 0..NumBlocks /\ spans[i].end \in 0..NumBlocks
                      /\ spans[i].start < spans[i].end
    BY <1>10 DEF Spans
  <2>1. spans[i].start = start(r, i) /\ spans[i].end = stop(r[i])
    BY <1>9
  <2> QED BY <1>4, <1>6, <1>7, <2>1
<1>13. \A i \in 1..Len(spans) : AsNew(spans[i]) /\ spans[i].end <= b
  <2> SUFFICES ASSUME NEW i \in 1..m PROVE AsNew(spans[i]) /\ spans[i].end <= b
    BY <1>10
  <2> QED BY <1>7, <1>9 DEF AsNew
<1>14. spans[1].start = a
  <2>1. 1 \in 1..m
    BY <1>3
  <2> QED BY <1>9, <2>1 DEF start
<1>15. spans[Len(spans)].end = b
  <2>1. m \in 1..m
    BY <1>3
  <2>2. stop(r[m]) = b
    BY <1>1, <1>3
  <2> QED BY <1>9, <1>10, <2>1, <2>2
<1> QED BY <1>10, <1>11, <1>12, <1>13, <1>14, <1>15 DEF RouteFor
-----------------------------------------------------------------------------
(* A chain that covers the blocks, and a change that leaves the spans of   *)
(* its sessions alone.                                                     *)
Covering(c) ==
  /\ Tiling(c) /\ Spans(c)
  /\ c # <<>> => c[1].start = 0 /\ c[Len(c)].end = NumBlocks
SameSpans(c, d) ==
  /\ Len(d) = Len(c)
  /\ \A i \in 1..Len(c) : d[i].start = c[i].start /\ d[i].end = c[i].end

LEMMA SpansKept ==
  ASSUME NEW c \in Seq(Session), NEW d \in Seq(Session), Covering(c), SameSpans(c, d)
  PROVE  Covering(d) /\ (d = <<>> <=> c = <<>>)
<1>1. Len(c) \in Nat /\ Len(d) = Len(c)
  BY LenProperties DEF SameSpans
<1>2. d = <<>> <=> c = <<>>
  BY <1>1, EmptySeq
<1>3. Tiling(d)
  <2> SUFFICES ASSUME NEW i \in 1..(Len(c) - 1) PROVE d[i].end = d[i + 1].start
    BY <1>1 DEF Tiling
  <2>1. i \in 1..Len(c) /\ i + 1 \in 1..Len(c)
    BY <1>1
  <2> QED BY <2>1 DEF SameSpans, Covering, Tiling
<1>4. Spans(d)
  BY <1>1 DEF SameSpans, Covering, Spans
<1>5. ASSUME d # <<>> PROVE d[1].start = 0 /\ d[Len(d)].end = NumBlocks
  <2>1. c # <<>> /\ Len(c) # 0
    BY <1>2, <1>5, EmptySeq
  <2>2. 1 \in 1..Len(c) /\ Len(c) \in 1..Len(c)
    BY <1>1, <2>1
  <2> QED BY <1>1, <2>1, <2>2 DEF SameSpans, Covering
<1> QED BY <1>2, <1>3, <1>4, <1>5 DEF Covering

(* One session of a chain is replaced by another one for the same span.    *)
SameSpan(s, e) == e.start = s.start /\ e.end = s.end
Replacing(c, k, e, d) ==
  /\ d \in Seq(Session) /\ SameSpans(c, d)
  /\ \A i \in 1..Len(c) : d[i] = IF i = k THEN e ELSE c[i]

LEMMA OneReplaced ==
  ASSUME NEW c \in Seq(Session), NEW k \in 1..Len(c), NEW e \in Session, SameSpan(c[k], e)
  PROVE  Replacing(c, k, e, [c EXCEPT ![k] = e])
<1>1. /\ [c EXCEPT ![k] = e] \in Seq(Session)
      /\ Len([c EXCEPT ![k] = e]) = Len(c)
      /\ \A i \in 1..Len(c) : [c EXCEPT ![k] = e][i] = IF i = k THEN e ELSE c[i]
  BY ExceptSeq
<1> QED BY <1>1 DEF SameSpans, SameSpan, Replacing

(* A session of a covering chain is replaced by a chain for its span.      *)
LEMMA SplicedCovers ==
  ASSUME NEW c \in Seq(Session), NEW q \in Seq(Session), NEW k \in 1..Len(c),
         Covering(c), q # <<>>, Tiling(q), Spans(q),
         q[1].start = c[k].start, q[Len(q)].end = c[k].end
  PROVE  Covering(Spliced(c, k, q))
<1> DEFINE d == Spliced(c, k, q)
           n == Len(c) + Len(q) - 1
<1>1. /\ Len(c) \in Nat /\ Len(q) \in Nat /\ Len(q) # 0
      /\ k \in Int /\ 1 <= k /\ k <= Len(c)
  BY LenProperties, EmptySeq
<1>2. /\ d \in Seq(Session) /\ Len(d) = n
      /\ \A i \in 1..n : /\ i < k => d[i] = c[i]
                         /\ i >= k /\ i < k + Len(q) => d[i] = q[i - k + 1]
                         /\ i >= k + Len(q) => d[i] = c[i - Len(q) + 1]
  <2>1. d \in Seq(Session) /\ SplicedFrom(c, k, q, d)
    BY SplicedElements
  <2> QED BY <2>1 DEF SplicedFrom
<1> HIDE DEF d
<1>3. ASSUME NEW i \in 1..n
      PROVE  /\ i < k => i \in 1..Len(c)
             /\ i >= k /\ i < k + Len(q) => i - k + 1 \in 1..Len(q)
             /\ i >= k + Len(q) => i - Len(q) + 1 \in 1..Len(c)
  BY <1>1
<1>4. Spans(d)
  <2> SUFFICES ASSUME NEW i \in 1..n
               PROVE  /\ d[i].start \in 0..NumBlocks /\ d[i].end \in 0..NumBlocks
                      /\ d[i].start < d[i].end
    BY <1>2 DEF Spans
  <2>1. CASE i < k
    BY <1>2, <1>3, <2>1 DEF Covering, Spans
  <2>2. CASE i >= k /\ i < k + Len(q)
    BY <1>2, <1>3, <2>2 DEF Spans
  <2>3. CASE i >= k + Len(q)
    BY <1>2, <1>3, <2>3 DEF Covering, Spans
  <2> QED BY <1>1, <2>1, <2>2, <2>3
<1>5. Tiling(d)
  <2> SUFFICES ASSUME NEW i \in 1..(n - 1) PROVE d[i].end = d[i + 1].start
    BY <1>2 DEF Tiling
  <2>1. i \in 1..n /\ i + 1 \in 1..n
    BY <1>1
  <2>2. CASE i + 1 < k
    <3>1. i < k /\ i \in 1..(Len(c) - 1)
      BY <1>1, <2>2
    <3>2. d[i] = c[i] /\ d[i + 1] = c[i + 1]
      BY <1>2, <2>1, <2>2, <3>1
    <3> QED BY <3>1, <3>2 DEF Covering, Tiling
  <2>3. CASE i + 1 = k
    <3>1. i < k /\ i \in 1..(Len(c) - 1) /\ i + 1 >= k /\ i + 1 < k + Len(q) /\ (i + 1) - k + 1 = 1
      BY <1>1, <2>3
    <3>2. d[i] = c[i] /\ d[i + 1] = q[1]
      BY <1>2, <2>1, <3>1
    <3>3. c[i].end = c[i + 1].start
      BY <3>1 DEF Covering, Tiling
    <3> QED BY <2>3, <3>2, <3>3
  <2>4. CASE i >= k /\ i + 1 < k + Len(q)
    <3>1. /\ i < k + Len(q) /\ i + 1 >= k /\ i - k + 1 \in 1..(Len(q) - 1)
          /\ (i + 1) - k + 1 = (i - k + 1) + 1
      BY <1>1, <2>4
    <3>2. d[i] = q[i - k + 1] /\ d[i + 1] = q[(i - k + 1) + 1]
      BY <1>2, <2>1, <2>4, <3>1
    <3> QED BY <3>1, <3>2 DEF Tiling
  <2>5. CASE i >= k /\ i + 1 = k + Len(q)
    <3>1. /\ i < k + Len(q) /\ i - k + 1 = Len(q) /\ i + 1 >= k + Len(q)
          /\ (i + 1) - Len(q) + 1 = k + 1 /\ k \in 1..(Len(c) - 1)
      BY <1>1, <2>5
    <3>2. d[i] = q[Len(q)] /\ d[i + 1] = c[k + 1]
      BY <1>2, <2>1, <2>5, <3>1
    <3>3. c[k].end = c[k + 1].start
      BY <3>1 DEF Covering, Tiling
    <3> QED BY <3>2, <3>3
  <2>6. CASE i >= k + Len(q)
    <3>1. /\ i + 1 >= k + Len(q) /\ i - Len(q) + 1 \in 1..(Len(c) - 1)
          /\ (i + 1) - Len(q) + 1 = (i - Len(q) + 1) + 1
      BY <1>1, <2>6
    <3>2. d[i] = c[i - Len(q) + 1] /\ d[i + 1] = c[(i - Len(q) + 1) + 1]
      BY <1>2, <2>1, <2>6, <3>1
    <3> QED BY <3>1, <3>2 DEF Covering, Tiling
  <2> QED BY <1>1, <2>2, <2>3, <2>4, <2>5, <2>6
<1>6. c # <<>>
  BY <1>1, EmptySeq
<1>7. d[1].start = 0
  <2>1. 1 \in 1..n
    BY <1>1
  <2>2. CASE 1 < k
    BY <1>2, <1>6, <2>1, <2>2 DEF Covering
  <2>3. CASE k = 1
    <3>1. 1 >= k /\ 1 < k + Len(q) /\ 1 - k + 1 = 1
      BY <1>1, <2>3
    <3>2. d[1] = q[1]
      BY <1>2, <2>1, <3>1
    <3> QED BY <1>6, <2>3, <3>2 DEF Covering
  <2> QED BY <1>1, <2>2, <2>3
<1>8. d[n].end = NumBlocks
  <2>1. n \in 1..n
    BY <1>1
  <2>2. CASE k < Len(c)
    <3>1. n >= k + Len(q) /\ n - Len(q) + 1 = Len(c)
      BY <1>1, <2>2
    <3>2. d[n] = c[Len(c)]
      BY <1>2, <2>1, <3>1
    <3> QED BY <1>6, <3>2 DEF Covering
  <2>3. CASE k = Len(c)
    <3>1. n >= k /\ n < k + Len(q) /\ n - k + 1 = Len(q)
      BY <1>1, <2>3
    <3>2. d[n] = q[Len(q)]
      BY <1>2, <2>1, <3>1
    <3> QED BY <1>6, <2>3, <3>2 DEF Covering
  <2> QED BY <1>1, <2>2, <2>3
<1>9. Covering(d)
  BY <1>2, <1>4, <1>5, <1>7, <1>8 DEF Covering
<1> QED BY <1>9 DEF d
-----------------------------------------------------------------------------
(* What is known of the session at any time, whether or not a call has     *)
(* raised: the types, with the tokens that are accounted for by the        *)
(* position, and the place of a step in the chain.                         *)
Token == 1..MaxTokens
Running == sessionPc \in {"update", "send", "return"}
Cached(c) == \A i \in 1..Len(c) : c[i].pos <= Len(c[i].cache)

Types ==
  /\ SessionTypeOK
  /\ Len(text) = position
  /\ Cached(chain)
  /\ Running => given # <<>> /\ Target <= MaxLength

InPlace(c) == at \in 1..Len(c) /\ c[at].start = block
Starting == chain = <<>> /\ at = 1 /\ block = 0

Placed ==
  /\ Covering(chain)
  /\ at <= block + 1
  /\ sessionPc = "update" => InPlace(chain) \/ Starting
  /\ sessionPc = "send" => InPlace(chain)
  /\ sessionPc = "return" => chain # <<>> /\ at = Len(chain) + 1

(* The facts about numbers and sequences that the proofs take from it.     *)
LEMMA NumbersOfSession ==
  ASSUME SessionTypeOK
  PROVE  /\ NumBlocks \in Nat /\ NumBlocks > 0 /\ MaxLength \in Nat /\ MaxLength > 0
         /\ MaxRetries \in Nat /\ MaxRetries > 0 /\ ReplayChunk \in Nat /\ ReplayChunk > 0
         /\ MaxTokens \in Nat /\ MaxFailures \in Nat
         /\ position \in Nat /\ position <= MaxLength /\ Target \in Nat
         /\ at \in Nat /\ at >= 1 /\ block \in Nat /\ block <= NumBlocks
         /\ attempt \in Nat /\ attempt < MaxRetries
         /\ recovery \in Nat /\ recovery <= NumBlocks
         /\ tokens \in Nat /\ tokens <= MaxTokens
         /\ failures \in Nat /\ failures <= MaxFailures
         /\ raised \in BOOLEAN
<1>1. /\ NumBlocks \in Nat /\ NumBlocks > 0 /\ MaxLength \in Nat /\ MaxLength > 0
      /\ MaxRetries \in Nat /\ MaxRetries > 0 /\ ReplayChunk \in Nat /\ ReplayChunk > 0
      /\ MaxTokens \in Nat /\ MaxFailures \in Nat
  BY SessionAssumption
<1>2. given \in Seq(Token)
  BY DEF SessionTypeOK, Token
<1>3. Len(given) \in Nat
  BY <1>2, LenProperties
<1>4. /\ position \in 0..MaxLength /\ at \in 1..(NumBlocks + 1) /\ block \in 0..NumBlocks
      /\ attempt \in 0..(MaxRetries - 1) /\ recovery \in 0..NumBlocks
      /\ tokens \in 0..MaxTokens /\ failures \in 0..MaxFailures /\ raised \in BOOLEAN
  BY DEF SessionTypeOK
<1> QED BY <1>1, <1>3, <1>4 DEF Target

LEMMA SequencesOfSession ==
  ASSUME SessionTypeOK
  PROVE  /\ chain \in Seq(Session) /\ Len(chain) \in Nat
         /\ given \in Seq(Token) /\ inputs \in Seq(Token) /\ text \in Seq(Token) /\ out \in Seq(Token)
         /\ Len(given) \in Nat /\ Len(inputs) \in Nat /\ Len(text) \in Nat
         /\ \A i \in 1..Len(chain) : chain[i] \in Session
<1>1. /\ chain \in Seq(Session)
      /\ given \in Seq(Token) /\ inputs \in Seq(Token) /\ text \in Seq(Token) /\ out \in Seq(Token)
  BY DEF SessionTypeOK, Token
<1> QED BY <1>1, LenProperties, ElementOfSeq

LEMMA FieldsOfSession ==
  ASSUME NEW s \in Session
  PROVE  /\ s.start \in 0..NumBlocks /\ s.end \in 0..NumBlocks
         /\ s.pos \in Nat /\ s.pos <= MaxLength /\ s.target \in Nat /\ s.target <= MaxLength
         /\ s.history \in Seq(Token) /\ s.cache \in Seq(Token)
         /\ Len(s.history) \in Nat /\ Len(s.cache) \in Nat
         /\ s.stepped \in BOOLEAN /\ s.closed \in BOOLEAN
<1>1. /\ s.start \in 0..NumBlocks /\ s.end \in 0..NumBlocks
      /\ s.pos \in 0..MaxLength /\ s.target \in 0..MaxLength
      /\ s.history \in Seq(Token) /\ s.cache \in Seq(Token)
      /\ s.stepped \in BOOLEAN /\ s.closed \in BOOLEAN
  BY DEF Session, Token
<1> QED BY <1>1, SessionAssumption, LenProperties
-----------------------------------------------------------------------------
(* The histories of a session in an attempt, and what is sent.             *)
LEMMA ExtendedType ==
  ASSUME NEW s \in Session, inputs \in Seq(Token)
  PROVE  Extended(s) \in Seq(Token) /\ Kept(s) \in Seq(Token) /\ Sent(s) \in Seq(Token)
<1> DEFINE m == Max({0, s.target - Len(s.history)})
<1>1. s.history \in Seq(Token) /\ s.target \in Nat /\ Len(s.history) \in Nat
  BY FieldsOfSession
<1>2. m \in Nat
  BY <1>1, LargerOfTwo
<1> HIDE DEF m
<1>3. LastN(inputs, m) \in Seq(Token)
  BY <1>2, LastElements
<1>4. s.history \o LastN(inputs, m) \in Seq(Token) /\ s.history \o inputs \in Seq(Token)
  BY <1>1, <1>3, ConcatProperties
<1>5. Extended(s) \in Seq(Token)
  BY <1>1, <1>4 DEF Extended, m
<1> QED BY <1>1, <1>5 DEF Kept, Sent

(* The tokens that some chunks of a history hold are some of its tokens.   *)
LEMMA ChunksFit ==
  ASSUME NEW t \in Nat, NEW c \in Nat, c > 0, NEW n \in 0..(t \div c)
  PROVE  n * c \in Nat /\ n * c <= t
<1>1. (t \div c) \in Nat /\ (t \div c) * c <= t
  OBVIOUS
<1>2. n \in Nat /\ n <= t \div c
  BY <1>1
<1> DEFINE d == t \div c
<1> HIDE DEF d
<1>3. d \in Nat /\ d * c <= t /\ n <= d
  BY <1>1, <1>2 DEF d
<1>4. n * c <= d * c
  BY <1>2, <1>3
<1>5. n * c \in Nat /\ d * c \in Nat
  BY <1>2, <1>3
<1> DEFINE nc == n * c
           dc == d * c
<1> HIDE DEF nc, dc
<1>6. nc \in Nat /\ dc \in Nat /\ nc <= dc /\ dc <= t
  BY <1>3, <1>4, <1>5 DEF nc, dc
<1> QED BY <1>6 DEF nc

(* What an attempt that fails leaves of a session is for the same span.    *)
LEMMA AfterFailureType ==
  ASSUME NEW s \in Session, s.pos <= Len(s.cache), inputs \in Seq(Token),
         NEW after \in AfterFailure(s)
  PROVE  /\ after \in Session /\ after.pos <= Len(after.cache)
         /\ after.start = s.start /\ after.end = s.end /\ after.history = Kept(s)
<1> DEFINE kept == [s EXCEPT !.history = Kept(s), !.stepped = @ \/ Usable(s)]
           chunks(n) == [kept EXCEPT !.target = 0, !.pos = n * ReplayChunk,
                                     !.cache = SubSeq(Kept(s), 1, n * ReplayChunk)]
<1>1. Kept(s) \in Seq(Token) /\ Extended(s) \in Seq(Token)
  BY ExtendedType
<1>2. Usable(s) \in BOOLEAN
  BY DEF Usable, LengthAgrees, PositionAgrees
<1>3. s.stepped \/ Usable(s) \in BOOLEAN
  BY <1>2, FieldsOfSession
<1>4. /\ kept \in Session /\ kept.start = s.start /\ kept.end = s.end
      /\ kept.history = Kept(s) /\ kept.pos = s.pos /\ kept.cache = s.cache
  BY <1>1, <1>3 DEF Session, Token
<1>5. CASE ~(Usable(s) /\ s.target > ReplayChunk)
  <2>1. after = kept
    BY <1>5 DEF AfterFailure
  <2> QED BY <1>4, <2>1
<1>6. CASE Usable(s) /\ s.target > ReplayChunk
  <2>1. PICK n \in 0..((s.target - 1) \div ReplayChunk) : after = chunks(n)
    BY <1>6 DEF AfterFailure
  <2> DEFINE m == n * ReplayChunk
  <2>2. s.target \in Nat /\ s.target <= MaxLength /\ ReplayChunk \in Nat /\ ReplayChunk > 0 /\ MaxLength \in Nat
    BY FieldsOfSession, SessionAssumption
  <2>3. s.target - 1 \in Nat
    BY <1>6, <2>2
  <2>4. m \in Nat /\ m <= s.target - 1
    BY <2>2, <2>3, ChunksFit
  <2> HIDE DEF m
  <2>5. Len(Extended(s)) = s.target
    BY <1>6, <2>2 DEF Usable, LengthAgrees
  <2>6. Kept(s) = Extended(s)
    BY <1>6, <2>2 DEF Usable, LengthAgrees, PositionAgrees, Kept
  <2>7. \A i \in 1..m : Kept(s)[i] \in Token
    BY <1>1, <2>2, <2>4, <2>5, <2>6, ElementOfSeq
  <2>8. SubSeq(Kept(s), 1, m) \in Seq(Token) /\ Len(SubSeq(Kept(s), 1, m)) = m
    <3>1. /\ SubSeq(Kept(s), 1, m) \in Seq(Token)
          /\ Len(SubSeq(Kept(s), 1, m)) = IF 1 <= m THEN m - 1 + 1 ELSE 0
      BY <2>4, <2>7, SubSeqProperties
    <3> QED BY <2>4, <3>1
  <2>9. m \in 0..MaxLength /\ 0 \in 0..MaxLength
    BY <2>2, <2>4
  <2> HIDE DEF kept
  <2>10. after = [kept EXCEPT !.target = 0, !.pos = m, !.cache = SubSeq(Kept(s), 1, m)]
    BY <2>1 DEF m
  <2>11. /\ after \in Session /\ after.start = kept.start /\ after.end = kept.end
         /\ after.history = kept.history /\ after.pos = m /\ after.cache = SubSeq(Kept(s), 1, m)
    BY <1>4, <2>8, <2>9, <2>10 DEF Session, Token
  <2> QED BY <1>4, <2>4, <2>8, <2>11
<1> QED BY <1>5, <1>6

(* The sessions of a spans, prepared for a replay, are for the same spans. *)
LEMMA PreparedType ==
  ASSUME NEW spans \in Seq(Session), SessionTypeOK, Target <= MaxLength,
         \A i \in 1..Len(spans) : AsNew(spans[i])
  PROVE  /\ Prepared(spans) \in Seq(Session)
         /\ SameSpans(spans, Prepared(spans)) /\ Cached(Prepared(spans))
<1>1. Len(spans) \in Nat /\ \A i \in 1..Len(spans) : spans[i] \in Session
  BY LenProperties, ElementOfSeq
<1>2. ASSUME NEW i \in 1..Len(spans) PROVE spans[i].pos = 0 /\ spans[i].cache = <<>>
  <2>1. spans[i] = NewSession(spans[i].start, spans[i].end)
    BY DEF AsNew
  <2> QED BY <2>1 DEF NewSession
<1>3. Len(<<>>) = 0 /\ <<>> \in Seq(Token)
  BY EmptySeq
<1>4. CASE ~NeedsReplay
  <2>1. Prepared(spans) = spans
    BY <1>4 DEF Prepared
  <2>2. Cached(spans)
    BY <1>2, <1>3 DEF Cached
  <2> QED BY <2>1, <2>2 DEF SameSpans
<1>5. CASE NeedsReplay
  <2> DEFINE first(i) == IF i = 1 THEN chain[at].history ELSE <<>>
             q == [i \in 1..Len(spans) |-> [spans[i] EXCEPT !.history = first(i), !.target = Target]]
  <2>1. DOMAIN spans = 1..Len(spans)
    BY LenProperties
  <2>2. Prepared(spans) = q
    BY <1>5, <2>1 DEF Prepared
  <2>3. chain[at].history \in Seq(Token)
    <3>1. at \in 1..Len(chain)
      BY <1>5, NumbersOfSession, SequencesOfSession DEF NeedsReplay, HasPrevious
    <3> QED BY <3>1, SequencesOfSession, FieldsOfSession
  <2>4. \A i \in 1..Len(spans) : first(i) \in Seq(Token)
    BY <1>3, <2>3
  <2>5. Target \in 0..MaxLength
    BY NumbersOfSession
  <2> HIDE DEF first
  <2>6. ASSUME NEW i \in 1..Len(spans)
        PROVE  /\ q[i] \in Session /\ q[i].start = spans[i].start /\ q[i].end = spans[i].end
               /\ q[i].pos = spans[i].pos /\ q[i].cache = spans[i].cache
    <3>1. q[i] = [spans[i] EXCEPT !.history = first(i), !.target = Target]
      OBVIOUS
    <3>2. spans[i] \in Session /\ first(i) \in Seq(Token)
      BY <1>1, <2>4
    <3> HIDE DEF q
    <3> QED BY <2>5, <3>1, <3>2 DEF Session, Token
  <2>7. q \in Seq(Session) /\ Len(q) = Len(spans)
    <3>1. DOMAIN q = 1..Len(spans) /\ q \in [1..Len(spans) -> Session]
      BY <2>6
    <3> HIDE DEF q
    <3> QED BY <1>1, <3>1
  <2> HIDE DEF q
  <2>8. SameSpans(spans, q)
    BY <2>6, <2>7 DEF SameSpans
  <2>9. Cached(q)
    BY <1>2, <1>3, <2>6, <2>7 DEF Cached
  <2> QED BY <2>2, <2>7, <2>8, <2>9
<1> QED BY <1>4, <1>5
-----------------------------------------------------------------------------
(* A chain in which sessions change, but none changes its span.            *)
LEMMA Rewritten ==
  ASSUME NEW c \in Seq(Session), NEW d,
         d = [i \in DOMAIN c |-> d[i]],
         \A i \in 1..Len(c) : /\ d[i] \in Session
                              /\ d[i].start = c[i].start /\ d[i].end = c[i].end
  PROVE  d \in Seq(Session) /\ SameSpans(c, d)
<1>1. DOMAIN c = 1..Len(c) /\ Len(c) \in Nat
  BY LenProperties
<1>2. d \in [1..Len(c) -> Session]
  BY <1>1
<1>3. d \in Seq(Session) /\ Len(d) = Len(c)
  BY <1>1, <1>2
<1> QED BY <1>3 DEF SameSpans

(* After an attempt that failed, the step tries again or raises.           *)
LEMMA RetryOutcome ==
  ASSUME SessionTypeOK, Retry
  PROVE  /\ sessionPc' \in {"idle", "update"} /\ attempt' \in 0..(MaxRetries - 1)
         /\ raised' \in BOOLEAN /\ (~raised' => ~raised /\ sessionPc' = "update")
<1>1. attempt \in Nat /\ attempt < MaxRetries /\ MaxRetries \in Nat /\ raised \in BOOLEAN
  BY NumbersOfSession
<1>2. CASE attempt + 1 = MaxRetries
  <2>1. sessionPc' = "idle" /\ raised' = TRUE /\ attempt' = attempt
    BY <1>2 DEF Retry
  <2>2. attempt' \in 0..(MaxRetries - 1)
    BY <1>1, <2>1
  <2> QED BY <2>1, <2>2
<1>3. CASE attempt + 1 # MaxRetries
  <2>1. sessionPc' = "update" /\ raised' = raised /\ attempt' = attempt + 1
    BY <1>3 DEF Retry
  <2>2. attempt' \in 0..(MaxRetries - 1)
    BY <1>1, <1>3, <2>1
  <2> QED BY <1>1, <2>1, <2>2
<1> QED BY <1>2, <1>3

(* An attempt that fails leaves the step where it is, with a chain that    *)
(* has the same spans.                                                     *)
LEMMA FailedAttempt ==
  ASSUME Types, Placed, Retry, sessionPc \in {"update", "send"},
         chain' \in Seq(Session), SameSpans(chain, chain'), Cached(chain'),
         failures' \in 0..MaxFailures,
         UNCHANGED <<position, given, inputs, at, block, recovery, text, out, tokens>>
  PROVE  Types' /\ Placed'
<1>1. /\ sessionPc' \in {"idle", "update"} /\ attempt' \in 0..(MaxRetries - 1)
      /\ raised' \in BOOLEAN
  BY RetryOutcome DEF Types
<1>2. /\ {given, inputs, text, out} \subseteq Seq(1..MaxTokens)
      /\ position \in 0..MaxLength /\ at \in 1..(NumBlocks + 1) /\ block \in 0..NumBlocks
      /\ recovery \in 0..NumBlocks /\ tokens \in 0..MaxTokens
  BY DEF Types, SessionTypeOK
<1>3. SessionTypeOK'
  BY <1>1, <1>2 DEF SessionTypeOK
<1>4. Types'
  BY <1>1, <1>3 DEF Types, Running, Target
<1>5. chain \in Seq(Session) /\ Len(chain) \in Nat
  BY SequencesOfSession DEF Types
<1>6. Covering(chain') /\ (chain' = <<>> <=> chain = <<>>)
  BY <1>5, SpansKept DEF Placed
<1>7. InPlace(chain) => InPlace(chain)'
  BY DEF InPlace, SameSpans
<1>8. Starting => Starting'
  BY <1>6 DEF Starting
<1> QED BY <1>1, <1>4, <1>6, <1>7, <1>8 DEF Placed
-----------------------------------------------------------------------------
(* The step that starts, the attempt to repair that fails.                 *)
LEMMA StepPlaced ==
  ASSUME Types, Placed, NEW n \in 1..MaxStep, Step(n) PROVE Types' /\ Placed'
<1>1. /\ sessionPc = "idle" /\ position + n <= MaxLength /\ tokens + n <= MaxTokens
      /\ given' = [i \in 1..n |-> tokens + i] /\ inputs' = given' /\ tokens' = tokens + n
      /\ at' = 1 /\ block' = 0 /\ attempt' = 0 /\ recovery' = 0
      /\ sessionPc' = (IF chain = <<>> THEN "update" ELSE "send") /\ out' = <<>>
      /\ UNCHANGED <<chain, position, text, failures, raised>>
  BY DEF Step
<1>2. /\ NumBlocks \in Nat /\ NumBlocks > 0 /\ MaxRetries \in Nat /\ MaxRetries > 0
      /\ MaxTokens \in Nat /\ tokens \in Nat /\ position \in Nat /\ MaxLength \in Nat
  BY NumbersOfSession DEF Types
<1>3. n \in Nat /\ n >= 1
  BY SessionAssumption
<1>4. given' \in Seq(Token) /\ Len(given') = n /\ given' # <<>>
  <2>1. \A i \in 1..n : tokens + i \in Token
    BY <1>1, <1>2, <1>3 DEF Token
  <2>2. given' \in [1..n -> Token]
    BY <1>1, <2>1
  <2>3. given' \in Seq(Token) /\ Len(given') = n
    BY <1>3, <2>2
  <2> QED BY <1>3, <2>3, EmptySeq
<1>5. <<>> \in Seq(Token)
  BY EmptySeq
<1>6. /\ {given', inputs', text', out'} \subseteq Seq(1..MaxTokens)
      /\ chain' \in Seq(Session) /\ position' \in 0..MaxLength
      /\ failures' \in 0..MaxFailures /\ raised' \in BOOLEAN
  BY <1>1, <1>4, <1>5 DEF Types, SessionTypeOK, Token
<1>7. /\ tokens' \in 0..MaxTokens /\ at' \in 1..(NumBlocks + 1) /\ block' \in 0..NumBlocks
      /\ attempt' \in 0..(MaxRetries - 1) /\ recovery' \in 0..NumBlocks
  BY <1>1, <1>2, <1>3
<1>8. SessionTypeOK'
  BY <1>1, <1>6, <1>7 DEF SessionTypeOK
<1>9. Types'
  BY <1>1, <1>2, <1>4, <1>8 DEF Types, Target, Cached
<1>10. ASSUME chain # <<>> PROVE InPlace(chain)'
  <2>1. Len(chain) \in Nat /\ Len(chain) # 0
    BY <1>10, SequencesOfSession, EmptySeq DEF Types
  <2> QED BY <1>1, <1>10, <2>1 DEF InPlace, Placed, Covering
<1>11. Covering(chain') /\ (chain = <<>> => Starting')
  BY <1>1 DEF Placed, Starting
<1> QED BY <1>1, <1>9, <1>10, <1>11 DEF Placed

LEMMA ClosedType ==
  ASSUME Types
  PROVE  /\ Closed \in Seq(Session) /\ SameSpans(chain, Closed) /\ Cached(Closed)
         /\ \A i \in 1..Len(chain) :
              Closed[i] = IF i = at THEN [chain[i] EXCEPT !.closed = TRUE] ELSE chain[i]
<1>1. chain \in Seq(Session) /\ DOMAIN chain = 1..Len(chain)
  BY SequencesOfSession, LenProperties DEF Types
<1>2. \A i \in 1..Len(chain) :
        Closed[i] = IF i = at THEN [chain[i] EXCEPT !.closed = TRUE] ELSE chain[i]
  BY <1>1 DEF Closed
<1>3. ASSUME NEW i \in 1..Len(chain)
      PROVE  /\ Closed[i] \in Session
             /\ Closed[i].start = chain[i].start /\ Closed[i].end = chain[i].end
             /\ Closed[i].pos = chain[i].pos /\ Closed[i].cache = chain[i].cache
  <2>1. chain[i] \in Session
    BY SequencesOfSession DEF Types
  <2>2. [chain[i] EXCEPT !.closed = TRUE] \in Session
    BY <2>1 DEF Session
  <2>3. CASE i = at
    BY <1>2, <2>1, <2>2, <2>3 DEF Session
  <2>4. CASE i # at
    BY <1>2, <2>1, <2>4
  <2> QED BY <2>3, <2>4
<1>4. Closed = [i \in DOMAIN chain |-> Closed[i]]
  BY DEF Closed
<1> DEFINE d == Closed
<1> HIDE DEF d
<1>5. d \in Seq(Session) /\ SameSpans(chain, d)
  BY <1>1, <1>3, <1>4, Rewritten DEF d
<1>6. Cached(Closed)
  BY <1>3, <1>5 DEF Types, Cached, SameSpans, d
<1> QED BY <1>2, <1>5, <1>6 DEF d

LEMMA UpdateFailsPlaced ==
  ASSUME Types, Placed, UpdateFails PROVE Types' /\ Placed'
<1>1. /\ sessionPc = "update" /\ chain' = Closed /\ Retry
      /\ UNCHANGED <<position, given, inputs, at, block, recovery, text, out, tokens>>
  BY DEF UpdateFails
<1>2. failures' = failures \/ (failures < MaxFailures /\ failures' = failures + 1)
  BY DEF UpdateFails
<1>3. failures' \in 0..MaxFailures
  BY <1>2, NumbersOfSession DEF Types
<1>4. chain' \in Seq(Session) /\ SameSpans(chain, chain') /\ Cached(chain')
  BY <1>1, ClosedType
<1> QED BY <1>1, <1>3, <1>4, FailedAttempt

(* The first tokens of a sequence.                                         *)
LEMMA FirstElements ==
  ASSUME NEW S, NEW s \in Seq(S), NEW k \in Nat, k <= Len(s)
  PROVE  SubSeq(s, 1, k) \in Seq(S) /\ Len(SubSeq(s, 1, k)) = k
<1>1. \A i \in 1..k : s[i] \in S
  BY LenProperties, ElementOfSeq
<1>2. /\ SubSeq(s, 1, k) \in Seq(S)
      /\ Len(SubSeq(s, 1, k)) = IF 1 <= k THEN k - 1 + 1 ELSE 0
  BY <1>1, SubSeqProperties
<1> QED BY <1>2

(* The attempt that fails when the span is asked.                          *)
LEMMA FailSendPlaced ==
  ASSUME Types, Placed, FailSend PROVE Types' /\ Placed'
<1>1. /\ sessionPc = "send" /\ Retry
      /\ UNCHANGED <<position, given, inputs, at, block, recovery, text, out, tokens>>
  BY DEF FailSend
<1>2. failures' = failures \/ (failures < MaxFailures /\ failures' = failures + 1)
  BY DEF FailSend
<1>3. failures' \in 0..MaxFailures
  BY <1>2, NumbersOfSession DEF Types
<1>4. PICK after \in AfterFailure(chain[at]) : chain' = [chain EXCEPT ![at] = after]
  BY DEF FailSend
<1>5. at \in 1..Len(chain)
  BY <1>1 DEF Placed, InPlace
<1>6. chain \in Seq(Session) /\ chain[at] \in Session /\ inputs \in Seq(Token)
  BY <1>5, SequencesOfSession DEF Types
<1>7. chain[at].pos <= Len(chain[at].cache)
  BY <1>5 DEF Types, Cached
<1>8. /\ after \in Session /\ after.pos <= Len(after.cache)
      /\ after.start = chain[at].start /\ after.end = chain[at].end
  BY <1>6, <1>7, AfterFailureType
<1>9. /\ chain' \in Seq(Session) /\ SameSpans(chain, chain')
      /\ \A i \in 1..Len(chain) : chain'[i] = IF i = at THEN after ELSE chain[i]
  <2>1. SameSpan(chain[at], after)
    BY <1>8 DEF SameSpan
  <2>2. Replacing(chain, at, after, chain')
    BY <1>4, <1>5, <1>6, <1>8, <2>1, OneReplaced
  <2> QED BY <2>2 DEF Replacing
<1>10. Cached(chain')
  BY <1>8, <1>9 DEF Types, Cached, SameSpans
<1> QED BY <1>1, <1>3, <1>9, <1>10, FailedAttempt

(* The session after its server has answered.                              *)
Answered(s) ==
  [s EXCEPT !.history = Extended(s), !.pos = @ + Len(Sent(s)), !.target = 0, !.stepped = TRUE,
            !.cache = SubSeq(@, 1, s.pos) \o Sent(s)]

LEMMA AnsweredType ==
  ASSUME NEW s \in Session, s.pos <= Len(s.cache), inputs \in Seq(Token), Fits(s)
  PROVE  /\ Answered(s) \in Session /\ Answered(s).start = s.start /\ Answered(s).end = s.end
         /\ Answered(s).history = Extended(s) /\ Answered(s).pos = s.pos + Len(Sent(s))
         /\ Answered(s).target = 0 /\ Answered(s).stepped /\ Answered(s).closed = s.closed
         /\ Answered(s).cache = SubSeq(s.cache, 1, s.pos) \o Sent(s)
         /\ Answered(s).pos = Len(Answered(s).cache)
<1>1. Extended(s) \in Seq(Token) /\ Sent(s) \in Seq(Token) /\ Len(Sent(s)) \in Nat
  BY ExtendedType, LenProperties
<1>2. s.pos \in Nat /\ s.cache \in Seq(Token) /\ MaxLength \in Nat
  BY FieldsOfSession, SessionAssumption
<1>3. SubSeq(s.cache, 1, s.pos) \in Seq(Token) /\ Len(SubSeq(s.cache, 1, s.pos)) = s.pos
  BY <1>2, FirstElements
<1> DEFINE cache == SubSeq(s.cache, 1, s.pos) \o Sent(s)
           pos == s.pos + Len(Sent(s))
<1>4. cache \in Seq(Token) /\ Len(cache) = Len(SubSeq(s.cache, 1, s.pos)) + Len(Sent(s))
  BY <1>1, <1>3, ConcatProperties
<1>5. Len(cache) = pos
  BY <1>3, <1>4
<1>6. pos \in 0..MaxLength /\ 0 \in 0..MaxLength
  BY <1>1, <1>2 DEF Fits
<1>7. Answered(s) = [s EXCEPT !.history = Extended(s), !.pos = pos, !.target = 0, !.stepped = TRUE, !.cache = cache]
  BY DEF Answered
<1> HIDE DEF cache, pos
<1>8. /\ Answered(s) \in Session /\ Answered(s).start = s.start /\ Answered(s).end = s.end
      /\ Answered(s).history = Extended(s) /\ Answered(s).pos = pos
      /\ Answered(s).target = 0 /\ Answered(s).stepped /\ Answered(s).closed = s.closed
      /\ Answered(s).cache = cache
  BY <1>1, <1>4, <1>6, <1>7 DEF Session, Token
<1> QED BY <1>5, <1>8 DEF cache, pos

LEMMA SendPlaced ==
  ASSUME Types, Placed, Send PROVE Types' /\ Placed'
<1> DEFINE s == chain[at]
           done == recovery > 0 /\ s.end >= recovery
<1>1. /\ sessionPc = "send" /\ Usable(s) /\ Fits(s)
      /\ chain' = [chain EXCEPT ![at] = Answered(s)]
      /\ inputs' = IF done THEN LastN(Sent(s), Len(given)) ELSE Sent(s)
      /\ recovery' = (IF done THEN 0 ELSE recovery)
      /\ at' = at + 1 /\ block' = s.end /\ attempt' = 0
      /\ sessionPc' = (IF s.end < NumBlocks THEN "send" ELSE "return")
      /\ UNCHANGED <<position, given, text, out, tokens, failures, raised>>
  BY DEF Send, Answered
<1>2. at \in 1..Len(chain) /\ s.start = block
  BY <1>1 DEF Placed, InPlace
<1>3. chain \in Seq(Session) /\ Len(chain) \in Nat /\ s \in Session /\ inputs \in Seq(Token) /\ Len(given) \in Nat
  BY <1>2, SequencesOfSession DEF Types
<1>4. s.pos <= Len(s.cache)
  BY <1>2 DEF Types, Cached
<1> HIDE DEF s
<1>5. /\ Answered(s) \in Session /\ Answered(s).start = s.start /\ Answered(s).end = s.end
      /\ Answered(s).pos = Len(Answered(s).cache)
  BY <1>1, <1>3, <1>4, AnsweredType
<1>6. /\ chain' \in Seq(Session) /\ SameSpans(chain, chain')
      /\ \A i \in 1..Len(chain) : chain'[i] = IF i = at THEN Answered(s) ELSE chain[i]
  <2>1. SameSpan(chain[at], Answered(s))
    BY <1>5 DEF SameSpan, s
  <2>2. Replacing(chain, at, Answered(s), chain')
    BY <1>1, <1>2, <1>3, <1>5, <2>1, OneReplaced
  <2> QED BY <2>2 DEF Replacing
<1>7. Cached(chain')
  <2>1. Len(Answered(s).cache) \in Nat
    BY <1>5, FieldsOfSession
  <2> QED BY <1>5, <1>6, <2>1 DEF Types, Cached, SameSpans
<1>8. /\ NumBlocks \in Nat /\ NumBlocks > 0 /\ MaxRetries \in Nat /\ MaxRetries > 0
      /\ at \in Nat /\ block \in Nat /\ recovery \in Nat /\ recovery <= NumBlocks /\ at <= block + 1
  BY NumbersOfSession DEF Types, Placed
<1>9. s.start \in 0..NumBlocks /\ s.end \in 0..NumBlocks /\ s.start < s.end
  BY <1>2 DEF Placed, Covering, Spans, s
<1>10. at' <= block' + 1 /\ at' \in 1..(NumBlocks + 1) /\ block' \in 0..NumBlocks
  BY <1>1, <1>2, <1>8, <1>9
<1>11. recovery' \in 0..NumBlocks /\ attempt' \in 0..(MaxRetries - 1)
  BY <1>1, <1>8
<1>12. inputs' \in Seq(Token)
  <2>1. Sent(s) \in Seq(Token)
    BY <1>3, ExtendedType
  <2>2. LastN(Sent(s), Len(given)) \in Seq(Token)
    BY <1>3, <2>1, LastElements
  <2> QED BY <1>1, <2>1, <2>2
<1>13. {given', inputs', text', out'} \subseteq Seq(1..MaxTokens)
  BY <1>1, <1>12 DEF Types, SessionTypeOK, Token
<1>14. /\ position' \in 0..MaxLength /\ tokens' \in 0..MaxTokens /\ failures' \in 0..MaxFailures
       /\ raised' \in BOOLEAN /\ sessionPc' \in {"send", "return"}
  BY <1>1 DEF Types, SessionTypeOK
<1>15. SessionTypeOK'
  BY <1>6, <1>10, <1>11, <1>13, <1>14 DEF SessionTypeOK
<1>16. Types'
  BY <1>1, <1>7, <1>15 DEF Types, Running, Target
<1>17. Covering(chain') /\ (chain' = <<>> <=> chain = <<>>) /\ Len(chain') = Len(chain)
  BY <1>3, <1>6, SpansKept DEF Placed, SameSpans
<1>18. chain # <<>> /\ chain[Len(chain)].end = NumBlocks
  BY <1>2, <1>3, EmptySeq DEF Placed, Covering
<1>19. ASSUME s.end < NumBlocks PROVE InPlace(chain)'
  <2>1. at # Len(chain)
    BY <1>18, <1>19, <1>9 DEF s
  <2>2. at \in 1..(Len(chain) - 1) /\ at + 1 \in 1..Len(chain) /\ at + 1 # at
    BY <1>2, <1>3, <2>1
  <2>3. chain[at + 1].start = s.end
    BY <2>2 DEF Placed, Covering, Tiling, s
  <2>4. chain'[at + 1].start = s.end
    BY <1>6, <2>2, <2>3
  <2> QED BY <1>1, <1>17, <2>2, <2>4 DEF InPlace
<1>20. ASSUME ~(s.end < NumBlocks) PROVE at' = Len(chain) + 1
  <2>1. s.end = NumBlocks
    BY <1>8, <1>9, <1>20
  <2>2. ASSUME at < Len(chain) PROVE FALSE
    <3>1. at \in 1..(Len(chain) - 1) /\ at + 1 \in 1..Len(chain)
      BY <1>2, <1>3, <2>2
    <3>2. chain[at + 1].start = NumBlocks
      BY <2>1, <3>1 DEF Placed, Covering, Tiling, s
    <3>3. chain[at + 1].start < chain[at + 1].end /\ chain[at + 1].end \in 0..NumBlocks
      BY <3>1 DEF Placed, Covering, Spans
    <3> QED BY <1>8, <3>2, <3>3
  <2> QED BY <1>1, <1>2, <1>3, <2>2
<1> QED BY <1>1, <1>10, <1>16, <1>17, <1>18, <1>19, <1>20 DEF Placed

LEMMA ReturnPlaced ==
  ASSUME Types, Placed, Return PROVE Types' /\ Placed'
<1>1. /\ sessionPc = "return" /\ sessionPc' = "idle" /\ position' = position + Len(given)
      /\ out' = LastN(inputs, Len(given)) /\ text' = text \o given
      /\ UNCHANGED <<chain, given, inputs, at, block, attempt, recovery, tokens, failures, raised>>
  BY DEF Return
<1>2. /\ given \in Seq(Token) /\ inputs \in Seq(Token) /\ text \in Seq(Token)
      /\ Len(given) \in Nat /\ Len(text) = position /\ Target <= MaxLength
  BY <1>1, SequencesOfSession DEF Types, Running
<1>3. position \in Nat /\ MaxLength \in Nat
  BY NumbersOfSession DEF Types
<1>4. out' \in Seq(Token)
  BY <1>1, <1>2, LastElements
<1>5. text' \in Seq(Token) /\ Len(text') = Len(text) + Len(given)
  BY <1>1, <1>2, ConcatProperties
<1>6. position' \in 0..MaxLength /\ Len(text') = position'
  BY <1>1, <1>2, <1>3, <1>5 DEF Target
<1>7. {given', inputs', text', out'} \subseteq Seq(1..MaxTokens)
  BY <1>1, <1>2, <1>4, <1>5 DEF Token
<1>8. /\ chain' \in Seq(Session) /\ at' \in 1..(NumBlocks + 1) /\ block' \in 0..NumBlocks
      /\ attempt' \in 0..(MaxRetries - 1) /\ recovery' \in 0..NumBlocks
      /\ tokens' \in 0..MaxTokens /\ failures' \in 0..MaxFailures /\ raised' \in BOOLEAN
  BY <1>1 DEF Types, SessionTypeOK
<1>9. SessionTypeOK'
  BY <1>1, <1>6, <1>7, <1>8 DEF SessionTypeOK
<1> QED BY <1>1, <1>6, <1>9 DEF Types, Placed, Running, Cached

(* A session that is set back to position k.                               *)
BackAt(s, k) ==
  [s EXCEPT !.pos = k, !.history = IF Len(@) >= k THEN SubSeq(@, 1, k) ELSE @]

LEMMA BackType ==
  ASSUME NEW s \in Session, NEW k \in 0..MaxLength
  PROVE  /\ BackAt(s, k) \in Session /\ SameSpan(s, BackAt(s, k))
         /\ BackAt(s, k).pos = k /\ BackAt(s, k).cache = s.cache
         /\ BackAt(s, k).history = IF Len(s.history) >= k THEN SubSeq(s.history, 1, k) ELSE s.history
         /\ BackAt(s, k).target = s.target /\ BackAt(s, k).stepped = s.stepped
         /\ BackAt(s, k).closed = s.closed
<1> DEFINE h == IF Len(s.history) >= k THEN SubSeq(s.history, 1, k) ELSE s.history
<1>1. s.history \in Seq(Token) /\ Len(s.history) \in Nat /\ k \in Nat
  BY FieldsOfSession, SessionAssumption
<1>2. h \in Seq(Token)
  BY <1>1, FirstElements
<1>3. BackAt(s, k) = [s EXCEPT !.pos = k, !.history = h]
  BY DEF BackAt
<1> HIDE DEF h
<1>4. /\ BackAt(s, k) \in Session /\ BackAt(s, k).start = s.start /\ BackAt(s, k).end = s.end
      /\ BackAt(s, k).pos = k /\ BackAt(s, k).cache = s.cache /\ BackAt(s, k).history = h
      /\ BackAt(s, k).target = s.target /\ BackAt(s, k).stepped = s.stepped
      /\ BackAt(s, k).closed = s.closed
  BY <1>2, <1>3 DEF Session, Token
<1> QED BY <1>4 DEF SameSpan, h

LEMMA RollbackPlaced ==
  ASSUME Types, Placed, NEW k \in 0..(MaxLength - 1), Rollback(k) PROVE Types' /\ Placed'
<1>1. /\ sessionPc = "idle" /\ k < position /\ position' = k
      /\ text' = SubSeq(text, 1, k) /\ out' = <<>> /\ raised' = (raised \/ Behind(k) # {})
      /\ UNCHANGED <<sessionPc, given, inputs, at, block, attempt, recovery, tokens, failures>>
      /\ chain' = [i \in DOMAIN chain |-> IF i \in SetBack(k) THEN BackAt(chain[i], k) ELSE chain[i]]
  BY DEF Rollback, BackAt
<1>2. /\ position \in Nat /\ MaxLength \in Nat /\ MaxLength > 0 /\ position <= MaxLength
      /\ raised \in BOOLEAN /\ chain \in Seq(Session)
      /\ text \in Seq(Token) /\ Len(text) = position
  BY NumbersOfSession, SequencesOfSession DEF Types
<1>3. k \in Nat /\ k \in 0..MaxLength
  BY <1>2
<1>4. DOMAIN chain = 1..Len(chain)
  BY <1>2, LenProperties
<1>5. ASSUME NEW i \in 1..Len(chain)
      PROVE  /\ chain'[i] \in Session /\ SameSpan(chain[i], chain'[i])
             /\ chain'[i].pos <= Len(chain'[i].cache)
  <2>1. chain[i] \in Session /\ chain[i].pos <= Len(chain[i].cache)
    BY SequencesOfSession DEF Types, Cached
  <2>2. CASE i \in SetBack(k)
    <3>1. chain'[i] = BackAt(chain[i], k)
      BY <1>1, <1>4, <2>2
    <3>2. i \notin Behind(k)
      BY <2>2 DEF SetBack
    <3>3. ~(chain[i].pos < k)
      BY <1>4, <3>2 DEF Behind
    <3>4. chain[i].pos \in Nat /\ Len(chain[i].cache) \in Nat
      BY <2>1, FieldsOfSession
    <3>5. /\ BackAt(chain[i], k) \in Session /\ SameSpan(chain[i], BackAt(chain[i], k))
          /\ BackAt(chain[i], k).pos = k /\ BackAt(chain[i], k).cache = chain[i].cache
      BY <1>3, <2>1, BackType
    <3> QED BY <1>3, <2>1, <3>1, <3>3, <3>4, <3>5
  <2>3. CASE i \notin SetBack(k)
    <3>1. chain'[i] = chain[i]
      BY <1>1, <1>4, <2>3
    <3> QED BY <2>1, <3>1 DEF SameSpan
  <2> QED BY <2>2, <2>3
<1>6. chain' \in Seq(Session) /\ SameSpans(chain, chain')
  <2>1. chain' = [i \in DOMAIN chain |-> chain'[i]]
    BY <1>1
  <2>2. \A i \in 1..Len(chain) : /\ chain'[i] \in Session
                                 /\ chain'[i].start = chain[i].start /\ chain'[i].end = chain[i].end
    BY <1>5 DEF SameSpan
  <2> QED BY <1>2, <2>1, <2>2, Rewritten
<1>7. Cached(chain')
  BY <1>5, <1>6 DEF Cached, SameSpans
<1>8. text' \in Seq(Token) /\ Len(text') = position'
  BY <1>1, <1>2, <1>3, FirstElements
<1>9. out' \in Seq(Token)
  BY <1>1, EmptySeq
<1>10. {given', inputs', text', out'} \subseteq Seq(1..MaxTokens)
  BY <1>1, <1>8, <1>9 DEF Types, SessionTypeOK, Token
<1>11. /\ sessionPc' = "idle" /\ at' \in 1..(NumBlocks + 1) /\ block' \in 0..NumBlocks
       /\ attempt' \in 0..(MaxRetries - 1) /\ recovery' \in 0..NumBlocks
       /\ tokens' \in 0..MaxTokens /\ failures' \in 0..MaxFailures
  BY <1>1 DEF Types, SessionTypeOK
<1>12. raised' \in BOOLEAN /\ position' \in 0..MaxLength
  BY <1>1, <1>2, <1>3
<1>13. SessionTypeOK'
  BY <1>6, <1>10, <1>11, <1>12 DEF SessionTypeOK
<1>14. Types'
  BY <1>7, <1>8, <1>11, <1>13 DEF Types, Running
<1>15. Covering(chain')
  BY <1>2, <1>6, SpansKept DEF Placed
<1> QED BY <1>1, <1>11, <1>14, <1>15 DEF Placed

(* The session is closed.                                                  *)
LEMMA CloseSessionPlaced ==
  ASSUME Types, Placed, CloseSession PROVE Types' /\ Placed'
<1>1. /\ sessionPc' = "closed" /\ chain' = <<>>
      /\ UNCHANGED <<position, given, inputs, at, block, attempt, recovery, text, out,
                     tokens, failures, raised>>
  BY DEF CloseSession
<1>2. chain' \in Seq(Session) /\ Len(chain') = 0
  BY <1>1, EmptySeq
<1>3. SessionTypeOK'
  BY <1>1, <1>2 DEF Types, SessionTypeOK
<1>4. Cached(chain') /\ Covering(chain')
  BY <1>1, <1>2 DEF Cached, Covering, Tiling, Spans
<1> QED BY <1>1, <1>3, <1>4 DEF Types, Placed, Running

(* The span that is to be replaced, and the chain with a spans for it.     *)
LEMMA SpanToReplace ==
  ASSUME Types, Placed, sessionPc = "update"
  PROVE  /\ block \in 0..NumBlocks /\ UpdateEnd \in 0..NumBlocks /\ block < UpdateEnd
         /\ \/ /\ InPlace(chain) /\ HasPrevious /\ UpdateEnd = chain[at].end
            \/ /\ Starting /\ ~HasPrevious /\ UpdateEnd = NumBlocks
<1>1. NumBlocks \in Nat /\ NumBlocks > 0 /\ block \in 0..NumBlocks
  <2>1. NumBlocks \in Nat /\ NumBlocks > 0
    BY SessionAssumption
  <2>2. block \in 0..NumBlocks
    BY DEF Types, SessionTypeOK
  <2> QED BY <2>1, <2>2
<1>2. CASE InPlace(chain)
  <2>1. at \in 1..Len(chain) /\ chain[at].start = block /\ Len(chain) \in Nat
    BY <1>2, SequencesOfSession DEF InPlace, Types
  <2>2. HasPrevious /\ UpdateEnd = chain[at].end
    BY <2>1 DEF HasPrevious, UpdateEnd
  <2>3. chain[at].end \in 0..NumBlocks /\ chain[at].start < chain[at].end
    BY <2>1 DEF Placed, Covering, Spans
  <2> QED BY <1>1, <1>2, <2>1, <2>2, <2>3
<1>3. CASE Starting
  <2>1. ~HasPrevious
    BY <1>3, EmptySeq DEF Starting, HasPrevious
  <2>2. UpdateEnd = NumBlocks /\ block = 0
    BY <1>3, <2>1 DEF UpdateEnd, Starting
  <2> QED BY <1>1, <1>3, <2>1, <2>2
<1> QED BY <1>2, <1>3 DEF Placed

(* The chain after an update: a covering spans for the replaced span, in   *)
(* the place of the failed session or of the empty chain.                  *)
Rerouted(spans, p) ==
  /\ RouteFor(spans, block, UpdateEnd)
  /\ p = Prepared(spans) /\ p \in Seq(Session) /\ SameSpans(spans, p) /\ Cached(p)
  /\ p # <<>> /\ Tiling(p) /\ Spans(p) /\ p[1].start = block /\ p[Len(p)].end = UpdateEnd

LEMMA UpdateReroutes ==
  ASSUME Types, Placed, Update
  PROVE  \E spans, p : /\ Rerouted(spans, p)
                       /\ InPlace(chain) => chain' = Spliced(chain, at, p)
                       /\ Starting => chain' = p
<1>1. sessionPc = "update"
  BY DEF Update
<1>2. PICK spans \in Routes(block, UpdateEnd) :
        chain' = SubSeq(chain, 1, at - 1) \o Prepared(spans) \o SubSeq(chain, at + 1, Len(chain))
  BY DEF Update
<1>3. RouteFor(spans, block, UpdateEnd)
  BY <1>1, SpanToReplace, RoutesAreTilings
<1> DEFINE p == Prepared(spans)
<1>4. SessionTypeOK /\ Target <= MaxLength
  BY <1>1 DEF Types, Running
<1>5. p \in Seq(Session) /\ SameSpans(spans, p) /\ Cached(p)
  BY <1>3, <1>4, PreparedType DEF RouteFor
<1> HIDE DEF p
<1>6. Len(spans) \in Nat /\ Len(spans) # 0 /\ Len(p) = Len(spans)
  BY <1>3, <1>5, LenProperties, EmptySeq DEF RouteFor, SameSpans
<1>7. p # <<>>
  BY <1>6, EmptySeq
<1>8. Tiling(p)
  <2> SUFFICES ASSUME NEW i \in 1..(Len(spans) - 1) PROVE p[i].end = p[i + 1].start
    BY <1>6 DEF Tiling
  <2>1. i \in 1..Len(spans) /\ i + 1 \in 1..Len(spans)
    BY <1>6
  <2> QED BY <1>3, <1>5, <2>1 DEF RouteFor, Tiling, SameSpans
<1>9. Spans(p)
  BY <1>3, <1>5, <1>6 DEF RouteFor, Spans, SameSpans
<1>10. p[1].start = block /\ p[Len(p)].end = UpdateEnd
  <2>1. 1 \in 1..Len(spans) /\ Len(spans) \in 1..Len(spans)
    BY <1>6
  <2> QED BY <1>3, <1>5, <1>6, <2>1 DEF RouteFor, SameSpans
<1>11. Rerouted(spans, p)
  BY <1>3, <1>5, <1>7, <1>8, <1>9, <1>10 DEF Rerouted, p
<1>12. InPlace(chain) => chain' = Spliced(chain, at, p)
  BY <1>2 DEF Spliced, p
<1>13. ASSUME Starting PROVE chain' = p
  <2>1. chain = <<>> /\ at = 1 /\ Len(chain) = 0
    BY <1>13, EmptySeq DEF Starting
  <2>2. SubSeq(chain, 1, at - 1) = <<>> /\ SubSeq(chain, at + 1, Len(chain)) = <<>>
    BY <2>1, SubSeqEmpty
  <2>3. chain' = (<<>> \o p) \o <<>>
    BY <1>2, <2>2 DEF p
  <2>4. <<>> \o p = p /\ p \o <<>> = p
    BY <1>5, ConcatEmptySeq
  <2> QED BY <2>3, <2>4
<1> QED BY <1>11, <1>12, <1>13

LEMMA UpdatePlaced ==
  ASSUME Types, Placed, Update PROVE Types' /\ Placed'
<1>1. /\ sessionPc = "update" /\ sessionPc' = "send"
      /\ recovery' = (IF NeedsReplay THEN Max({recovery, UpdateEnd}) ELSE recovery)
      /\ UNCHANGED <<position, given, inputs, at, block, attempt, text, out, tokens, failures, raised>>
  BY DEF Update
<1>2. PICK spans, p : /\ Rerouted(spans, p)
                      /\ InPlace(chain) => chain' = Spliced(chain, at, p)
                      /\ Starting => chain' = p
  BY UpdateReroutes
<1>3. /\ p \in Seq(Session) /\ Cached(p) /\ p # <<>> /\ Tiling(p) /\ Spans(p)
      /\ p[1].start = block /\ p[Len(p)].end = UpdateEnd
  BY <1>2 DEF Rerouted
<1>4. Len(p) \in Nat /\ Len(p) # 0
  BY <1>3, LenProperties, EmptySeq
<1>5. chain' \in Seq(Session) /\ Covering(chain') /\ Cached(chain') /\ InPlace(chain)'
  <2>1. CASE InPlace(chain)
    <3>1. chain \in Seq(Session) /\ Len(chain) \in Nat /\ at \in 1..Len(chain)
      BY <2>1, SequencesOfSession DEF InPlace, Types
    <3>2. chain' = Spliced(chain, at, p)
      BY <1>2, <2>1
    <3>3. UpdateEnd = chain[at].end /\ chain[at].start = block
      BY <2>1, SpanToReplace, <1>1, <3>1, EmptySeq DEF InPlace, Starting
    <3>4. Covering(chain')
      BY <1>3, <3>1, <3>2, <3>3, SplicedCovers DEF Placed
    <3>5. chain' \in Seq(Session) /\ SplicedFrom(chain, at, p, chain')
      BY <1>3, <3>1, <3>2, SplicedElements
    <3>6. Len(chain') = Len(chain) + Len(p) - 1
      BY <3>5 DEF SplicedFrom
    <3>7. ASSUME NEW i \in 1..Len(chain') PROVE chain'[i].pos <= Len(chain'[i].cache)
      <4>1. /\ i < at => chain'[i] = chain[i]
            /\ i >= at /\ i < at + Len(p) => chain'[i] = p[i - at + 1]
            /\ i >= at + Len(p) => chain'[i] = chain[i - Len(p) + 1]
        BY <3>5, <3>6 DEF SplicedFrom
      <4>2. /\ i < at => i \in 1..Len(chain)
            /\ i >= at /\ i < at + Len(p) => i - at + 1 \in 1..Len(p)
            /\ i >= at + Len(p) => i - Len(p) + 1 \in 1..Len(chain)
            /\ i < at \/ (i >= at /\ i < at + Len(p)) \/ i >= at + Len(p)
        BY <1>4, <3>1, <3>6
      <4> QED BY <1>3, <4>1, <4>2 DEF Types, Cached
    <3>8. at \in 1..Len(chain') /\ chain'[at] = p[1]
      <4>1. /\ at \in 1..(Len(chain) + Len(p) - 1) /\ at >= at /\ at < at + Len(p)
            /\ at - at + 1 = 1
        BY <1>4, <3>1
      <4> QED BY <3>5, <3>6, <4>1 DEF SplicedFrom
    <3> QED BY <1>1, <1>3, <3>4, <3>5, <3>7, <3>8 DEF Cached, InPlace
  <2>2. CASE Starting
    <3>1. chain' = p /\ at = 1 /\ block = 0 /\ UpdateEnd = NumBlocks
      <4>1. ~InPlace(chain)
        BY <2>2, EmptySeq DEF Starting, InPlace
      <4> QED BY <1>1, <1>2, <2>2, <4>1, SpanToReplace DEF Starting
    <3>2. 1 \in 1..Len(p)
      BY <1>4
    <3> QED BY <1>1, <1>3, <3>1, <3>2 DEF Covering, InPlace
  <2> QED BY <1>1, <2>1, <2>2 DEF Placed
<1>6. recovery' \in 0..NumBlocks
  <2>1. UpdateEnd \in 0..NumBlocks /\ recovery \in 0..NumBlocks /\ NumBlocks \in Nat
    BY <1>1, SpanToReplace, SessionAssumption DEF Types, SessionTypeOK
  <2>2. UpdateEnd \in Int /\ recovery \in Int
    BY <2>1
  <2>3. Max({recovery, UpdateEnd}) = IF recovery > UpdateEnd THEN recovery ELSE UpdateEnd
    BY <2>2, LargerOfTwo
  <2> QED BY <1>1, <2>1, <2>3
<1>7. SessionTypeOK'
  BY <1>1, <1>5, <1>6 DEF Types, SessionTypeOK
<1>8. Types'
  BY <1>1, <1>5, <1>7 DEF Types, Running, Target
<1> QED BY <1>1, <1>5, <1>8 DEF Placed

(* Together they are an invariant of every session, whether or not it has  *)
(* raised.                                                                 *)
LEMMA StepsPlaced ==
  ASSUME Types, Placed, SessionNext PROVE Types' /\ Placed'
BY StepPlaced, UpdateFailsPlaced, UpdatePlaced, FailSendPlaced, SendPlaced, ReturnPlaced,
   RollbackPlaced, CloseSessionPlaced DEF SessionNext

LEMMA InitPlaced ==
  ASSUME SessionInit PROVE Types /\ Placed
<1>1. /\ NumBlocks \in Nat /\ NumBlocks > 0 /\ MaxRetries \in Nat /\ MaxRetries > 0
      /\ MaxLength \in Nat /\ MaxTokens \in Nat /\ MaxFailures \in Nat
  BY SessionAssumption
<1>2. <<>> \in Seq(Session) /\ <<>> \in Seq(1..MaxTokens) /\ Len(<<>>) = 0
  BY EmptySeq
<1>3. SessionTypeOK
  <2>1. /\ 0 \in 0..MaxLength /\ 1 \in 1..(NumBlocks + 1) /\ 0 \in 0..NumBlocks
        /\ 0 \in 0..(MaxRetries - 1) /\ 0 \in 0..MaxTokens /\ 0 \in 0..MaxFailures
    BY <1>1
  <2>2. {given, inputs, text, out} \subseteq Seq(1..MaxTokens) /\ chain \in Seq(Session)
    BY <1>2 DEF SessionInit
  <2> QED BY <2>1, <2>2 DEF SessionInit, SessionTypeOK
<1>4. Covering(chain) /\ Cached(chain)
  BY <1>2 DEF SessionInit, Covering, Tiling, Spans, Cached
<1> QED BY <1>2, <1>3, <1>4 DEF SessionInit, Types, Placed, Running
-----------------------------------------------------------------------------
(* What is known as long as no call has raised.  A session that is where   *)
(* it should be holds exactly the tokens t: in the attention cache of its  *)
(* server, as the prefix up to its position, and in the client's history.  *)
Full == text \o given
Holds(s, t) ==
  /\ s.pos = Len(t) /\ s.history = t /\ SubSeq(s.cache, 1, s.pos) = t
  /\ s.target = 0 /\ ~s.closed /\ (t # <<>> => s.stepped)
Replaying(s, n) == s.pos = 0 /\ s.target = n /\ ~s.stepped /\ ~s.closed

(* Between the steps all sessions hold the text.                           *)
AtRest ==
  /\ \A i \in 1..Len(chain) : Holds(chain[i], text)
  /\ chain = <<>> => position = 0
  /\ out # <<>> => out = LastN(text, Len(given))

(* In a step, the sessions that have answered hold the text with its       *)
(* tokens.  Of the others, those of a span that is being replaced, up to   *)
(* block `recovery', have nothing yet, and those after it hold the text.   *)
AnsweredHold == \A i \in 1..Len(chain) : i < at => Holds(chain[i], Full)
Awaiting(s, r) ==
  IF s.end <= r THEN Replaying(s, Target) /\ s.history = <<>> ELSE Holds(s, text)
OthersAwait == \A i \in 1..Len(chain) : i > at => Awaiting(chain[i], recovery)
Recovering ==
  /\ recovery > 0 => \E i \in 1..Len(chain) : i >= at /\ chain[i].end = recovery
  /\ recovery = 0 => inputs = given
  /\ inputs = given \/ inputs = Full

(* The session that is asked next.  One that has failed has kept the       *)
(* tokens of the step in its history.                                      *)
Ready(s) ==
  IF recovery = 0
  THEN Holds(s, text) /\ inputs = given
  ELSE Replaying(s, Target) /\ (s.history = Full \/ (s.history = <<>> /\ inputs = Full))
Broken == IF chain = <<>> THEN position = 0 /\ recovery = 0 ELSE chain[at].history = Full

Clean ==
  /\ sessionPc = "idle" => AtRest
  /\ Running => AnsweredHold
  /\ sessionPc \in {"update", "send"} => OthersAwait /\ Recovering
  /\ sessionPc = "update" => Broken
  /\ sessionPc = "send" => Ready(chain[at])
  /\ sessionPc = "return" => recovery = 0 /\ inputs = given

(* The text with the tokens of the step.                                   *)
LEMMA FullText ==
  ASSUME Types
  PROVE  /\ Full \in Seq(Token) /\ Len(Full) = Target /\ Len(text) = position
         /\ Len(Full) = Len(text) + Len(given)
         /\ LastN(Full, Len(given)) = given
         /\ SubSeq(Full, 1, Target) = Full
         /\ Running => /\ Full # <<>> /\ Target > 0 /\ Target > position
                       /\ Len(given) > 0 /\ Target <= MaxLength
<1>1. /\ text \in Seq(Token) /\ given \in Seq(Token) /\ Len(text) = position
      /\ Len(text) \in Nat /\ Len(given) \in Nat
  BY SequencesOfSession DEF Types
<1>2. /\ Full \in Seq(Token) /\ Len(Full) = Len(text) + Len(given)
      /\ LastN(Full, Len(given)) = given
  BY <1>1, PartsOfConcat DEF Full
<1>3. Len(Full) = Target
  BY <1>1, <1>2 DEF Target
<1>4. SubSeq(Full, 1, Target) = Full
  BY <1>2, <1>3, SubSeqFull
<1>5. ASSUME Running PROVE Full # <<>> /\ Target > 0 /\ Target > position /\ Len(given) > 0 /\ Target <= MaxLength
  <2>1. given # <<>> /\ Target <= MaxLength
    BY <1>5 DEF Types
  <2>2. Len(given) # 0
    BY <1>1, <2>1, EmptySeq
  <2>3. Len(Full) # 0 /\ Target > 0 /\ Target > position /\ Len(given) > 0
    BY <1>1, <1>2, <1>3, <2>2 DEF Target
  <2>4. Full # <<>>
    BY <2>3, EmptySeq
  <2> QED BY <2>1, <2>3, <2>4
<1> QED BY <1>1, <1>2, <1>3, <1>4, <1>5

(* A session that holds the text is asked with the tokens of the step, and *)
(* one that is being replayed with the whole text: no check of the client  *)
(* fails, and afterwards it holds the text with the tokens of the step.    *)
AsksFor(s, sent) ==
  /\ Usable(s) /\ Fits(s) /\ Kept(s) = Full /\ Sent(s) = sent
  /\ Holds(Answered(s), Full)

LEMMA HoldingAnswers ==
  ASSUME Types, Running, NEW s \in Session, s.pos <= Len(s.cache), Holds(s, text), inputs = given
  PROVE  AsksFor(s, given)
<1>1. /\ s.pos = Len(text) /\ s.history = text /\ SubSeq(s.cache, 1, s.pos) = text
      /\ s.target = 0 /\ ~s.closed /\ (text # <<>> => s.stepped)
  BY DEF Holds
<1>2. /\ text \in Seq(Token) /\ given \in Seq(Token) /\ inputs \in Seq(Token)
      /\ Len(text) \in Nat /\ Len(given) \in Nat /\ Len(inputs) \in Nat
  BY SequencesOfSession DEF Types
<1>3. /\ Full \in Seq(Token) /\ Len(Full) = Len(text) + Len(given) /\ Len(text) = position
      /\ Len(Full) = Target /\ SubSeq(Full, 1, Target) = Full /\ Full # <<>> /\ Target <= MaxLength
  BY FullText
<1>4. Extended(s) = Full
  BY <1>1 DEF Extended, Full
<1>5. PositionAgrees(s) /\ LengthAgrees(s) /\ Usable(s)
  BY <1>1, <1>3, <1>4 DEF PositionAgrees, LengthAgrees, Usable
<1>6. Kept(s) = Full
  <2>1. ~(s.target - Len(s.history) > Len(inputs))
    BY <1>1, <1>2
  <2> QED BY <1>1, <1>4, <1>5, <2>1 DEF Kept
<1>7. Sent(s) = given
  <2>1. CASE s.stepped
    BY <1>1, <2>1 DEF Sent
  <2>2. CASE ~s.stepped
    <3>1. text = <<>>
      BY <1>1, <2>2
    <3>2. Full = given
      BY <1>2, <3>1, ConcatEmptySeq DEF Full
    <3> QED BY <1>4, <2>2, <3>2 DEF Sent
  <2> QED BY <2>1, <2>2
<1>8. Fits(s)
  BY <1>1, <1>3, <1>7 DEF Fits
<1>9. /\ Answered(s).history = Full /\ Answered(s).pos = Target
      /\ Answered(s).target = 0 /\ Answered(s).stepped /\ ~Answered(s).closed
      /\ Answered(s).cache = Full
  BY <1>1, <1>2, <1>3, <1>4, <1>7, <1>8, AnsweredType DEF Full
<1>10. Holds(Answered(s), Full)
  BY <1>3, <1>9 DEF Holds
<1> QED BY <1>5, <1>6, <1>7, <1>8, <1>10 DEF AsksFor

LEMMA ReplayAnswers ==
  ASSUME Types, Running, NEW s \in Session, s.pos <= Len(s.cache), Replaying(s, Target),
         s.history = Full \/ (s.history = <<>> /\ inputs = Full)
  PROVE  AsksFor(s, Full)
<1>1. s.pos = 0 /\ s.target = Target /\ ~s.stepped /\ ~s.closed
  BY DEF Replaying
<1>2. /\ text \in Seq(Token) /\ given \in Seq(Token) /\ inputs \in Seq(Token)
      /\ Len(text) \in Nat /\ Len(given) \in Nat /\ Len(inputs) \in Nat
  BY SequencesOfSession DEF Types
<1>3. /\ Full \in Seq(Token) /\ Len(Full) = Target /\ SubSeq(Full, 1, Target) = Full
      /\ Full # <<>> /\ Target > 0 /\ Target <= MaxLength /\ Target \in Nat
  BY FullText, NumbersOfSession DEF Types
<1>4. Extended(s) = Full
  <2>1. CASE s.history = <<>>
    BY <1>1, <1>3, <2>1 DEF Extended
  <2>2. CASE s.history = Full
    <3>1. s.target - Len(s.history) = 0
      BY <1>1, <1>3, <2>2
    <3>2. Max({0, 0}) = 0
      BY LargerOfTwo
    <3>3. LastN(inputs, 0) = <<>>
      BY <1>2, LastOfAll
    <3>4. Full \o <<>> = Full
      BY <1>3, ConcatEmptySeq
    <3> QED BY <1>1, <1>3, <2>2, <3>1, <3>2, <3>3, <3>4 DEF Extended
  <2> QED BY <2>1, <2>2
<1>5. PositionAgrees(s) /\ LengthAgrees(s) /\ Usable(s)
  <2>1. s.target - Len(s.history) <= Len(inputs) \/ s.history = <<>>
    BY <1>1, <1>2, <1>3
  <2> QED BY <1>1, <1>3, <1>4, <2>1 DEF PositionAgrees, LengthAgrees, Usable
<1>6. Kept(s) = Full
  <2>1. ~(s.history # <<>> /\ s.target - Len(s.history) > Len(inputs))
    BY <1>1, <1>2, <1>3
  <2> QED BY <1>1, <1>4, <1>5, <2>1 DEF Kept
<1>7. Sent(s) = Full
  BY <1>1, <1>4 DEF Sent
<1>8. Fits(s)
  BY <1>1, <1>3, <1>7 DEF Fits
<1>9. /\ Answered(s).history = Full /\ Answered(s).pos = Target
      /\ Answered(s).target = 0 /\ Answered(s).stepped /\ ~Answered(s).closed
      /\ Answered(s).cache = SubSeq(s.cache, 1, 0) \o Full
  BY <1>1, <1>2, <1>3, <1>4, <1>7, <1>8, AnsweredType
<1>10. SubSeq(s.cache, 1, 0) = <<>> /\ <<>> \o Full = Full
  BY <1>3, SubSeqEmpty, ConcatEmptySeq
<1>11. Holds(Answered(s), Full)
  BY <1>3, <1>9, <1>10 DEF Holds
<1> QED BY <1>5, <1>6, <1>7, <1>8, <1>11 DEF AsksFor

(* The session that is asked next passes all checks.                       *)
LEMMA ReadyAnswers ==
  ASSUME Types, Running, NEW s \in Session, s.pos <= Len(s.cache), Ready(s)
  PROVE  AsksFor(s, IF recovery = 0 THEN given ELSE Full)
<1>1. CASE recovery = 0
  BY <1>1, HoldingAnswers DEF Ready
<1>2. CASE recovery # 0
  BY <1>2, ReplayAnswers DEF Ready
<1> QED BY <1>1, <1>2

(* A session before the end of a recovery does not reach beyond it.        *)
LEMMA RecoveryAhead ==
  ASSUME Types, Placed, at \in 1..Len(chain), Recovering, recovery > 0
  PROVE  /\ chain[at].end <= recovery
         /\ chain[at].end < recovery => \E i \in 1..Len(chain) : i > at /\ chain[i].end = recovery
         /\ chain[at].end < recovery /\ at + 1 \in 1..Len(chain) => chain[at + 1].end <= recovery
<1>1. /\ Len(chain) \in Nat /\ NoOverlap(chain) /\ Spans(chain)
  BY SequencesOfSession, TilesInOrder DEF Types, Placed, Covering
<1>2. PICK i \in 1..Len(chain) : i >= at /\ chain[i].end = recovery
  BY DEF Recovering
<1>3. ASSUME NEW j \in 1..Len(chain), j < i PROVE chain[j].end < recovery
  <2>1. chain[j].end <= chain[i].start
    BY <1>1, <1>3 DEF NoOverlap
  <2>2. chain[i].start < chain[i].end /\ chain[i].start \in Int /\ chain[i].end \in Int /\ chain[j].end \in Int
    BY <1>1 DEF Spans
  <2> QED BY <1>2, <2>1, <2>2
<1>4. chain[at].end \in Int /\ recovery \in Nat /\ chain[i].end \in Int
  <2>1. recovery \in Nat
    BY NumbersOfSession DEF Types
  <2>2. chain[at].end \in 0..NumBlocks /\ chain[i].end \in 0..NumBlocks
    BY <1>1 DEF Spans
  <2> QED BY <2>1, <2>2
<1>5. CASE i = at
  BY <1>2, <1>4, <1>5
<1>6. CASE i > at
  <2>1. chain[at].end < recovery
    BY <1>3, <1>6
  <2>2. ASSUME at + 1 \in 1..Len(chain) PROVE chain[at + 1].end <= recovery
    <3>1. at + 1 < i \/ at + 1 = i
      BY <1>6
    <3>2. CASE at + 1 = i
      BY <1>2, <1>4, <3>2
    <3>3. CASE at + 1 < i
      <4>1. chain[at + 1].end < recovery /\ chain[at + 1].end \in Int
        BY <1>1, <1>3, <2>2, <3>3 DEF Spans
      <4> QED BY <1>4, <4>1
    <3> QED BY <3>1, <3>2, <3>3
  <2> QED BY <1>2, <1>4, <1>6, <2>1, <2>2
<1> QED BY <1>2, <1>5, <1>6

(* The sessions after another one end later.                               *)
LEMMA LaterSpans ==
  ASSUME Types, Placed
  PROVE  /\ \A i, j \in 1..Len(chain) : i < j => chain[i].end < chain[j].end
         /\ \A i \in 1..Len(chain) : chain[i].end \in Nat /\ chain[i].end > 0
<1>1. /\ Len(chain) \in Nat /\ NoOverlap(chain) /\ Spans(chain) /\ NumBlocks \in Nat
  BY SequencesOfSession, TilesInOrder, SessionAssumption DEF Types, Placed, Covering
<1>2. ASSUME NEW i \in 1..Len(chain) PROVE chain[i].end \in Nat /\ chain[i].end > 0 /\ chain[i].start < chain[i].end /\ chain[i].start \in Nat
  BY <1>1 DEF Spans
<1>3. ASSUME NEW i \in 1..Len(chain), NEW j \in 1..Len(chain), i < j PROVE chain[i].end < chain[j].end
  <2>1. chain[i].end <= chain[j].start
    BY <1>1, <1>3 DEF NoOverlap
  <2>2. chain[j].start < chain[j].end /\ chain[j].start \in Nat /\ chain[j].end \in Nat /\ chain[i].end \in Nat
    BY <1>2
  <2> QED BY <2>1, <2>2
<1> QED BY <1>2, <1>3
-----------------------------------------------------------------------------
(* Every step keeps that, as long as it does not raise.                    *)
LEMMA StepClean ==
  ASSUME Types, Placed, AtRest, NEW n \in 1..MaxStep, Step(n) PROVE Clean'
<1>1. /\ given' = [i \in 1..n |-> tokens + i] /\ inputs' = given' /\ at' = 1 /\ recovery' = 0
      /\ sessionPc' = (IF chain = <<>> THEN "update" ELSE "send")
      /\ chain' = chain /\ text' = text /\ position' = position
  BY DEF Step
<1>2. \A i \in 1..Len(chain) : ~(i < 1) /\ chain[i].end \in Nat /\ chain[i].end > 0
  BY LaterSpans
<1>3. AnsweredHold'
  BY <1>1, <1>2 DEF AnsweredHold
<1>4. OthersAwait'
  <2> SUFFICES ASSUME NEW i \in 1..Len(chain) PROVE Awaiting(chain[i], 0)'
    BY <1>1 DEF OthersAwait
  <2>1. ~(chain[i].end <= 0)
    BY <1>2
  <2>2. Holds(chain[i], text)
    BY DEF AtRest
  <2> QED BY <1>1, <2>1, <2>2 DEF Awaiting
<1>5. Recovering'
  BY <1>1 DEF Recovering
<1>6. chain = <<>> => Broken'
  BY <1>1 DEF Broken, AtRest
<1>7. ASSUME chain # <<>> PROVE Ready(chain[at])'
  <2>1. Len(chain) \in Nat /\ Len(chain) # 0
    BY <1>7, SequencesOfSession, EmptySeq DEF Types
  <2>2. 1 \in 1..Len(chain)
    BY <2>1
  <2>3. Holds(chain[1], text)
    BY <2>2 DEF AtRest
  <2> QED BY <1>1, <2>3 DEF Ready
<1> QED BY <1>1, <1>3, <1>4, <1>5, <1>6, <1>7 DEF Clean

(* The chain after a failed attempt: only the failed session has changed.  *)
LEMMA FailedClean ==
  ASSUME Types, Placed, Clean, Retry, ~raised', sessionPc \in {"update", "send"},
         Len(chain') = Len(chain), chain' = <<>> <=> chain = <<>>,
         \A i \in 1..Len(chain) : i # at => chain'[i] = chain[i],
         \A i \in 1..Len(chain) : chain'[i].end = chain[i].end,
         chain # <<>> => chain'[at].history = Full,
         sessionPc = "send" => chain # <<>>,
         UNCHANGED <<position, given, inputs, at, block, recovery, text, out, tokens>>
  PROVE  Clean'
<1>1. sessionPc' = "update" /\ Full' = Full /\ Target' = Target
  BY RetryOutcome DEF Types, Full, Target
<1>2. AnsweredHold /\ OthersAwait /\ Recovering
  BY DEF Clean, Running
<1>3. at \in Nat
  BY NumbersOfSession DEF Types
<1>4. AnsweredHold'
  <2> SUFFICES ASSUME NEW i \in 1..Len(chain), i < at PROVE Holds(chain'[i], Full)
    BY <1>1 DEF AnsweredHold
  <2>1. i # at
    BY <1>3
  <2>2. chain'[i] = chain[i]
    BY <2>1
  <2> QED BY <1>2, <2>2 DEF AnsweredHold
<1>5. OthersAwait'
  <2> SUFFICES ASSUME NEW i \in 1..Len(chain), i > at PROVE Awaiting(chain[i], recovery)'
    BY DEF OthersAwait
  <2>1. i # at
    BY <1>3
  <2>2. chain'[i] = chain[i]
    BY <2>1
  <2>3. Awaiting(chain[i], recovery)
    BY <1>2 DEF OthersAwait
  <2> QED BY <1>1, <2>2, <2>3 DEF Awaiting
<1>6. Recovering'
  BY <1>1, <1>2 DEF Recovering
<1>7. Broken'
  <2>1. CASE chain = <<>>
    <3>1. Broken
      BY <2>1 DEF Clean
    <3> QED BY <2>1, <3>1 DEF Broken
  <2>2. CASE chain # <<>>
    BY <1>1, <2>2 DEF Broken
  <2> QED BY <2>1, <2>2
<1> QED BY <1>1, <1>4, <1>5, <1>6, <1>7 DEF Clean

LEMMA UpdateFailsClean ==
  ASSUME Types, Placed, Clean, UpdateFails, ~raised' PROVE Clean'
<1>1. /\ sessionPc = "update" /\ chain' = Closed /\ Retry
      /\ UNCHANGED <<position, given, inputs, at, block, recovery, text, out, tokens>>
  BY DEF UpdateFails
<1>2. /\ chain' \in Seq(Session) /\ SameSpans(chain, chain')
      /\ \A i \in 1..Len(chain) :
           chain'[i] = IF i = at THEN [chain[i] EXCEPT !.closed = TRUE] ELSE chain[i]
  BY <1>1, ClosedType
<1>3. chain \in Seq(Session) /\ \A i \in 1..Len(chain) : chain[i] \in Session
  BY SequencesOfSession DEF Types
<1>4. Len(chain') = Len(chain) /\ (chain' = <<>> <=> chain = <<>>)
  BY <1>2, <1>3, EmptySeq DEF SameSpans
<1>5. \A i \in 1..Len(chain) : i # at => chain'[i] = chain[i]
  BY <1>2
<1>6. \A i \in 1..Len(chain) : chain'[i].end = chain[i].end
  BY <1>2 DEF SameSpans
<1>7. ASSUME chain # <<>> PROVE chain'[at].history = Full
  <2>1. at \in 1..Len(chain) /\ chain[at].history = Full
    BY <1>1, <1>7 DEF Placed, InPlace, Starting, Clean, Broken
  <2>2. chain'[at] = [chain[at] EXCEPT !.closed = TRUE] /\ chain[at] \in Session
    BY <1>2, <1>3, <2>1
  <2> QED BY <2>1, <2>2 DEF Session
<1> QED BY <1>1, <1>4, <1>5, <1>6, <1>7, FailedClean

LEMMA FailSendClean ==
  ASSUME Types, Placed, Clean, FailSend, ~raised' PROVE Clean'
<1>1. /\ sessionPc = "send" /\ Retry
      /\ UNCHANGED <<position, given, inputs, at, block, recovery, text, out, tokens>>
  BY DEF FailSend
<1>2. PICK after \in AfterFailure(chain[at]) : chain' = [chain EXCEPT ![at] = after]
  BY DEF FailSend
<1>3. at \in 1..Len(chain)
  BY <1>1 DEF Placed, InPlace
<1>4. chain \in Seq(Session) /\ chain[at] \in Session /\ inputs \in Seq(Token) /\ Len(chain) \in Nat
  BY <1>3, SequencesOfSession DEF Types
<1>5. chain[at].pos <= Len(chain[at].cache)
  BY <1>3 DEF Types, Cached
<1>6. AsksFor(chain[at], IF recovery = 0 THEN given ELSE Full)
  BY <1>1, <1>4, <1>5, ReadyAnswers DEF Clean, Running
<1>7. /\ after \in Session /\ SameSpan(chain[at], after) /\ after.history = Full
  BY <1>4, <1>5, <1>6, AfterFailureType DEF SameSpan, AsksFor
<1>8. Replacing(chain, at, after, chain')
  BY <1>2, <1>3, <1>4, <1>7, OneReplaced
<1>9. /\ Len(chain') = Len(chain) /\ chain' # <<>> /\ chain # <<>>
      /\ \A i \in 1..Len(chain) : i # at => chain'[i] = chain[i]
      /\ \A i \in 1..Len(chain) : chain'[i].end = chain[i].end
      /\ chain'[at].history = Full
  BY <1>3, <1>4, <1>7, <1>8, EmptySeq DEF Replacing, SameSpans
<1> QED BY <1>1, <1>9, FailedClean

LEMMA ReturnClean ==
  ASSUME Types, Placed, Clean, Return PROVE Clean'
<1>1. /\ sessionPc = "return" /\ sessionPc' = "idle"
      /\ out' = LastN(inputs, Len(given)) /\ text' = text \o given
      /\ chain' = chain /\ given' = given
  BY DEF Return
<1>2. AnsweredHold /\ inputs = given
  BY <1>1 DEF Clean, Running
<1>3. chain # <<>> /\ at = Len(chain) + 1 /\ Len(chain) \in Nat
  BY <1>1, SequencesOfSession DEF Placed, Types
<1>4. \A i \in 1..Len(chain) : Holds(chain[i], text')
  <2> SUFFICES ASSUME NEW i \in 1..Len(chain) PROVE Holds(chain[i], Full)
    BY <1>1 DEF Full
  <2>1. i < at
    BY <1>3
  <2> QED BY <1>2, <2>1 DEF AnsweredHold
<1>5. out' = LastN(text', Len(given))
  <2>1. LastN(given, Len(given)) = given /\ LastN(Full, Len(given)) = given
    BY FullText, SequencesOfSession, LastOfAll DEF Types
  <2> QED BY <1>1, <1>2, <2>1 DEF Full
<1>6. AtRest'
  BY <1>1, <1>3, <1>4, <1>5 DEF AtRest
<1> QED BY <1>1, <1>6 DEF Clean, Running

(* The first tokens of the first tokens of a sequence.                     *)
LEMMA FirstOfFirst ==
  ASSUME NEW S, NEW s \in Seq(S), NEW m \in Nat, m <= Len(s), NEW k \in Nat, k <= m
  PROVE  SubSeq(SubSeq(s, 1, m), 1, k) = SubSeq(s, 1, k)
<1>1. Len(s) \in Nat
  BY LenProperties
<1>2. CASE k = 0
  BY <1>2, SubSeqEmpty
<1>3. CASE k > 0
  <2>1. /\ 1 \in 1..Len(s) /\ m \in 1..Len(s) /\ 1 \in 1..(m - 1 + 1) /\ k \in 1..(m - 1 + 1)
        /\ 1 + 1 - 1 = 1 /\ 1 + k - 1 = k
    BY <1>1, <1>3
  <2>2. SubSeq(SubSeq(s, 1, m), 1, k) = SubSeq(s, 1 + 1 - 1, 1 + k - 1)
    BY <2>1, SubSeqOfSubSeq
  <2> QED BY <2>1, <2>2
<1> QED BY <1>2, <1>3

LEMMA RollbackClean ==
  ASSUME Types, Placed, AtRest, NEW k \in 0..(MaxLength - 1), Rollback(k), ~raised' PROVE Clean'
<1>1. /\ sessionPc' = "idle" /\ k < position /\ text' = SubSeq(text, 1, k) /\ out' = <<>>
      /\ Behind(k) = {}
      /\ chain' = [i \in DOMAIN chain |-> IF i \in SetBack(k) THEN BackAt(chain[i], k) ELSE chain[i]]
  BY DEF Rollback, BackAt
<1>2. /\ chain \in Seq(Session) /\ DOMAIN chain = 1..Len(chain) /\ Len(chain) \in Nat
      /\ text \in Seq(Token) /\ Len(text) = position /\ position \in Nat /\ position <= MaxLength
  BY SequencesOfSession, NumbersOfSession, LenProperties DEF Types
<1>3. k \in Nat /\ k \in 0..MaxLength /\ k <= Len(text) /\ MaxLength \in Nat
  BY <1>1, <1>2, SessionAssumption
<1>4. Len(chain') = Len(chain) /\ \A i \in 1..Len(chain) : chain'[i] = BackAt(chain[i], k)
  <2>1. \A i \in 1..Len(chain) : i \in SetBack(k)
    BY <1>1, <1>2 DEF SetBack
  <2>2. \A i \in 1..Len(chain) : chain'[i] = BackAt(chain[i], k)
    BY <1>1, <1>2, <2>1
  <2>3. DOMAIN chain' = 1..Len(chain)
    BY <1>1, <1>2
  <2>4. chain' \in Seq(Session)
    BY RollbackPlaced, SequencesOfSession DEF Types, SessionTypeOK
  <2>5. DOMAIN chain' = 1..Len(chain') /\ Len(chain') \in Nat
    BY <2>4, LenProperties
  <2> QED BY <1>2, <2>2, <2>3, <2>5
<1>5. Len(text') = k /\ text' \in Seq(Token)
  BY <1>1, <1>2, <1>3, FirstElements
<1>6. ASSUME NEW i \in 1..Len(chain) PROVE Holds(chain'[i], text')
  <2> DEFINE s == chain[i]
  <2>1. s \in Session /\ s.pos <= Len(s.cache)
    BY SequencesOfSession DEF Types, Cached
  <2>2. /\ s.pos = Len(text) /\ s.history = text /\ SubSeq(s.cache, 1, s.pos) = text
        /\ s.target = 0 /\ ~s.closed /\ (text # <<>> => s.stepped)
    BY DEF AtRest, Holds
  <2>3. s.cache \in Seq(Token) /\ s.pos \in Nat
    BY <2>1, FieldsOfSession
  <2> DEFINE t == BackAt(s, k)
  <2> HIDE DEF s
  <2>4. /\ t.pos = k /\ t.cache = s.cache
        /\ t.history = (IF Len(s.history) >= k THEN SubSeq(s.history, 1, k) ELSE s.history)
        /\ t.target = s.target /\ t.stepped = s.stepped /\ t.closed = s.closed
    BY <1>3, <2>1, BackType
  <2> HIDE DEF t
  <2>5. t.history = SubSeq(text, 1, k)
    BY <1>2, <1>3, <2>2, <2>4
  <2>6. SubSeq(t.cache, 1, t.pos) = SubSeq(text, 1, k)
    <3>1. k <= s.pos
      BY <1>2, <1>3, <2>2
    <3>2. SubSeq(SubSeq(s.cache, 1, s.pos), 1, k) = SubSeq(s.cache, 1, k)
      BY <1>3, <2>1, <2>3, <3>1, FirstOfFirst
    <3> QED BY <2>2, <2>4, <3>2
  <2>7. t.stepped
    <3>1. text # <<>>
      <4>1. Len(text) # 0
        BY <1>1, <1>2, <1>3
      <4> QED BY <4>1, EmptySeq
    <3> QED BY <2>2, <2>4, <3>1
  <2>8. Holds(t, text')
    BY <1>1, <1>5, <2>2, <2>4, <2>5, <2>6, <2>7 DEF Holds
  <2>9. chain'[i] = t
    BY <1>4 DEF s, t
  <2> QED BY <2>8, <2>9
<1>7. chain' # <<>>
  <2>1. chain # <<>>
    BY <1>1, <1>2, <1>3 DEF AtRest
  <2>2. Len(chain) # 0
    BY <1>2, <2>1, EmptySeq
  <2> QED BY <1>4, <2>2, EmptySeq
<1>8. AtRest'
  BY <1>1, <1>4, <1>6, <1>7 DEF AtRest
<1> QED BY <1>1, <1>8 DEF Clean, Running

LEMMA SendClean ==
  ASSUME Types, Placed, Clean, Send PROVE Clean'
<1> DEFINE s == chain[at]
           done == recovery > 0 /\ s.end >= recovery
           sent == IF recovery = 0 THEN given ELSE Full
<1>1. /\ sessionPc = "send" /\ Usable(s) /\ Fits(s)
      /\ chain' = [chain EXCEPT ![at] = Answered(s)]
      /\ inputs' = IF done THEN LastN(Sent(s), Len(given)) ELSE Sent(s)
      /\ recovery' = (IF done THEN 0 ELSE recovery)
      /\ at' = at + 1 /\ block' = s.end
      /\ sessionPc' = (IF s.end < NumBlocks THEN "send" ELSE "return")
      /\ UNCHANGED <<position, given, text, out, tokens, failures, raised>>
  BY DEF Send, Answered
<1>2. Running /\ AnsweredHold /\ OthersAwait /\ Recovering /\ Ready(s) /\ at \in 1..Len(chain)
  BY <1>1 DEF Clean, Running, Placed, InPlace
<1>3. /\ chain \in Seq(Session) /\ Len(chain) \in Nat /\ s \in Session /\ inputs \in Seq(Token)
      /\ s.pos <= Len(s.cache) /\ s.end \in Nat /\ s.end > 0
  BY <1>2, SequencesOfSession, LaterSpans DEF Types, Cached
<1>4. AsksFor(s, sent)
  BY <1>2, <1>3, ReadyAnswers
<1>5. Sent(s) = sent /\ Holds(Answered(s), Full)
  BY <1>4 DEF AsksFor
<1>6. Replacing(chain, at, Answered(s), chain')
  <2>1. Answered(s) \in Session /\ SameSpan(chain[at], Answered(s))
    BY <1>1, <1>3, AnsweredType DEF SameSpan
  <2> QED BY <1>1, <1>2, <1>3, <2>1, OneReplaced
<1> HIDE DEF s
<1>7. /\ Len(chain') = Len(chain) /\ chain'[at] = Answered(s)
      /\ \A i \in 1..Len(chain) : i # at => chain'[i] = chain[i]
      /\ \A i \in 1..Len(chain) : chain'[i].end = chain[i].end
  BY <1>2, <1>6 DEF Replacing, SameSpans
<1>8. Full' = Full /\ Target' = Target /\ text' = text /\ given' = given
  BY <1>1 DEF Full, Target
<1>9. /\ at \in Nat /\ recovery \in Nat /\ recovery <= NumBlocks /\ NumBlocks \in Nat
  BY NumbersOfSession DEF Types
<1>10. AnsweredHold'
  <2> SUFFICES ASSUME NEW i \in 1..Len(chain), i < at + 1 PROVE Holds(chain'[i], Full)
    BY <1>1, <1>7, <1>8 DEF AnsweredHold
  <2>1. CASE i = at
    BY <1>5, <1>7, <2>1
  <2>2. CASE i < at
    BY <1>2, <1>7, <1>9, <2>2 DEF AnsweredHold
  <2> QED BY <1>9, <2>1, <2>2
<1>11. ASSUME NEW i \in 1..Len(chain), i > at
       PROVE  chain'[i] = chain[i] /\ Awaiting(chain[i], recovery) /\ chain[i].end > s.end /\ chain[i].end \in Nat
  <2>1. i # at
    BY <1>9, <1>11
  <2> QED BY <1>2, <1>7, <1>11, <2>1, LaterSpans DEF OthersAwait, s
<1>12. ASSUME sessionPc' = "send" PROVE at + 1 \in 1..Len(chain) /\ at + 1 > at
  <2>1. at' \in 1..Len(chain')
    BY <1>12, SendPlaced DEF Placed, InPlace
  <2> QED BY <1>1, <1>7, <1>9, <2>1
<1>13. CASE recovery = 0
  <2>1. inputs' = given /\ recovery' = 0
    BY <1>1, <1>5, <1>13
  <2>2. ASSUME NEW i \in 1..Len(chain), i > at PROVE chain'[i] = chain[i] /\ Holds(chain[i], text) /\ ~(chain[i].end <= 0)
    <3>1. Awaiting(chain[i], 0) /\ chain'[i] = chain[i]
      BY <1>11, <1>13, <2>2
    <3>2. ~(chain[i].end <= 0)
      BY <1>3, <1>11, <2>2
    <3> QED BY <3>1, <3>2 DEF Awaiting
  <2>3. OthersAwait'
    <3> SUFFICES ASSUME NEW i \in 1..Len(chain), i > at + 1 PROVE Awaiting(chain[i], recovery)'
      BY <1>1, <1>7 DEF OthersAwait
    <3>1. i > at
      BY <1>9
    <3> QED BY <1>8, <2>1, <2>2, <3>1 DEF Awaiting
  <2>4. Recovering'
    BY <1>8, <2>1 DEF Recovering
  <2>5. ASSUME sessionPc' = "send" PROVE Ready(chain[at])'
    <3>1. chain'[at + 1] = chain[at + 1] /\ Holds(chain[at + 1], text)
      BY <1>12, <2>2, <2>5
    <3> QED BY <1>1, <1>8, <2>1, <3>1 DEF Ready
  <2> QED BY <1>1, <1>8, <1>10, <2>1, <2>3, <2>4, <2>5 DEF Clean
<1>14. CASE recovery > 0 /\ s.end >= recovery
  <2>1. s.end = recovery
    BY <1>2, <1>3, <1>9, <1>14, RecoveryAhead DEF s
  <2>2. inputs' = given /\ recovery' = 0
    <3>1. LastN(Full, Len(given)) = given
      BY FullText
    <3>2. Sent(s) = Full
      BY <1>5, <1>14
    <3> QED BY <1>1, <1>14, <3>1, <3>2
  <2>3. ASSUME NEW i \in 1..Len(chain), i > at PROVE chain'[i] = chain[i] /\ Holds(chain[i], text) /\ ~(chain[i].end <= 0)
    <3>1. /\ Awaiting(chain[i], recovery) /\ chain'[i] = chain[i]
          /\ chain[i].end > s.end /\ chain[i].end \in Nat
      BY <1>11, <2>3
    <3>2. ~(chain[i].end <= recovery) /\ ~(chain[i].end <= 0)
      BY <1>3, <1>9, <2>1, <3>1
    <3> QED BY <3>1, <3>2 DEF Awaiting
  <2>4. OthersAwait'
    <3> SUFFICES ASSUME NEW i \in 1..Len(chain), i > at + 1 PROVE Awaiting(chain[i], recovery)'
      BY <1>1, <1>7 DEF OthersAwait
    <3>1. i > at
      BY <1>9
    <3> QED BY <1>8, <2>2, <2>3, <3>1 DEF Awaiting
  <2>5. Recovering'
    BY <1>8, <2>2 DEF Recovering
  <2>6. ASSUME sessionPc' = "send" PROVE Ready(chain[at])'
    <3>1. chain'[at + 1] = chain[at + 1] /\ Holds(chain[at + 1], text)
      BY <1>12, <2>3, <2>6
    <3> QED BY <1>1, <1>8, <2>2, <3>1 DEF Ready
  <2> QED BY <1>1, <1>8, <1>10, <2>2, <2>4, <2>5, <2>6 DEF Clean
<1>15. CASE recovery > 0 /\ s.end < recovery
  <2>1. ~done /\ recovery # 0
    BY <1>3, <1>9, <1>15
  <2>2. inputs' = Full /\ recovery' = recovery
    BY <1>1, <1>5, <2>1
  <2>3. sessionPc' = "send"
    BY <1>1, <1>3, <1>9, <1>15
  <2>4. OthersAwait'
    <3> SUFFICES ASSUME NEW i \in 1..Len(chain), i > at + 1 PROVE Awaiting(chain[i], recovery)'
      BY <1>1, <1>7 DEF OthersAwait
    <3>1. i > at
      BY <1>9
    <3>2. chain'[i] = chain[i] /\ Awaiting(chain[i], recovery)
      BY <1>11, <3>1
    <3> QED BY <1>8, <2>2, <3>2 DEF Awaiting
  <2>5. Recovering'
    <3>1. PICK i \in 1..Len(chain) : i > at /\ chain[i].end = recovery
      BY <1>2, <1>15, RecoveryAhead DEF s
    <3>2. i >= at + 1 /\ chain'[i].end = recovery
      BY <1>7, <1>9, <3>1
    <3> QED BY <1>1, <1>7, <1>8, <2>1, <2>2, <3>2 DEF Recovering
  <2>6. Ready(chain[at])'
    <3>1. at + 1 \in 1..Len(chain) /\ at + 1 > at
      BY <1>12, <2>3
    <3>2. chain'[at + 1] = chain[at + 1] /\ Awaiting(chain[at + 1], recovery)
      BY <1>11, <3>1
    <3>3. chain[at + 1].end <= recovery
      BY <1>2, <1>15, <3>1, RecoveryAhead DEF s
    <3>4. Replaying(chain[at + 1], Target) /\ chain[at + 1].history = <<>>
      BY <3>2, <3>3 DEF Awaiting
    <3> QED BY <1>1, <1>8, <2>1, <2>2, <3>2, <3>4 DEF Ready
  <2> QED BY <1>10, <2>3, <2>4, <2>5, <2>6 DEF Clean
<1>16. recovery = 0 \/ (recovery > 0 /\ s.end >= recovery) \/ (recovery > 0 /\ s.end < recovery)
  BY <1>3, <1>9
<1> QED BY <1>13, <1>14, <1>15, <1>16

(* The sessions of a spans before they are asked: the first of them has    *)
(* the history of the one that failed, if that one had any.                *)
LEMMA PreparedFields ==
  ASSUME Types, NEW spans, NEW p, Rerouted(spans, p), NEW i \in 1..Len(p)
  PROVE  /\ p[i].pos = 0 /\ ~p[i].stepped /\ ~p[i].closed /\ p[i].cache = <<>>
         /\ p[i].end <= UpdateEnd
         /\ NeedsReplay => /\ p[i].target = Target
                           /\ p[i].history = IF i = 1 THEN chain[at].history ELSE <<>>
         /\ ~NeedsReplay => p[i].target = 0 /\ p[i].history = <<>>
<1>1. /\ RouteFor(spans, block, UpdateEnd) /\ p = Prepared(spans) /\ SameSpans(spans, p)
  BY DEF Rerouted
<1>2. /\ spans \in Seq(Session) /\ DOMAIN spans = 1..Len(spans) /\ i \in 1..Len(spans)
  BY <1>1, LenProperties DEF RouteFor, SameSpans
<1>3. /\ spans[i] = NewSession(spans[i].start, spans[i].end)
      /\ spans[i].end <= UpdateEnd /\ p[i].end = spans[i].end /\ spans[i] \in Session
  BY <1>1, <1>2, ElementOfSeq DEF RouteFor, AsNew, SameSpans
<1>4. /\ spans[i].pos = 0 /\ ~spans[i].stepped /\ ~spans[i].closed /\ spans[i].cache = <<>>
      /\ spans[i].target = 0 /\ spans[i].history = <<>>
  BY <1>3 DEF NewSession
<1>5. CASE ~NeedsReplay
  BY <1>1, <1>3, <1>4, <1>5 DEF Prepared
<1>6. CASE NeedsReplay
  <2> DEFINE h == IF i = 1 THEN chain[at].history ELSE <<>>
  <2>1. p[i] = [spans[i] EXCEPT !.history = h, !.target = Target]
    BY <1>1, <1>2, <1>6 DEF Prepared
  <2> HIDE DEF h
  <2>2. /\ p[i].pos = spans[i].pos /\ p[i].stepped = spans[i].stepped /\ p[i].closed = spans[i].closed
        /\ p[i].cache = spans[i].cache /\ p[i].target = Target /\ p[i].history = h
    BY <1>3, <2>1 DEF Session
  <2> QED BY <1>3, <1>4, <1>6, <2>2 DEF h
<1> QED BY <1>5, <1>6

LEMMA FirstUpdateClean ==
  ASSUME Types, Placed, Clean, Update, Starting PROVE Clean'
<1>1. /\ sessionPc = "update" /\ sessionPc' = "send"
      /\ recovery' = (IF NeedsReplay THEN Max({recovery, UpdateEnd}) ELSE recovery)
      /\ UNCHANGED <<position, given, inputs, at, block, attempt, text, out, tokens, failures, raised>>
  BY DEF Update
<1>2. /\ chain = <<>> /\ at = 1 /\ position = 0 /\ recovery = 0 /\ inputs = given
  BY <1>1 DEF Clean, Broken, Recovering, Starting
<1>3. text = <<>> /\ Len(text) = 0
  BY <1>2, SequencesOfSession, EmptySeq DEF Types
<1>4. ~HasPrevious /\ ~NeedsReplay
  BY <1>2, EmptySeq DEF HasPrevious, NeedsReplay
<1>5. PICK spans, p : Rerouted(spans, p) /\ chain' = p
  BY UpdateReroutes
<1>6. p \in Seq(Session) /\ Len(p) \in Nat /\ Len(p) # 0 /\ Spans(p)
  BY <1>5, LenProperties, EmptySeq DEF Rerouted
<1>7. ASSUME NEW i \in 1..Len(p) PROVE Holds(p[i], text) /\ ~(p[i].end <= 0)
  <2>1. /\ p[i].pos = 0 /\ p[i].target = 0 /\ p[i].history = <<>> /\ ~p[i].closed
    BY <1>4, <1>5, PreparedFields
  <2>2. SubSeq(p[i].cache, 1, 0) = <<>>
    BY SubSeqEmpty
  <2>3. ~(p[i].end <= 0)
    BY <1>6, SessionAssumption DEF Spans
  <2> QED BY <1>3, <2>1, <2>2, <2>3 DEF Holds
<1>8. recovery' = 0 /\ at' = 1 /\ text' = text /\ inputs' = given'
  BY <1>1, <1>2, <1>4
<1>9. AnsweredHold'
  <2>1. \A i \in 1..Len(p) : ~(i < 1)
    OBVIOUS
  <2> QED BY <1>5, <1>8, <2>1 DEF AnsweredHold
<1>10. OthersAwait'
  BY <1>5, <1>7, <1>8 DEF OthersAwait, Awaiting
<1>11. Recovering'
  BY <1>8 DEF Recovering
<1>12. Ready(chain[at])'
  <2>1. 1 \in 1..Len(p)
    BY <1>6
  <2> QED BY <1>5, <1>7, <1>8, <2>1 DEF Ready
<1> QED BY <1>1, <1>9, <1>10, <1>11, <1>12 DEF Clean

LEMMA RepairClean ==
  ASSUME Types, Placed, Clean, Update, InPlace(chain) PROVE Clean'
<1> DEFINE r == IF recovery = 0 THEN UpdateEnd ELSE recovery
<1>1. /\ sessionPc = "update" /\ sessionPc' = "send"
      /\ recovery' = (IF NeedsReplay THEN Max({recovery, UpdateEnd}) ELSE recovery)
      /\ UNCHANGED <<position, given, inputs, at, block, attempt, text, out, tokens, failures, raised>>
  BY DEF Update
<1>2. /\ chain \in Seq(Session) /\ Len(chain) \in Nat /\ at \in 1..Len(chain) /\ chain # <<>>
  BY SequencesOfSession, EmptySeq DEF Types, InPlace
<1>3. /\ Running /\ AnsweredHold /\ OthersAwait /\ Recovering /\ chain[at].history = Full
  BY <1>1, <1>2 DEF Clean, Broken, Running
<1>4. /\ HasPrevious /\ UpdateEnd = chain[at].end
  BY <1>1, <1>2, SpanToReplace DEF Starting
<1>5. NeedsReplay
  BY <1>3, <1>4, FullText DEF NeedsReplay
<1>6. /\ UpdateEnd \in Nat /\ UpdateEnd > 0 /\ recovery \in Nat /\ at \in Nat
  BY <1>2, <1>4, LaterSpans, NumbersOfSession DEF Types
<1>7. recovery > 0 => UpdateEnd <= recovery
  BY <1>2, <1>3, <1>4, RecoveryAhead
<1>8. r \in Nat /\ r > 0 /\ UpdateEnd <= r /\ (recovery > 0 => r = recovery) /\ (recovery = 0 => r = UpdateEnd)
  BY <1>6, <1>7
<1>9. recovery' = r
  <2>1. Max({recovery, UpdateEnd}) = IF recovery > UpdateEnd THEN recovery ELSE UpdateEnd
    BY <1>6, LargerOfTwo
  <2> QED BY <1>1, <1>5, <1>6, <1>7, <2>1
<1> HIDE DEF r
<1>10. PICK spans, p : Rerouted(spans, p) /\ chain' = Spliced(chain, at, p)
  BY UpdateReroutes
<1>11. p \in Seq(Session) /\ Len(p) \in Nat /\ Len(p) # 0 /\ p[Len(p)].end = UpdateEnd
  BY <1>10, LenProperties, EmptySeq DEF Rerouted
<1>12. SplicedFrom(chain, at, p, chain')
  BY <1>2, <1>10, <1>11, SplicedElements
<1> DEFINE n == Len(chain) + Len(p) - 1
<1>13. Len(chain') = n /\ n \in Nat
  BY <1>2, <1>11, <1>12 DEF SplicedFrom
<1>14. ASSUME NEW i \in 1..n
       PROVE  /\ i < at => i \in 1..Len(chain) /\ chain'[i] = chain[i]
              /\ i >= at /\ i < at + Len(p) => i - at + 1 \in 1..Len(p) /\ chain'[i] = p[i - at + 1]
              /\ i >= at + Len(p) => /\ i - Len(p) + 1 \in 1..Len(chain) /\ i - Len(p) + 1 > at
                                     /\ chain'[i] = chain[i - Len(p) + 1]
  BY <1>2, <1>6, <1>11, <1>12 DEF SplicedFrom
<1> HIDE DEF n
<1>15. ASSUME NEW i \in 1..Len(p)
       PROVE  /\ Replaying(p[i], Target) /\ p[i].end <= r
              /\ p[i].history = IF i = 1 THEN Full ELSE <<>>
  <2>1. /\ p[i].pos = 0 /\ ~p[i].stepped /\ ~p[i].closed /\ p[i].target = Target
        /\ p[i].history = (IF i = 1 THEN Full ELSE <<>>) /\ p[i].end <= UpdateEnd
    BY <1>3, <1>5, <1>10, PreparedFields
  <2>2. p[i].end \in Int
    BY <1>10, SessionAssumption DEF Rerouted, Spans
  <2>3. p[i].end <= r
    BY <1>6, <1>8, <2>1, <2>2
  <2> QED BY <2>1, <2>3 DEF Replaying
<1>16. ASSUME NEW j \in 1..Len(chain), j > at PROVE Awaiting(chain[j], r)
  <2>1. Awaiting(chain[j], recovery) /\ chain[j].end > UpdateEnd /\ chain[j].end \in Nat
    BY <1>2, <1>3, <1>4, <1>16, LaterSpans DEF OthersAwait
  <2>2. CASE recovery > 0
    BY <1>8, <2>1, <2>2
  <2>3. CASE recovery = 0
    <3>1. ~(chain[j].end <= 0) /\ ~(chain[j].end <= r)
      BY <1>6, <1>8, <2>1, <2>3
    <3> QED BY <2>1, <2>3, <3>1 DEF Awaiting
  <2> QED BY <1>6, <2>2, <2>3
<1>17. /\ Full' = Full /\ Target' = Target /\ text' = text /\ given' = given /\ at' = at /\ inputs' = inputs
  BY <1>1 DEF Full, Target
<1>18. AnsweredHold'
  <2> SUFFICES ASSUME NEW i \in 1..n, i < at PROVE Holds(chain'[i], Full)
    BY <1>13, <1>17 DEF AnsweredHold
  <2>1. i \in 1..Len(chain) /\ chain'[i] = chain[i]
    BY <1>14
  <2> QED BY <1>3, <2>1 DEF AnsweredHold
<1>19. OthersAwait'
  <2> SUFFICES ASSUME NEW i \in 1..n, i > at PROVE Awaiting(chain[i], recovery)'
    BY <1>13, <1>17 DEF OthersAwait
  <2> SUFFICES Awaiting(chain'[i], r)
    BY <1>9, <1>17 DEF Awaiting
  <2>1. CASE i < at + Len(p)
    <3>1. i >= at /\ i - at + 1 # 1
      BY <1>6
    <3>2. i - at + 1 \in 1..Len(p) /\ chain'[i] = p[i - at + 1]
      BY <1>14, <2>1, <3>1
    <3> QED BY <1>15, <3>1, <3>2 DEF Awaiting
  <2>2. CASE i >= at + Len(p)
    BY <1>14, <1>16, <2>2
  <2> QED BY <1>6, <1>11, <2>1, <2>2
<1>20. Recovering'
  <2>1. PICK i \in 1..Len(chain) : i >= at /\ chain[i].end = r
    <3>1. CASE recovery = 0
      BY <1>2, <1>4, <1>6, <1>8, <3>1
    <3>2. CASE recovery > 0
      BY <1>3, <1>8, <3>2 DEF Recovering
    <3> QED BY <1>6, <3>1, <3>2
  <2>2. CASE i = at
    <3> DEFINE k == at + Len(p) - 1
    <3>1. k \in 1..n /\ k >= at /\ k < at + Len(p) /\ k - at + 1 = Len(p)
      BY <1>2, <1>6, <1>11 DEF n
    <3>2. chain'[k] = p[k - at + 1]
      BY <1>14, <3>1
    <3>3. chain'[k].end = r
      BY <1>4, <1>11, <2>1, <2>2, <3>1, <3>2
    <3> HIDE DEF k
    <3> QED BY <1>8, <1>9, <1>13, <1>17, <3>1, <3>3, <1>3 DEF Recovering
  <2>3. CASE i > at
    <3> DEFINE k == i + Len(p) - 1
    <3>1. k \in 1..n /\ k >= at /\ k >= at + Len(p) /\ k - Len(p) + 1 = i
      BY <1>2, <1>6, <1>11, <2>3 DEF n
    <3>2. chain'[k] = chain[k - Len(p) + 1]
      BY <1>14, <3>1
    <3>3. chain'[k].end = r
      BY <2>1, <3>1, <3>2
    <3> HIDE DEF k
    <3> QED BY <1>8, <1>9, <1>13, <1>17, <3>1, <3>3, <1>3 DEF Recovering
  <2> QED BY <1>6, <2>1, <2>2, <2>3
<1>21. Ready(chain[at])'
  <2>1. at \in 1..n /\ at >= at /\ at < at + Len(p) /\ at - at + 1 = 1 /\ 1 \in 1..Len(p)
    BY <1>2, <1>6, <1>11 DEF n
  <2>2. chain'[at] = p[1]
    BY <1>14, <2>1
  <2>3. Replaying(p[1], Target) /\ p[1].history = Full
    BY <1>15, <2>1
  <2> QED BY <1>8, <1>9, <1>17, <2>2, <2>3 DEF Ready
<1> QED BY <1>1, <1>18, <1>19, <1>20, <1>21 DEF Clean
-----------------------------------------------------------------------------
(* The inductive invariant of a session.                                   *)
SessionInv == Types /\ Placed /\ (~raised => Clean)

LEMMA StepsClean ==
  ASSUME Types, Placed, ~raised => Clean, SessionNext, ~raised' PROVE Clean'
<1>1. ~raised
  <2>1. CASE UpdateFails \/ FailSend
    BY <2>1, RetryOutcome DEF UpdateFails, FailSend, Types
  <2>2. CASE ~(UpdateFails \/ FailSend)
    BY <2>2 DEF SessionNext, Step, Update, Send, Return, Rollback, CloseSession
  <2> QED BY <2>1, <2>2
<1>2. Clean
  BY <1>1
<1>3. ASSUME NEW n \in 1..MaxStep, Step(n) PROVE Clean'
  <2>1. AtRest
    BY <1>2, <1>3 DEF Clean, Step
  <2> QED BY <1>3, <2>1, StepClean
<1>4. ASSUME Update PROVE Clean'
  <2>1. InPlace(chain) \/ Starting
    BY <1>4 DEF Update, Placed
  <2> QED BY <1>2, <1>4, <2>1, FirstUpdateClean, RepairClean
<1>5. ASSUME NEW k \in 0..(MaxLength - 1), Rollback(k) PROVE Clean'
  <2>1. AtRest
    BY <1>2, <1>5 DEF Clean, Rollback
  <2> QED BY <1>5, <2>1, RollbackClean
<1>6. ASSUME CloseSession PROVE Clean'
  BY <1>6 DEF CloseSession, Clean, Running
<1> QED BY <1>2, <1>3, <1>4, <1>5, <1>6, UpdateFailsClean, FailSendClean, SendClean, ReturnClean
        DEF SessionNext

LEMMA SessionInvHolds == SessionSpec => []SessionInv
<1>1. SessionInit => SessionInv
  <2> SUFFICES ASSUME SessionInit PROVE SessionInv
    OBVIOUS
  <2>1. Types /\ Placed
    BY InitPlaced
  <2>2. AtRest
    BY EmptySeq DEF SessionInit, AtRest
  <2> QED BY <2>1, <2>2 DEF SessionInv, SessionInit, Clean, Running
<1>2. SessionInv /\ [SessionNext]_sessionVars => SessionInv'
  <2> SUFFICES ASSUME SessionInv, [SessionNext]_sessionVars PROVE SessionInv'
    OBVIOUS
  <2>1. CASE SessionNext
    BY <2>1, StepsPlaced, StepsClean DEF SessionInv
  <2>2. CASE UNCHANGED sessionVars
    <3>1. Types' /\ Placed'
      BY <2>2 DEF SessionInv, sessionVars, Types, SessionTypeOK, Cached, Running, Target,
                  Placed, InPlace, Starting
    <3>2. Clean = Clean'
      BY <2>2 DEF sessionVars, Clean, AtRest, Running, AnsweredHold, OthersAwait, Awaiting,
                  Recovering, Ready, Broken, Full, Target
    <3> QED BY <2>2, <3>1, <3>2 DEF SessionInv, sessionVars
  <2> QED BY <2>1, <2>2
<1> QED BY <1>1, <1>2, PTL DEF SessionSpec

(* RepairsExact: the chain tiles the blocks, whatever has happened; and as *)
(* long as no call has raised, every attempt passes the client's checks,   *)
(* the replayed prefix is cut off where the replaced span ends, and after  *)
(* each step caches, histories and outputs are those of a session without  *)
(* failures.                                                               *)
LEMMA InvTiles == ASSUME SessionInv PROVE Tiled
<1>1. Types /\ Placed /\ Len(chain) \in Nat
  BY SequencesOfSession DEF SessionInv, Types
<1>2. sessionPc = "send" => at <= Len(chain) /\ chain[at].start = block
  BY <1>1 DEF Placed, InPlace
<1> QED BY <1>1, <1>2 DEF Tiled, Placed, Covering, Tiling

LEMMA InvLeavesNoTrace == ASSUME SessionInv PROVE RepairsLeaveNoTrace
<1> SUFFICES ASSUME sessionPc = "idle", ~raised PROVE Exact
  BY DEF RepairsLeaveNoTrace
<1>1. AtRest /\ DOMAIN chain = 1..Len(chain)
  BY SequencesOfSession, LenProperties DEF SessionInv, Clean, Types
<1> QED BY <1>1 DEF Exact, AtRest, Holds

LEMMA InvRepairsPossible == ASSUME SessionInv PROVE RepairsPossible
<1> SUFFICES ASSUME ~raised
             PROVE  /\ sessionPc = "send" => Usable(chain[at]) /\ Fits(chain[at])
                    /\ sessionPc = "update" /\ NeedsReplay => Restorable
  BY DEF RepairsPossible
<1>1. Types /\ Placed /\ Clean
  BY DEF SessionInv
<1>2. ASSUME sessionPc = "send" PROVE Usable(chain[at]) /\ Fits(chain[at])
  <2>1. at \in 1..Len(chain) /\ Running /\ Ready(chain[at])
    BY <1>1, <1>2 DEF Placed, InPlace, Running, Clean
  <2>2. chain[at] \in Session /\ chain[at].pos <= Len(chain[at].cache)
    BY <1>1, <2>1, SequencesOfSession DEF Types, Cached
  <2> QED BY <1>1, <2>1, <2>2, ReadyAnswers DEF AsksFor
<1>3. ASSUME sessionPc = "update", NeedsReplay PROVE Restorable
  <2>1. chain # <<>>
    BY <1>1, <1>3, EmptySeq, NumbersOfSession DEF NeedsReplay, HasPrevious, Types
  <2>2. chain[at].history = Full
    BY <1>1, <1>3, <2>1 DEF Clean, Broken
  <2>3. Len(Full) = Target /\ Target > position /\ position \in Nat /\ Target \in Nat
    BY <1>1, <1>3, FullText, NumbersOfSession DEF Running, Types
  <2> QED BY <2>2, <2>3 DEF Restorable
<1> QED BY <1>2, <1>3

LEMMA InvRecoveryEnds == ASSUME SessionInv PROVE RecoveryEnds
<1> SUFFICES ASSUME sessionPc = "send", ~raised, recovery > 0 PROVE chain[at].end <= recovery
  BY DEF RecoveryEnds
<1>1. Types /\ Placed /\ Recovering /\ at \in 1..Len(chain)
  BY DEF SessionInv, Clean, Placed, InPlace
<1> QED BY <1>1, RecoveryAhead

(* RepairsExact: however many servers fail, are replaced and have their    *)
(* history replayed, the chain tiles the blocks; and until a call raises,  *)
(* no step is refused for the client's own books, the replayed prefix is   *)
(* cut off where the replaced span ends, and what is returned and cached   *)
(* is what a session without failures has.                                 *)
THEOREM RepairsAreExact == SessionSpec => []RepairsExact
<1>1. SessionInv => RepairsExact
  BY InvTiles, InvLeavesNoTrace, InvRepairsPossible, InvRecoveryEnds DEF RepairsExact
<1> QED BY <1>1, SessionInvHolds, PTL

(* SessionTypeOK: every variable of a session keeps its type, also after a *)
(* call that has raised.                                                   *)
THEOREM SessionTypesHold == SessionSpec => []SessionTypeOK
<1>1. SessionInv => SessionTypeOK
  BY DEF SessionInv, Types
<1> QED BY <1>1, SessionInvHolds, PTL

(* Nothing has been returned while a step runs or after one has raised.    *)
Silent ==
  /\ Running => out = <<>>
  /\ raised => ~Running /\ out = <<>>

(* CachesExact: a caller that drops a session after a call of it has       *)
(* raised gets outputs only from steps that left every cache and history   *)
(* as they would be without failures.  (One that goes on with the session  *)
(* does not: see the README.)                                              *)
THEOREM DroppedSessionsExact == ~GoesOn => (SessionSpec => []CachesExact)
<1> SUFFICES ASSUME ~GoesOn PROVE SessionSpec => []CachesExact
  OBVIOUS
<1>1. SessionInit => Silent
  BY DEF SessionInit, Silent, Running
<1>2. SessionInv /\ Silent /\ [SessionNext]_sessionVars => Silent'
  <2> SUFFICES ASSUME SessionInv, Silent, [SessionNext]_sessionVars PROVE Silent'
    OBVIOUS
  <2>1. CASE \E n \in 1..MaxStep : Step(n)
    <3>1. ~raised /\ raised' = raised /\ out' = <<>>
      BY <2>1 DEF Step
    <3> QED BY <3>1 DEF Silent
  <2>2. CASE UpdateFails \/ FailSend
    <3>1. Retry /\ Running /\ out' = out
      BY <2>2 DEF UpdateFails, FailSend, Running
    <3>2. out' = <<>> /\ ~raised
      BY <3>1 DEF Silent
    <3>3. raised' => sessionPc' = "idle"
      BY <3>1, <3>2 DEF Retry
    <3> QED BY <3>2, <3>3 DEF Silent, Running
  <2>3. CASE Update \/ Send
    <3>1. Running /\ raised' = raised /\ out' = out
      BY <2>3 DEF Update, Send, Running
    <3> QED BY <3>1 DEF Silent
  <2>4. CASE Return
    <3>1. Running /\ raised' = raised /\ sessionPc' = "idle"
      BY <2>4 DEF Return, Running
    <3> QED BY <3>1 DEF Silent, Running
  <2>5. CASE \E k \in 0..(MaxLength - 1) : Rollback(k)
    <3>1. sessionPc' = "idle" /\ out' = <<>>
      BY <2>5 DEF Rollback
    <3> QED BY <3>1 DEF Silent, Running
  <2>6. CASE CloseSession
    <3>1. sessionPc' = "closed" /\ out' = out /\ raised' = raised
      BY <2>6 DEF CloseSession
    <3> QED BY <3>1 DEF Silent, Running
  <2>7. CASE UNCHANGED sessionVars
    BY <2>7 DEF sessionVars, Silent, Running
  <2> QED BY <2>1, <2>2, <2>3, <2>4, <2>5, <2>6, <2>7 DEF SessionNext
<1>3. SessionInv /\ Silent => CachesExact
  <2> SUFFICES ASSUME SessionInv, Silent, sessionPc = "idle", out # <<>> PROVE Exact
    BY DEF CachesExact
  <2>1. ~raised
    BY DEF Silent
  <2> QED BY <2>1, InvLeavesNoTrace DEF RepairsLeaveNoTrace
<1> QED BY <1>1, <1>2, <1>3, SessionInvHolds, PTL DEF SessionSpec

-----------------------------------------------------------------------------
(***************************************************************************)
(* The instance that the runs check.                                       *)
(***************************************************************************)
(* A step of the instance is a step of one part and a stutter of the rest. *)
LEMMA SessionsParts ==
  ASSUME [PartsNext]_partVars
  PROVE  /\ [CacheNext]_cacheVars /\ [PagedNext]_pagedVars /\ [AdmissionNext]_admissionVars
         /\ [PushNext]_pushVars /\ [SessionNext]_sessionVars
BY DEF PartsNext, partVars

(* A behaviour of the instance is one of each part.                        *)
LEMMA PartsSpecs ==
  PartsSpec => CacheSpec /\ PagedSpec /\ AdmissionSpec /\ PushSpec /\ SessionSpec
<1>1. PartsInit => CacheInit /\ PagedInit /\ AdmissionInit /\ PushInit /\ SessionInit
  BY DEF PartsInit
<1>2. [PartsNext]_partVars => /\ [CacheNext]_cacheVars /\ [PagedNext]_pagedVars /\ [AdmissionNext]_admissionVars
                              /\ [PushNext]_pushVars /\ [SessionNext]_sessionVars
  BY SessionsParts
<1> QED BY <1>1, <1>2, PTL DEF PartsSpec, CacheSpec, PagedSpec, AdmissionSpec, PushSpec, SessionSpec

(* SessionsTypeOK: in the instance every variable of the attention cache,  *)
(* the paged pool, admission, the pushes and the client's session keeps    *)
(* its type, whichever part moves.                                         *)
THEOREM SessionsAreTyped == PartsSpec => []SessionsTypeOK
<1>4. AdmissionSpec => []AdmissionInv
  <2>1. AdmissionInit => AdmissionInv
    BY AdmissionStarts
  <2>2. AdmissionInv /\ [AdmissionNext]_admissionVars => AdmissionInv'
    BY AdmissionSteps
  <2> QED BY <2>1, <2>2, PTL DEF AdmissionSpec
<1>5. AdmissionInv => AdmissionTypeOK
  BY DEF AdmissionInv
<1>6. PushInv => PushTypeOK
  BY DEF PushInv
<1>7. CacheTypeOK /\ PagedTypeOK /\ AdmissionTypeOK /\ PushTypeOK /\ SessionTypeOK => SessionsTypeOK
  BY DEF SessionsTypeOK
<1> QED BY PartsSpecs, <1>4, <1>5, <1>6, <1>7, CacheTypesHold, PagedTypesHold, PushInvHolds, SessionTypesHold, PTL

(* In the instance, whichever part moves: the paged pool, the push budget  *)
(* and the client's repairs are exact, and an authority that was marked    *)
(* unhealthy stays closed (paged_cache.py, handler.py, admission.py,       *)
(* inference_session.py).                                                  *)
THEOREM SessionsKeepPromises ==
  PartsSpec => [](PagesExact /\ PushesExact /\ RepairsExact) /\ FailsClosed
  BY PartsSpecs, PagesAreExact, PushesAreExact, RepairsAreExact, UnhealthyStaysClosed, PTL

(* With one handler process, and records that outlive a late release, the  *)
(* bytes of the caches and the peers' rates stay within their limits in    *)
(* the instance too (memory_cache.py, admission.py).                       *)
THEOREM SessionsKeepLimits ==
  ASSUME OneHandler, MaxPerPeer = 1 \/ PeerRate * (PeerTtl - MaxStall) >= PeerBurst * Unit
  PROVE  PartsSpec => [](BytesExact /\ AdmissionExact)
<1>1. CacheSpec => []BytesExact
  BY BytesAreExact
<1>2. AdmissionSpec => []AdmissionExact
  BY AdmissionIsExact
<1> QED BY <1>1, <1>2, PartsSpecs, PTL
=============================================================================
