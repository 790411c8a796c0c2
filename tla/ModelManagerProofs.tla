------------------------- MODULE ModelManagerProofs -------------------------
(***************************************************************************)
(* Proofs about ModelManager, for every set of models and threads: the     *)
(* first three theorems for every budget, the last for a budget of one.    *)
(* The argument for LeaseSafety: eviction and unload() take a runtime out  *)
(* of a record whose active_requests is 0. That number is exact            *)
(* (LeaseAccounting), so no request leases that model, and a runtime is    *)
(* only ever leased through the record of the model it was made for        *)
(* (References), so no request leases that runtime. The argument for       *)
(* RuntimesAccounted: as long as a runtime exists its record is resident,  *)
(* and with a budget of one nobody makes another before it is gone.        *)
(***************************************************************************)
EXTENDS ModelManager, FiniteSetTheorems, TLAPS

(* Each kind of thread stays in its own program, knows its record while it *)
(* is inside, and its candidate while it evicts.                           *)
ProgramCounters ==
  /\ \A t \in Requests : pc[t] \in RequestPcs
  /\ \A t \in Admins : pc[t] \in AdminPcs
  /\ pc[Shut] \in ShutPcs
  /\ \A t \in Requests \cup Admins : pc[t] # "idle" => tgt[t] \in Models
  /\ \A t \in Requests : pc[t] = "evicting" => cand[t] \in Models
  /\ pc[Shut] = "closing" => tgt[Shut] \in Models

(* The threads that are closing the runtime they hold, and the record they *)
(* took it from.                                                           *)
Closing(t) == (t \in Requests /\ pc[t] = "evicting") \/ (t \notin Requests /\ pc[t] = "closing")
From(t) == IF t \in Requests /\ pc[t] = "evicting" THEN cand[t] ELSE tgt[t]

(* The threads that hold a runtime nobody else has seen yet.               *)
Private(t) == t \in Requests /\ pc[t] \in {"publish", "abandon"}

(* Who may refer to a runtime, and in which condition it then is: the      *)
(* record of its model, the leases given out through that record, the one  *)
(* thread that closes it, the one thread that has not yet published it.    *)
RecordRefs ==
  \A m \in Models : runtime[m] # None =>
    made[runtime[m]] = m /\ life[runtime[m]] \in {"open", "failed"}
LeaseRefs ==
  \A t \in Requests : pc[t] = "leased" =>
    /\ held[t] \in RuntimeIds /\ made[held[t]] = tgt[t]
    /\ life[held[t]] # "absent"
    /\ ~closed => life[held[t]] \notin {"closing", "closed"}
CloserRefs ==
  /\ \A t \in Threads : Closing(t) =>
       /\ held[t] \in RuntimeIds /\ made[held[t]] = From(t)
       /\ life[held[t]] = "closing"
  /\ \A t, u \in Threads : Closing(t) /\ Closing(u) /\ t # u => held[t] # held[u]
Unpublished(t) ==
  /\ held[t] \in RuntimeIds /\ made[held[t]] = tgt[t]
  /\ life[held[t]] = "open"
  /\ \A m \in Models : runtime[m] # held[t]
  /\ \A u \in Requests : pc[u] = "leased" => held[u] # held[t]
  /\ \A u \in Threads : Private(u) /\ u # t => held[u] # held[t]
PrivateRefs == \A t \in Threads : Private(t) => Unpublished(t)
Begun == pc[Shut] # "start" => closed

References == RecordRefs /\ LeaseRefs /\ CloserRefs /\ PrivateRefs /\ Begun
-----------------------------------------------------------------------------
(* Threads and program counters are what TypeOK and ProgramCounters say.   *)
LEMMA InitTypes == Init => TypeOK /\ ProgramCounters
  <1> SUFFICES ASSUME Init PROVE TypeOK /\ ProgramCounters
    OBVIOUS
  <1> USE ThreadsAssumption, BoundsAssumption DEF Init, Threads, Shut
  <1>1. TypeOK
    <2>1. loads \in 0..MaxLoads /\ unloads \in 0..MaxUnloads
      OBVIOUS
    <2>2. pc \in [Threads -> RequestPcs \cup AdminPcs \cup ShutPcs]
      BY DEF RequestPcs, AdminPcs, ShutPcs
    <2>3. QED
      BY <2>1, <2>2 DEF TypeOK, States
  <1>2. ProgramCounters
    BY DEF ProgramCounters, RequestPcs, AdminPcs, ShutPcs
  <1>3. QED
    BY <1>1, <1>2

(* No step of a request, an unload or shutdown() changes that.             *)
LEMMA NextTypes == TypeOK /\ ProgramCounters /\ [Next]_vars => TypeOK' /\ ProgramCounters'
  <1> SUFFICES ASSUME TypeOK, ProgramCounters, [Next]_vars
               PROVE  TypeOK' /\ ProgramCounters'
    OBVIOUS
  <1> USE ModelsAssumption, ThreadsAssumption, BoundsAssumption
      DEF TypeOK, ProgramCounters, Threads, RequestPcs, AdminPcs, ShutPcs, Shut,
          records, locals, rest, Goto, GotoAndNotify, Unlock, Touch, Lease, States
  <1>1. ASSUME NEW t \in Requests, NEW m \in Models, StartLoad(t, m)
        PROVE  TypeOK' /\ ProgramCounters'
    BY <1>1 DEF StartLoad
  <1>2. ASSUME NEW t \in Requests, EnterLoad(t)
        PROVE  TypeOK' /\ ProgramCounters'
    BY <1>2 DEF EnterLoad
  <1>3. ASSUME NEW t \in Requests, ReserveRaises(t)
        PROVE  TypeOK' /\ ProgramCounters'
    BY <1>3 DEF ReserveRaises
  <1>4. ASSUME NEW t \in Requests, ReserveSlot(t)
        PROVE  TypeOK' /\ ProgramCounters'
    BY <1>4 DEF ReserveSlot
  <1>5. ASSUME NEW t \in Requests, EvictBegin(t)
        PROVE  TypeOK' /\ ProgramCounters'
    BY <1>5 DEF EvictBegin, Idle
  <1>6. ASSUME NEW t \in Requests, WaitForCapacity(t)
        PROVE  TypeOK' /\ ProgramCounters'
    BY <1>6 DEF WaitForCapacity
  <1>7. ASSUME NEW t \in Requests, EvictDone(t)
        PROVE  TypeOK' /\ ProgramCounters'
    BY <1>7 DEF EvictDone
  <1>8. ASSUME NEW t \in Requests, EvictFailed(t)
        PROVE  TypeOK' /\ ProgramCounters'
    BY <1>8 DEF EvictFailed
  <1>9. ASSUME NEW t \in Requests, LoaderReturns(t)
        PROVE  TypeOK' /\ ProgramCounters'
    BY <1>9 DEF LoaderReturns
  <1>10. ASSUME NEW t \in Requests, LoaderRaises(t)
         PROVE  TypeOK' /\ ProgramCounters'
    BY <1>10 DEF LoaderRaises
  <1>11. ASSUME NEW t \in Requests, Publish(t)
         PROVE  TypeOK' /\ ProgramCounters'
    <2>1. CASE closed
      BY <1>11, <2>1 DEF Publish
    <2>2. CASE ~closed
      <3>1. older' \subseteq Models \X Models
        BY <1>11, <2>2 DEF Publish
      <3>2. ProgramCounters'
        BY <1>11, <2>2 DEF Publish
      <3>3. state' \in [Models -> States]
        BY <1>11, <2>2 DEF Publish
      <3>4. closeFailed' \in [Models -> BOOLEAN]
        BY <1>11, <2>2 DEF Publish
      <3>5. loadLock' \in [Models -> Threads \cup {None}]
        BY <1>11, <2>2 DEF Publish
      <3>6. /\ runtime' \in [Models -> RuntimeIds \cup {None}]
            /\ held' \in [Threads -> RuntimeIds \cup {None}]
        BY <1>11, <2>2 DEF Publish
      <3>7. active' \in [Models -> Nat]
        BY <1>11, <2>2 DEF Publish
      <3>8. pc' \in [Threads -> RequestPcs \cup AdminPcs \cup ShutPcs]
        BY <1>11, <2>2 DEF Publish
      <3>9. UNCHANGED <<closed, tgt, cand, life, made, loads, unloads, toClose>>
        BY <1>11 DEF Publish
      <3>10. QED
        BY <3>1, <3>2, <3>3, <3>4, <3>5, <3>6, <3>7, <3>8, <3>9
    <2>3. QED
      BY <2>1, <2>2
  <1>12. ASSUME NEW t \in Requests, Abandon(t)
         PROVE  TypeOK' /\ ProgramCounters'
    <2>1. life' \in [RuntimeIds -> {"absent", "open", "closing", "closed", "failed"}]
      BY <1>12 DEF Abandon
    <2>2. ProgramCounters'
      BY <1>12 DEF Abandon
    <2>3. QED
      BY <1>12, <2>1, <2>2 DEF Abandon
  <1>13. ASSUME NEW t \in Requests, Release(t)
         PROVE  TypeOK' /\ ProgramCounters'
    BY <1>13 DEF Release
  <1>14. ASSUME NEW t \in Requests, ReleaseAgain(t)
         PROVE  TypeOK' /\ ProgramCounters'
    BY <1>14 DEF ReleaseAgain
  <1>15. ASSUME NEW t \in Admins, NEW m \in Models, StartUnload(t, m)
         PROVE  TypeOK' /\ ProgramCounters'
    BY <1>15 DEF StartUnload
  <1>16. ASSUME NEW t \in Admins, AdminStep(t)
         PROVE  TypeOK' /\ ProgramCounters'
    <2>1. CASE EnterUnload(t)
      BY <2>1 DEF EnterUnload
    <2>2. CASE UnloadDone(t)
      BY <2>2 DEF UnloadDone
    <2>3. CASE UnloadFailed(t)
      BY <2>3 DEF UnloadFailed
    <2>4. QED
      BY <1>16, <2>1, <2>2, <2>3 DEF AdminStep
  <1>17. CASE ShutdownBegin
    BY <1>17 DEF ShutdownBegin
  <1>18. CASE ShutdownStep
    <2>1. ASSUME NEW m \in Models, ShutdownVisit(m)
          PROVE  TypeOK' /\ ProgramCounters'
      BY <2>1 DEF ShutdownVisit
    <2>2. CASE ShutdownClosed
      <3>1. life' \in [RuntimeIds -> {"absent", "open", "closing", "closed", "failed"}]
        BY <2>2 DEF ShutdownClosed
      <3>2. ProgramCounters'
        BY <2>2 DEF ShutdownClosed
      <3>3. QED
        BY <2>2, <3>1, <3>2 DEF ShutdownClosed
    <2>3. CASE ShutdownCallbacks
      BY <2>3 DEF ShutdownCallbacks
    <2>4. QED
      BY <1>18, <2>1, <2>2, <2>3 DEF ShutdownStep
  <1>19. CASE UNCHANGED vars
    BY <1>19 DEF vars
  <1>20. QED
    BY <1>1, <1>2, <1>3, <1>4, <1>5, <1>6, <1>7, <1>8, <1>9, <1>10, <1>11, <1>12,
       <1>13, <1>14, <1>15, <1>16, <1>17, <1>18, <1>19 DEF Next, RequestStep

(* Every variable keeps its type, whatever the threads do.                 *)
THEOREM TypeCorrect == Spec => []TypeOK
  <1>1. Spec => [](TypeOK /\ ProgramCounters)
    BY InitTypes, NextTypes, PTL DEF Spec
  <1>2. QED
    BY <1>1, PTL
-----------------------------------------------------------------------------
(* The leases of a model can be counted.                                   *)
LEMMA LesseesFinite ==
  \A m \in Models : IsFiniteSet(Lessees(m)) /\ Cardinality(Lessees(m)) \in Nat
  BY ThreadsAssumption, FS_Subset, FS_CardinalityType DEF Lessees

(* A model whose active_requests is 0 is leased by nobody.                 *)
LEMMA NoLessee ==
  ASSUME LeaseAccounting, NEW m \in Models, active[m] = 0
  PROVE  Lessees(m) = {}
  BY LesseesFinite, FS_EmptySet DEF LeaseAccounting

(* A step in which t becomes a lessee of m and m's count goes up by one.   *)
LEMMA AccountLease ==
  ASSUME LeaseAccounting, TypeOK,
         NEW t \in Requests, NEW m \in Models, pc[t] # "leased",
         \A x \in Models : Lessees(x)' = IF x = m THEN Lessees(x) \cup {t} ELSE Lessees(x),
         active' = [active EXCEPT ![m] = @ + 1]
  PROVE  LeaseAccounting'
  <1>1. t \notin Lessees(m)
    BY DEF Lessees
  <1>2. Cardinality(Lessees(m) \cup {t}) = Cardinality(Lessees(m)) + 1
    BY <1>1, LesseesFinite, FS_AddElement
  <1>3. ASSUME NEW x \in Models PROVE active'[x] = Cardinality(Lessees(x)')
    BY <1>2 DEF LeaseAccounting, TypeOK
  <1>4. QED
    BY <1>3 DEF LeaseAccounting

(* A step in which t is no longer a lessee of m and m's count goes down.   *)
LEMMA AccountRelease ==
  ASSUME LeaseAccounting, TypeOK,
         NEW t \in Requests, NEW m \in Models, t \in Lessees(m),
         \A x \in Models : Lessees(x)' = IF x = m THEN Lessees(x) \ {t} ELSE Lessees(x),
         active' = [active EXCEPT ![m] = IF @ > 0 THEN @ - 1 ELSE @]
  PROVE  LeaseAccounting'
  <1>1. /\ IsFiniteSet(Lessees(m) \ {t})
        /\ Cardinality(Lessees(m) \ {t}) = Cardinality(Lessees(m)) - 1
    BY LesseesFinite, FS_RemoveElement
  <1>2. Cardinality(Lessees(m) \ {t}) \in Nat
    BY <1>1, FS_CardinalityType
  <1>3. active[m] > 0
    BY <1>1, <1>2, LesseesFinite DEF LeaseAccounting
  <1>4. ASSUME NEW x \in Models PROVE active'[x] = Cardinality(Lessees(x)')
    BY <1>1, <1>3 DEF LeaseAccounting, TypeOK
  <1>5. QED
    BY <1>4 DEF LeaseAccounting

(* A step that changes neither who holds a lease nor any count.            *)
LEMMA AccountSame ==
  ASSUME LeaseAccounting,
         \A x \in Models : Lessees(x)' = Lessees(x),
         active' = active
  PROVE  LeaseAccounting'
  BY DEF LeaseAccounting

(* Only load() and release() change a count, and each with the lease       *)
(* itself; a second release() of a lease changes neither.                  *)
LEMMA NextAccounting ==
  TypeOK /\ ProgramCounters /\ LeaseAccounting /\ [Next]_vars => LeaseAccounting'
  <1> SUFFICES ASSUME TypeOK, ProgramCounters, LeaseAccounting, [Next]_vars
               PROVE  LeaseAccounting'
    OBVIOUS
  <1> USE ModelsAssumption, ThreadsAssumption
      DEF TypeOK, ProgramCounters, Threads, Shut, RequestPcs, AdminPcs, ShutPcs,
          Lessees, records, locals, rest, Goto, GotoAndNotify
  <1>1. ASSUME NEW t \in Requests, NEW m \in Models, StartLoad(t, m)
        PROVE  LeaseAccounting'
    <2>1. (\A x \in Models : Lessees(x)' = Lessees(x)) /\ active' = active
      BY <1>1 DEF StartLoad
    <2>2. QED
      BY <2>1, AccountSame
  <1>2. ASSUME NEW t \in Requests, EnterLoad(t) PROVE LeaseAccounting'
    <2>1. CASE pc'[t] = "leased"
      <3>1. /\ pc[t] # "leased"
            /\ tgt[t] \in Models
            /\ active' = [active EXCEPT ![tgt[t]] = @ + 1]
        BY <1>2, <2>1 DEF EnterLoad, Lease
      <3>2. \A x \in Models :
              Lessees(x)' = IF x = tgt[t] THEN Lessees(x) \cup {t} ELSE Lessees(x)
        BY <1>2, <2>1 DEF EnterLoad
      <3> HIDE DEF TypeOK, Lessees
      <3>3. QED
        BY <3>1, <3>2, AccountLease
    <2>2. CASE pc'[t] # "leased"
      <3>1. (\A x \in Models : Lessees(x)' = Lessees(x)) /\ active' = active
        BY <1>2, <2>2 DEF EnterLoad
      <3>2. QED
        BY <3>1, AccountSame
    <2>3. QED
      BY <2>1, <2>2
  <1>3. ASSUME NEW t \in Requests, ReserveRaises(t) PROVE LeaseAccounting'
    <2>1. (\A x \in Models : Lessees(x)' = Lessees(x)) /\ active' = active
      BY <1>3 DEF ReserveRaises
    <2>2. QED
      BY <2>1, AccountSame
  <1>4. ASSUME NEW t \in Requests, ReserveSlot(t) PROVE LeaseAccounting'
    <2>1. (\A x \in Models : Lessees(x)' = Lessees(x)) /\ active' = active
      BY <1>4 DEF ReserveSlot
    <2>2. QED
      BY <2>1, AccountSame
  <1>5. ASSUME NEW t \in Requests, EvictBegin(t) PROVE LeaseAccounting'
    <2>1. (\A x \in Models : Lessees(x)' = Lessees(x)) /\ active' = active
      BY <1>5 DEF EvictBegin
    <2>2. QED
      BY <2>1, AccountSame
  <1>6. ASSUME NEW t \in Requests, WaitForCapacity(t) PROVE LeaseAccounting'
    <2>1. (\A x \in Models : Lessees(x)' = Lessees(x)) /\ active' = active
      BY <1>6 DEF WaitForCapacity
    <2>2. QED
      BY <2>1, AccountSame
  <1>7. ASSUME NEW t \in Requests, EvictDone(t) PROVE LeaseAccounting'
    <2>1. (\A x \in Models : Lessees(x)' = Lessees(x)) /\ active' = active
      BY <1>7 DEF EvictDone
    <2>2. QED
      BY <2>1, AccountSame
  <1>8. ASSUME NEW t \in Requests, EvictFailed(t) PROVE LeaseAccounting'
    <2>1. (\A x \in Models : Lessees(x)' = Lessees(x)) /\ active' = active
      BY <1>8 DEF EvictFailed
    <2>2. QED
      BY <2>1, AccountSame
  <1>9. ASSUME NEW t \in Requests, LoaderReturns(t) PROVE LeaseAccounting'
    <2>1. (\A x \in Models : Lessees(x)' = Lessees(x)) /\ active' = active
      BY <1>9 DEF LoaderReturns
    <2>2. QED
      BY <2>1, AccountSame
  <1>10. ASSUME NEW t \in Requests, LoaderRaises(t) PROVE LeaseAccounting'
    <2>1. (\A x \in Models : Lessees(x)' = Lessees(x)) /\ active' = active
      BY <1>10 DEF LoaderRaises
    <2>2. QED
      BY <2>1, AccountSame
  <1>11. ASSUME NEW t \in Requests, Publish(t) PROVE LeaseAccounting'
    <2>1. CASE closed
      <3>1. (\A x \in Models : Lessees(x)' = Lessees(x)) /\ active' = active
        BY <1>11, <2>1 DEF Publish
      <3>2. QED
        BY <3>1, AccountSame
    <2>2. CASE ~closed
      <3>1. /\ pc[t] # "leased"
            /\ tgt[t] \in Models
            /\ active' = [active EXCEPT ![tgt[t]] = @ + 1]
        BY <1>11, <2>2 DEF Publish, Lease
      <3>2. \A x \in Models :
              Lessees(x)' = IF x = tgt[t] THEN Lessees(x) \cup {t} ELSE Lessees(x)
        BY <1>11, <2>2 DEF Publish
      <3> HIDE DEF TypeOK, Lessees
      <3>3. QED
        BY <3>1, <3>2, AccountLease
    <2>3. QED
      BY <2>1, <2>2
  <1>12. ASSUME NEW t \in Requests, Abandon(t) PROVE LeaseAccounting'
    <2>1. (\A x \in Models : Lessees(x)' = Lessees(x)) /\ active' = active
      BY <1>12 DEF Abandon
    <2>2. QED
      BY <2>1, AccountSame
  <1>13. ASSUME NEW t \in Requests, Release(t) PROVE LeaseAccounting'
    <2>1. /\ tgt[t] \in Models
          /\ t \in Lessees(tgt[t])
          /\ active' = [active EXCEPT ![tgt[t]] = IF @ > 0 THEN @ - 1 ELSE @]
      BY <1>13 DEF Release
    <2>2. \A x \in Models :
            Lessees(x)' = IF x = tgt[t] THEN Lessees(x) \ {t} ELSE Lessees(x)
      BY <1>13 DEF Release
    <2> HIDE DEF TypeOK, Lessees
    <2>3. QED
      BY <2>1, <2>2, AccountRelease
  <1>14. ASSUME NEW t \in Requests, ReleaseAgain(t) PROVE LeaseAccounting'
    <2>1. (\A x \in Models : Lessees(x)' = Lessees(x)) /\ active' = active
      BY <1>14 DEF ReleaseAgain
    <2>2. QED
      BY <2>1, AccountSame
  <1>15. ASSUME NEW t \in Admins, NEW m \in Models, StartUnload(t, m)
         PROVE  LeaseAccounting'
    <2>1. (\A x \in Models : Lessees(x)' = Lessees(x)) /\ active' = active
      BY <1>15 DEF StartUnload
    <2>2. QED
      BY <2>1, AccountSame
  <1>16. ASSUME NEW t \in Admins, AdminStep(t) PROVE LeaseAccounting'
    <2>1. (\A x \in Models : Lessees(x)' = Lessees(x)) /\ active' = active
      BY <1>16 DEF AdminStep, EnterUnload, UnloadDone, UnloadFailed
    <2>2. QED
      BY <2>1, AccountSame
  <1>17. CASE ShutdownBegin
    <2>1. (\A x \in Models : Lessees(x)' = Lessees(x)) /\ active' = active
      BY <1>17 DEF ShutdownBegin
    <2>2. QED
      BY <2>1, AccountSame
  <1>18. CASE ShutdownStep
    <2>1. (\A x \in Models : Lessees(x)' = Lessees(x)) /\ active' = active
      BY <1>18 DEF ShutdownStep, ShutdownVisit, ShutdownClosed,
                ShutdownCallbacks
    <2>2. QED
      BY <2>1, AccountSame
  <1>19. CASE UNCHANGED vars
    <2>1. (\A x \in Models : Lessees(x)' = Lessees(x)) /\ active' = active
      BY <1>19 DEF vars
    <2>2. QED
      BY <2>1, AccountSame
  <1>20. QED
    BY <1>1, <1>2, <1>3, <1>4, <1>5, <1>6, <1>7, <1>8, <1>9, <1>10, <1>11, <1>12,
       <1>13, <1>14, <1>15, <1>16, <1>17, <1>18, <1>19 DEF Next, RequestStep

(* active_requests counts the leases exactly, for any number of threads.   *)
THEOREM AccountingCorrect == Spec => []LeaseAccounting
  <1>1. Init => LeaseAccounting
    <2> SUFFICES ASSUME Init, NEW m \in Models PROVE active[m] = Cardinality(Lessees(m))
      BY DEF LeaseAccounting
    <2>1. Lessees(m) = {}
      BY ThreadsAssumption DEF Init, Lessees, Threads
    <2>2. QED
      BY <2>1, FS_EmptySet DEF Init
  <1>2. Spec => [](TypeOK /\ ProgramCounters /\ LeaseAccounting)
    BY <1>1, InitTypes, NextTypes, NextAccounting, PTL DEF Spec
  <1>3. QED
    BY <1>2, PTL
-----------------------------------------------------------------------------
(* Every reference to a runtime is one of those References allows.         *)
LEMMA InitReferences == Init => References
  BY ThreadsAssumption
     DEF Init, References, RecordRefs, LeaseRefs, CloserRefs, PrivateRefs, Begun,
         Closing, Private, Threads, Shut

(* No step hands out a runtime twice: load() publishes the one its loader  *)
(* made, eviction, unload() and shutdown() take one out of its record      *)
(* before they close it, and the first two only when nobody leases it.     *)
LEMMA NextReferences ==
  TypeOK /\ ProgramCounters /\ LeaseAccounting /\ References /\ [Next]_vars => References'
  <1> SUFFICES ASSUME TypeOK, ProgramCounters, LeaseAccounting, References, [Next]_vars
               PROVE  References'
    OBVIOUS
  <1>0. \A m \in Models : active[m] = 0 =>
          \A t \in Requests : ~(pc[t] = "leased" /\ tgt[t] = m)
    BY NoLessee DEF Lessees
  <1>a. None \notin RuntimeIds
    BY BoundsAssumption DEF RuntimeIds
  <1> USE ModelsAssumption, ThreadsAssumption, BoundsAssumption
      DEF TypeOK, ProgramCounters, Threads, Shut, RequestPcs, AdminPcs, ShutPcs,
          RecordRefs, LeaseRefs, CloserRefs, PrivateRefs, Begun, References,
          Unpublished,
          Closing, From, Private, records, locals, rest, Goto, GotoAndNotify
  <1>1. ASSUME NEW t \in Requests, NEW m \in Models, StartLoad(t, m)
        PROVE  References'
    <2>1. RecordRefs'
      BY <1>1 DEF StartLoad
    <2>2. LeaseRefs'
      BY <1>1 DEF StartLoad
    <2>3. CloserRefs'
      BY <1>1 DEF StartLoad
    <2>4. PrivateRefs'
      BY <1>1 DEF StartLoad
    <2>5. Begun'
      BY <1>1 DEF StartLoad
    <2>6. QED
      BY <2>1, <2>2, <2>3, <2>4, <2>5 DEF References
  <1>2. ASSUME NEW t \in Requests, EnterLoad(t) PROVE References'
    <2>1. RecordRefs'
      BY <1>2 DEF EnterLoad, Lease
    <2>2. LeaseRefs'
      BY <1>2 DEF EnterLoad, Lease
    <2>3. CloserRefs'
      BY <1>2 DEF EnterLoad, Lease
    <2>4. PrivateRefs'
      BY <1>2 DEF EnterLoad, Lease
    <2>5. Begun'
      BY <1>2 DEF EnterLoad, Lease
    <2>6. QED
      BY <2>1, <2>2, <2>3, <2>4, <2>5 DEF References
  <1>3. ASSUME NEW t \in Requests, ReserveRaises(t) PROVE References'
    <2>1. RecordRefs'
      BY <1>3 DEF ReserveRaises
    <2>2. LeaseRefs'
      BY <1>3 DEF ReserveRaises
    <2>3. CloserRefs'
      BY <1>3 DEF ReserveRaises
    <2>4. PrivateRefs'
      BY <1>3 DEF ReserveRaises
    <2>5. Begun'
      BY <1>3 DEF ReserveRaises
    <2>6. QED
      BY <2>1, <2>2, <2>3, <2>4, <2>5 DEF References
  <1>4. ASSUME NEW t \in Requests, ReserveSlot(t) PROVE References'
    <2>1. RecordRefs'
      BY <1>4 DEF ReserveSlot
    <2>2. LeaseRefs'
      BY <1>4 DEF ReserveSlot
    <2>3. CloserRefs'
      BY <1>4 DEF ReserveSlot
    <2>4. PrivateRefs'
      BY <1>4 DEF ReserveSlot
    <2>5. Begun'
      BY <1>4 DEF ReserveSlot
    <2>6. QED
      BY <2>1, <2>2, <2>3, <2>4, <2>5 DEF References
  <1>5. ASSUME NEW t \in Requests, EvictBegin(t) PROVE References'
    <2>1. RecordRefs'
      BY <1>0, <1>5 DEF EvictBegin, Idle
    <2>2. LeaseRefs'
      BY <1>0, <1>5 DEF EvictBegin, Idle
    <2>3. CloserRefs'
      BY <1>0, <1>5 DEF EvictBegin, Idle
    <2>4. PrivateRefs'
      <3> SUFFICES ASSUME NEW u \in Threads, Private(u)' PROVE Unpublished(u)'
        BY DEF PrivateRefs
      <3>1. Private(u) /\ held'[u] = held[u] /\ tgt'[u] = tgt[u]
        BY <1>5 DEF EvictBegin, Idle
      <3>2. life'[held[u]] = "open" /\ made' = made
        BY <1>5, <3>1 DEF EvictBegin, Idle
      <3>3. \A m1 \in Models : runtime'[m1] # held[u]
        BY <1>5, <1>a, <3>1 DEF EvictBegin, Idle
      <3>4. \A v \in Requests : pc'[v] = "leased" => pc[v] = "leased" /\ held'[v] = held[v]
        BY <1>5 DEF EvictBegin, Idle
      <3>5. \A v \in Threads : Private(v)' => Private(v) /\ held'[v] = held[v]
        BY <1>5 DEF EvictBegin, Idle
      <3>6. QED
        BY <3>1, <3>2, <3>3, <3>4, <3>5
    <2>5. Begun'
      BY <1>0, <1>5 DEF EvictBegin, Idle
    <2>6. QED
      BY <2>1, <2>2, <2>3, <2>4, <2>5 DEF References
  <1>6. ASSUME NEW t \in Requests, WaitForCapacity(t) PROVE References'
    <2>1. RecordRefs'
      BY <1>6 DEF WaitForCapacity
    <2>2. LeaseRefs'
      BY <1>6 DEF WaitForCapacity
    <2>3. CloserRefs'
      BY <1>6 DEF WaitForCapacity
    <2>4. PrivateRefs'
      BY <1>6 DEF WaitForCapacity
    <2>5. Begun'
      BY <1>6 DEF WaitForCapacity
    <2>6. QED
      BY <2>1, <2>2, <2>3, <2>4, <2>5 DEF References
  <1>7. ASSUME NEW t \in Requests, EvictDone(t) PROVE References'
    <2>1. RecordRefs'
      BY <1>7 DEF EvictDone
    <2>2. LeaseRefs'
      BY <1>7 DEF EvictDone
    <2>3. CloserRefs'
      BY <1>7 DEF EvictDone
    <2>4. PrivateRefs'
      BY <1>7 DEF EvictDone
    <2>5. Begun'
      BY <1>7 DEF EvictDone
    <2>6. QED
      BY <2>1, <2>2, <2>3, <2>4, <2>5 DEF References
  <1>8. ASSUME NEW t \in Requests, EvictFailed(t) PROVE References'
    <2>1. RecordRefs'
      BY <1>8 DEF EvictFailed
    <2>2. LeaseRefs'
      BY <1>8 DEF EvictFailed
    <2>3. CloserRefs'
      BY <1>8 DEF EvictFailed
    <2>4. PrivateRefs'
      BY <1>8 DEF EvictFailed
    <2>5. Begun'
      BY <1>8 DEF EvictFailed
    <2>6. QED
      BY <2>1, <2>2, <2>3, <2>4, <2>5 DEF References
  <1>9. ASSUME NEW t \in Requests, LoaderReturns(t) PROVE References'
    <2>1. RecordRefs'
      BY <1>9 DEF LoaderReturns
    <2>2. LeaseRefs'
      BY <1>9 DEF LoaderReturns
    <2>3. CloserRefs'
      BY <1>9 DEF LoaderReturns
    <2>4. PrivateRefs'
      <3>1. PICK r \in RuntimeIds :
              /\ life[r] = "absent"
              /\ life' = [life EXCEPT ![r] = "open"]
              /\ made' = [made EXCEPT ![r] = tgt[t]]
              /\ held' = [held EXCEPT ![t] = r]
        BY <1>9 DEF LoaderReturns
      <3>2. \A m \in Models : runtime'[m] # r
        BY <1>9, <1>a, <3>1 DEF LoaderReturns
      <3>3. \A v \in Requests : pc'[v] = "leased" =>
              pc[v] = "leased" /\ held'[v] = held[v] /\ held[v] # r
        BY <1>9, <3>1 DEF LoaderReturns
      <3>4. \A v \in Threads : Private(v)' /\ v # t =>
              Private(v) /\ held'[v] = held[v] /\ held[v] # r
        BY <1>9, <3>1 DEF LoaderReturns
      <3>5. Unpublished(t)'
        BY <1>9, <3>1, <3>2, <3>3, <3>4 DEF LoaderReturns
      <3>6. ASSUME NEW v \in Threads, Private(v)', v # t PROVE Unpublished(v)'
        BY <1>9, <3>1, <3>3, <3>4, <3>6 DEF LoaderReturns
      <3>7. QED
        BY <3>5, <3>6
    <2>5. Begun'
      BY <1>9 DEF LoaderReturns
    <2>6. QED
      BY <2>1, <2>2, <2>3, <2>4, <2>5 DEF References
  <1>10. ASSUME NEW t \in Requests, LoaderRaises(t) PROVE References'
    <2>1. RecordRefs'
      BY <1>10 DEF LoaderRaises
    <2>2. LeaseRefs'
      BY <1>10 DEF LoaderRaises
    <2>3. CloserRefs'
      BY <1>10 DEF LoaderRaises
    <2>4. PrivateRefs'
      BY <1>10 DEF LoaderRaises
    <2>5. Begun'
      BY <1>10 DEF LoaderRaises
    <2>6. QED
      BY <2>1, <2>2, <2>3, <2>4, <2>5 DEF References
  <1>11. ASSUME NEW t \in Requests, Publish(t) PROVE References'
    <2>1. RecordRefs'
      BY <1>11 DEF Publish, Lease
    <2>2. LeaseRefs'
      BY <1>11 DEF Publish, Lease
    <2>3. CloserRefs'
      BY <1>11 DEF Publish, Lease
    <2>4. PrivateRefs'
      BY <1>11 DEF Publish, Lease
    <2>5. Begun'
      BY <1>11 DEF Publish, Lease
    <2>6. QED
      BY <2>1, <2>2, <2>3, <2>4, <2>5 DEF References
  <1>12. ASSUME NEW t \in Requests, Abandon(t) PROVE References'
    <2>1. RecordRefs'
      BY <1>12 DEF Abandon
    <2>2. LeaseRefs'
      BY <1>12 DEF Abandon
    <2>3. CloserRefs'
      BY <1>12 DEF Abandon
    <2>4. PrivateRefs'
      BY <1>12 DEF Abandon
    <2>5. Begun'
      BY <1>12 DEF Abandon
    <2>6. QED
      BY <2>1, <2>2, <2>3, <2>4, <2>5 DEF References
  <1>13. ASSUME NEW t \in Requests, Release(t) PROVE References'
    <2>1. RecordRefs'
      BY <1>13 DEF Release
    <2>2. LeaseRefs'
      BY <1>13 DEF Release
    <2>3. CloserRefs'
      BY <1>13 DEF Release
    <2>4. PrivateRefs'
      BY <1>13 DEF Release
    <2>5. Begun'
      BY <1>13 DEF Release
    <2>6. QED
      BY <2>1, <2>2, <2>3, <2>4, <2>5 DEF References
  <1>14. ASSUME NEW t \in Requests, ReleaseAgain(t) PROVE References'
    <2>1. RecordRefs'
      BY <1>14 DEF ReleaseAgain
    <2>2. LeaseRefs'
      BY <1>14 DEF ReleaseAgain
    <2>3. CloserRefs'
      BY <1>14 DEF ReleaseAgain
    <2>4. PrivateRefs'
      BY <1>14 DEF ReleaseAgain
    <2>5. Begun'
      BY <1>14 DEF ReleaseAgain
    <2>6. QED
      BY <2>1, <2>2, <2>3, <2>4, <2>5 DEF References
  <1>15. ASSUME NEW t \in Admins, NEW m \in Models, StartUnload(t, m)
         PROVE  References'
    <2>1. RecordRefs'
      BY <1>15 DEF StartUnload
    <2>2. LeaseRefs'
      BY <1>15 DEF StartUnload
    <2>3. CloserRefs'
      BY <1>15 DEF StartUnload
    <2>4. PrivateRefs'
      BY <1>15 DEF StartUnload
    <2>5. Begun'
      BY <1>15 DEF StartUnload
    <2>6. QED
      BY <2>1, <2>2, <2>3, <2>4, <2>5 DEF References
  <1>16. ASSUME NEW t \in Admins, EnterUnload(t) PROVE References'
    <2>1. RecordRefs'
      BY <1>0, <1>16 DEF EnterUnload
    <2>2. LeaseRefs'
      BY <1>0, <1>16 DEF EnterUnload
    <2>3. CloserRefs'
      BY <1>0, <1>16 DEF EnterUnload
    <2>4. PrivateRefs'
      <3> SUFFICES ASSUME NEW u \in Threads, Private(u)' PROVE Unpublished(u)'
        BY DEF PrivateRefs
      <3>1. Private(u) /\ held'[u] = held[u] /\ tgt'[u] = tgt[u]
        BY <1>16 DEF EnterUnload
      <3>2. life'[held[u]] = "open" /\ made' = made
        BY <1>16, <3>1 DEF EnterUnload
      <3>3. \A m1 \in Models : runtime'[m1] # held[u]
        BY <1>16, <1>a, <3>1 DEF EnterUnload
      <3>4. \A v \in Requests : pc'[v] = "leased" => pc[v] = "leased" /\ held'[v] = held[v]
        BY <1>16 DEF EnterUnload
      <3>5. \A v \in Threads : Private(v)' => Private(v) /\ held'[v] = held[v]
        BY <1>16 DEF EnterUnload
      <3>6. QED
        BY <3>1, <3>2, <3>3, <3>4, <3>5
    <2>5. Begun'
      BY <1>0, <1>16 DEF EnterUnload
    <2>6. QED
      BY <2>1, <2>2, <2>3, <2>4, <2>5 DEF References
  <1>17. ASSUME NEW t \in Admins, UnloadDone(t) PROVE References'
    <2>1. RecordRefs'
      BY <1>17 DEF UnloadDone
    <2>2. LeaseRefs'
      BY <1>17 DEF UnloadDone
    <2>3. CloserRefs'
      BY <1>17 DEF UnloadDone
    <2>4. PrivateRefs'
      BY <1>17 DEF UnloadDone
    <2>5. Begun'
      BY <1>17 DEF UnloadDone
    <2>6. QED
      BY <2>1, <2>2, <2>3, <2>4, <2>5 DEF References
  <1>18. ASSUME NEW t \in Admins, UnloadFailed(t) PROVE References'
    <2>1. RecordRefs'
      BY <1>18 DEF UnloadFailed
    <2>2. LeaseRefs'
      BY <1>18 DEF UnloadFailed
    <2>3. CloserRefs'
      BY <1>18 DEF UnloadFailed
    <2>4. PrivateRefs'
      BY <1>18 DEF UnloadFailed
    <2>5. Begun'
      BY <1>18 DEF UnloadFailed
    <2>6. QED
      BY <2>1, <2>2, <2>3, <2>4, <2>5 DEF References
  <1>19. CASE ShutdownBegin
    <2>1. RecordRefs'
      BY <1>19 DEF ShutdownBegin
    <2>2. LeaseRefs'
      BY <1>19 DEF ShutdownBegin
    <2>3. CloserRefs'
      BY <1>19 DEF ShutdownBegin
    <2>4. PrivateRefs'
      BY <1>19 DEF ShutdownBegin
    <2>5. Begun'
      BY <1>19 DEF ShutdownBegin
    <2>6. QED
      BY <2>1, <2>2, <2>3, <2>4, <2>5 DEF References
  <1>20. ASSUME NEW m \in Models, ShutdownVisit(m) PROVE References'
    <2>1. RecordRefs'
      BY <1>20 DEF ShutdownVisit
    <2>2. LeaseRefs'
      BY <1>20 DEF ShutdownVisit
    <2>3. CloserRefs'
      BY <1>20 DEF ShutdownVisit
    <2>4. PrivateRefs'
      <3> SUFFICES ASSUME NEW u \in Threads, Private(u)' PROVE Unpublished(u)'
        BY DEF PrivateRefs
      <3>1. Private(u) /\ held'[u] = held[u] /\ tgt'[u] = tgt[u]
        BY <1>20 DEF ShutdownVisit
      <3>2. life'[held[u]] = "open" /\ made' = made
        BY <1>20, <3>1 DEF ShutdownVisit
      <3>3. \A m1 \in Models : runtime'[m1] # held[u]
        BY <1>20, <1>a, <3>1 DEF ShutdownVisit
      <3>4. \A v \in Requests : pc'[v] = "leased" => pc[v] = "leased" /\ held'[v] = held[v]
        BY <1>20 DEF ShutdownVisit
      <3>5. \A v \in Threads : Private(v)' => Private(v) /\ held'[v] = held[v]
        BY <1>20 DEF ShutdownVisit
      <3>6. QED
        BY <3>1, <3>2, <3>3, <3>4, <3>5
    <2>5. Begun'
      BY <1>20 DEF ShutdownVisit
    <2>6. QED
      BY <2>1, <2>2, <2>3, <2>4, <2>5 DEF References
  <1>21. CASE ShutdownClosed
    <2>1. RecordRefs'
      BY <1>21 DEF ShutdownClosed
    <2>2. LeaseRefs'
      BY <1>21 DEF ShutdownClosed
    <2>3. CloserRefs'
      BY <1>21 DEF ShutdownClosed
    <2>4. PrivateRefs'
      BY <1>21 DEF ShutdownClosed
    <2>5. Begun'
      BY <1>21 DEF ShutdownClosed
    <2>6. QED
      BY <2>1, <2>2, <2>3, <2>4, <2>5 DEF References
  <1>22. CASE ShutdownCallbacks
    <2>1. RecordRefs'
      BY <1>22 DEF ShutdownCallbacks
    <2>2. LeaseRefs'
      BY <1>22 DEF ShutdownCallbacks
    <2>3. CloserRefs'
      BY <1>22 DEF ShutdownCallbacks
    <2>4. PrivateRefs'
      BY <1>22 DEF ShutdownCallbacks
    <2>5. Begun'
      BY <1>22 DEF ShutdownCallbacks
    <2>6. QED
      BY <2>1, <2>2, <2>3, <2>4, <2>5 DEF References
  <1>23. CASE UNCHANGED vars
    BY <1>23 DEF vars
  <1>24. QED
    BY <1>1, <1>2, <1>3, <1>4, <1>5, <1>6, <1>7, <1>8, <1>9, <1>10, <1>11, <1>12,
       <1>13, <1>14, <1>15, <1>16, <1>17, <1>18, <1>19, <1>20, <1>21, <1>22, <1>23
       DEF Next, RequestStep, AdminStep, ShutdownStep

(* No request computes on a runtime that is closed, or being closed, under *)
(* it, for any number of models and threads and any max_loaded_models.     *)
THEOREM LeasesSafe == Spec => []LeaseSafety
  <1>1. Init => References
    BY InitReferences
  <1>2. LeaseRefs => LeaseSafety
    BY DEF LeaseRefs, LeaseSafety
  <1>3. Spec => []LeaseAccounting
    BY AccountingCorrect
  <1>4. Spec => [](TypeOK /\ ProgramCounters /\ References)
    BY <1>1, <1>3, InitTypes, NextTypes, NextReferences, PTL DEF Spec
  <1>5. QED
    BY <1>2, <1>4, PTL DEF References
-----------------------------------------------------------------------------
(* What makes RuntimesAccounted inductive when the budget is one runtime.  *)
(* At most one runtime object is alive or being created at any time,       *)
OneRuntime ==
  /\ \A r, q \in LiveRuntimes : r = q
  /\ \A t, u \in Loaders : t = u
  /\ LiveRuntimes = {} \/ Loaders = {}

(* until shutdown() its record is counted as resident, which is what keeps *)
(* every other thread from making one,                                     *)
Counted ==
  ~closed => /\ \A r \in LiveRuntimes : made[r] \in Resident
             /\ \A t \in Loaders : state[tgt[t]] = "loading"

(* a failed one can be neither evicted, unloaded nor leased (only after    *)
(* shutdown() began is a runtime abandoned unpublished),                   *)
Quarantined ==
  /\ ~closed => \A r \in RuntimeIds : life[r] = "failed" =>
       /\ state[made[r]] = "unavailable" /\ closeFailed[made[r]]
       /\ \A t \in Requests : pc[t] = "leased" => held[t] # r
  /\ \A t \in Requests : pc[t] = "abandon" => closed

(* an open one is in its record or with the thread that will publish it,   *)
Owned ==
  \A r \in RuntimeIds : life[r] = "open" =>
    \/ \E m \in Models : runtime[m] = r
    \/ \E t \in Requests : Private(t) /\ held[t] = r

(* and shutdown() leaves no open one in a record it has visited.           *)
Visited ==
  /\ pc[Shut] # "start" =>
       \A m \in Models \ toClose : runtime[m] # None => life[runtime[m]] = "failed"
  /\ pc[Shut] = "closing" /\ runtime[tgt[Shut]] # None => life[runtime[tgt[Shut]]] = "failed"
  /\ pc[Shut] = "done" => toClose = {}

BudgetInv == OneRuntime /\ Counted /\ Quarantined /\ Owned /\ Visited
-----------------------------------------------------------------------------
(* With a budget of one, there is room only when nothing is resident.      *)
LEMMA RoomForOne ==
  ASSUME MaxLoaded = 1, Cardinality(Resident) < MaxLoaded
  PROVE  Resident = {}
  <1>1. IsFiniteSet(Resident)
    BY ModelsAssumption, FS_Subset DEF Resident
  <1>2. Cardinality(Resident) = 0
    BY <1>1, FS_CardinalityType
  <1>3. QED
    BY <1>1, <1>2, FS_EmptySet

(* With a budget of one, no step makes a second runtime, loses one, or     *)
(* leases one that failed its cleanup.                                     *)
LEMMA NextBudget ==
  ASSUME MaxLoaded = 1, TypeOK, ProgramCounters, References, BudgetInv, [Next]_vars
  PROVE  BudgetInv'
  <1>a. None \notin RuntimeIds
    BY BoundsAssumption DEF RuntimeIds
  <1> USE ModelsAssumption, ThreadsAssumption, BoundsAssumption
      DEF TypeOK, ProgramCounters, Threads, Shut, RequestPcs, AdminPcs, ShutPcs,
          RecordRefs, LeaseRefs, CloserRefs, PrivateRefs, Begun, References,
          Unpublished, Closing, From, Private, records, locals, rest, Goto,
          GotoAndNotify, BudgetInv, OneRuntime, Counted, Quarantined, Owned, Visited,
          LiveRuntimes, Loaders
  <1>1. ASSUME NEW t \in Requests, NEW m \in Models, StartLoad(t, m) PROVE BudgetInv'
    <2>1. OneRuntime'
      BY <1>a, <1>1 DEF StartLoad
    <2>2. Counted'
      BY <1>a, <1>1 DEF StartLoad, Resident
    <2>3. Quarantined'
      BY <1>a, <1>1 DEF StartLoad
    <2>4. Owned'
      BY <1>a, <1>1 DEF StartLoad
    <2>5. Visited'
      BY <1>a, <1>1 DEF StartLoad
    <2>6. QED
      BY <2>1, <2>2, <2>3, <2>4, <2>5 DEF BudgetInv
  <1>2. ASSUME NEW t \in Requests, EnterLoad(t) PROVE BudgetInv'
    <2>1. OneRuntime'
      BY <1>a, <1>2 DEF EnterLoad, Lease
    <2>2. Counted'
      BY <1>a, <1>2 DEF EnterLoad, Lease, Resident
    <2>3. Quarantined'
      BY <1>a, <1>2 DEF EnterLoad, Lease
    <2>4. Owned'
      BY <1>a, <1>2 DEF EnterLoad, Lease
    <2>5. Visited'
      BY <1>a, <1>2 DEF EnterLoad, Lease
    <2>6. QED
      BY <2>1, <2>2, <2>3, <2>4, <2>5 DEF BudgetInv
  <1>3. ASSUME NEW t \in Requests, ReserveRaises(t) PROVE BudgetInv'
    <2>1. OneRuntime'
      BY <1>a, <1>3 DEF ReserveRaises
    <2>2. Counted'
      BY <1>a, <1>3 DEF ReserveRaises, Resident
    <2>3. Quarantined'
      BY <1>a, <1>3 DEF ReserveRaises
    <2>4. Owned'
      BY <1>a, <1>3 DEF ReserveRaises
    <2>5. Visited'
      BY <1>a, <1>3 DEF ReserveRaises
    <2>6. QED
      BY <2>1, <2>2, <2>3, <2>4, <2>5 DEF BudgetInv
  <1>4. ASSUME NEW t \in Requests, ReserveSlot(t) PROVE BudgetInv'
    <2>0. ~closed => Resident = {}
      BY <1>4, RoomForOne DEF ReserveSlot
    <2>1. OneRuntime'
      BY <1>a, <2>0, <1>4 DEF ReserveSlot, Resident
    <2>2. Counted'
      BY <1>a, <2>0, <1>4 DEF ReserveSlot, Resident
    <2>3. Quarantined'
      BY <1>a, <2>0, <1>4 DEF ReserveSlot
    <2>4. Owned'
      BY <1>a, <2>0, <1>4 DEF ReserveSlot
    <2>5. Visited'
      BY <1>a, <2>0, <1>4 DEF ReserveSlot
    <2>6. QED
      BY <2>1, <2>2, <2>3, <2>4, <2>5 DEF BudgetInv
  <1>5. ASSUME NEW t \in Requests, EvictBegin(t) PROVE BudgetInv'
    <2>1. OneRuntime'
      BY <1>a, <1>5 DEF EvictBegin, Idle
    <2>2. Counted'
      BY <1>a, <1>5 DEF EvictBegin, Idle, Resident
    <2>3. Quarantined'
      BY <1>a, <1>5 DEF EvictBegin, Idle
    <2>4. Owned'
      BY <1>a, <1>5 DEF EvictBegin, Idle
    <2>5. Visited'
      BY <1>a, <1>5 DEF EvictBegin, Idle
    <2>6. QED
      BY <2>1, <2>2, <2>3, <2>4, <2>5 DEF BudgetInv
  <1>6. ASSUME NEW t \in Requests, WaitForCapacity(t) PROVE BudgetInv'
    <2>1. OneRuntime'
      BY <1>a, <1>6 DEF WaitForCapacity
    <2>2. Counted'
      BY <1>a, <1>6 DEF WaitForCapacity, Resident
    <2>3. Quarantined'
      BY <1>a, <1>6 DEF WaitForCapacity
    <2>4. Owned'
      BY <1>a, <1>6 DEF WaitForCapacity
    <2>5. Visited'
      BY <1>a, <1>6 DEF WaitForCapacity
    <2>6. QED
      BY <2>1, <2>2, <2>3, <2>4, <2>5 DEF BudgetInv
  <1>7. ASSUME NEW t \in Requests, EvictDone(t) PROVE BudgetInv'
    <2>1. OneRuntime'
      BY <1>a, <1>7 DEF EvictDone
    <2>2. Counted'
      BY <1>a, <1>7 DEF EvictDone, Resident
    <2>3. Quarantined'
      BY <1>a, <1>7 DEF EvictDone
    <2>4. Owned'
      BY <1>a, <1>7 DEF EvictDone
    <2>5. Visited'
      BY <1>a, <1>7 DEF EvictDone
    <2>6. QED
      BY <2>1, <2>2, <2>3, <2>4, <2>5 DEF BudgetInv
  <1>8. ASSUME NEW t \in Requests, EvictFailed(t) PROVE BudgetInv'
    <2>1. OneRuntime'
      BY <1>a, <1>8 DEF EvictFailed
    <2>2. Counted'
      BY <1>a, <1>8 DEF EvictFailed, Resident
    <2>3. Quarantined'
      BY <1>a, <1>8 DEF EvictFailed
    <2>4. Owned'
      BY <1>a, <1>8 DEF EvictFailed
    <2>5. Visited'
      BY <1>a, <1>8 DEF EvictFailed
    <2>6. QED
      BY <2>1, <2>2, <2>3, <2>4, <2>5 DEF BudgetInv
  <1>9. ASSUME NEW t \in Requests, LoaderReturns(t) PROVE BudgetInv'
    <2>1. OneRuntime'
      BY <1>a, <1>9 DEF LoaderReturns
    <2>2. Counted'
      BY <1>a, <1>9 DEF LoaderReturns, Resident
    <2>3. Quarantined'
      BY <1>a, <1>9 DEF LoaderReturns
    <2>4. Owned'
      BY <1>a, <1>9 DEF LoaderReturns
    <2>5. Visited'
      BY <1>a, <1>9 DEF LoaderReturns
    <2>6. QED
      BY <2>1, <2>2, <2>3, <2>4, <2>5 DEF BudgetInv
  <1>10. ASSUME NEW t \in Requests, LoaderRaises(t) PROVE BudgetInv'
    <2>1. OneRuntime'
      BY <1>a, <1>10 DEF LoaderRaises
    <2>2. Counted'
      BY <1>a, <1>10 DEF LoaderRaises, Resident
    <2>3. Quarantined'
      BY <1>a, <1>10 DEF LoaderRaises
    <2>4. Owned'
      BY <1>a, <1>10 DEF LoaderRaises
    <2>5. Visited'
      BY <1>a, <1>10 DEF LoaderRaises
    <2>6. QED
      BY <2>1, <2>2, <2>3, <2>4, <2>5 DEF BudgetInv
  <1>11. ASSUME NEW t \in Requests, Publish(t) PROVE BudgetInv'
    <2>1. OneRuntime'
      BY <1>a, <1>11 DEF Publish, Lease
    <2>2. Counted'
      BY <1>a, <1>11 DEF Publish, Lease, Resident
    <2>3. Quarantined'
      BY <1>a, <1>11 DEF Publish, Lease
    <2>4. Owned'
      BY <1>a, <1>11 DEF Publish, Lease
    <2>5. Visited'
      BY <1>a, <1>11 DEF Publish, Lease
    <2>6. QED
      BY <2>1, <2>2, <2>3, <2>4, <2>5 DEF BudgetInv
  <1>12. ASSUME NEW t \in Requests, Abandon(t) PROVE BudgetInv'
    <2>1. OneRuntime'
      BY <1>a, <1>12 DEF Abandon
    <2>2. Counted'
      BY <1>a, <1>12 DEF Abandon, Resident
    <2>3. Quarantined'
      BY <1>a, <1>12 DEF Abandon
    <2>4. Owned'
      BY <1>a, <1>12 DEF Abandon
    <2>5. Visited'
      BY <1>a, <1>12 DEF Abandon
    <2>6. QED
      BY <2>1, <2>2, <2>3, <2>4, <2>5 DEF BudgetInv
  <1>13. ASSUME NEW t \in Requests, Release(t) PROVE BudgetInv'
    <2>1. OneRuntime'
      BY <1>a, <1>13 DEF Release
    <2>2. Counted'
      BY <1>a, <1>13 DEF Release, Resident
    <2>3. Quarantined'
      BY <1>a, <1>13 DEF Release
    <2>4. Owned'
      BY <1>a, <1>13 DEF Release
    <2>5. Visited'
      BY <1>a, <1>13 DEF Release
    <2>6. QED
      BY <2>1, <2>2, <2>3, <2>4, <2>5 DEF BudgetInv
  <1>14. ASSUME NEW t \in Requests, ReleaseAgain(t) PROVE BudgetInv'
    <2>1. OneRuntime'
      BY <1>a, <1>14 DEF ReleaseAgain
    <2>2. Counted'
      BY <1>a, <1>14 DEF ReleaseAgain, Resident
    <2>3. Quarantined'
      BY <1>a, <1>14 DEF ReleaseAgain
    <2>4. Owned'
      BY <1>a, <1>14 DEF ReleaseAgain
    <2>5. Visited'
      BY <1>a, <1>14 DEF ReleaseAgain
    <2>6. QED
      BY <2>1, <2>2, <2>3, <2>4, <2>5 DEF BudgetInv
  <1>15. ASSUME NEW t \in Admins, NEW m \in Models, StartUnload(t, m) PROVE BudgetInv'
    <2>1. OneRuntime'
      BY <1>a, <1>15 DEF StartUnload
    <2>2. Counted'
      BY <1>a, <1>15 DEF StartUnload, Resident
    <2>3. Quarantined'
      BY <1>a, <1>15 DEF StartUnload
    <2>4. Owned'
      BY <1>a, <1>15 DEF StartUnload
    <2>5. Visited'
      BY <1>a, <1>15 DEF StartUnload
    <2>6. QED
      BY <2>1, <2>2, <2>3, <2>4, <2>5 DEF BudgetInv
  <1>16. ASSUME NEW t \in Admins, EnterUnload(t) PROVE BudgetInv'
    <2>1. OneRuntime'
      BY <1>a, <1>16 DEF EnterUnload
    <2>2. Counted'
      BY <1>a, <1>16 DEF EnterUnload, Resident
    <2>3. Quarantined'
      BY <1>a, <1>16 DEF EnterUnload
    <2>4. Owned'
      BY <1>a, <1>16 DEF EnterUnload
    <2>5. Visited'
      BY <1>a, <1>16 DEF EnterUnload
    <2>6. QED
      BY <2>1, <2>2, <2>3, <2>4, <2>5 DEF BudgetInv
  <1>17. ASSUME NEW t \in Admins, UnloadDone(t) PROVE BudgetInv'
    <2>1. OneRuntime'
      BY <1>a, <1>17 DEF UnloadDone
    <2>2. Counted'
      BY <1>a, <1>17 DEF UnloadDone, Resident
    <2>3. Quarantined'
      BY <1>a, <1>17 DEF UnloadDone
    <2>4. Owned'
      BY <1>a, <1>17 DEF UnloadDone
    <2>5. Visited'
      BY <1>a, <1>17 DEF UnloadDone
    <2>6. QED
      BY <2>1, <2>2, <2>3, <2>4, <2>5 DEF BudgetInv
  <1>18. ASSUME NEW t \in Admins, UnloadFailed(t) PROVE BudgetInv'
    <2>1. OneRuntime'
      BY <1>a, <1>18 DEF UnloadFailed
    <2>2. Counted'
      BY <1>a, <1>18 DEF UnloadFailed, Resident
    <2>3. Quarantined'
      BY <1>a, <1>18 DEF UnloadFailed
    <2>4. Owned'
      BY <1>a, <1>18 DEF UnloadFailed
    <2>5. Visited'
      BY <1>a, <1>18 DEF UnloadFailed
    <2>6. QED
      BY <2>1, <2>2, <2>3, <2>4, <2>5 DEF BudgetInv
  <1>19. CASE ShutdownBegin
    <2>1. OneRuntime'
      BY <1>a, <1>19 DEF ShutdownBegin
    <2>2. Counted'
      BY <1>a, <1>19 DEF ShutdownBegin, Resident
    <2>3. Quarantined'
      BY <1>a, <1>19 DEF ShutdownBegin
    <2>4. Owned'
      BY <1>a, <1>19 DEF ShutdownBegin
    <2>5. Visited'
      BY <1>a, <1>19 DEF ShutdownBegin
    <2>6. QED
      BY <2>1, <2>2, <2>3, <2>4, <2>5 DEF BudgetInv
  <1>20. ASSUME NEW m \in Models, ShutdownVisit(m) PROVE BudgetInv'
    <2>1. OneRuntime'
      BY <1>a, <1>20 DEF ShutdownVisit
    <2>2. Counted'
      BY <1>a, <1>20 DEF ShutdownVisit, Resident
    <2>3. Quarantined'
      BY <1>a, <1>20 DEF ShutdownVisit
    <2>4. Owned'
      BY <1>a, <1>20 DEF ShutdownVisit
    <2>5. Visited'
      BY <1>a, <1>20 DEF ShutdownVisit
    <2>6. QED
      BY <2>1, <2>2, <2>3, <2>4, <2>5 DEF BudgetInv
  <1>21. CASE ShutdownClosed
    <2>1. OneRuntime'
      BY <1>a, <1>21 DEF ShutdownClosed
    <2>2. Counted'
      BY <1>a, <1>21 DEF ShutdownClosed, Resident
    <2>3. Quarantined'
      BY <1>a, <1>21 DEF ShutdownClosed
    <2>4. Owned'
      BY <1>a, <1>21 DEF ShutdownClosed
    <2>5. Visited'
      BY <1>a, <1>21 DEF ShutdownClosed
    <2>6. QED
      BY <2>1, <2>2, <2>3, <2>4, <2>5 DEF BudgetInv
  <1>22. CASE ShutdownCallbacks
    <2>1. OneRuntime'
      BY <1>a, <1>22 DEF ShutdownCallbacks
    <2>2. Counted'
      BY <1>a, <1>22 DEF ShutdownCallbacks, Resident
    <2>3. Quarantined'
      BY <1>a, <1>22 DEF ShutdownCallbacks
    <2>4. Owned'
      BY <1>a, <1>22 DEF ShutdownCallbacks
    <2>5. Visited'
      BY <1>a, <1>22 DEF ShutdownCallbacks
    <2>6. QED
      BY <2>1, <2>2, <2>3, <2>4, <2>5 DEF BudgetInv
  <1>23. CASE UNCHANGED vars
    BY <1>23 DEF vars, Resident
  <1>24. QED
    BY <1>1, <1>2, <1>3, <1>4, <1>5, <1>6, <1>7, <1>8, <1>9, <1>10, <1>11, <1>12,
       <1>13, <1>14, <1>15, <1>16, <1>17, <1>18, <1>19, <1>20, <1>21, <1>22, <1>23
       DEF Next, RequestStep, AdminStep, ShutdownStep

(* With the default budget of one runtime, whatever loads, evictions,      *)
(* unloads, failing closes and shutdown() interleave: no two runtimes      *)
(* exist at a time, one that failed its cleanup is never leased again, and *)
(* none is left open once shutdown() is over. With a budget of two,        *)
(* model_manager.py keeps neither the limit nor the last.                  *)
THEOREM OneRuntimeAccounted ==
  ASSUME MaxLoaded = 1
  PROVE  Spec => []RuntimesAccounted
  <1>1. Init => BudgetInv
    BY ThreadsAssumption
       DEF Init, BudgetInv, OneRuntime, Counted, Quarantined, Owned, Visited, LiveRuntimes,
           Loaders, Threads, Shut
  <1>2. TypeOK /\ ProgramCounters /\ References /\ BudgetInv => RuntimesAccounted
    <2> SUFFICES ASSUME TypeOK, ProgramCounters, References, BudgetInv
                 PROVE  RuntimesAccounted
      OBVIOUS
    <2>1. FailedNeverLeased
      BY DEF BudgetInv, Quarantined, References, LeaseRefs, FailedNeverLeased
    <2>2. HardBudget
      <3>1. CASE LiveRuntimes = {} /\ Loaders = {}
        BY <3>1, FS_EmptySet, BoundsAssumption DEF HardBudget
      <3>2. ASSUME NEW r \in LiveRuntimes PROVE HardBudget
        <4>1. LiveRuntimes = {r} /\ Loaders = {}
          BY DEF BudgetInv, OneRuntime
        <4>2. Cardinality({r}) = 1 /\ Cardinality({}) = 0
          BY FS_EmptySet, FS_Singleton
        <4>3. QED
          BY <4>1, <4>2 DEF HardBudget
      <3>3. ASSUME NEW t \in Loaders PROVE HardBudget
        <4>1. Loaders = {t} /\ LiveRuntimes = {}
          BY DEF BudgetInv, OneRuntime
        <4>2. Cardinality({t}) = 1 /\ Cardinality({}) = 0
          BY FS_EmptySet, FS_Singleton
        <4>3. QED
          BY <4>1, <4>2 DEF HardBudget
      <3>4. QED
        BY <3>1, <3>2, <3>3
    <2>3. ShutdownReleasesAll
      <3>1. SUFFICES ASSUME pc[Shut] = "done", \A t \in Requests : pc[t] = "idle",
                            NEW r \in RuntimeIds, life[r] = "open"
                     PROVE  FALSE
        BY DEF ShutdownReleasesAll
      <3>2. PICK m \in Models : runtime[m] = r
        BY <3>1 DEF BudgetInv, Owned, Private
      <3>3. QED
        BY <3>1, <3>2, BoundsAssumption DEF BudgetInv, Visited, RuntimeIds
    <2>4. QED
      BY <2>1, <2>2, <2>3 DEF RuntimesAccounted
  <1>3. Init => References
    BY InitReferences
  <1>4. Spec => []LeaseAccounting
    BY AccountingCorrect
  <1>5. TypeOK /\ ProgramCounters /\ References /\ BudgetInv /\ [Next]_vars => BudgetInv'
    BY NextBudget
  <1>6. Spec => [](TypeOK /\ ProgramCounters /\ References /\ BudgetInv)
    BY <1>1, <1>3, <1>4, <1>5, InitTypes, NextTypes, NextReferences, PTL DEF Spec
  <1>7. QED
    BY <1>2, <1>6, PTL
=============================================================================
