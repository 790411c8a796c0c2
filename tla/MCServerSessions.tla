--------------------------- MODULE MCServerSessions ---------------------------
\* The parts of a server that inference sessions meet (and the session's client)
\* as one instance for TLC.  The parts share no state here: a behaviour is one of
\* the part that was chosen at the start, and the others stay as they began.
EXTENDS MemoryCache, PagedCache, Admission, ActivationPush, InferenceSession

CONSTANTS Parts,            \* which parts have behaviours
          va, vb, vc, vd    \* servers

VARIABLE part

partVars == <<part, cacheVars, pagedVars, admissionVars, pushVars, sessionVars>>

\* All sessions in one handler process, or each in a process of its own.
OneProcess == [s \in Sessions |-> 1]
ProcessEach == [s \in Sessions |-> s]

Span(start, end) == [start |-> start, end |-> end]

\* One server for everything, and ways to replace it or parts of it.
Overlapping == va :> Span(0, 4) @@ vb :> Span(0, 2) @@ vc :> Span(1, 3) @@ vd :> Span(2, 4)

-----------------------------------------------------------------------------
PartsInit ==
  /\ part \in Parts
  /\ CacheInit /\ PagedInit /\ AdmissionInit /\ PushInit /\ SessionInit

PartsNext ==
  /\ UNCHANGED part
  /\ \/ /\ part = "cache" /\ CacheNext
        /\ UNCHANGED <<pagedVars, admissionVars, pushVars, sessionVars>>
     \/ /\ part = "paged" /\ PagedNext
        /\ UNCHANGED <<cacheVars, admissionVars, pushVars, sessionVars>>
     \/ /\ part = "admission" /\ AdmissionNext
        /\ UNCHANGED <<cacheVars, pagedVars, pushVars, sessionVars>>
     \/ /\ part = "push" /\ PushNext
        /\ UNCHANGED <<cacheVars, pagedVars, admissionVars, sessionVars>>
     \/ /\ part = "session" /\ SessionNext
        /\ UNCHANGED <<cacheVars, pagedVars, admissionVars, pushVars>>

PartsSpec == PartsInit /\ [][PartsNext]_partVars

\* The fairness of CacheFairSpec, PushFairSpec and SessionFairSpec.
PartsFairSpec ==
  /\ PartsSpec
  /\ \A s \in Sessions : WF_cacheVars(part = "cache" /\ SessionStep(s))
  /\ WF_cacheVars(part = "cache" /\ (Receive \/ Compute))
  /\ WF_pushVars(part = "push" /\ PushDuty)
  /\ WF_sessionVars(part = "session" /\ (UpdateFails \/ Update \/ FailSend \/ Send \/ Return))
-----------------------------------------------------------------------------
\* Types of the variables of every part.
SessionsTypeOK ==
  CacheTypeOK /\ PagedTypeOK /\ AdmissionTypeOK /\ PushTypeOK /\ SessionTypeOK

\* Whoever waits is released: allocations return or fail, the budget of pushes
\* comes back, and a client's step returns or raises.
WaitsEnd == AllocationsEnd /\ BudgetReturns /\ StepsEnd
=============================================================================
