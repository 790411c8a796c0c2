------------------------------- MODULE SharedKv -------------------------------
(***************************************************************************)
(* Layers that share keys and values (Gemma 4): a donor layer computes the *)
(* K/V of its attention type and the later consumer layers of that type    *)
(* read them.  Within a server they meet in the dictionary of one step,    *)
(* between servers the client carries them (server/block_functions.py,     *)
(* server/backend.py, client/inference_session.py).  A task is sent to the *)
(* runtime through a queue that copies it.                                 *)
(***************************************************************************)
EXTENDS Integers, Sequences, FiniteSets

CONSTANTS
  Chain,       \* the layers: [kind |-> "donor" | "consumer" | "plain", type |-> ...]
  LongSteps,   \* whether steps may exceed the tokens a merged step takes
  MaxKvSteps, MaxKvFaults

\* The layers without keys and values of their own are a model's last ones, and each
\* has the type of an earlier layer that keeps its own for them.
DonorsFirst ==
  \A i \in 1..Len(Chain) :
    Chain[i].kind = "consumer" =>
      \E j \in 1..(i - 1) : Chain[j].kind = "donor" /\ Chain[j].type = Chain[i].type

ASSUME KvAssumption ==
  /\ Len(Chain) \in Nat \ {0} /\ DonorsFirst
  /\ LongSteps \in BOOLEAN /\ MaxKvSteps \in Nat /\ MaxKvFaults \in Nat

VARIABLES
  kstep,     \* the inference step
  kblock,    \* the block the client has come to
  carried,   \* accumulated_shared_kv: the step each type's K/V are of, 0 for none
  job,       \* the request a server works on
  starved,   \* a consumer found no K/V of its type
  kvfaults

kvVars == <<kstep, kblock, carried, job, starved, kvfaults>>

KvTypes == {Chain[i].type : i \in 1..Len(Chain)}
NoKv == [t \in KvTypes |-> 0]
NoJob == [at |-> 0, to |-> 0, merged |-> TRUE, dict |-> NoKv, seeded |-> {}, produced |-> NoKv]
Keys(d) == {t \in KvTypes : d[t] # 0}
Union2(d, e) == [t \in KvTypes |-> IF e[t] # 0 THEN e[t] ELSE d[t]]

KvInit == kstep = 1 /\ kblock = 1 /\ carried = NoKv /\ job = NoJob /\ starved = FALSE /\ kvfaults = 0

\* InferenceSession.step() sends the next span what the spans before it produced;
\* iterate_rpc_inference() seeds the dictionary of the step with it.
SendSpan ==
  /\ job = NoJob /\ kstep <= MaxKvSteps /\ kblock <= Len(Chain)
  /\ \E to \in kblock..Len(Chain), merged \in {TRUE, ~LongSteps} :
       job' = [at |-> kblock, to |-> to, merged |-> merged, dict |-> carried, seeded |-> Keys(carried),
               produced |-> NoKv]
  /\ UNCHANGED <<kstep, kblock, carried, starved, kvfaults>>

\* Gemma4 block: a donor writes its type, a consumer reads its type.
After(layer, d) == IF layer.kind = "donor" THEN [d EXCEPT ![layer.type] = kstep] ELSE d
Starves(layer, d) == layer.kind = "consumer" /\ d[layer.type] # kstep

\* _MergedInferenceStep: one task, whose blocks share one dictionary.
MergedBlock ==
  /\ job # NoJob /\ job.merged /\ job.at <= job.to
  /\ starved' = (starved \/ Starves(Chain[job.at], job.dict))
  /\ job' = [job EXCEPT !.at = @ + 1, !.dict = After(Chain[job.at], @)]
  /\ UNCHANGED <<kstep, kblock, carried, kvfaults>>

\* The long path: one task per block, each with a copy of the handler's dictionary; what
\* a donor wrote into its copy comes back as a result and is kept for the client.
SeparateBlock ==
  /\ job # NoJob /\ ~job.merged /\ job.at <= job.to
  /\ LET copy == After(Chain[job.at], job.dict) IN
     /\ starved' = (starved \/ Starves(Chain[job.at], job.dict))
     /\ job' = [job EXCEPT !.at = @ + 1,
                           !.produced = [t \in KvTypes |-> IF t \in Keys(copy) \ job.seeded THEN copy[t] ELSE @[t]]]
  /\ UNCHANGED <<kstep, kblock, carried, kvfaults>>

Produced ==
  IF job.merged THEN [t \in KvTypes |-> IF t \in job.seeded THEN 0 ELSE job.dict[t]] ELSE job.produced

\* The response: the client adds what the span produced.
SpanAnswers ==
  /\ job # NoJob /\ job.at > job.to
  /\ carried' = Union2(carried, Produced) /\ kblock' = job.to + 1 /\ job' = NoJob
  /\ UNCHANGED <<kstep, starved, kvfaults>>

\* The server fails: the client reroutes the span with what it has.
SpanFails ==
  /\ job # NoJob /\ kvfaults < MaxKvFaults /\ kvfaults' = kvfaults + 1 /\ job' = NoJob
  /\ UNCHANGED <<kstep, kblock, carried, starved>>

\* Mutant of NextToken: what the last token carried is kept.
NextTokenKeeps ==
  /\ kblock > Len(Chain) /\ kstep <= MaxKvSteps
  /\ kstep' = kstep + 1 /\ kblock' = 1
  /\ UNCHANGED <<carried, job, starved, kvfaults>>

\* The next token starts with nothing carried.
NextToken ==
  /\ kblock > Len(Chain) /\ kstep <= MaxKvSteps
  /\ kstep' = kstep + 1 /\ kblock' = 1 /\ carried' = NoKv
  /\ UNCHANGED <<job, starved, kvfaults>>

KvNext == SendSpan \/ MergedBlock \/ SeparateBlock \/ SpanAnswers \/ SpanFails \/ NextToken

KvTypeOK == kstep \in 1..(MaxKvSteps + 1) /\ kblock \in 1..(Len(Chain) + 1) /\ starved \in BOOLEAN

\* Every consumer finds the K/V its donor computed in this step, wherever the spans
\* are cut and whichever servers fail.
ConsumersFed == ~starved
=============================================================================
