-------------------------- MODULE SequentialAutograd --------------------------
(***************************************************************************)
(* client/sequential_autograd.py with the training RPCs of the servers: a  *)
(* forward pass runs the blocks over a route of spans and keeps the input  *)
(* of every span; the backward pass goes through the spans in reverse and, *)
(* when a server fails, runs the span forward again over other servers to  *)
(* rebuild the inputs it needs.  An activation is the sequence of blocks   *)
(* applied to the input, a gradient the sequence of blocks it came back    *)
(* through.                                                                *)
(***************************************************************************)
EXTENDS Integers, Sequences, FiniteSets

CONSTANTS
  Depth,        \* the number of blocks
  TrainRetries, \* max_retries
  MaxTrainFaults

ASSUME AutogradAssumption == Depth \in Nat \ {0} /\ TrainRetries \in Nat \ {0} /\ MaxTrainFaults \in Nat

VARIABLES
  phase,      \* forward, backward, rerun (a forward inside the backward), returned, raised
  blockAt,    \* block_idx of the forward under way
  goal,       \* its end_index
  plan,       \* sequences: the spans still to run
  fattempt,    \* attempt_no of the forward
  act,        \* inputs of the forward
  doneSpans, doneInputs,     \* what this forward has completed
  spans, interInputs,        \* forward_sequences and intermediate_inputs
  bspan, binput, battempt,   \* the span in hand, its input and attempt_no of the backward
  grad, gradPrompts,         \* grad_outputs and grad_prompts_reversed
  tfaults

trainVars == <<phase, blockAt, goal, plan, fattempt, act, doneSpans, doneInputs, spans, interInputs,
               bspan, binput, battempt, grad, gradPrompts, tfaults>>

BlockSeq(a, b) == [i \in 1..(b - a) |-> a + i - 1]
Backwards(a, b) == [i \in 1..(b - a) |-> b - i]
NoSpan == [from |-> 0, to |-> 0]
Front1(q) == SubSeq(q, 1, Len(q) - 1)
LastOf(q) == q[Len(q)]

\* make_sequence() in mode max_throughput from block a, the last span cut at b.
Plans(a, b) ==
  {<<[from |-> a, to |-> b]>>} \cup
  {<<[from |-> a, to |-> m], [from |-> m, to |-> b]>> : m \in (a + 1)..(b - 1)}

\* run_rpc_forward(): the chain of the requested backends.
RunForward(x, s) == x \o BlockSeq(s.from, s.to)

\* run_rpc_backward(): forward again through all but the last backend to collect
\* their inputs, then back; the gradient passes a block only with the block's input.
RunBackward(x, g, s) ==
  IF x = BlockSeq(0, s.from) THEN g \o Backwards(s.from, s.to) ELSE g \o <<"wrong input">>

TrainInit ==
  /\ phase = "forward" /\ blockAt = 0 /\ goal = Depth /\ plan = <<>> /\ fattempt = 0 /\ act = <<>>
  /\ doneSpans = <<>> /\ doneInputs = <<>> /\ spans = <<>> /\ interInputs = <<>>
  /\ bspan = NoSpan /\ binput = <<>> /\ battempt = 0 /\ grad = <<>> /\ gradPrompts = <<>> /\ tfaults = 0

backwardVars == <<spans, interInputs, bspan, binput, battempt, grad, gradPrompts>>
Forwarding == phase \in {"forward", "rerun"} /\ blockAt < goal

\* A new route at the start and on every retry.
PlanRoute ==
  /\ Forwarding /\ (plan = <<>> \/ fattempt >= 1)
  /\ plan' \in Plans(blockAt, goal)
  /\ fattempt' = IF fattempt >= 1 THEN -fattempt ELSE fattempt
  /\ UNCHANGED <<phase, blockAt, goal, act, doneSpans, doneInputs, backwardVars, tfaults>>

\* A span ran: its input and the span are kept, and the attempts start again.
ForwardSpan ==
  /\ Forwarding /\ plan # <<>> /\ fattempt <= 0
  /\ LET s == Head(plan) IN
     /\ doneInputs' = Append(doneInputs, act) /\ doneSpans' = Append(doneSpans, s)
     /\ act' = RunForward(act, s) /\ blockAt' = s.to
  /\ plan' = Tail(plan) /\ fattempt' = 0
  /\ UNCHANGED <<phase, goal, backwardVars, tfaults>>

Attempts == IF fattempt < 0 THEN -fattempt ELSE fattempt

\* No route, or the request failed: the fattempt counts, and the last one raises.  In
\* the backward pass the exception counts as one of its own failed attempts.
ForwardFails ==
  /\ Forwarding /\ tfaults < MaxTrainFaults /\ tfaults' = tfaults + 1
  /\ plan' = IF plan = <<>> \/ fattempt >= 1 THEN plan ELSE Tail(plan)
  /\ IF Attempts + 1 < TrainRetries
       THEN fattempt' = Attempts + 1 /\ UNCHANGED <<phase, battempt>>
       ELSE /\ fattempt' = 0
            /\ IF phase = "rerun" /\ battempt + 1 < TrainRetries
                 THEN phase' = "backward" /\ battempt' = battempt + 1
                 ELSE phase' = "raised" /\ UNCHANGED battempt
  /\ UNCHANGED <<blockAt, goal, act, doneSpans, doneInputs, spans, interInputs, bspan, binput,
                 grad, gradPrompts>>

\* The autograd function keeps the spans and their inputs for the backward pass.
ForwardReturns ==
  /\ phase = "forward" /\ blockAt = goal
  /\ phase' = "backward" /\ spans' = doneSpans /\ interInputs' = doneInputs /\ battempt' = 0
  /\ UNCHANGED <<blockAt, goal, plan, fattempt, act, doneSpans, doneInputs, bspan, binput, grad,
                 gradPrompts, tfaults>>

\* The next span from the end.
TakeSpan ==
  /\ phase = "backward" /\ bspan = NoSpan /\ spans # <<>>
  /\ bspan' = LastOf(spans) /\ binput' = LastOf(interInputs)
  /\ spans' = Front1(spans) /\ interInputs' = Front1(interInputs) /\ battempt' = 0
  /\ UNCHANGED <<phase, blockAt, goal, plan, fattempt, act, doneSpans, doneInputs, grad,
                 gradPrompts, tfaults>>

\* A retry first runs the span forward again from its input.
RerunForward ==
  /\ phase = "backward" /\ bspan # NoSpan /\ battempt >= 1
  /\ phase' = "rerun" /\ blockAt' = bspan.from /\ goal' = bspan.to /\ act' = binput
  /\ plan' = <<>> /\ fattempt' = 0 /\ doneSpans' = <<>> /\ doneInputs' = <<>>
  /\ UNCHANGED <<spans, interInputs, bspan, binput, battempt, grad, gradPrompts, tfaults>>

\* Mutant of Recovered: the spans before the last one are forgotten.
RecoveredLast ==
  /\ phase = "rerun" /\ blockAt = goal /\ phase' = "retry"
  /\ bspan' = LastOf(doneSpans) /\ binput' = LastOf(doneInputs)
  /\ UNCHANGED <<blockAt, goal, plan, fattempt, act, doneSpans, doneInputs, spans, interInputs,
                 battempt, grad, gradPrompts, tfaults>>

\* ... and continues with the last of the spans it took this time.
Recovered ==
  /\ phase = "rerun" /\ blockAt = goal /\ phase' = "retry"
  /\ bspan' = LastOf(doneSpans) /\ binput' = LastOf(doneInputs)
  /\ spans' = spans \o Front1(doneSpans) /\ interInputs' = interInputs \o Front1(doneInputs)
  /\ UNCHANGED <<blockAt, goal, plan, fattempt, act, doneSpans, doneInputs, battempt, grad,
                 gradPrompts, tfaults>>

Trying == bspan # NoSpan /\ (phase = "retry" \/ (phase = "backward" /\ battempt = 0))

BackwardSpan ==
  /\ Trying /\ phase' = "backward"
  /\ grad' = RunBackward(binput, grad, bspan)
  /\ gradPrompts' = gradPrompts \o Backwards(bspan.from, bspan.to)
  /\ bspan' = NoSpan /\ binput' = <<>>
  /\ UNCHANGED <<blockAt, goal, plan, fattempt, act, doneSpans, doneInputs, spans, interInputs,
                 battempt, tfaults>>

BackwardFails ==
  /\ Trying /\ tfaults < MaxTrainFaults /\ tfaults' = tfaults + 1
  /\ IF battempt + 1 < TrainRetries THEN phase' = "backward" /\ battempt' = battempt + 1
     ELSE phase' = "raised" /\ UNCHANGED battempt
  /\ UNCHANGED <<blockAt, goal, plan, fattempt, act, doneSpans, doneInputs, spans, interInputs,
                 bspan, binput, grad, gradPrompts>>

BackwardReturns ==
  /\ phase = "backward" /\ bspan = NoSpan /\ spans = <<>> /\ phase' = "returned"
  /\ UNCHANGED <<blockAt, goal, plan, fattempt, act, doneSpans, doneInputs, backwardVars, tfaults>>

TrainNext ==
  \/ PlanRoute \/ ForwardSpan \/ ForwardFails \/ ForwardReturns \/ TakeSpan \/ RerunForward
  \/ Recovered \/ BackwardSpan \/ BackwardFails \/ BackwardReturns

TrainTypeOK ==
  /\ phase \in {"forward", "backward", "rerun", "retry", "returned", "raised"}
  /\ Len(spans) = Len(interInputs) /\ Len(doneSpans) = Len(doneInputs)
  /\ battempt \in 0..(TrainRetries - 1) /\ fattempt \in (1 - TrainRetries)..(TrainRetries - 1)

\* Every block ran forward once and in order, and the gradient came back through
\* every block once, in the opposite order and with the block's own input, whatever
\* failed on the way.
GradientExact ==
  /\ phase \in {"backward", "retry"} => spans = <<>> \/ \A i \in 1..Len(spans) : interInputs[i] = BlockSeq(0, spans[i].from)
  /\ phase = "returned" => grad = Backwards(0, Depth) /\ gradPrompts = grad
=============================================================================
