---------------------------- MODULE BlockSelection ----------------------------
(***************************************************************************)
(* server/block_selection.py and the parts of server.py that use it: each  *)
(* server picks the blocks that the swarm lacks most from what it reads in *)
(* the DHT, announces them as joining and then online, and now and then    *)
(* checks whether the swarm would gain if every server moved to its best   *)
(* place.  Reading, deciding and announcing are separate steps, so servers *)
(* decide on what others are about to change.                              *)
(***************************************************************************)
EXTENDS Integers, Sequences, FiniteSets

LOCAL INSTANCE FiniteSetsExt
LOCAL INSTANCE TLC

CONSTANTS
  Servers,
  NumBlocks,   \* blocks of the model, 0..NumBlocks-1
  SpanLen,     \* num_blocks of each server
  Rps,         \* the throughput each server announces
  Quality,     \* balance_quality, in thousandths
  MaxMoves     \* bound on the moves of all servers

ASSUME SelectionAssumption ==
  /\ NumBlocks \in Nat \ {0} /\ Quality \in Nat /\ MaxMoves \in Nat
  /\ SpanLen \in [Servers -> 1..NumBlocks] /\ Rps \in [Servers -> Nat]

VARIABLES
  bpc,      \* the step of each server
  record,   \* what the DHT says of each server
  chosen,   \* the start it has chosen and not yet announced
  simulated, \* should_choose_other_blocks(): where it has put every server
  todo,     \* ... whom it still looks at in this round
  shifted,  \* ... and whether this round has moved anyone
  initial,  \* ... the throughput before
  moves

selectionVars == <<bpc, record, chosen, simulated, todo, shifted, initial, moves>>

Blocks == 0..(NumBlocks - 1)
NoRecord == [state |-> "OFFLINE", start |-> 0]

\* compute_spans() with min_state JOINING
SpansOf(r) == [s \in {t \in Servers : r[t].state # "OFFLINE"} |-> r[s].start]

Hosts(at, s, b) == b \in at[s]..(at[s] + SpanLen[s] - 1)

Total(at, S, b) == MapThenSumSet(LAMBDA s : Rps[s], {s \in S : Hosts(at, s, b)})

\* compute_throughputs(), in thousandths
Throughputs(at) == [b \in Blocks |-> 1000 * Total(at, DOMAIN at, b)]

\* The same without server s, less a thousandth more where it stands.
Without(at, s) ==
  [b \in Blocks |-> Throughputs(at)[b] - IF Hosts(at, s, b) THEN 1001 * Rps[s] ELSE 0]

Least(t) == CHOOSE m \in {t[b] : b \in Blocks} : \A b \in Blocks : m <= t[b]

SortedWindow(t, i, n) == SortSeq([k \in 1..n |-> t[i + k - 1]], LAMBDA x, y : x < y)

\* Python's order of lists.
Smaller(p, q) ==
  \E i \in 1..Len(p) : p[i] < q[i] /\ \A j \in 1..(i - 1) : p[j] = q[j]

\* _choose_best_start(): the window that is poorest, sorted; the first of equals.
BestStart(t, n) ==
  LET w(i) == SortedWindow(t, i, n)
      starts == 0..(NumBlocks - n)
  IN CHOOSE i \in starts : \A j \in starts : i = j \/ Smaller(w(i), w(j)) \/ (w(i) = w(j) /\ i < j)

SelectionInit ==
  /\ bpc = [s \in Servers |-> "choose"]
  /\ record = [s \in Servers |-> NoRecord]
  /\ chosen = [s \in Servers |-> 0]
  /\ simulated = [s \in Servers |-> 0]
  /\ todo = {} /\ shifted = FALSE /\ initial = 0 /\ moves = 0

Simulating == \E s \in Servers : bpc[s] = "simulate"

\* _choose_blocks(): read the DHT and pick the poorest window.
ChooseBlocks(s) ==
  /\ bpc[s] = "choose"
  /\ chosen' = [chosen EXCEPT ![s] = BestStart(Throughputs(SpansOf(record)), SpanLen[s])]
  /\ bpc' = [bpc EXCEPT ![s] = "join"]
  /\ UNCHANGED <<record, simulated, todo, shifted, initial, moves>>

\* ModuleContainer.create(): announce the blocks before loading them.
Join(s) ==
  /\ bpc[s] = "join"
  /\ record' = [record EXCEPT ![s] = [state |-> "JOINING", start |-> chosen[s]]]
  /\ bpc' = [bpc EXCEPT ![s] = "load"]
  /\ UNCHANGED <<chosen, simulated, todo, shifted, initial, moves>>

GoOnline(s) ==
  /\ bpc[s] = "load"
  /\ record' = [record EXCEPT ![s].state = "ONLINE"]
  /\ bpc' = [bpc EXCEPT ![s] = "serve"]
  /\ UNCHANGED <<chosen, simulated, todo, shifted, initial, moves>>

\* should_choose_other_blocks() up to the simulation: the server stays when its
\* leaving would make a swarm that covers all blocks disjoint, or when it is on its
\* best place already; else it is moved there, in its own picture of the swarm.
Check(s) ==
  /\ bpc[s] = "serve" /\ ~Simulating /\ moves < MaxMoves
  /\ LET at == SpansOf(record)
         rest == Without(at, s)
         best == BestStart(rest, SpanLen[s])
     IN /\ ~(Least(Throughputs(at)) > 1 /\ Least(rest) <= 0)
        /\ best # at[s]
        /\ simulated' = [t \in DOMAIN at |-> IF t = s THEN best ELSE at[t]]
        /\ initial' = Least(Throughputs(at))
        /\ todo' = DOMAIN at
  /\ bpc' = [bpc EXCEPT ![s] = "simulate"]
  /\ shifted' = FALSE
  /\ UNCHANGED <<record, chosen, moves>>

\* One server of the shuffled round goes to its best place.
SimulateOne(s) ==
  /\ bpc[s] = "simulate"
  /\ \E t \in todo :
       LET best == BestStart(Without(simulated, t), SpanLen[t]) IN
       /\ simulated' = [simulated EXCEPT ![t] = best]
       /\ shifted' = (shifted \/ best # simulated[t])
       /\ todo' = todo \ {t}
  /\ UNCHANGED <<bpc, record, chosen, initial, moves>>

SimulateAgain(s) ==
  /\ bpc[s] = "simulate" /\ todo = {} /\ shifted
  /\ todo' = DOMAIN simulated /\ shifted' = FALSE
  /\ UNCHANGED <<bpc, record, chosen, simulated, initial, moves>>

\* The swarm at rest is better than the swarm now by more than the quality asked for.
WorthMoving ==
  LET new == Least(Throughputs(simulated)) IN
  ~(new < initial \/ new < 1) /\ 1000 * initial < (Quality - 1) * new

\* The verdict, and what _run_module_container() does with it: shut the container
\* down, which announces OFFLINE, and choose again.
Decide(s) ==
  /\ bpc[s] = "simulate" /\ todo = {} /\ ~shifted
  /\ IF WorthMoving
       THEN /\ record' = [record EXCEPT ![s].state = "OFFLINE"]
            /\ bpc' = [bpc EXCEPT ![s] = "choose"]
            /\ moves' = moves + 1
       ELSE /\ bpc' = [bpc EXCEPT ![s] = "serve"]
            /\ UNCHANGED <<record, moves>>
  /\ simulated' = [t \in Servers |-> 0] /\ initial' = 0
  /\ UNCHANGED <<chosen, todo, shifted>>

SelectionStep(s) ==
  \/ ChooseBlocks(s) \/ Join(s) \/ GoOnline(s) \/ Check(s)
  \/ SimulateOne(s) \/ SimulateAgain(s) \/ Decide(s)

SelectionNext == \E s \in Servers : SelectionStep(s)

SelectionTypeOK ==
  /\ bpc \in [Servers -> {"choose", "join", "load", "serve", "simulate"}]
  /\ todo \subseteq Servers /\ shifted \in BOOLEAN

\* A step of the simulated rounds, which no other thread can hold up.
SimulationStep == \E s \in Servers : SimulateOne(s) \/ SimulateAgain(s) \/ Decide(s)

\* The rounds of should_choose_other_blocks() go on while a round moves any server;
\* in whatever order the servers are shuffled, a round comes that moves none, so the
\* server's main thread gets its verdict.
SimulationTerminates == [](Simulating => <>~Simulating)
=============================================================================
