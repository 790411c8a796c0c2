------------------------------ MODULE RouteTable ------------------------------
(***************************************************************************)
(* client/routing/: the client's table of servers and the thread that      *)
(* refreshes it from the DHT.  Callers wait for a first update, build      *)
(* routes from the table while it changes under them, ban the servers that *)
(* fail them, and ask one server for the RPC schema of the first block.    *)
(* Lookups fail, servers come and go, bans expire.                         *)
(***************************************************************************)
EXTENDS Integers, Sequences, FiniteSets

CONSTANTS
  Peers,
  Layers,          \* the number of blocks, 0..Layers-1
  Callers,         \* threads that use the sequence manager
  Allowed,         \* peers left by the allow and block lists
  MaxChurn,        \* bound on changes of what the peers announce
  MaxRouteFaults,  \* bound on failed lookups and requests
  RpcRetries       \* max_retries, for rpc_info

ASSUME RouteAssumption ==
  /\ Layers \in Nat \ {0} /\ MaxChurn \in Nat /\ MaxRouteFaults \in Nat
  /\ Allowed \subseteq Peers /\ RpcRetries \in Nat \ {0}

VARIABLES
  swarm,     \* what each peer announces: a span [first, last, online], first > last for none
  listed,    \* block_infos: the announcement of each peer kept under each block
  found,     \* what the lookup under way has found, the lists and bans applied
  banned,    \* banned_peers
  threadUp,  \* the update thread was started
  upc,       \* its step
  fresh,     \* the ready event
  poke,      \* the trigger event
  wpc,       \* the step of each caller
  route,     \* the route it has built so far
  stuck,     \* how often it has tried rpc_info
  rpcInfo,   \* the cached rpc_info: none, or whether its identity matches
  churn, rfaults

routeVars == <<swarm, listed, found, banned, threadUp, upc, fresh, poke, wpc, route, stuck, rpcInfo, churn, rfaults>>

LayerIds == 0..(Layers - 1)
Absent == [first |-> 1, last |-> 0, online |-> FALSE]
Offers == [first : LayerIds, last : LayerIds, online : BOOLEAN]
Covers(o, b) == o.first <= b /\ b <= o.last
Nobody == [b \in LayerIds |-> [p \in Peers |-> Absent]]

\* compute_spans() with min_state ONLINE: a peer that is listed under some block
\* counts with the whole span that it announces there.
SpanOf(table, p) ==
  LET kept == {b \in LayerIds : table[b][p].online} IN
  IF kept = {} THEN Absent ELSE table[CHOOSE b \in kept : \A c \in kept : b <= c][p]

\* spans_containing_block
Candidates(table, b) == {p \in Peers : Covers(SpanOf(table, p), b)}

\* The DHT holds an announcement under each block of its span.
Lookup == [b \in LayerIds |-> [p \in Peers |-> IF Covers(swarm[p], b) THEN swarm[p] ELSE Absent]]

Present(table, b) == {p \in Peers : table[b][p] # Absent}

RouteInit ==
  /\ swarm \in [Peers -> {o \in Offers : o.first <= o.last /\ o.online}]
  /\ listed = Nobody /\ found = Nobody /\ banned = {}
  /\ threadUp = FALSE /\ upc = "start" /\ fresh = FALSE /\ poke = FALSE
  /\ wpc = [c \in Callers |-> "idle"] /\ route = [c \in Callers |-> <<>>]
  /\ stuck = [c \in Callers |-> 0] /\ rpcInfo = "none"
  /\ churn = 0 /\ rfaults = 0

\* Servers come, go and move.
Churn(p) ==
  /\ churn < MaxChurn /\ churn' = churn + 1
  /\ \E o \in {Absent} \cup {x \in Offers : x.first <= x.last} :
       o # swarm[p] /\ swarm' = [swarm EXCEPT ![p] = o]
  /\ UNCHANGED <<listed, found, banned, threadUp, upc, fresh, poke, wpc, route, stuck, rpcInfo,
                 rfaults>>

BanExpires(p) ==
  /\ p \in banned /\ banned' = banned \ {p}
  /\ UNCHANGED <<swarm, listed, found, threadUp, upc, fresh, poke, wpc, route, stuck, rpcInfo,
                 churn, rfaults>>

(* The update thread. *)

\* The head of the loop, then the lookup.
BeginUpdate ==
  /\ threadUp /\ upc = "start" /\ upc' = "lookup" /\ poke' = FALSE
  /\ UNCHANGED <<swarm, listed, found, banned, threadUp, fresh, wpc, route, stuck, rpcInfo,
                 churn, rfaults>>

\* The lookup answers; the lists apply, and banned peers are dropped from a block
\* unless all its peers are banned.
FinishLookup ==
  /\ upc = "lookup" /\ upc' = "apply"
  /\ found' = [b \in LayerIds |->
       LET usable == {p \in Present(Lookup, b) : p \in Allowed}
           kept == IF usable \subseteq banned THEN usable ELSE usable \ banned
       IN [p \in Peers |-> IF p \in kept THEN Lookup[b][p] ELSE Absent]]
  /\ UNCHANGED <<swarm, listed, banned, threadUp, fresh, poke, wpc, route, stuck, rpcInfo,
                 churn, rfaults>>

\* An exception is logged, and the thread waits for the next period.
LookupFails ==
  /\ upc = "lookup" /\ rfaults < MaxRouteFaults /\ rfaults' = rfaults + 1 /\ upc' = "wait"
  /\ UNCHANGED <<swarm, listed, found, banned, threadUp, fresh, poke, wpc, route, stuck,
                 rpcInfo, churn>>

\* update_(), under the lock.
Apply ==
  /\ upc = "apply" /\ upc' = "ping" /\ listed' = found /\ found' = Nobody
  /\ UNCHANGED <<swarm, banned, threadUp, fresh, poke, wpc, route, stuck, rpcInfo, churn, rfaults>>

\* Pings, then ready.set(), which releases everyone who waits.
SetReady ==
  /\ upc = "ping" /\ upc' = "wait" /\ fresh' = TRUE
  /\ wpc' = [c \in Callers |-> IF wpc[c] = "waiting" THEN "routing"
                               ELSE IF wpc[c] = "rpc_waiting" THEN "rpc" ELSE wpc[c]]
  /\ UNCHANGED <<swarm, listed, found, banned, threadUp, poke, route, stuck, rpcInfo, churn,
                 rfaults>>

\* Mutant of NextRound: a round begins only when somebody asks for it.
NextRoundPoked ==
  /\ upc = "wait" /\ poke /\ upc' = "start"
  /\ UNCHANGED <<swarm, listed, found, banned, threadUp, fresh, poke, wpc, route, stuck,
                 rpcInfo, churn, rfaults>>

\* The trigger is set, or the update period is over.
NextRound ==
  /\ upc = "wait" /\ upc' = "start"
  /\ UNCHANGED <<swarm, listed, found, banned, threadUp, fresh, poke, wpc, route, stuck,
                 rpcInfo, churn, rfaults>>

(* Callers. *)

\* The head of make_sequence() and of rpc_info: start the thread, and call
\* update(wait=True) unless the table is ready.
AwaitUpdate(c, now, waiting) ==
  /\ threadUp' = TRUE
  /\ IF fresh THEN wpc' = [wpc EXCEPT ![c] = now] /\ UNCHANGED poke
     ELSE wpc' = [wpc EXCEPT ![c] = waiting] /\ poke' = TRUE
  /\ UNCHANGED <<swarm, listed, found, banned, upc, fresh, churn, rfaults>>

MakeSequence(c) ==
  /\ wpc[c] = "idle" /\ AwaitUpdate(c, "routing", "waiting")
  /\ UNCHANGED <<route, stuck, rpcInfo>>

Reached(r) == IF r = <<>> THEN 0 ELSE r[Len(r)].to

\* Mutant of Hop: the server serves from where its span begins.
HopWholeSpan(c) ==
  /\ wpc[c] = "routing" /\ Reached(route[c]) < Layers
  /\ \E p \in Candidates(listed, Reached(route[c])) :
       LET s == SpanOf(listed, p) IN
       route' = [route EXCEPT ![c] = Append(@, [peer |-> p, from |-> s.first, to |-> s.last + 1])]
  /\ wpc' = [wpc EXCEPT ![c] = IF Reached(route'[c]) = Layers THEN "routed" ELSE "routing"]
  /\ UNCHANGED <<swarm, listed, found, banned, threadUp, upc, fresh, poke, stuck, rpcInfo,
                 churn, rfaults>>

\* _make_sequence_with_max_throughput(): one hop at a time, each from the table
\* as it is then, to the end of the chosen span.
Hop(c) ==
  /\ wpc[c] = "routing" /\ Reached(route[c]) < Layers
  /\ \E p \in Candidates(listed, Reached(route[c])) :
       route' = [route EXCEPT ![c] = Append(@, [peer |-> p, from |-> Reached(@), to |-> SpanOf(listed, p).last + 1])]
  /\ wpc' = [wpc EXCEPT ![c] = IF Reached(route'[c]) = Layers THEN "routed" ELSE "routing"]
  /\ UNCHANGED <<swarm, listed, found, banned, threadUp, upc, fresh, poke, stuck, rpcInfo,
                 churn, rfaults>>

\* _make_sequence_with_min_latency(): a path through the graph of the table under the
\* lock; a server, once chosen, is used to the end of its span.
HopsFrom(b) == {[peer |-> p, from |-> b, to |-> SpanOf(listed, p).last + 1] : p \in Candidates(listed, b)}
Paths ==
  {r \in UNION {[1..n -> UNION {HopsFrom(b) : b \in LayerIds}] : n \in 1..Layers} :
     /\ r[1].from = 0 /\ r[Len(r)].to = Layers
     /\ \A i \in 1..(Len(r) - 1) : r[i].to = r[i + 1].from}

FindPath(c) ==
  /\ wpc[c] = "routing" /\ route[c] = <<>> /\ \A b \in LayerIds : Candidates(listed, b) # {}
  /\ \E r \in Paths : route' = [route EXCEPT ![c] = r]
  /\ wpc' = [wpc EXCEPT ![c] = "routed"]
  /\ UNCHANGED <<swarm, listed, found, banned, threadUp, upc, fresh, poke, stuck, rpcInfo,
                 churn, rfaults>>

\* on_request_failure(): ban the peer and take it out of the table; when a block has
\* nobody left, ask for an update.
Dropped(p) == [b \in LayerIds |-> [listed[b] EXCEPT ![p] = Absent]]
Unroutable(table) == \E b \in LayerIds : Present(table, b) = {}

AfterFailure(table) ==
  IF Unroutable(table) THEN fresh' = FALSE /\ poke' = TRUE ELSE UNCHANGED <<fresh, poke>>

\* MissingBlocksError: the caller reports a failure without a peer and tries again.
NoRoute(c) ==
  /\ wpc[c] = "routing"
  /\ \/ Candidates(listed, Reached(route[c])) = {}
     \/ route[c] = <<>> /\ \E b \in LayerIds : Candidates(listed, b) = {}
  /\ wpc' = [wpc EXCEPT ![c] = "idle"] /\ route' = [route EXCEPT ![c] = <<>>] /\ AfterFailure(listed)
  /\ UNCHANGED <<swarm, listed, found, banned, threadUp, upc, stuck, rpcInfo, churn, rfaults>>

RequestFails(c) ==
  /\ wpc[c] = "routed" /\ rfaults < MaxRouteFaults /\ rfaults' = rfaults + 1
  /\ \E i \in 1..Len(route[c]) : LET p == route[c][i].peer IN
       /\ banned' = banned \cup {p} /\ listed' = Dropped(p) /\ AfterFailure(Dropped(p))
  /\ wpc' = [wpc EXCEPT ![c] = "idle"] /\ route' = [route EXCEPT ![c] = <<>>]
  /\ UNCHANGED <<swarm, found, threadUp, upc, stuck, rpcInfo, churn>>

\* on_request_success() lifts the ban of the peer.
RequestSucceeds(c) ==
  /\ wpc[c] = "routed" /\ wpc' = [wpc EXCEPT ![c] = "idle"]
  /\ banned' = banned \ {route[c][i].peer : i \in 1..Len(route[c])}
  /\ route' = [route EXCEPT ![c] = <<>>]
  /\ UNCHANGED <<swarm, listed, found, threadUp, upc, fresh, poke, stuck, rpcInfo, churn, rfaults>>

(* rpc_info. *)

AskRpcInfo(c) ==
  /\ wpc[c] = "idle" /\ rpcInfo = "none" /\ AwaitUpdate(c, "rpc", "rpc_waiting")
  /\ UNCHANGED <<route, stuck, rpcInfo>>

\* The answer of a server of the first block is cached, then compared with the
\* manifest, the PeerID and the signed announcement.
StoreRpcInfo(c) ==
  /\ wpc[c] = "rpc" /\ \E p \in Peers : listed[0][p].online
  /\ \/ rpcInfo' = "compared" /\ UNCHANGED rfaults
     \/ rfaults < MaxRouteFaults /\ rfaults' = rfaults + 1 /\ rpcInfo' \in {"other_digest", "other_identity"}
  /\ wpc' = [wpc EXCEPT ![c] = "rpc_check"]
  /\ UNCHANGED <<swarm, listed, found, banned, threadUp, upc, fresh, poke, route, stuck, churn>>

\* The caller gives up after max_retries, else tries again.
RpcFailed(c) ==
  LET over == stuck[c] + 1 = RpcRetries IN
  /\ stuck' = [stuck EXCEPT ![c] = IF over THEN 0 ELSE @ + 1]
  /\ wpc' = [wpc EXCEPT ![c] = IF over THEN "idle" ELSE "rpc_again"]

\* A server that answers for another manifest is forgotten with its answer; one with
\* another identity is banned and its answer stays cached.
CheckRpcInfo(c) ==
  /\ wpc[c] = "rpc_check"
  /\ IF rpcInfo = "compared"
       THEN /\ wpc' = [wpc EXCEPT ![c] = "idle"] /\ stuck' = [stuck EXCEPT ![c] = 0]
            /\ UNCHANGED <<rpcInfo, banned, listed, fresh, poke>>
       ELSE /\ rpcInfo' = IF rpcInfo = "other_digest" THEN "none" ELSE rpcInfo
            /\ RpcFailed(c)
            /\ \E p \in Peers : listed[0][p].online
                 /\ banned' = banned \cup {p} /\ listed' = Dropped(p) /\ AfterFailure(Dropped(p))
  /\ UNCHANGED <<swarm, found, threadUp, upc, route, churn, rfaults>>

\* No server of the first block is online.
NoRpcServer(c) ==
  /\ wpc[c] = "rpc" /\ ~(\E p \in Peers : listed[0][p].online)
  /\ AfterFailure(listed)
  /\ RpcFailed(c)
  /\ UNCHANGED <<swarm, listed, found, banned, threadUp, upc, route, rpcInfo, churn, rfaults>>

RetryRpcInfo(c) ==
  /\ wpc[c] = "rpc_again" /\ AwaitUpdate(c, "rpc", "rpc_waiting") /\ UNCHANGED <<route, stuck,
                                                                                 rpcInfo>>

UpdateStep == BeginUpdate \/ FinishLookup \/ Apply \/ SetReady \/ NextRound
CallerStep(c) ==
  \/ MakeSequence(c) \/ Hop(c) \/ FindPath(c) \/ NoRoute(c) \/ RequestFails(c) \/ RequestSucceeds(c)
  \/ AskRpcInfo(c) \/ StoreRpcInfo(c) \/ CheckRpcInfo(c) \/ NoRpcServer(c) \/ RetryRpcInfo(c)

RouteNext ==
  \/ UpdateStep \/ LookupFails
  \/ \E c \in Callers : CallerStep(c)
  \/ \E p \in Peers : Churn(p) \/ BanExpires(p)

RouteSpec == RouteInit /\ [][RouteNext]_routeVars

RouteTypeOK ==
  /\ upc \in {"start", "lookup", "apply", "ping", "wait"}
  /\ wpc \in [Callers -> {"idle", "waiting", "routing", "routed", "rpc", "rpc_waiting", "rpc_check", "rpc_again"}]
  /\ banned \subseteq Peers /\ fresh \in BOOLEAN /\ poke \in BOOLEAN
  /\ rpcInfo \in {"none", "compared", "other_digest", "other_identity"}

\* A route is contiguous and in order, however often the table changed while it was built.
RoutesTile ==
  \A c \in Callers : wpc[c] = "routed" =>
    /\ route[c][1].from = 0 /\ route[c][Len(route[c])].to = Layers
    /\ \A i \in 1..(Len(route[c]) - 1) : route[c][i].to = route[c][i + 1].from
    /\ \A i \in 1..Len(route[c]) : route[c][i].from < route[c][i].to /\ route[c][i].peer \in Allowed

\* Nobody waits for ever for an update.
WaitersReleased == \A c \in Callers : wpc[c] = "waiting" ~> wpc[c] # "waiting"

=============================================================================
