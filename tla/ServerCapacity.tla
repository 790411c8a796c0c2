---------------------------- MODULE ServerCapacity ----------------------------
(***************************************************************************)
(* How a server fits its device (cli/run_server.py, server/server.py,      *)
(* server/backend.py): the arguments and the manifest fix its precision,   *)
(* the precision fixes the size of the layers, the sizes fix how many      *)
(* blocks it serves and how large its attention cache is; it then serves   *)
(* any range of that many blocks, and its sessions fill the cache.         *)
(* Memory is counted in units: a layer takes half its weight under NF4,    *)
(* and autograd takes one unit of every device.                            *)
(* Bound: the command lines and machines in Starts.                        *)
(***************************************************************************)
EXTENDS Integers, FiniteSets, FiniteSetsExt, Sequences, Functions

CONSTANTS NumLayers, Starts
Layers == 1..NumLayers
RangesOf(n) == {a..(a + n - 1) : a \in 1..(NumLayers - n + 1)}
Unset == "unset"
Precisions == {"nf4", "none"}

\* What may be wrong with the rest of a start, at most one thing at a time.
PublicFlaws == {"runtime", "source", "dtype", "attention", "profile", "identity", "health",
                "artifacts", "config", "tls", "revoked", "lifetime", "signer"}
PrivateFlaws == {"health", "no model", "revocations"}
Flaws == PublicFlaws \cup PrivateFlaws \cup {"addresses", "disk", "budget", "peers", "dht", "strategy"}

\* devices: the memory of each; fixed: --block_indices; asked: --num_blocks; limit:
\* --max_device_memory, 0 when not given; lora: the adapters' share of a block.
ServerStart ==
  [weight : [Layers -> Nat], cache : [Layers -> Nat \ {0}], lora : Nat,
   device : {"cpu", "mps", "cuda"}, devices : Seq(Nat \ {0}), limit : Nat, usable : BOOLEAN, bf16 : BOOLEAN,
   quant : Precisions \cup {Unset}, manifest : Precisions \cup {Unset},
   fixed : SUBSET Layers, asked : Nat, paged : BOOLEAN, dry : BOOLEAN, flaw : Flaws \cup {"none"}]
ASSUME CapacityAssumption == NumLayers \in Nat \ {0} /\ Starts \subseteq ServerStart

VARIABLES
  scArgs,    \* the command line, the manifest and the hardware
  scAt,      \* where the constructor or the server is
  scQuant,   \* the precision the weights are loaded with
  scCount,   \* num_blocks, 0 before it is known
  scCache,   \* attn_cache_bytes
  scInfo,    \* the precision announced
  scRange,   \* the blocks served
  scPage,    \* the size of a page of the paged pool, 0 without one
  scUsed     \* cache allocated to sessions, on the busiest device

scVars == <<scArgs, scAt, scQuant, scCount, scCache, scInfo, scRange, scPage, scUsed>>

CapacityInit ==
  /\ scArgs \in Starts
  /\ scAt = "arguments" /\ scQuant = scArgs.quant /\ scCount = 0 /\ scCache = 0 /\ scInfo = Unset
  /\ scRange = {} /\ scPage = 0 /\ scUsed = 0

Public == scArgs.manifest # Unset
Flawed(flaws) == scArgs.flaw \in flaws
Continue(wrong, there) == scAt' = IF wrong THEN "refused" ELSE there
Serving == <<scInfo, scRange, scPage, scUsed>>

\* A manifest sets what is not given and refuses what contradicts it; without one,
\* what only a public server has is refused.
Contradicted ==
  \/ Flawed(IF Public THEN PublicFlaws \ {"artifacts", "config", "tls", "revoked", "lifetime", "signer"}
                      ELSE PrivateFlaws)
  \/ Flawed({"addresses", "disk", "budget", "peers"})
  \/ Public /\ (scArgs.lora # 0 \/ scArgs.quant \notin {Unset, scArgs.manifest})
ReadArguments ==
  /\ scAt = "arguments" /\ Continue(Contradicted, "identity")
  /\ scQuant' = IF Public /\ scQuant = Unset THEN scArgs.manifest ELSE scQuant
  /\ UNCHANGED <<scArgs, scCount, scCache, Serving>>

\* A public server verifies the model's metadata, and has a signing identity that is not
\* revoked and a short announcement lifetime.
CheckIdentity ==
  /\ scAt = "identity"
  /\ Continue(Public /\ Flawed({"artifacts", "config", "tls", "revoked", "lifetime"}), "dht")
  /\ UNCHANGED <<scArgs, scQuant, scCount, scCache, Serving>>

\* The DHT runs under the identity that signs.
JoinSwarm ==
  /\ scAt = "dht" /\ Continue(Flawed({"dht"}) \/ (Public /\ Flawed({"signer"})), "device")
  /\ UNCHANGED <<scArgs, scQuant, scCount, scCache, Serving>>

Accelerated == scArgs.device # "cpu"
Limited == scArgs.limit # 0
Limit(memory) == IF Limited /\ scArgs.limit < memory THEN scArgs.limit ELSE memory
Memories == {Limit(m) : m \in Range(scArgs.devices)}
Devices == Len(scArgs.devices)

\* Allocator ceilings come before anything is allocated; bfloat16 falls back on MPS only.
ChooseDevice ==
  /\ scAt = "device"
  /\ Continue((Limited /\ ~Accelerated) \/ (~scArgs.bf16 /\ scArgs.device # "mps"), "precision")
  /\ UNCHANGED <<scArgs, scQuant, scCount, scCache, Serving>>

\* _probe_quantization: a tiny quantization on the device.
Runs(quant) == quant = "none" \/ scArgs.usable

\* The default precision falls back when the device cannot run it; a requested one does not.
DefaultPrecision == IF scArgs.device = "cuda" /\ Runs("nf4") THEN "nf4" ELSE "none"

\* Mutant: what the device cannot run falls back, also when it was asked for.
ResolvePrecisionFallingBack ==
  /\ scAt = "precision" /\ Continue(FALSE, "sizes")
  /\ scQuant' = IF scQuant = Unset \/ ~Runs(scQuant) THEN DefaultPrecision ELSE scQuant
  /\ UNCHANGED <<scArgs, scCount, scCache, Serving>>

ResolvePrecision ==
  /\ scAt = "precision"
  /\ Continue(scQuant # Unset /\ ~Runs(scQuant), "sizes")
  /\ scQuant' = IF scQuant = Unset THEN DefaultPrecision ELSE scQuant
  /\ UNCHANGED <<scArgs, scCount, scCache, Serving>>

\* get_block_size.
Weight(b, quant) == IF quant = "nf4" THEN scArgs.weight[b] \div 2 ELSE scArgs.weight[b]

\* Mutant: the layers are measured before the precision has fallen back.
BlockMemoryRequested(b) == Weight(b, "nf4") + scArgs.cache[b]
BlockMemory(b) == Weight(b, scQuant) + scArgs.cache[b]

\* A fixed range is measured exactly, a movable one by its largest layers.
Fixed == scArgs.fixed # {}
MemoryOf(blocks) == SumFunctionOnSet([b \in Layers |-> BlockMemory(b)], blocks)
Largest(n) == Max({MemoryOf(blocks) : blocks \in kSubset(n, Layers)})
Estimate(n, range) ==
  Devices + n * scArgs.lora + IF range = {} THEN Largest(n) ELSE MemoryOf(range)

\* As many blocks as fit the devices; of several, each counts like the smallest.
Chosen == ~Fixed /\ scArgs.asked = 0
TotalMemory == Devices * Min(Memories)
ChosenBlocks == Cardinality({n \in Layers : \A m \in 1..n : Estimate(m, {}) <= TotalMemory})
MaySize == Accelerated /\ (Devices > 1 => scArgs.device = "cuda" /\ 2 * Max(Memories) <= 3 * Min(Memories))

ChooseCount ==
  LET count == IF Fixed THEN Cardinality(scArgs.fixed) ELSE IF Chosen THEN ChosenBlocks ELSE scArgs.asked
      wrong == (Fixed /\ scArgs.asked # 0) \/ (Chosen /\ ~MaySize) \/ count \notin Layers
  IN /\ scAt = "sizes" /\ Continue(wrong, "budget")
     /\ scCount' = IF wrong THEN 0 ELSE count
     /\ UNCHANGED <<scArgs, scQuant, scCache, Serving>>

\* Under --max_device_memory the blocks must fit it; the cache budget follows.
CheckBudget ==
  /\ scAt = "budget"
  /\ Continue(Limited /\ Estimate(scCount, scArgs.fixed) > TotalMemory, "throughput")
  /\ scCache' = IF Fixed THEN SumFunctionOnSet(scArgs.cache, scArgs.fixed)
                         ELSE scCount * Max(Range(scArgs.cache))
  /\ UNCHANGED <<scArgs, scQuant, scCount, Serving>>

\* A dry run measures the throughput and exits.
AnnouncePrecision ==
  /\ scAt = "throughput"
  /\ IF scArgs.dry THEN scAt' = "exited" /\ UNCHANGED scInfo ELSE scAt' = "place" /\ scInfo' = scQuant
  /\ UNCHANGED <<scArgs, scQuant, scCount, scCache, scRange, scPage, scUsed>>

\* The blocks of this container: every backend registers the geometry of the paged pool,
\* which all must share; the first sets it.  Loading them may fail.
MayPage(range) == Devices = 1 /\ ~Flawed({"strategy"}) /\ Cardinality({scArgs.cache[b] : b \in range}) = 1
PlaceBlocks ==
  /\ scAt = "place"
  /\ \/ /\ scAt' = "serving"
        /\ scRange' \in IF Fixed THEN {scArgs.fixed} ELSE RangesOf(scCount)
        /\ scArgs.paged => MayPage(scRange')
        /\ scPage' = IF scArgs.paged THEN Max({scArgs.cache[b] : b \in scRange'}) ELSE 0
     \/ scAt' = "failed" /\ UNCHANGED <<scRange, scPage>>
  /\ UNCHANGED <<scArgs, scQuant, scCount, scCache, scInfo, scUsed>>

\* A session takes cache, a page of it when there are pages, while the budget lasts.
Portion == IF scPage = 0 THEN 1 ELSE scPage
Allocate ==
  /\ scAt = "serving" /\ scUsed + Portion <= scCache /\ scUsed' = scUsed + Portion
  /\ UNCHANGED <<scArgs, scAt, scQuant, scCount, scCache, scInfo, scRange, scPage>>
Free ==
  /\ scAt = "serving" /\ scUsed > 0 /\ scUsed' = scUsed - Portion
  /\ UNCHANGED <<scArgs, scAt, scQuant, scCount, scCache, scInfo, scRange, scPage>>

\* The container is unhealthy, or the swarm is imbalanced, or the server stops: the
\* container is shut down; unless it stops, the server chooses its blocks anew.
LeaveBlocks ==
  /\ scAt = "serving" /\ scAt' \in {"place", "stopped"} /\ scRange' = {} /\ scPage' = 0 /\ scUsed' = 0
  /\ UNCHANGED <<scArgs, scQuant, scCount, scCache, scInfo>>

CapacityNext ==
  \/ ReadArguments \/ CheckIdentity \/ JoinSwarm \/ ChooseDevice \/ ResolvePrecision \/ ChooseCount
  \/ CheckBudget \/ AnnouncePrecision \/ PlaceBlocks \/ Allocate \/ Free \/ LeaveBlocks
CapacitySpec == CapacityInit /\ [][CapacityNext]_scVars

-----------------------------------------------------------------------------
Needed == Devices * (1 + scUsed) + SumFunctionOnSet([b \in Layers |-> Weight(b, scInfo) + scArgs.lora], scRange)
UniformCaches == Cardinality(Range(scArgs.cache)) = 1

\* A server that was sized never outgrows its device: whatever blocks it moves to and
\* however full its cache is, weights, adapters, cache and reserve fit, at the precision
\* announced; for movable blocks when the layers' caches are alike, and on one device
\* (server.py _choose_num_blocks, _estimate_device_memory).
MemoryFits ==
  (scAt = "serving" /\ (Limited \/ Chosen) /\ (Fixed \/ UniformCaches) /\ Devices = 1) => Needed <= TotalMemory

\* As the results document says it, for every model and any number of devices: block sets
\* whose weights and caches exceed the cap are rejected.
BudgetHolds == (scAt = "serving" /\ (Limited \/ Chosen)) => Needed <= TotalMemory

\* A public server serves at the precision of its manifest, or not at all (run_server.py
\* server_from_args, server.py Server.__init__).
ManifestServed == (scAt = "serving" /\ Public) => scInfo = scArgs.manifest /\ scQuant = scInfo
=============================================================================
