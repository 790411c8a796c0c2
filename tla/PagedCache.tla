----------------------------- MODULE PagedCache -----------------------------
(***************************************************************************)
(* The paged attention cache of a server: the pool of pages, the sessions  *)
(* that use it and the runtime (drift/server/memory_cache.py, class        *)
(* PagedKVPool, allocate_paged_slots and use_paged_pool;                   *)
(* drift/server/backend.py, _paged_inference_step).                        *)
(*                                                                         *)
(* The pool's methods come first; the runtime thread takes them.  What     *)
(* makes them hard is the reuse of pages: rows grow lazily, a session may  *)
(* rewind and write again, beam search permutes rows and copies the pages  *)
(* of duplicated ones, and any page acquisition may fail half way through  *)
(* an operation.                                                           *)
(*                                                                         *)
(* Sessions in connection-handler processes are admitted by a counter of   *)
(* used pages in shared memory.  They register and free their slots over   *)
(* the pipe, which the runtime drains at the start of every step, and the  *)
(* runtime stores the counter at the end of the step.  In between, a step  *)
(* reorders the rows (beam search) and grows them in the pool.             *)
(*                                                                         *)
(* A session has one slot, as on a server of one block.  Slot ids are      *)
(* fresh, so a slot is a session and starts once.  A token's keys and      *)
(* values are told apart by the row they were computed for and a version.  *)
(* The order of the free list is left out: pages are interchangeable, and  *)
(* the lowest free one is taken.  hist is what a contiguous cache would    *)
(* hold: gather must return exactly that.                                  *)
(***************************************************************************)
EXTENDS Integers, Sequences, FiniteSetsExt, SequencesExt

CONSTANTS NumPages, PageSize,
          Slots,      \* slot ids, each used for one session
          Batch,      \* rows of every slot
          MaxRow,  \* bound: tokens in a row
          Versions,   \* bound: values a token of a row can have
          NoSlot,
          MaxSteps    \* bound: steps in a behaviour

ASSUME PoolAssumption ==
  /\ NumPages \in Nat /\ PageSize \in Nat \ {0}
  /\ Batch \in Nat \ {0} /\ MaxRow \in Nat /\ Versions # {}
ASSUME StepsAssumption == MaxSteps \in Nat /\ NoSlot \notin Slots

Pages == 0..(NumPages - 1)
Rows == 1..Batch
Tokens == Rows \X Versions

VARIABLES
  freePages,   \* _free_pages
  tables,      \* _block_tables: for each slot, the pages of each row
  status,      \* of each slot: "new", "live", or "freed"
  content,     \* key_pool and value_pool: the tokens of each page
  hist         \* the tokens each row of a slot has been given

poolVars == <<freePages, tables, status, content, hist>>

CeilDiv(a, b) == (a + b - 1) \div b
MaxPages == CeilDiv(MaxRow, PageSize)
NoRows == [r \in Rows |-> <<>>]

NumFree == Cardinality(freePages)

(* The k pages that _acquire_page returns after n have been taken.         *)
Popped(n, k) ==
  [i \in 1..k |-> CHOOSE p \in freePages : Cardinality({q \in freePages : q < p}) = n + i - 1]
PagesOf(rows) == UNION {Range(rows[r]) : r \in Rows}
Before(f, r) == SumFunctionOnSet(f, 1..(r - 1))
Total(f) == Before(f, Batch + 1)
-----------------------------------------------------------------------------
(* register_slot                                                           *)
RegisterSlot(s) ==
  /\ status[s] = "new"
  /\ status' = [status EXCEPT ![s] = "live"]
  /\ tables' = [tables EXCEPT ![s] = NoRows]
  /\ hist' = [hist EXCEPT ![s] = NoRows]
  /\ UNCHANGED <<freePages, content>>

(* free_slot                                                               *)
FreeSlot(s) ==
  /\ status[s] = "live"
  /\ status' = [status EXCEPT ![s] = "freed"]
  /\ freePages' = freePages \cup PagesOf(tables[s])
  /\ tables' = [tables EXCEPT ![s] = NoRows]
  /\ hist' = [hist EXCEPT ![s] = NoRows]
  /\ UNCHANGED content

(* scatter grows the rows in order to n logical pages each, until the free *)
(* list is empty: what each row lacks, and what it gets.                   *)
Need(s, n) == [r \in Rows |-> Max({0, n - Len(tables[s][r])})]
Got(need) == [r \in Rows |-> Max({0, Min({need[r], NumFree - Before(need, r)})})]

(* Fault model: scatter takes the prefix's last token for a new one.       *)
StoresOffByOne(i, prefix, length) == i > prefix /\ i < length

(* scatter stores the tokens [prefix : length].                            *)
Stores(i, prefix, length) == i >= prefix /\ i < length

(* The content of the pages after the tokens of new from prefix on are     *)
(* stored through table.                                                   *)
Stored(table, prefix, new) ==
  [p \in Pages |-> [off \in 0..(PageSize - 1) |->
    LET at == {x \in Rows \X (0..(MaxPages - 1)) :
                 /\ x[2] < Len(table[x[1]]) /\ table[x[1]][x[2] + 1] = p
                 /\ Stores(x[2] * PageSize + off, prefix, Len(new[x[1]]))}
    IN IF at = {} THEN content[p][off]
       ELSE LET x == CHOOSE x \in at : TRUE IN new[x[1]][x[2] * PageSize + off + 1]]]

(* scatter in a step that leaves every row r with the tokens new[r].       *)
Scatter(s, prefix, new) ==
  LET need == Need(s, CeilDiv(Len(new[1]), PageSize))
      got == Got(need) IN
  /\ status[s] = "live"
  /\ tables' = [tables EXCEPT ![s] =
       [r \in Rows |-> tables[s][r] \o Popped(Before(got, r), got[r])]]
  /\ freePages' = freePages \ Range(Popped(0, Total(got)))
  /\ IF Total(need) > NumFree
     THEN UNCHANGED <<content, hist>>
     ELSE /\ content' = Stored(tables'[s], prefix, new)
          /\ hist' = [hist EXCEPT ![s] = new]
  /\ UNCHANGED status

(* gather: the first prefix tokens of every row.                           *)
Gather(s, prefix) ==
  [r \in Rows |-> [i \in 1..prefix |->
     content[tables[s][r][((i - 1) \div PageSize) + 1]][(i - 1) % PageSize]]]

(* The forward pass of a step: the client may have rewound the session to  *)
(* prefix tokens, and sends k more.                                        *)
PoolStep(s) ==
  \E prefix \in 0..Len(hist[s][1]), k \in 1..MaxRow, v \in Versions :
    /\ prefix + k <= MaxRow
    /\ Scatter(s, prefix, [r \in Rows |-> SubSeq(hist[s][r], 1, prefix)
                                          \o [i \in 1..k |-> <<r, v>>]])
-----------------------------------------------------------------------------
(* reorder(slot, hypo): the first destination of a source row reuses its   *)
(* pages, every further one gets copies.                                   *)
FirstUse(hypo, d) == \A e \in 1..(d - 1) : hypo[e] # hypo[d]
Copies(s, hypo) == [d \in Rows |->
  IF FirstUse(hypo, d) THEN 0 ELSE Len(tables[s][hypo[d]])]
Unused(hypo) == {r \in Rows : \A d \in Rows : hypo[d] # r}

(* The block table after the reorder.                                      *)
Reordered(s, hypo) == [d \in Rows |->
  IF FirstUse(hypo, d) THEN tables[s][hypo[d]]
  ELSE Popped(Before(Copies(s, hypo), d), Copies(s, hypo)[d])]

Reorder(s, hypo) ==
  /\ status[s] = "live"
  /\ Total(Copies(s, hypo)) <= NumFree
  /\ tables' = [tables EXCEPT ![s] = Reordered(s, hypo)]
  /\ freePages' = (freePages \ Range(Popped(0, Total(Copies(s, hypo)))))
                  \cup UNION {Range(tables[s][r]) : r \in Unused(hypo)}
  /\ content' = [p \in Pages |->
       LET copies == {x \in Rows \X (1..MaxPages) :
                        /\ ~FirstUse(hypo, x[1]) /\ x[2] <= Len(tables'[s][x[1]])
                        /\ tables'[s][x[1]][x[2]] = p}
       IN IF copies = {} THEN content[p]
          ELSE LET x == CHOOSE x \in copies : TRUE IN content[tables[s][hypo[x[1]]][x[2]]]]
  /\ hist' = [hist EXCEPT ![s] = [d \in Rows |-> hist[s][hypo[d]]]]
  /\ UNCHANGED status

(* reorder when the free list runs out: AllocationFailed leaves the loop   *)
(* with every free page popped and the block table as it was.              *)
ReorderFails(s, hypo) ==
  /\ status[s] = "live"
  /\ Total(Copies(s, hypo)) > NumFree
  /\ freePages' = {}
  /\ UNCHANGED <<tables, status, content, hist>>
-----------------------------------------------------------------------------
(* PagedKVPool.__init__                                                    *)
PoolInit ==
  /\ freePages = Pages
  /\ tables = [s \in Slots |-> NoRows]
  /\ status = [s \in Slots |-> "new"]
  /\ content = [p \in Pages |-> [off \in 0..(PageSize - 1) |-> CHOOSE t \in Tokens : TRUE]]
  /\ hist = [s \in Slots |-> NoRows]
-----------------------------------------------------------------------------
PagedSessions == Slots

VARIABLES
  used,     \* _paged_used_pages
  pagedEvent,    \* _memory_freed_event
  pagedPipe,     \* register and free messages
  pagedJob,      \* runtime: the session whose step is being computed
  phase,    \* runtime: "idle", "drain", "forward", "leave"
  pagedPc,       \* of each session
  steps

pagedVars == <<poolVars, used, pagedEvent, pagedPipe, pagedJob, phase, pagedPc, steps>>

HasRoom == NumPages - used >= 1
Registered == {s \in PagedSessions : status[s] = "live"}

PagedGoto(s, p) == pagedPc' = [pagedPc EXCEPT ![s] = p]
-----------------------------------------------------------------------------
(* _wait_for_free_pages: there is room, so the slots are registered.       *)
AdmitSlot(s) ==
  /\ pagedPc[s] \in {"new", "check"} /\ HasRoom
  /\ pagedPipe' = Append(pagedPipe, <<"register", s>>)
  /\ PagedGoto(s, "open")
  /\ UNCHANGED <<poolVars, used, pagedEvent, pagedJob, phase, steps>>

(* No room: with timeout 0, or past the deadline, AllocationFailed.        *)
Refuse(s) ==
  /\ pagedPc[s] \in {"new", "check"} /\ ~HasRoom
  /\ PagedGoto(s, "refused")
  /\ UNCHANGED <<poolVars, used, pagedEvent, pagedPipe, pagedJob, phase, steps>>

(* No room: a thread is sent to wait for the event.                        *)
Block(s) ==
  /\ pagedPc[s] \in {"new", "check"} /\ ~HasRoom
  /\ PagedGoto(s, "blocking")
  /\ UNCHANGED <<poolVars, used, pagedEvent, pagedPipe, pagedJob, phase, steps>>

(* Event.wait returns at once when the event is set, and sleeps otherwise. *)
Wait(s) ==
  /\ pagedPc[s] = "blocking"
  /\ PagedGoto(s, IF pagedEvent THEN "clear" ELSE "waiting")
  /\ UNCHANGED <<poolVars, used, pagedEvent, pagedPipe, pagedJob, phase, steps>>

(* The event is cleared and the condition looked at again.                 *)
Clear(s) ==
  /\ pagedPc[s] = "clear"
  /\ pagedEvent' = FALSE
  /\ PagedGoto(s, "check")
  /\ UNCHANGED <<poolVars, used, pagedPipe, pagedJob, phase, steps>>

(* The session's context exits.                                            *)
CloseSlot(s) ==
  /\ pagedPc[s] = "open"
  /\ pagedPipe' = Append(pagedPipe, <<"free", s>>)
  /\ PagedGoto(s, "closed")
  /\ UNCHANGED <<poolVars, used, pagedEvent, pagedJob, phase, steps>>
-----------------------------------------------------------------------------
(* The runtime starts a step of session s: use_paged_pool is entered.      *)
TakePagedJob(s) ==
  /\ phase = "idle" /\ pagedPc[s] = "open" /\ steps < MaxSteps
  /\ pagedJob' = s
  /\ phase' = "drain"
  /\ steps' = steps + 1
  /\ UNCHANGED <<poolVars, used, pagedEvent, pagedPipe, pagedPc>>

(* One message is drained: a free sets the event, which wakes every        *)
(* sleeping thread.                                                        *)
Drain ==
  /\ phase = "drain" /\ pagedPipe # <<>>
  /\ pagedPipe' = Tail(pagedPipe)
  /\ LET s == Head(pagedPipe)[2] IN
     IF Head(pagedPipe)[1] = "register"
     THEN RegisterSlot(s) /\ UNCHANGED <<pagedEvent, pagedPc>>
     ELSE /\ FreeSlot(s)
          /\ pagedEvent' = TRUE
          /\ pagedPc' = [u \in PagedSessions |-> IF pagedPc[u] = "waiting" THEN "clear" ELSE pagedPc[u]]
  /\ UNCHANGED <<used, pagedJob, phase, steps>>

Drained == phase = "drain" /\ pagedPipe = <<>>
UnchangedAround == UNCHANGED <<used, pagedEvent, pagedPipe, pagedJob, pagedPc, steps>>

(* A session closed meanwhile has no slot: its step raises KeyError.       *)
SlotGone ==
  /\ Drained /\ status[pagedJob] # "live"
  /\ phase' = "leave"
  /\ UNCHANGED poolVars /\ UnchangedAround

(* With hypo_ids, the rows are reordered first.                            *)
Permute ==
  /\ Drained
  /\ \E hypo \in [Rows -> Rows] : Reorder(pagedJob, hypo)
  /\ phase' = "forward"
  /\ UnchangedAround

(* ... which may end the step with AllocationFailed.                       *)
PermuteFails ==
  /\ Drained
  /\ \E hypo \in [Rows -> Rows] : ReorderFails(pagedJob, hypo)
  /\ phase' = "leave"
  /\ UnchangedAround

(* The tokens of the step are computed and stored, or the pool runs out of *)
(* pages and the step raises AllocationFailed.                             *)
Forward ==
  /\ Drained \/ phase = "forward"
  /\ PoolStep(pagedJob)
  /\ phase' = "leave"
  /\ UnchangedAround

(* The step leaves use_paged_pool: the counter of used pages is stored.    *)
FinishStep ==
  /\ phase = "leave"
  /\ used' = NumPages - NumFree
  /\ phase' = "idle" /\ pagedJob' = NoSlot
  /\ UNCHANGED <<poolVars, pagedEvent, pagedPipe, pagedPc, steps>>
-----------------------------------------------------------------------------
PagedInit ==
  /\ PoolInit
  /\ used = 0 /\ pagedEvent = FALSE /\ pagedPipe = <<>>
  /\ pagedJob = NoSlot /\ phase = "idle"
  /\ pagedPc = [s \in PagedSessions |-> "new"]
  /\ steps = 0

PagedNext ==
  \/ \E s \in PagedSessions :
       \/ AdmitSlot(s) \/ Refuse(s) \/ Block(s) \/ Wait(s) \/ Clear(s) \/ CloseSlot(s)
       \/ TakePagedJob(s)
  \/ Drain \/ SlotGone \/ Permute \/ PermuteFails \/ Forward \/ FinishStep

PagedSpec == PagedInit /\ [][PagedNext]_pagedVars
-----------------------------------------------------------------------------
(* Types of the pool.                                                      *)
PoolTypeOK ==
  /\ freePages \subseteq Pages
  /\ \A s \in Slots : \A r \in Rows : tables[s][r] \in Seq(Pages)
  /\ status \in [Slots -> {"new", "live", "freed"}]
  /\ content \in [Pages -> [0..(PageSize - 1) -> Tokens]]
  /\ \A s \in Slots : \A r \in Rows :
       hist[s][r] \in Seq(Tokens) /\ Len(hist[s][r]) <= MaxRow

(* No page is in two places: no row has one twice, no two rows share one,  *)
(* and a page in use is not in the free list.                              *)
NoSharing ==
  /\ \A x, y \in Slots \X Rows :
       x # y => Range(tables[x[1]][x[2]]) \cap Range(tables[y[1]][y[2]]) = {}
  /\ \A s \in Slots, r \in Rows :
       /\ IsInjective(tables[s][r])
       /\ Range(tables[s][r]) \cap freePages = {}

(* What gather returns for a row is what the session gave that row, over   *)
(* any sequence of growth, rewinding, beam reordering and failed steps.    *)
GatherExact ==
  \A s \in Slots : \A r \in Rows : Gather(s, Len(hist[s][r]))[r] = hist[s][r]

(* Types of the variables.                                                 *)
PagedTypeOK ==
  /\ PoolTypeOK
  /\ used \in 0..NumPages /\ pagedEvent \in BOOLEAN
  /\ pagedPipe \in Seq({"register", "free"} \X PagedSessions)
  /\ pagedJob \in PagedSessions \cup {NoSlot} /\ phase \in {"idle", "drain", "forward", "leave"}
  /\ pagedPc \in [PagedSessions -> {"new", "check", "blocking", "waiting", "clear", "open",
                          "closed", "refused"}]
  /\ steps \in 0..MaxSteps

(* Drained, the runtime knows exactly the open sessions: a step finds its  *)
(* slots, and no closed session keeps pages.  The counter that admission   *)
(* reads never shows a page as free that an open session occupies while    *)
(* the runtime is between two steps.                                       *)
DrainedPagesExact ==
  /\ pagedPipe = <<>> => Registered = {s \in PagedSessions : pagedPc[s] = "open"}
  /\ phase = "idle" => Cardinality(UNION {PagesOf(tables[s]) : s \in PagedSessions}) <= used

(* All of it: rows never share a page, gather returns what each row was    *)
(* given, and the drained pool knows its sessions.                         *)
PagesExact == NoSharing /\ GatherExact /\ DrainedPagesExact
=============================================================================
