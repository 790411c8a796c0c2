------------------------------ MODULE CostGuard ------------------------------
(***************************************************************************)
(* scripts/qualification_cost_guard.py: the guard that prices a proposed   *)
(* cloud run, and the spend ledger it reads.  The guard never writes the   *)
(* ledger.  An operator copies the row it asks for, calls it again to get  *)
(* the authorization, executes the run with a tool that regenerates the    *)
(* authorization from the ledger as it then is, and records what became    *)
(* of it.  Operators work side by side, each on a run of its own.          *)
(***************************************************************************)
EXTENDS Integers, FiniteSets, Functions

CONSTANTS
  Runs,      \* run identities
  Proposal   \* the workload, hours and manual maximum each run is proposed with

ASSUME LedgerAssumption ==
  /\ IsFiniteSet(Runs)
  /\ Proposal \in [Runs -> [workload : {"fleet", "route", "cache", "recovery", "seed"},
                            hours : Int, manual : Int, split : BOOLEAN,
                            shape : {"n1-t4", "g2-l4"}]]

VARIABLES
  ledger,    \* the row of each run that has one
  asked,     \* runs whose proposal the guard accepted: their row may be copied
  permits,   \* runs with an authorization report
  live,      \* runs that are being executed
  bill,      \* what each executed run has cost
  fresh      \* the pinned price snapshot is still valid

ledgerVars == <<ledger, asked, permits, live, bill, fresh>>

Ceiling == 100          \* USD, shared by all runs of the ledger
NoRow == [state |-> "none"]
States == {"PLANNED", "ACTIVE", "CLEANED", "CANCELED", "CLEANED-RELEASED"}
None == -1              \* no observed cost, no manual maximum

(***************************************************************************)
(* Prices in millionths of a USD per hour, rounded up.                     *)
(***************************************************************************)
Machine == 473212
G2Machine == 853625
T4 == 350000
WindowsVCPU == 46000
NatIP == 5000
DiskGiB(shape) == IF shape = "g2-l4" THEN 137 ELSE 55
CeilUSD(micro) == (micro + 999999) \div 1000000
Million == 1000000

\* A variable maximum with a quarter of headroom and ten USD of contingency,
\* rounded up to a whole USD.
WithHeadroom(micro) == CeilUSD((micro \div 4) * 5 + 5 + 10 * Million)

\* Two CPU and two CUDA hosts one after another, with the regional addresses
\* kept for all four.
GcpCost(hours, split, shape) ==
  LET machines == IF shape = "g2-l4" THEN 2 * Machine + 2 * G2Machine ELSE 4 * Machine + 2 * T4
      windows  == WindowsVCPU * 8 * 2
      disks    == 150 * (2 * DiskGiB("n1-t4") + 2 * DiskGiB(shape))
      nat      == NatIP * (IF split THEN 2 ELSE 1) * 4
  IN  WithHeadroom((machines + windows + disks + nat) * hours)

PublicRouteCost(hours) == WithHeadroom((G2Machine + 200 * DiskGiB("g2-l4") + NatIP) * hours)

PublicRouteCacheCost == 10

\* The hours a workload may ask for.
HoursAllowed(p) ==
  CASE p.workload \in {"fleet", "route"} -> p.hours \in 1..14
    [] p.workload = "cache" -> p.hours \in 1..6
    [] p.workload = "seed" -> p.hours \in 1..744
    [] OTHER -> TRUE

Maximum(p) ==
  CASE p.workload = "fleet" -> GcpCost(p.hours, p.split, p.shape)
    [] p.workload = "route" -> PublicRouteCost(p.hours)
    [] p.workload = "cache" -> PublicRouteCacheCost
    [] OTHER -> p.manual

(***************************************************************************)
(* The fields a request must and may have.                                 *)
(***************************************************************************)
Fields == {"project", "zone", "linux", "windows", "fallback", "g2", "images", "runtime",
           "cache_bootstrap", "manual", "fly_target"}

Required(workload) ==
  CASE workload = "fleet" -> {"project", "zone", "linux", "windows"}
    [] workload = "cache" -> {"project", "zone", "linux", "images", "cache_bootstrap"}
    [] workload = "route" -> {"project", "zone", "linux", "images", "runtime", "g2"}
    [] workload = "recovery" -> {"manual"}
    [] workload = "seed" -> {"manual", "fly_target"}

Optional(workload) == IF workload = "fleet" THEN {"fallback", "g2"} ELSE {}

RequestExact(workload, fields) ==
  /\ Required(workload) \subseteq fields
  /\ fields \subseteq Required(workload) \cup Optional(workload)

Gcp(p) == p.workload \in {"fleet", "cache", "route"}

(***************************************************************************)
(* The ledger.                                                             *)
(***************************************************************************)
\* Mutant: a cleaned run counts as observed even before its cost is known.
CommittedObserved(row) ==
  CASE row.state \in {"none", "CLEANED-RELEASED"} -> 0
    [] row.state \in {"CLEANED", "CANCELED"} -> IF row.observed = None THEN 0 ELSE row.observed
    [] OTHER -> row.maximum

\* What a row keeps of the ceiling.
Committed(row) ==
  CASE row.state \in {"none", "CLEANED-RELEASED"} -> 0
    [] row.state \in {"CLEANED", "CANCELED"} /\ row.observed # None -> row.observed
    [] OTHER -> IF row.observed > row.maximum THEN row.observed ELSE row.maximum

TotalCommitted == SumFunctionOnSet([r \in Runs |-> Committed(ledger[r])], Runs)

\* A final state needs a proof of the cleanup, a cancelled run its cost.
ParseRow(row) ==
  /\ row.state \in {"CANCELED", "CLEANED", "CLEANED-RELEASED"} => row.proof
  /\ row.state = "CANCELED" => row.observed # None
  /\ row.state # "none" => row.maximum > 0

ParseLedger == \A r \in Runs : ParseRow(ledger[r])

\* build_authorization: the fields, the price, and the ledger with this run in
\* it or on top of it.
RequestValid(r, fields) ==
  LET p == Proposal[r]
  IN  /\ RequestExact(p.workload, fields)
      /\ Gcp(p) => fresh
      /\ HoursAllowed(p) /\ Maximum(p) > 0

\* Without a row: the maximum must fit on top of what is committed.
AdmitsNew(r) ==
  ledger[r] = NoRow /\ TotalCommitted + Maximum(Proposal[r]) <= Ceiling

\* With its row, which must be the planned one: it is already committed.
AdmitsReserved(r) ==
  /\ ledger[r].state = "PLANNED"
  /\ ledger[r].maximum = Maximum(Proposal[r])
  /\ TotalCommitted <= Ceiling

(***************************************************************************)
(* Calls of the guard.                                                     *)
(***************************************************************************)
Requests(w) ==
  {Required(w)} \cup {Required(w) \ {f} : f \in Required(w)} \cup {Required(w) \cup {f} : f \in Fields}

GuardCall(r, fields) ==
  /\ ParseLedger /\ RequestValid(r, fields)
  /\ \/ AdmitsNew(r) /\ asked' = asked \cup {r} /\ UNCHANGED permits
     \/ AdmitsReserved(r) /\ permits' = permits \cup {r} /\ UNCHANGED asked
  /\ UNCHANGED <<ledger, live, bill, fresh>>

\* A lifecycle tool starts the run: its row must still be the planned one and
\* the authorization must be the one the guard would issue now.
Execute(r) ==
  /\ r \in permits /\ r \notin live /\ bill[r] = 0
  /\ ParseLedger /\ RequestValid(r, Required(Proposal[r].workload)) /\ AdmitsReserved(r)
  /\ live' = live \cup {r}
  /\ UNCHANGED <<ledger, asked, permits, bill, fresh>>

(***************************************************************************)
(* What operators and the provider do (external): rows are copied from the *)
(* guard's report, a run costs at most what it was priced at, and its final *)
(* row records its cost.                                                   *)
(***************************************************************************)
CopyRow(r) ==
  /\ r \in asked /\ ledger[r] = NoRow
  /\ ledger' = [ledger EXCEPT ![r] = [state |-> "PLANNED", maximum |-> Maximum(Proposal[r]),
                                      observed |-> None, proof |-> FALSE]]
  /\ UNCHANGED <<asked, permits, live, bill, fresh>>

MarkActive(r) ==
  /\ r \in live /\ ledger[r].state = "PLANNED"
  /\ ledger' = [ledger EXCEPT ![r].state = "ACTIVE"]
  /\ UNCHANGED <<asked, permits, live, bill, fresh>>

Spend(r, usd) ==
  /\ r \in live /\ bill[r] = 0 /\ bill' = [bill EXCEPT ![r] = usd]
  /\ UNCHANGED <<ledger, asked, permits, live, fresh>>

\* The run ends with everything it created gone, or without a proof of that.
Settle(r, proven) ==
  /\ r \in live /\ bill[r] > 0
  /\ live' = live \ {r} /\ permits' = permits \ {r}
  /\ ledger' = [ledger EXCEPT ![r] = [@ EXCEPT !.state = IF proven THEN "CLEANED" ELSE "ACTIVE",
                                               !.proof = proven]]
  /\ UNCHANGED <<asked, bill, fresh>>

Observe(r) ==
  /\ ledger[r].state \in {"ACTIVE", "CLEANED"} /\ r \notin live /\ ledger[r].observed = None
  /\ ledger' = [ledger EXCEPT ![r].observed = bill[r]]
  /\ UNCHANGED <<asked, permits, live, bill, fresh>>

Cancel(r) ==
  /\ ledger[r].state = "PLANNED" /\ r \notin live /\ bill[r] = 0
  /\ ledger' = [ledger EXCEPT ![r] = [state |-> "CANCELED", maximum |-> @.maximum,
                                      observed |-> 0, proof |-> TRUE]]
  /\ UNCHANGED <<asked, permits, live, bill, fresh>>

\* The owner opens a new epoch: what is cleaned no longer counts.
Release ==
  /\ live = {} /\ \A r \in Runs : ledger[r].state \in {"none", "CLEANED", "CANCELED"}
  /\ \E r \in Runs : ledger[r].state = "CLEANED"
  /\ ledger' = [r \in Runs |-> IF ledger[r].state = "CLEANED"
                               THEN [ledger[r] EXCEPT !.state = "CLEANED-RELEASED"] ELSE ledger[r]]
  /\ UNCHANGED <<asked, permits, live, bill, fresh>>

Outdate == fresh /\ fresh' = FALSE /\ UNCHANGED <<ledger, asked, permits, live, bill>>

LedgerInit ==
  /\ ledger = [r \in Runs |-> NoRow]
  /\ asked = {} /\ permits = {} /\ live = {}
  /\ bill = [r \in Runs |-> 0] /\ fresh = TRUE

LedgerNext ==
  \/ \E r \in Runs :
       \/ \E fields \in Requests(Proposal[r].workload) : GuardCall(r, fields)
       \/ Execute(r) \/ CopyRow(r) \/ MarkActive(r)
       \/ \E usd \in {1, Maximum(Proposal[r])} : Spend(r, usd)
       \/ \E proven \in BOOLEAN : Settle(r, proven)
       \/ Observe(r) \/ Cancel(r)
  \/ Release \/ Outdate

LedgerSpec == LedgerInit /\ [][LedgerNext]_ledgerVars

(***************************************************************************)
(* Properties.                                                             *)
(***************************************************************************)
LedgerTypeOK ==
  /\ asked \subseteq Runs /\ permits \subseteq Runs /\ live \subseteq Runs
  /\ \A r \in Runs : ledger[r].state \in States \cup {"none"} /\ bill[r] \in 0..Ceiling

\* What a run of this epoch costs, or may cost as long as it is going.
Exposure(r) ==
  IF ledger[r].state = "CLEANED-RELEASED" THEN 0
  ELSE IF r \in live /\ bill[r] = 0 THEN Maximum(Proposal[r]) ELSE bill[r]

\* Whatever rows operators add, settle, cancel and release side by side, the
\* runs of this epoch never cost more than the ceiling, even when each run that
\* is still going costs its maximum.
SpendBounded == SumFunctionOnSet([r \in Runs |-> Exposure(r)], Runs) <= Ceiling
=============================================================================
