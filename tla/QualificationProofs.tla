------------------------- MODULE QualificationProofs -------------------------
(***************************************************************************)
(* Proofs about the release-qualification tools, one part after another,   *)
(* and about the instance that TLC explores, which has them all.           *)
(*                                                                         *)
(* The ledger: only the start of a run lets the cost grow, and it asks for *)
(* the total first.  The Fly gate: where the state file stands at each     *)
(* stage, and what the verdict rests on.  The paid hosts: what exists and  *)
(* what may still arrive at each stage.  The packaged run: its program is  *)
(* marked with what is known at each position, and the finally block adds  *)
(* to it step by step.  The document a host writes: what was disturbed     *)
(* still shows in the host's next record.  The download: the three names   *)
(* lead to files that their makers have not yet taken away.                *)
(***************************************************************************)
EXTENDS MCQualification, SumTheorems, SequenceTheorems, TLAPS

-----------------------------------------------------------------------------
(***************************************************************************)
(* Proof of SpendBounded, for any finite set of runs and any proposals.    *)
(* What a run costs or may cost is at most what its row commits, however   *)
(* operators edit the ledger (RowExact).  The total that is committed may  *)
(* exceed the ceiling, when two rows are copied side by side; but only the *)
(* start of a run lets the cost grow, and it asks for the total first.     *)
(***************************************************************************)
Row == [state : States, maximum : Int, observed : Int, proof : BOOLEAN]

LedgerTypes ==
  /\ ledger \in [Runs -> {NoRow} \cup Row]
  /\ asked \subseteq Runs /\ live \subseteq Runs /\ bill \in [Runs -> Int]

\* A run is priced before it has a row; it is going while its row is planned or
\* active, it has cost nothing before and at most its price after.
RowExact(r) ==
  LET row == ledger[r]  price == Maximum(Proposal[r]) IN
  /\ r \in asked => price > 0
  /\ row.state # "none" => row.maximum = price /\ price > 0
  /\ r \in live => row.state \in {"PLANNED", "ACTIVE"} /\ row.observed = None
  /\ bill[r] \in 0..price \/ bill[r] = 0
  /\ row.state \in {"none", "CANCELED"} => bill[r] = 0
  /\ row.state = "PLANNED" => row.observed = None /\ (r \notin live => bill[r] = 0)
  /\ row.state = "ACTIVE" /\ r \notin live => bill[r] > 0
  /\ row.state \in {"CLEANED", "CLEANED-RELEASED"} => bill[r] > 0
  /\ row.state \in {"ACTIVE", "CLEANED"} => row.observed \in {None, bill[r]}
  /\ row.state = "CANCELED" => row.observed = 0
RowsExact == \A r \in Runs : RowExact(r)

\* Prices are whole numbers of USD.
LEMMA MaximumIsInt ==
  ASSUME NEW r \in Runs
  PROVE  Maximum(Proposal[r]) \in Int
  <1> DEFINE p == Proposal[r]
  <1>1. /\ p.workload \in {"fleet", "route", "cache", "recovery", "seed"}
        /\ p.hours \in Int /\ p.manual \in Int /\ p.split \in BOOLEAN
        /\ p.shape \in {"n1-t4", "g2-l4"}
    BY LedgerAssumption
  <1>2. ASSUME NEW micro \in Int PROVE WithHeadroom(micro) \in Int
    BY DEF WithHeadroom, CeilUSD, Million
  <1>3. ASSUME NEW hours \in Int, NEW split \in BOOLEAN, NEW shape \in {"n1-t4", "g2-l4"}
        PROVE  GcpCost(hours, split, shape) \in Int
    <2> DEFINE machines == IF shape = "g2-l4" THEN 2 * Machine + 2 * G2Machine ELSE 4 * Machine + 2 * T4
               windows  == WindowsVCPU * 8 * 2
               disks    == 150 * (2 * DiskGiB("n1-t4") + 2 * DiskGiB(shape))
               nat      == NatIP * (IF split THEN 2 ELSE 1) * 4
               all      == machines + windows + disks + nat
    <2>1. all \in Int
      BY DEF Machine, G2Machine, T4, WindowsVCPU, DiskGiB, NatIP
    <2>2. GcpCost(hours, split, shape) = WithHeadroom(all * hours)
      BY DEF GcpCost
    <2> HIDE DEF all
    <2>3. all * hours \in Int
      BY <2>1
    <2>4. QED
      BY <1>2, <2>2, <2>3
  <1>4. ASSUME NEW hours \in Int PROVE PublicRouteCost(hours) \in Int
    <2> DEFINE all == G2Machine + 200 * DiskGiB("g2-l4") + NatIP
    <2>1. all \in Int
      BY DEF G2Machine, DiskGiB, NatIP
    <2>2. PublicRouteCost(hours) = WithHeadroom(all * hours)
      BY DEF PublicRouteCost
    <2> HIDE DEF all
    <2>3. all * hours \in Int
      BY <2>1
    <2>4. QED
      BY <1>2, <2>2, <2>3
  <1> HIDE DEF p
  <1>5. Maximum(p) \in Int
    BY <1>1, <1>3, <1>4 DEF Maximum, PublicRouteCacheCost
  <1>6. QED
    BY <1>5 DEF p

\* What the row of a run commits covers what it costs or may cost.
LEMMA CommittedCovers ==
  ASSUME LedgerTypes, NEW r \in Runs, RowExact(r)
  PROVE  /\ Exposure(r) \in Int /\ Committed(ledger[r]) \in Int
         /\ Exposure(r) <= Committed(ledger[r])
  <1> DEFINE row == ledger[r]  price == Maximum(Proposal[r])  cost == bill[r]
  <1>1. price \in Int /\ cost \in Int
    BY MaximumIsInt DEF LedgerTypes
  <1>2. row = NoRow \/ row \in Row
    BY DEF LedgerTypes
  <1>3. CASE row = NoRow
    BY <1>3 DEF RowExact, Exposure, Committed, NoRow
  <1>4. CASE row \in Row
    <2>1. row.state \in States /\ row.maximum \in Int /\ row.observed \in Int
      BY <1>4 DEF Row
    <2> HIDE DEF row, price, cost
    <2>2. row.maximum = price /\ price > 0
      BY <2>1 DEF RowExact, States, row, price
    <2>3. cost \in 0..price
      BY <2>2, <1>1 DEF RowExact, price, cost
    <2>4. Exposure(r) = IF row.state = "CLEANED-RELEASED" THEN 0
                        ELSE IF r \in live /\ cost = 0 THEN price ELSE cost
      BY DEF Exposure, row, price, cost
    <2>5. /\ r \in live => row.state \in {"PLANNED", "ACTIVE"} /\ row.observed = None
          /\ row.state = "CANCELED" => cost = 0 /\ row.observed = 0
          /\ row.state \in {"ACTIVE", "CLEANED"} => row.observed \in {None, cost}
          /\ row.state = "PLANNED" => row.observed = None
      BY DEF RowExact, row, cost
    <2>6. Committed(row) =
            IF row.state = "CLEANED-RELEASED" THEN 0
            ELSE IF row.state \in {"CLEANED", "CANCELED"} /\ row.observed # None THEN row.observed
            ELSE IF row.observed > row.maximum THEN row.observed ELSE row.maximum
      BY <2>1 DEF Committed, States
    <2>7. Exposure(r) \in Int /\ Committed(row) \in Int /\ Exposure(r) <= Committed(row)
      BY <1>1, <2>1, <2>2, <2>3, <2>4, <2>5, <2>6 DEF States, None
    <2>8. QED
      BY <2>7 DEF row
  <1>5. QED
    BY <1>2, <1>3, <1>4

-----------------------------------------------------------------------------
\* Every row stays exact, whatever the guard, the tools and operators do.
LEMMA RowsStayExact ==
  ASSUME LedgerTypes, RowsExact, [LedgerNext]_ledgerVars
  PROVE  LedgerTypes' /\ RowsExact'
  <1>a. \A r \in Runs : Maximum(Proposal[r]) \in Int
    BY MaximumIsInt
  <1>b. NoRow.state = "none" /\ \A row \in Row : row.state \in States /\ row.state # "none"
    BY DEF NoRow, Row, States
  <1>c. \A r \in Runs : /\ ledger[r] \in {NoRow} \cup Row
                        /\ ledger[r].state # "none" => ledger[r] \in Row
    BY <1>b DEF LedgerTypes
  \* A step that edits the row of r only.
  <1>d. ASSUME NEW r \in Runs, NEW row \in {NoRow} \cup Row,
               ledger' = [ledger EXCEPT ![r] = row],
               asked' \subseteq Runs, live' \subseteq Runs, bill' \in [Runs -> Int],
               RowExact(r)',
               \A q \in Runs \ {r} : /\ (q \in asked' => q \in asked) /\ (q \in live' <=> q \in live)
                                     /\ bill'[q] = bill[q]
        PROVE  LedgerTypes' /\ RowsExact'
    <2>1. LedgerTypes'
      BY <1>d DEF LedgerTypes
    <2>2. ASSUME NEW q \in Runs \ {r} PROVE RowExact(q)'
      <3>1. ledger'[q] = ledger[q]
        BY <1>d DEF LedgerTypes
      <3>2. RowExact(q)
        BY DEF RowsExact
      <3>3. QED
        BY <1>d, <3>1, <3>2 DEF RowExact
    <2>3. QED
      BY <1>d, <2>1, <2>2 DEF RowsExact
  \* A step that edits no row.
  <1>e. ASSUME NEW r \in Runs, ledger' = ledger,
               asked' \subseteq Runs, live' \subseteq Runs, bill' \in [Runs -> Int],
               RowExact(r)',
               \A q \in Runs \ {r} : /\ (q \in asked' => q \in asked) /\ (q \in live' <=> q \in live)
                                     /\ bill'[q] = bill[q]
        PROVE  LedgerTypes' /\ RowsExact'
    <2>1. ledger' = [ledger EXCEPT ![r] = ledger[r]]
      BY <1>e DEF LedgerTypes
    <2>2. QED
      BY <1>c, <1>d, <1>e, <2>1
  <1>f. ASSUME NEW r \in Runs, NEW row,
               ledger' = [ledger EXCEPT ![r] = row]
        PROVE  ledger'[r] = row
    BY <1>f DEF LedgerTypes
  <1>1. ASSUME NEW r \in Runs, NEW fields, GuardCall(r, fields) PROVE LedgerTypes' /\ RowsExact'
    <2>1. RowExact(r)'
      BY <1>1, <1>a DEF GuardCall, RequestValid, RowsExact, RowExact
    <2>2. /\ UNCHANGED <<ledger, live, bill>> /\ asked' \subseteq Runs
          /\ \A q \in Runs \ {r} : q \in asked' => q \in asked
      BY <1>1 DEF GuardCall, LedgerTypes
    <2>3. QED
      BY <1>e, <2>1, <2>2 DEF LedgerTypes
  <1>2. ASSUME NEW r \in Runs, Execute(r) PROVE LedgerTypes' /\ RowsExact'
    <2>1. RowExact(r)'
      BY <1>2 DEF Execute, AdmitsReserved, RowsExact, RowExact
    <2>2. QED
      BY <1>2, <1>e, <2>1 DEF Execute, LedgerTypes
  <1>3. ASSUME NEW r \in Runs, CopyRow(r) PROVE LedgerTypes' /\ RowsExact'
    <2> DEFINE row == [state |-> "PLANNED", maximum |-> Maximum(Proposal[r]),
                       observed |-> None, proof |-> FALSE]
    <2>1. row \in Row
      BY <1>a DEF Row, States, None
    <2>2. ledger' = [ledger EXCEPT ![r] = row] /\ ledger'[r] = row
      BY <1>3, <1>f DEF CopyRow
    <2>3. RowExact(r)'
      BY <1>3, <1>b, <2>2 DEF CopyRow, RowsExact, RowExact
    <2> HIDE DEF row
    <2>4. QED
      BY <1>3, <1>d, <2>1, <2>2, <2>3 DEF CopyRow, LedgerTypes
  <1>4. ASSUME NEW r \in Runs, MarkActive(r) PROVE LedgerTypes' /\ RowsExact'
    <2> DEFINE row == [ledger[r] EXCEPT !.state = "ACTIVE"]
    <2>1. ledger[r] \in Row
      BY <1>4, <1>c DEF MarkActive
    <2>2. /\ row \in Row /\ row.state = "ACTIVE"
          /\ row.maximum = ledger[r].maximum /\ row.observed = ledger[r].observed
      BY <2>1 DEF Row, States
    <2>3. ledger' = [ledger EXCEPT ![r] = row] /\ ledger'[r] = row
      BY <1>4, <1>f DEF MarkActive
    <2> HIDE DEF row
    <2>4. RowExact(r)'
      BY <1>4, <2>2, <2>3 DEF MarkActive, RowsExact, RowExact
    <2>5. QED
      BY <1>4, <1>d, <2>2, <2>3, <2>4 DEF MarkActive, LedgerTypes
  <1>5. ASSUME NEW r \in Runs, NEW usd \in {1, Maximum(Proposal[r])}, Spend(r, usd)
        PROVE  LedgerTypes' /\ RowsExact'
    <2>1. bill'[r] = usd /\ usd \in Int
      BY <1>a, <1>5 DEF Spend, LedgerTypes
    <2>2. Maximum(Proposal[r]) > 0 /\ ledger[r].state \in {"PLANNED", "ACTIVE"}
      BY <1>5 DEF Spend, RowsExact, RowExact
    <2>3. usd \in 0..Maximum(Proposal[r]) /\ usd > 0
      BY <1>a, <1>5, <2>2
    <2>4. RowExact(r)'
      BY <1>5, <2>1, <2>2, <2>3 DEF Spend, RowsExact, RowExact
    <2>5. QED
      BY <1>5, <1>e, <2>1, <2>4 DEF Spend, LedgerTypes
  <1>6. ASSUME NEW r \in Runs, NEW settled \in BOOLEAN, Settle(r, settled)
        PROVE  LedgerTypes' /\ RowsExact'
    <2> DEFINE row == [ledger[r] EXCEPT !.state = IF settled THEN "CLEANED" ELSE "ACTIVE",
                                        !.proof = settled]
    <2>1. ledger[r] \in Row
      BY <1>6, <1>c DEF Settle, RowsExact, RowExact
    <2>2. /\ row \in Row /\ row.state \in {"CLEANED", "ACTIVE"}
          /\ row.maximum = ledger[r].maximum /\ row.observed = ledger[r].observed
      BY <2>1 DEF Row, States
    <2>3. ledger' = [ledger EXCEPT ![r] = row] /\ ledger'[r] = row
      BY <1>6, <1>f DEF Settle
    <2> HIDE DEF row
    <2>4. RowExact(r)'
      BY <1>6, <2>2, <2>3 DEF Settle, RowsExact, RowExact
    <2>5. QED
      BY <1>6, <1>d, <2>2, <2>3, <2>4 DEF Settle, LedgerTypes
  <1>7. ASSUME NEW r \in Runs, Observe(r) PROVE LedgerTypes' /\ RowsExact'
    <2> DEFINE row == [ledger[r] EXCEPT !.observed = bill[r]]
    <2>1. ledger[r] \in Row /\ bill[r] \in Int
      BY <1>7, <1>c DEF Observe, LedgerTypes
    <2>2. /\ row \in Row /\ row.state = ledger[r].state
          /\ row.maximum = ledger[r].maximum /\ row.observed = bill[r]
      BY <2>1 DEF Row
    <2>3. ledger' = [ledger EXCEPT ![r] = row] /\ ledger'[r] = row
      BY <1>7, <1>f DEF Observe
    <2> HIDE DEF row
    <2>4. RowExact(r)'
      BY <1>7, <2>2, <2>3 DEF Observe, RowsExact, RowExact
    <2>5. QED
      BY <1>7, <1>d, <2>2, <2>3, <2>4 DEF Observe, LedgerTypes
  <1>8. ASSUME NEW r \in Runs, Cancel(r) PROVE LedgerTypes' /\ RowsExact'
    <2> DEFINE row == [state |-> "CANCELED", maximum |-> ledger[r].maximum,
                       observed |-> 0, proof |-> TRUE]
    <2>1. ledger[r] \in Row
      BY <1>8, <1>c DEF Cancel
    <2>2. /\ row \in Row /\ row.state = "CANCELED"
          /\ row.maximum = ledger[r].maximum /\ row.observed = 0
      BY <2>1 DEF Row, States
    <2>3. ledger' = [ledger EXCEPT ![r] = row] /\ ledger'[r] = row
      BY <1>8, <1>f DEF Cancel
    <2> HIDE DEF row
    <2>4. RowExact(r)'
      BY <1>8, <2>2, <2>3 DEF Cancel, RowsExact, RowExact
    <2>5. QED
      BY <1>8, <1>d, <2>2, <2>3, <2>4 DEF Cancel, LedgerTypes
  <1>9. CASE Release
    <2> DEFINE Freed(r) == [ledger[r] EXCEPT !.state = "CLEANED-RELEASED"]
    <2>1. ASSUME NEW r \in Runs, ledger[r].state = "CLEANED"
          PROVE  Freed(r) \in Row /\ Freed(r).state = "CLEANED-RELEASED" /\ Freed(r).maximum = ledger[r].maximum
      <3>1. ledger[r] \in Row
        BY <1>c, <2>1
      <3>2. QED
        BY <3>1 DEF Row, States
    <2>2. ledger' = [r \in Runs |-> IF ledger[r].state = "CLEANED" THEN Freed(r) ELSE ledger[r]]
      BY <1>9 DEF Release
    <2>3. UNCHANGED <<asked, live, bill>>
      BY <1>9 DEF Release
    <2> HIDE DEF Freed
    <2>4. LedgerTypes'
      BY <1>c, <2>1, <2>2, <2>3 DEF LedgerTypes
    <2>5. ASSUME NEW r \in Runs PROVE RowExact(r)'
      <3>1. CASE ledger[r].state = "CLEANED"
        <4>1. ledger'[r].state = "CLEANED-RELEASED" /\ ledger'[r].maximum = ledger[r].maximum
          BY <2>1, <2>2, <3>1
        <4>2. QED
          BY <2>3, <3>1, <4>1 DEF RowsExact, RowExact
      <3>2. CASE ledger[r].state # "CLEANED"
        <4>1. ledger'[r] = ledger[r]
          BY <2>2, <3>2
        <4>2. QED
          BY <2>3, <4>1 DEF RowsExact, RowExact
      <3>3. QED
        BY <3>1, <3>2
    <2>6. QED
      BY <2>4, <2>5 DEF RowsExact
  <1>10. CASE UNCHANGED <<ledger, asked, live, bill>>
    BY <1>10 DEF LedgerTypes, RowsExact, RowExact
  <1>11. QED
    BY <1>1, <1>2, <1>3, <1>4, <1>5, <1>6, <1>7, <1>8, <1>9, <1>10
       DEF LedgerNext, Outdate, ledgerVars

\* Only the start of a run lets what the runs may cost grow, and then what is
\* committed covers it.
LEMMA SpendStaysBounded ==
  ASSUME LedgerTypes, RowsExact, LedgerTypes', RowsExact', SpendBounded, [LedgerNext]_ledgerVars
  PROVE  SpendBounded'
  <1> DEFINE old == [r \in Runs |-> Exposure(r)]
             new == [r \in Runs |-> Exposure(r)']
             kept == [r \in Runs |-> Committed(ledger[r])]
  <1>a. IsFiniteSet(Runs)
    BY LedgerAssumption
  <1>b. \A r \in Runs : /\ Exposure(r) \in Int /\ Committed(ledger[r]) \in Int
                        /\ Exposure(r) <= Committed(ledger[r])
    BY CommittedCovers DEF RowsExact
  <1>c. ASSUME NEW r \in Runs PROVE Exposure(r)' \in Int
    <2>1. Maximum(Proposal[r]) \in Int /\ bill'[r] \in Int
      BY MaximumIsInt DEF LedgerTypes
    <2>2. QED
      BY <2>1 DEF Exposure
  <1>d. \A r \in Runs : /\ old[r] = Exposure(r) /\ new[r] = Exposure(r)'
                        /\ kept[r] = Committed(ledger[r])
    OBVIOUS
  <1>e. (SpendBounded <=> SumFunctionOnSet(old, Runs) <= Ceiling)
        /\ (SpendBounded' <=> SumFunctionOnSet(new, Runs) <= Ceiling)
        /\ TotalCommitted = SumFunctionOnSet(kept, Runs)
    BY DEF SpendBounded, TotalCommitted
  <1> HIDE DEF old, new, kept
  <1>f. /\ SumFunctionOnSet(old, Runs) \in Int /\ SumFunctionOnSet(new, Runs) \in Int
        /\ SumFunctionOnSet(kept, Runs) \in Int
    BY <1>a, <1>b, <1>c, <1>d, SumIsInt
  <1>g. ASSUME \A r \in Runs : Exposure(r)' <= Exposure(r) PROVE SpendBounded'
    <2>1. \A r \in Runs : new[r] \in Int /\ old[r] \in Int /\ new[r] <= old[r]
      BY <1>b, <1>c, <1>d, <1>g
    <2>2. SumFunctionOnSet(new, Runs) <= SumFunctionOnSet(old, Runs)
      BY <1>a, <2>1, SumOfLarger
    <2>3. QED
      BY <1>e, <1>f, <2>2 DEF Ceiling
  <1>h. ASSUME NEW r \in Runs, \A q \in Runs \ {r} : Exposure(q)' = Exposure(q),
               Exposure(r)' <= Exposure(r)
        PROVE  SpendBounded'
    <2>1. \A q \in Runs : Exposure(q)' <= Exposure(q)
      BY <1>b, <1>c, <1>h
    <2>2. QED
      BY <1>g, <2>1
  <1>i. ASSUME NEW r \in Runs, NEW row, ledger' = [ledger EXCEPT ![r] = row]
        PROVE  ledger'[r] = row /\ \A q \in Runs \ {r} : ledger'[q] = ledger[q]
    BY <1>i DEF LedgerTypes
  <1>j. \A r \in Runs : Maximum(Proposal[r]) \in Int /\ bill[r] \in Int
    BY MaximumIsInt DEF LedgerTypes
  <1>1. ASSUME NEW r \in Runs, NEW fields, GuardCall(r, fields) PROVE SpendBounded'
    <2>1. \A q \in Runs : Exposure(q)' = Exposure(q)
      BY <1>1 DEF GuardCall, Exposure
    <2>2. QED
      BY <1>b, <1>g, <2>1
  <1>2. ASSUME NEW r \in Runs, Execute(r) PROVE SpendBounded'
    <2>1. TotalCommitted <= Ceiling
      BY <1>2 DEF Execute, AdmitsReserved
    <2>2. ASSUME NEW q \in Runs \ {r} PROVE Exposure(q)' = Exposure(q)
      BY <1>2 DEF Execute, Exposure
    <2>3. Exposure(r)' = Maximum(Proposal[r])
      BY <1>2 DEF Execute, AdmitsReserved, Exposure
    <2>4. Maximum(Proposal[r]) <= Committed(ledger[r])
      BY <1>2, <1>j DEF Execute, AdmitsReserved, Committed, RowsExact, RowExact, None
    <2>5. \A q \in Runs : new[q] \in Int /\ kept[q] \in Int /\ new[q] <= kept[q]
      BY <1>b, <1>c, <1>d, <2>2, <2>3, <2>4
    <2>6. SumFunctionOnSet(new, Runs) <= SumFunctionOnSet(kept, Runs)
      BY <1>a, <2>5, SumOfLarger
    <2>7. QED
      BY <1>e, <1>f, <2>1, <2>6 DEF Ceiling
  <1>3. ASSUME NEW r \in Runs, CopyRow(r) PROVE SpendBounded'
    <2>1. Exposure(r)' = Exposure(r)
      BY <1>3, <1>i DEF CopyRow, Exposure, NoRow
    <2>2. \A q \in Runs \ {r} : Exposure(q)' = Exposure(q)
      BY <1>3, <1>i DEF CopyRow, Exposure
    <2>3. QED
      BY <1>b, <1>h, <2>1, <2>2
  <1>4. ASSUME NEW r \in Runs, MarkActive(r) PROVE SpendBounded'
    <2>1. ledger'[r].state # "CLEANED-RELEASED" /\ ledger[r].state # "CLEANED-RELEASED"
      BY <1>4 DEF MarkActive, RowsExact, RowExact
    <2>2. \A q \in Runs \ {r} : ledger'[q] = ledger[q]
      BY <1>4, <1>i DEF MarkActive
    <2>3. \A q \in Runs : Exposure(q)' = Exposure(q)
      BY <1>4, <2>1, <2>2 DEF MarkActive, Exposure
    <2>4. QED
      BY <1>b, <1>g, <2>3
  <1>5. ASSUME NEW r \in Runs, NEW usd \in {1, Maximum(Proposal[r])}, Spend(r, usd)
        PROVE  SpendBounded'
    <2>1. /\ Exposure(r) = Maximum(Proposal[r]) /\ Maximum(Proposal[r]) > 0
          /\ bill'[r] = usd /\ usd <= Maximum(Proposal[r]) /\ usd > 0
      BY <1>5, <1>j DEF Spend, Exposure, RowsExact, RowExact, LedgerTypes
    <2>2. Exposure(r)' <= Exposure(r)
      BY <1>5, <1>j, <2>1 DEF Spend, Exposure
    <2>3. \A q \in Runs \ {r} : Exposure(q)' = Exposure(q)
      BY <1>5 DEF Spend, Exposure, LedgerTypes
    <2>4. QED
      BY <1>h, <2>2, <2>3
  <1>6. ASSUME NEW r \in Runs, NEW settled \in BOOLEAN, Settle(r, settled) PROVE SpendBounded'
    <2>1. bill[r] > 0 /\ ledger[r].state # "CLEANED-RELEASED"
      BY <1>6 DEF Settle, RowsExact, RowExact
    <2>2. ledger'[r].state # "CLEANED-RELEASED"
      BY <1>6, <1>i DEF Settle, RowsExact, RowExact
    <2>3. \A q \in Runs \ {r} : ledger'[q] = ledger[q]
      BY <1>6, <1>i DEF Settle
    <2>4. \A q \in Runs : Exposure(q)' = Exposure(q)
      BY <1>6, <1>j, <2>1, <2>2, <2>3 DEF Settle, Exposure
    <2>5. QED
      BY <1>b, <1>g, <2>4
  <1>7. ASSUME NEW r \in Runs, Observe(r) PROVE SpendBounded'
    <2>1. ledger'[r].state # "CLEANED-RELEASED" /\ ledger[r].state # "CLEANED-RELEASED"
      BY <1>7 DEF Observe, LedgerTypes
    <2>2. \A q \in Runs \ {r} : ledger'[q] = ledger[q]
      BY <1>7, <1>i DEF Observe
    <2>3. \A q \in Runs : Exposure(q)' = Exposure(q)
      BY <1>7, <2>1, <2>2 DEF Observe, Exposure
    <2>4. QED
      BY <1>b, <1>g, <2>3
  <1>8. ASSUME NEW r \in Runs, Cancel(r) PROVE SpendBounded'
    <2>1. ledger'[r].state # "CLEANED-RELEASED" /\ ledger[r].state # "CLEANED-RELEASED"
      BY <1>8, <1>i DEF Cancel
    <2>2. \A q \in Runs \ {r} : ledger'[q] = ledger[q]
      BY <1>8, <1>i DEF Cancel
    <2>3. \A q \in Runs : Exposure(q)' = Exposure(q)
      BY <1>8, <2>1, <2>2 DEF Cancel, Exposure
    <2>4. QED
      BY <1>b, <1>g, <2>3
  <1>9. CASE Release
    <2>1. ASSUME NEW r \in Runs PROVE Exposure(r)' <= Exposure(r)
      <3>1. CASE ledger[r].state = "CLEANED"
        <4>1. ledger'[r].state = "CLEANED-RELEASED" \/ ledger'[r] = ledger[r]
          BY <1>9, <3>1 DEF Release, LedgerTypes, Row, NoRow
        <4>2. bill[r] > 0 /\ UNCHANGED <<live, bill>>
          BY <1>9, <3>1 DEF Release, RowsExact, RowExact
        <4>3. QED
          BY <1>j, <3>1, <4>1, <4>2 DEF Exposure
      <3>2. CASE ledger[r].state # "CLEANED"
        <4>1. ledger'[r] = ledger[r] /\ UNCHANGED <<live, bill>>
          BY <1>9, <3>2 DEF Release
        <4>2. QED
          BY <1>b, <4>1 DEF Exposure
      <3>3. QED
        BY <3>1, <3>2
    <2>2. QED
      BY <1>g, <2>1
  <1>10. CASE UNCHANGED <<ledger, asked, live, bill>>
    <2>1. \A q \in Runs : Exposure(q)' = Exposure(q)
      BY <1>10 DEF Exposure
    <2>2. QED
      BY <1>b, <1>g, <2>1
  <1>11. QED
    BY <1>1, <1>2, <1>3, <1>4, <1>5, <1>6, <1>7, <1>8, <1>9, <1>10
       DEF LedgerNext, Outdate, ledgerVars

\* The runs of an epoch never cost more than the shared ceiling, for any number
\* of runs, any proposals and any order of the operators' edits
\* (qualification_cost_guard.py's committed_usd and build_authorization).
THEOREM CeilingHolds == LedgerSpec => []SpendBounded
  <1>1. ASSUME LedgerInit PROVE LedgerTypes /\ RowsExact /\ SpendBounded
    <2>1. LedgerTypes /\ RowsExact
      BY <1>1 DEF LedgerInit, LedgerTypes, RowsExact, RowExact, NoRow
    <2> DEFINE old == [r \in Runs |-> Exposure(r)]
    <2>2. \A r \in Runs : old[r] = 0
      BY <1>1 DEF LedgerInit, Exposure, NoRow
    <2>3. SumFunctionOnSet(old, Runs) = 0
      BY <2>2, LedgerAssumption, SumOfZeros
    <2>4. SpendBounded
      BY <2>3 DEF SpendBounded, Ceiling
    <2>5. QED
      BY <2>1, <2>4
  <1>2. LedgerTypes /\ RowsExact /\ SpendBounded /\ [LedgerNext]_ledgerVars
        => (LedgerTypes /\ RowsExact /\ SpendBounded)'
    BY RowsStayExact, SpendStaysBounded
  <1>3. QED
    BY <1>1, <1>2, PTL DEF LedgerSpec

\* Nobody is billed more than the ceiling.
LedgerInv == LedgerTypes /\ RowsExact /\ SpendBounded /\ permits \subseteq Runs /\ \A r \in Runs : bill[r] <= Ceiling

\* A run is billed, and may be billed, no negative amount.
LEMMA ExposureIsNat ==
  ASSUME LedgerTypes, RowsExact, NEW r \in Runs
  PROVE  Exposure(r) \in Nat /\ bill[r] \in Nat
  <1> DEFINE row == ledger[r]  price == Maximum(Proposal[r])  cost == bill[r]
  <1>1. price \in Int /\ cost \in Int
    BY MaximumIsInt DEF LedgerTypes
  <1>2. /\ r \in live => row.state \in {"PLANNED", "ACTIVE"}
        /\ row.state # "none" => price > 0
        /\ cost \in 0..price \/ cost = 0
    BY DEF RowsExact, RowExact
  <1>3. Exposure(r) = IF row.state = "CLEANED-RELEASED" THEN 0
                      ELSE IF r \in live /\ cost = 0 THEN price ELSE cost
    BY DEF Exposure
  <1> HIDE DEF row, price, cost
  <1>4. cost \in Nat
    BY <1>1, <1>2
  <1>5. Exposure(r) \in Nat
    BY <1>1, <1>2, <1>3, <1>4
  <1>6. QED
    BY <1>4, <1>5 DEF cost

\* One run alone is under the ceiling, as all of them are.
LEMMA ExposureIsBounded ==
  ASSUME LedgerTypes, RowsExact, SpendBounded, NEW r \in Runs
  PROVE  Exposure(r) <= Ceiling
  <1> DEFINE e == [q \in Runs |-> Exposure(q)]
  <1>1. \A q \in Runs : e[q] \in Nat /\ e[q] = Exposure(q)
    BY ExposureIsNat
  <1>2. SumFunctionOnSet(e, Runs) <= Ceiling
    BY DEF SpendBounded
  <1>3. IsFiniteSet(Runs) /\ {r} \in SUBSET Runs
    BY LedgerAssumption
  <1> HIDE DEF e
  <1>4. SumFunctionOnSet(e, Runs) = e[r] + SumFunctionOnSet(e, Runs \ {r})
    BY <1>1, <1>3, SumWithout
  <1>5. SumFunctionOnSet(e, {}) = 0
    BY SumOfEmpty
  <1>6. IsFiniteSet(Runs \ {r}) /\ {} \in SUBSET (Runs \ {r}) /\ \A q \in Runs \ {r} : e[q] \in Nat
    BY <1>1, <1>3, FS_Subset
  <1>7. SumFunctionOnSet(e, {}) <= SumFunctionOnSet(e, Runs \ {r})
    BY <1>6, SumOfMore
  <1>8. SumFunctionOnSet(e, Runs \ {r}) \in Int
    BY <1>6, SumIsInt
  <1>9. PICK a, b, c : a = e[r] /\ b = SumFunctionOnSet(e, Runs \ {r}) /\ c = SumFunctionOnSet(e, Runs)
    OBVIOUS
  <1>10. a \in Nat /\ b \in Int /\ 0 <= b /\ c = a + b /\ c <= 100
    BY <1>1, <1>2, <1>4, <1>5, <1>7, <1>8, <1>9 DEF Ceiling
  <1>11. a <= 100
    BY <1>10
  <1>12. QED
    BY <1>1, <1>9, <1>11 DEF Ceiling

\* No edit of the operators and no start of a run breaks it.
LEMMA LedgerStaysSound ==
  LedgerInv /\ [LedgerNext]_ledgerVars => LedgerInv'
  <1> SUFFICES ASSUME LedgerInv, [LedgerNext]_ledgerVars PROVE LedgerInv'
    OBVIOUS
  <1>1. LedgerTypes /\ RowsExact /\ SpendBounded
    BY DEF LedgerInv
  <1>2. LedgerTypes' /\ RowsExact'
    BY <1>1, RowsStayExact
  <1>3. SpendBounded'
    BY <1>1, <1>2, SpendStaysBounded
  <1>4. permits' \subseteq Runs
    BY DEF LedgerInv, LedgerNext, GuardCall, Execute, CopyRow, MarkActive, Spend, Settle, Observe, Cancel, Release, Outdate,
           ledgerVars
  <1>5. ASSUME NEW r \in Runs PROVE bill'[r] <= Ceiling
    <2>1. CASE bill'[r] = bill[r]
      BY <2>1 DEF LedgerInv
    <2>2. CASE bill'[r] # bill[r]
      <3>0. PICK q \in Runs : \E usd \in {1, Maximum(Proposal[q])} : Spend(q, usd)
        BY <2>2 DEF LedgerNext, GuardCall, Execute, CopyRow, MarkActive, Settle, Observe, Cancel, Release, Outdate, ledgerVars
      <3>1. PICK usd \in {1, Maximum(Proposal[q])} : Spend(q, usd)
        BY <3>0
      <3>2. q = r /\ r \in live /\ ledger' = ledger /\ bill'[r] = usd /\ bill[r] = 0
        BY <1>1, <2>2, <3>1 DEF Spend, LedgerTypes
      <3>3. ledger[r].state # "CLEANED-RELEASED" /\ Maximum(Proposal[r]) > 0
        BY <1>1, <3>2 DEF RowsExact, RowExact
      <3>4. Exposure(r) = Maximum(Proposal[r])
        BY <3>2, <3>3 DEF Exposure
      <3>5. Maximum(Proposal[r]) <= Ceiling
        BY <1>1, <3>4, ExposureIsBounded
      <3>6. QED
        BY <3>1, <3>2, <3>5 DEF Ceiling
    <2>3. QED
      BY <2>1, <2>2
  <1>6. QED
    BY <1>2, <1>3, <1>4, <1>5 DEF LedgerInv

\* It holds of the empty ledger.
LEMMA LedgerStartsSound == LedgerInit => LedgerInv
  <1> SUFFICES ASSUME LedgerInit PROVE LedgerInv
    OBVIOUS
  <1>1. LedgerTypes /\ RowsExact
    BY DEF LedgerInit, LedgerTypes, RowsExact, RowExact, NoRow
  <1> DEFINE old == [r \in Runs |-> Exposure(r)]
  <1>2. \A r \in Runs : old[r] = 0
    BY DEF LedgerInit, Exposure, NoRow
  <1>3. SumFunctionOnSet(old, Runs) = 0
    BY <1>2, LedgerAssumption, SumOfZeros
  <1>4. SpendBounded
    BY <1>3 DEF SpendBounded, Ceiling
  <1>5. permits \subseteq Runs /\ \A r \in Runs : bill[r] <= Ceiling
    BY DEF LedgerInit, Ceiling
  <1>6. QED
    BY <1>1, <1>4, <1>5 DEF LedgerInv

\* The ledger has its types.
LEMMA LedgerTyped == LedgerInv => LedgerTypeOK
  <1> SUFFICES ASSUME LedgerInv, NEW r \in Runs
               PROVE  ledger[r].state \in States \cup {"none"} /\ bill[r] \in 0..Ceiling
    BY DEF LedgerTypeOK, LedgerInv, LedgerTypes
  <1>1. ledger[r].state \in States \cup {"none"}
    BY DEF LedgerInv, LedgerTypes, NoRow, Row
  <1>2. bill[r] \in Nat /\ bill[r] <= Ceiling
    BY ExposureIsNat DEF LedgerInv
  <1>3. QED
    BY <1>1, <1>2 DEF Ceiling

-----------------------------------------------------------------------------
(***************************************************************************)
(* The Fly recovery gate, for any number of faults.  The state file says   *)
(* which machines the tool knows; while it does not know all of them, a    *)
(* create that was given up may still land, and only a cleanup that scans  *)
(* for strays as often as it must may call the run cleaned.                *)
(***************************************************************************)
Provisioning == {"provision", "create", "wait", "identity", "journal"}
Gating == {"gate", "coverage", "generate", "interrupt", "recover", "probe"}
Boxes == {"none", "created", "started", "stopped", "gone"}

FlyTypes ==
  /\ FlyTypeOK
  /\ fpc \in Provisioning \cup Gating \cup {"resolve", "over"}
  /\ flight \subseteq Resources
  /\ caller \in {"none", "provision", "control"}
  /\ verdict \in {"none", "failed", "passing", "passed"}

\* Where the state file and the given-up creates stand at each stage.
FlyStages ==
  /\ fpc \in Provisioning =>
       file.status \in {"none", "provisioning"} /\ verdict = "none" /\ caller = "none"
  /\ fpc \in Gating => file.status = "ready" /\ LoadState /\ recs = Resources /\ verdict = "none"
  /\ fpc \in Provisioning => recs = {Layout[j] : j \in 1..(idx - 1)}
  /\ file.status = "cleaned" => LoadState /\ fpc \in {"resolve", "over"}
  /\ file.status = "cleaned_after_failure" => fpc = "over"
  /\ fpc = "resolve" =>
       \/ caller = "control" /\ LoadState /\ recs = Resources
       \/ caller = "provision"
  /\ flight # {} => ~LoadState /\ fpc \in {"resolve", "over"}

\* What the verdict rests on.
FlyVerdicts ==
  /\ fpc \in {"interrupt", "recover", "probe"} => victim \in before
  /\ fpc = "probe" \/ verdict \in {"passing", "passed"} => victim \in before /\ victim \notin after
  /\ verdict = "passing" => fpc = "resolve" /\ caller = "control"
  /\ verdict = "passed" => fpc = "over" /\ file.status = "cleaned" /\ \A r \in Resources : box[r] = "gone"

\* What the cleanup has established so far.
FlyCleanup ==
  /\ CleanedMeansDestroyed
  /\ fpc = "resolve" /\ scans = Confirmations => \A r \in Resources : Active(r) => r \in strays
  /\ fpc = "resolve" /\ caller = "control" => \A r \in proven : box[r] = "gone"

FlyInv == FlyTypes /\ FlyStages /\ FlyVerdicts /\ FlyCleanup
FlySpec == FlyInit /\ [][FlyNext]_flyVars

\* The five machines of the layout, in their order.
LEMMA LayoutIs == /\ Resources = {"bootstrap-a", "worker-a", "worker-b", "worker-c", "worker-d"}
                  /\ Len(Layout) = 5 /\ \A j \in 1..5 : Layout[j] \in Resources
                  /\ Resources = {Layout[j] : j \in 1..5}
  BY DEF Resources, Layout

\* A gate that fails hands the whole run to the cleanup command.
LEMMA ControlCleans ==
  ASSUME FlyTypes, FlyStages, fpc \in Gating, ControlCleanup
  PROVE  /\ fpc' = "resolve" /\ caller' = "control" /\ recs' = Resources
         /\ todo' = Resources /\ proven' = {} /\ scans' = 0
  BY DEF ControlCleanup, BeginCleanup, FlyStages, LoadState

\* The steps of the provisioning.
LEMMA ProvisioningKeeps ==
  ASSUME FlyInv, ListExisting \/ CreateMachine \/ WaitStarted \/ ReadPeerId \/ Journal
  PROVE  FlyInv'
  <1> USE DEF FlyFault, Provisioning, Gating, cleanupLocals, gateLocals, BeginCleanup
  <1>1. idx' \in 1..Len(Layout)
    BY LayoutIs DEF ListExisting, CreateMachine, WaitStarted, ReadPeerId, Journal, FlyInv,
       FlyTypes, FlyTypeOK
  <1>2. flight' \subseteq Resources
    <2>1. CASE ListExisting
      BY <2>1, LayoutIs DEF ListExisting, FlyInv, FlyTypes, FlyTypeOK
    <2>2. CASE CreateMachine
      <3>1. Layout[idx] \in Resources /\ flight \subseteq Resources
        BY LayoutIs DEF FlyInv, FlyTypes, FlyTypeOK
      <3>2. flight' \in {flight, flight \cup {Layout[idx]}}
        BY <2>2 DEF CreateMachine
      <3>3. QED
        BY <3>1, <3>2
    <2>3. CASE WaitStarted
      BY <2>3, LayoutIs DEF WaitStarted, FlyInv, FlyTypes, FlyTypeOK
    <2>4. CASE ReadPeerId
      BY <2>4, LayoutIs DEF ReadPeerId, FlyInv, FlyTypes, FlyTypeOK
    <2>5. CASE Journal
      BY <2>5, LayoutIs DEF Journal, FlyInv, FlyTypes, FlyTypeOK
    <2>6. QED
      BY <2>1, <2>2, <2>3, <2>4, <2>5
  <1>3. box' \in [Resources -> Boxes]
    BY LayoutIs DEF ListExisting, CreateMachine, WaitStarted, ReadPeerId, Journal, FlyInv,
       FlyTypes, FlyTypeOK, Boxes
  <1>4. recs' \subseteq Resources /\ todo' \subseteq recs' /\ proven' \subseteq recs'
    <2>1. CASE ListExisting
      BY <2>1, LayoutIs DEF ListExisting, FlyInv, FlyTypes, FlyTypeOK, LoadState, FlyStages
    <2>2. CASE CreateMachine
      BY <2>2, LayoutIs DEF CreateMachine, FlyInv, FlyTypes, FlyTypeOK, LoadState, FlyStages
    <2>3. CASE WaitStarted
      BY <2>3, LayoutIs DEF WaitStarted, FlyInv, FlyTypes, FlyTypeOK, LoadState, FlyStages
    <2>4. CASE ReadPeerId
      BY <2>4, LayoutIs DEF ReadPeerId, FlyInv, FlyTypes, FlyTypeOK, LoadState, FlyStages
    <2>5. CASE Journal
      <3>1. Layout[idx] \in Resources /\ recs \subseteq Resources
        BY <2>5, LayoutIs DEF Journal, FlyInv, FlyTypes, FlyTypeOK
      <3>2. CASE recs' = recs \cup {Layout[idx]} /\ UNCHANGED <<todo, proven>>
        BY <2>5, <3>1, <3>2 DEF Journal, FlyInv, FlyTypes, FlyTypeOK
      <3>3. CASE recs' \in {recs, recs \cup {Layout[idx]}} /\ todo' = recs' /\ proven' = {}
        BY <2>5, <3>1, <3>3
      <3>4. QED
        BY <2>5, <3>2, <3>3 DEF Journal
    <2>6. QED
      BY <2>1, <2>2, <2>3, <2>4, <2>5
  <1>5. scans' \in 0..Confirmations
    BY LayoutIs DEF ListExisting, CreateMachine, WaitStarted, ReadPeerId, Journal, FlyInv,
       FlyTypes, FlyTypeOK, Confirmations
  <1>6. flyFaults' \in 0..MaxFlyFaults
    BY FlyAssumption DEF ListExisting, CreateMachine, WaitStarted, ReadPeerId, Journal, FlyInv,
       FlyTypes, FlyTypeOK
  <1>7. /\ fpc' \in Provisioning \cup Gating \cup {"resolve", "over"}
        /\ caller' \in {"none", "provision", "control"}
        /\ verdict' \in {"none", "failed", "passing", "passed"}
    BY LayoutIs DEF ListExisting, CreateMachine, WaitStarted, ReadPeerId, Journal, FlyInv,
       FlyTypes
  <1>8. FlyTypes'
    BY <1>1, <1>2, <1>3, <1>4, <1>5, <1>6, <1>7 DEF FlyTypes, FlyTypeOK, Boxes
  <1>9. FlyStages'
    <2>1. CASE ListExisting
      BY <2>1, LayoutIs DEF ListExisting, FlyInv, FlyTypes, FlyTypeOK, FlyStages, LoadState
    <2>2. CASE CreateMachine
      BY <2>2, LayoutIs DEF CreateMachine, FlyInv, FlyTypes, FlyTypeOK, FlyStages, LoadState
    <2>3. CASE WaitStarted
      BY <2>3, LayoutIs DEF WaitStarted, FlyInv, FlyTypes, FlyTypeOK, FlyStages, LoadState
    <2>4. CASE ReadPeerId
      BY <2>4, LayoutIs DEF ReadPeerId, FlyInv, FlyTypes, FlyTypeOK, FlyStages, LoadState
    <2>5. CASE Journal
      BY <2>5, LayoutIs DEF Journal, FlyInv, FlyTypes, FlyTypeOK, FlyStages, LoadState
    <2>6. QED
      BY <2>1, <2>2, <2>3, <2>4, <2>5
  <1>10. FlyVerdicts'
    BY LayoutIs DEF ListExisting, CreateMachine, WaitStarted, ReadPeerId, Journal, FlyInv,
       FlyTypes, FlyTypeOK, FlyStages, FlyVerdicts, FlyCleanup, LoadState, Active
  <1>11. FlyCleanup'
    BY LayoutIs DEF ListExisting, CreateMachine, WaitStarted, ReadPeerId, Journal, FlyInv,
       FlyTypes, FlyTypeOK, FlyStages, FlyCleanup, CleanedMeansDestroyed, LoadState, Active,
       Confirmations
  <1>12. QED
    BY <1>8, <1>9, <1>10, <1>11 DEF FlyInv

\* The steps of the gate.
LEMMA GateKeeps ==
  ASSUME FlyInv, NEW route, GateLoad \/ Coverage \/ ActiveSpans \/ HardKill \/ CleanProbe \/ Recover(route)
  PROVE  FlyInv'
  <1> USE DEF FlyFault, Provisioning, Gating, cleanupLocals, gateLocals, GateFails, AckValid, ValidReplacement
  <1>1. idx' \in 1..Len(Layout)
    BY LayoutIs, ControlCleans DEF GateLoad, Coverage, ActiveSpans, HardKill, CleanProbe,
       Recover, FlyInv, FlyTypes, FlyTypeOK
  <1>2. flight' \subseteq Resources
    BY LayoutIs, ControlCleans DEF GateLoad, Coverage, ActiveSpans, HardKill, CleanProbe,
       Recover, FlyInv, FlyTypes, FlyTypeOK
  <1>3. box' \in [Resources -> Boxes]
    BY LayoutIs, ControlCleans DEF GateLoad, Coverage, ActiveSpans, HardKill, CleanProbe,
       Recover, FlyInv, FlyTypes, FlyTypeOK, Boxes
  <1>4. recs' \subseteq Resources /\ todo' \subseteq recs' /\ proven' \subseteq recs'
    <2>1. CASE GateLoad
      BY <2>1, LayoutIs, ControlCleans DEF GateLoad, FlyInv, FlyTypes, FlyTypeOK, LoadState,
         FlyStages
    <2>2. CASE Coverage
      BY <2>2, LayoutIs, ControlCleans DEF Coverage, FlyInv, FlyTypes, FlyTypeOK, LoadState,
         FlyStages
    <2>3. CASE ActiveSpans
      BY <2>3, LayoutIs, ControlCleans DEF ActiveSpans, FlyInv, FlyTypes, FlyTypeOK, LoadState,
         FlyStages
    <2>4. CASE HardKill
      BY <2>4, LayoutIs, ControlCleans DEF HardKill, FlyInv, FlyTypes, FlyTypeOK, LoadState,
         FlyStages
    <2>5. CASE CleanProbe
      BY <2>5, LayoutIs, ControlCleans DEF CleanProbe, FlyInv, FlyTypes, FlyTypeOK, LoadState,
         FlyStages
    <2>6. CASE Recover(route)
      BY <2>6, LayoutIs, ControlCleans DEF Recover, FlyInv, FlyTypes, FlyTypeOK, LoadState,
         FlyStages
    <2>7. QED
      BY <2>1, <2>2, <2>3, <2>4, <2>5, <2>6
  <1>5. scans' \in 0..Confirmations
    BY LayoutIs, ControlCleans DEF GateLoad, Coverage, ActiveSpans, HardKill, CleanProbe,
       Recover, FlyInv, FlyTypes, FlyTypeOK, Confirmations
  <1>6. flyFaults' \in 0..MaxFlyFaults
    BY FlyAssumption DEF GateLoad, Coverage, ActiveSpans, HardKill, CleanProbe, Recover, FlyInv,
       FlyTypes, FlyTypeOK
  <1>7. /\ fpc' \in Provisioning \cup Gating \cup {"resolve", "over"}
        /\ caller' \in {"none", "provision", "control"}
        /\ verdict' \in {"none", "failed", "passing", "passed"}
    BY LayoutIs, ControlCleans DEF GateLoad, Coverage, ActiveSpans, HardKill, CleanProbe,
       Recover, FlyInv, FlyTypes
  <1>8. FlyTypes'
    BY <1>1, <1>2, <1>3, <1>4, <1>5, <1>6, <1>7 DEF FlyTypes, FlyTypeOK, Boxes
  <1>9. FlyStages'
    BY LayoutIs, ControlCleans DEF GateLoad, Coverage, ActiveSpans, HardKill, CleanProbe,
       Recover, FlyInv, FlyTypes, FlyTypeOK, FlyStages, LoadState
  <1>10. FlyVerdicts'
    <2>1. CASE GateLoad
      BY <2>1, LayoutIs, ControlCleans DEF GateLoad, FlyInv, FlyTypes, FlyTypeOK, FlyStages,
         FlyVerdicts, FlyCleanup, LoadState, Active
    <2>2. CASE Coverage
      BY <2>2, LayoutIs, ControlCleans DEF Coverage, FlyInv, FlyTypes, FlyTypeOK, FlyStages,
         FlyVerdicts, FlyCleanup, LoadState, Active
    <2>3. CASE ActiveSpans
      <3>1. CASE /\ before' \in Routes /\ victim' = CHOOSE w \in before' : w \in FirstHalf
                 /\ fpc' = "interrupt" /\ UNCHANGED verdict
        <4>1. \E w \in before' : w \in FirstHalf
          BY <2>3, <3>1 DEF ActiveSpans, Routes
        <4>2. victim' \in before'
          BY <2>3, <3>1, <4>1
        <4>3. QED
          BY <2>3, <3>1, <4>2 DEF ActiveSpans, FlyInv, FlyStages, FlyVerdicts
      <3>2. CASE GateFails
        BY <2>3, <3>2, ControlCleans DEF ActiveSpans, FlyInv, FlyVerdicts
      <3>3. QED
        BY <2>3, <3>1, <3>2 DEF ActiveSpans
    <2>4. CASE HardKill
      BY <2>4, LayoutIs, ControlCleans DEF HardKill, FlyInv, FlyTypes, FlyTypeOK, FlyStages,
         FlyVerdicts, FlyCleanup, LoadState, Active
    <2>5. CASE CleanProbe
      BY <2>5, LayoutIs, ControlCleans DEF CleanProbe, FlyInv, FlyTypes, FlyTypeOK, FlyStages,
         FlyVerdicts, FlyCleanup, LoadState, Active
    <2>6. CASE Recover(route)
      BY <2>6, LayoutIs, ControlCleans DEF Recover, FlyInv, FlyTypes, FlyTypeOK, FlyStages,
         FlyVerdicts, FlyCleanup, LoadState, Active
    <2>7. QED
      BY <2>1, <2>2, <2>3, <2>4, <2>5, <2>6
  <1>11. FlyCleanup'
    BY LayoutIs, ControlCleans DEF GateLoad, Coverage, ActiveSpans, HardKill, CleanProbe,
       Recover, FlyInv, FlyTypes, FlyTypeOK, FlyStages, FlyCleanup, CleanedMeansDestroyed,
       LoadState, Active, Confirmations
  <1>12. QED
    BY <1>8, <1>9, <1>10, <1>11 DEF FlyInv

\* The steps of a cleanup.
LEMMA CleanupKeeps ==
  ASSUME FlyInv, Resolve \/ Scan \/ CleanupEnds(GateResult)
  PROVE  FlyInv'
  <1> USE DEF FlyFault, Provisioning, Gating, cleanupLocals, gateLocals, CleanupFails, GateResult, AckValid
  <1>1. idx' \in 1..Len(Layout)
    BY LayoutIs DEF Resolve, Scan, CleanupEnds, FlyInv, FlyTypes, FlyTypeOK
  <1>2. flight' \subseteq Resources
    BY LayoutIs DEF Resolve, Scan, CleanupEnds, FlyInv, FlyTypes, FlyTypeOK
  <1>3. box' \in [Resources -> Boxes]
    BY LayoutIs DEF Resolve, Scan, CleanupEnds, FlyInv, FlyTypes, FlyTypeOK, Boxes
  <1>4. recs' \subseteq Resources /\ todo' \subseteq recs' /\ proven' \subseteq recs'
    <2>1. CASE Resolve
      <3>1. recs' = recs /\ todo' \subseteq todo /\ proven' \subseteq proven \cup todo
        BY <2>1 DEF Resolve, FlyInv, FlyTypes, FlyTypeOK
      <3>2. QED
        BY <2>1, <3>1 DEF Resolve, FlyInv, FlyTypes, FlyTypeOK
    <2>2. CASE Scan
      BY <2>2, LayoutIs DEF Scan, FlyInv, FlyTypes, FlyTypeOK, LoadState, FlyStages
    <2>3. CASE CleanupEnds(GateResult)
      BY <2>3, LayoutIs DEF CleanupEnds, FlyInv, FlyTypes, FlyTypeOK, LoadState, FlyStages
    <2>4. QED
      BY <2>1, <2>2, <2>3
  <1>5. scans' \in 0..Confirmations
    BY LayoutIs DEF Resolve, Scan, CleanupEnds, FlyInv, FlyTypes, FlyTypeOK, Confirmations
  <1>6. flyFaults' \in 0..MaxFlyFaults
    BY FlyAssumption DEF Resolve, Scan, CleanupEnds, FlyInv, FlyTypes, FlyTypeOK
  <1>7. /\ fpc' \in Provisioning \cup Gating \cup {"resolve", "over"}
        /\ caller' \in {"none", "provision", "control"}
        /\ verdict' \in {"none", "failed", "passing", "passed"}
    BY LayoutIs DEF Resolve, Scan, CleanupEnds, FlyInv, FlyTypes
  <1>8. FlyTypes'
    BY <1>1, <1>2, <1>3, <1>4, <1>5, <1>6, <1>7 DEF FlyTypes, FlyTypeOK, Boxes
  <1>9. FlyStages'
    BY LayoutIs DEF Resolve, Scan, CleanupEnds, FlyInv, FlyTypes, FlyTypeOK, FlyStages,
       LoadState
  <1>10. FlyVerdicts'
    BY LayoutIs DEF Resolve, Scan, CleanupEnds, FlyInv, FlyTypes, FlyTypeOK, FlyStages,
       FlyVerdicts, FlyCleanup, LoadState, Active
  <1>11. FlyCleanup'
    <2>1. CASE Resolve
      <3>1. \A r \in Resources : Active(r)' => Active(r)
        BY <2>1 DEF Resolve, FlyInv, FlyTypes, FlyTypeOK, Active
      <3>2. CleanedMeansDestroyed'
        BY <2>1, <3>1 DEF Resolve, FlyInv, FlyCleanup, CleanedMeansDestroyed
      <3>3. fpc' = "resolve" /\ scans' = Confirmations => \A r \in Resources : Active(r)' => r \in strays'
        BY <2>1, <3>1 DEF Resolve, FlyInv, FlyCleanup, FlyTypes, FlyTypeOK, Confirmations
      <3>4. \A r \in proven' : r \in proven \/ box'[r] = "gone"
        BY <2>1 DEF Resolve, FlyInv, FlyTypes, FlyTypeOK, Active
      <3>5. \A r \in proven : box[r] = "gone" => box'[r] = "gone"
        BY <2>1 DEF Resolve, FlyInv, FlyTypes, FlyTypeOK, Active
      <3>6. QED
        BY <2>1, <3>2, <3>3, <3>4, <3>5 DEF Resolve, FlyInv, FlyCleanup
    <2>2. CASE Scan
      <3>1. \A r \in Resources : Active(r)' => Active(r)
        BY <2>2 DEF Scan, FlyInv, FlyTypes, FlyTypeOK, Active
      <3>2. CleanedMeansDestroyed'
        BY <2>2, <3>1 DEF Scan, FlyInv, FlyCleanup, CleanedMeansDestroyed
      <3>3. fpc' = "resolve" /\ scans' = Confirmations => \A r \in Resources : Active(r)' => r \in strays'
        BY <2>2, <3>1 DEF Scan, FlyInv, FlyCleanup, FlyTypes, FlyTypeOK, Confirmations
      <3>4. \A r \in proven' : r \in proven \/ box'[r] = "gone"
        BY <2>2 DEF Scan, FlyInv, FlyTypes, FlyTypeOK, Active
      <3>5. \A r \in proven : box[r] = "gone" => box'[r] = "gone"
        BY <2>2 DEF Scan, FlyInv, FlyTypes, FlyTypeOK, Active
      <3>6. QED
        BY <2>2, <3>2, <3>3, <3>4, <3>5 DEF Scan, FlyInv, FlyCleanup
    <2>3. CASE CleanupEnds(GateResult)
      BY <2>3, LayoutIs DEF CleanupEnds, FlyInv, FlyTypes, FlyTypeOK, FlyStages, FlyCleanup,
         CleanedMeansDestroyed, LoadState, Active, Confirmations
    <2>4. QED
      BY <2>1, <2>2, <2>3
  <1>12. QED
    BY <1>8, <1>9, <1>10, <1>11 DEF FlyInv

\* What happens around: a machine stops, a create lands, a kill, a repeated cleanup.
LEMMA AroundKeeps ==
  ASSUME FlyInv, NEW r \in Resources, Killed \/ CleanupAgain \/ MachineStops(r) \/ CreateLands(r)
  PROVE  FlyInv'
  <1> USE DEF FlyFault, Provisioning, Gating, cleanupLocals, gateLocals, BeginCleanup
  <1>1. idx' \in 1..Len(Layout)
    BY LayoutIs DEF Killed, CleanupAgain, MachineStops, CreateLands, FlyInv, FlyTypes, FlyTypeOK
  <1>2. flight' \subseteq Resources
    BY LayoutIs DEF Killed, CleanupAgain, MachineStops, CreateLands, FlyInv, FlyTypes, FlyTypeOK
  <1>3. box' \in [Resources -> Boxes]
    BY LayoutIs DEF Killed, CleanupAgain, MachineStops, CreateLands, FlyInv, FlyTypes,
       FlyTypeOK, Boxes
  <1>4. recs' \subseteq Resources /\ todo' \subseteq recs' /\ proven' \subseteq recs'
    <2>1. CASE Killed
      BY <2>1, LayoutIs DEF Killed, FlyInv, FlyTypes, FlyTypeOK, LoadState, FlyStages
    <2>2. CASE CleanupAgain
      BY <2>2, LayoutIs DEF CleanupAgain, FlyInv, FlyTypes, FlyTypeOK, LoadState, FlyStages
    <2>3. CASE MachineStops(r)
      BY <2>3, LayoutIs DEF MachineStops, FlyInv, FlyTypes, FlyTypeOK, LoadState, FlyStages
    <2>4. CASE CreateLands(r)
      BY <2>4, LayoutIs DEF CreateLands, FlyInv, FlyTypes, FlyTypeOK, LoadState, FlyStages
    <2>5. QED
      BY <2>1, <2>2, <2>3, <2>4
  <1>5. scans' \in 0..Confirmations
    BY LayoutIs DEF Killed, CleanupAgain, MachineStops, CreateLands, FlyInv, FlyTypes,
       FlyTypeOK, Confirmations
  <1>6. flyFaults' \in 0..MaxFlyFaults
    BY FlyAssumption DEF Killed, CleanupAgain, MachineStops, CreateLands, FlyInv, FlyTypes,
       FlyTypeOK
  <1>7. /\ fpc' \in Provisioning \cup Gating \cup {"resolve", "over"}
        /\ caller' \in {"none", "provision", "control"}
        /\ verdict' \in {"none", "failed", "passing", "passed"}
    BY LayoutIs DEF Killed, CleanupAgain, MachineStops, CreateLands, FlyInv, FlyTypes
  <1>8. FlyTypes'
    BY <1>1, <1>2, <1>3, <1>4, <1>5, <1>6, <1>7 DEF FlyTypes, FlyTypeOK, Boxes
  <1>9. FlyStages'
    BY LayoutIs DEF Killed, CleanupAgain, MachineStops, CreateLands, FlyInv, FlyTypes,
       FlyTypeOK, FlyStages, LoadState
  <1>10. FlyVerdicts'
    BY LayoutIs DEF Killed, CleanupAgain, MachineStops, CreateLands, FlyInv, FlyTypes,
       FlyTypeOK, FlyStages, FlyVerdicts, FlyCleanup, LoadState, Active
  <1>11. FlyCleanup'
    <2>1. CASE Killed
      BY <2>1, LayoutIs DEF Killed, FlyInv, FlyTypes, FlyTypeOK, FlyStages, FlyCleanup,
         CleanedMeansDestroyed, LoadState, Active, Confirmations
    <2>2. CASE CleanupAgain
      BY <2>2, LayoutIs DEF CleanupAgain, FlyInv, FlyTypes, FlyTypeOK, FlyStages, FlyCleanup,
         CleanedMeansDestroyed, LoadState, Active, Confirmations
    <2>3. CASE MachineStops(r)
      BY <2>3, LayoutIs DEF MachineStops, FlyInv, FlyTypes, FlyTypeOK, FlyStages, FlyCleanup,
         CleanedMeansDestroyed, LoadState, Active, Confirmations
    <2>4. CASE CreateLands(r)
      BY <2>4, LayoutIs DEF CreateLands, FlyInv, FlyTypes, FlyTypeOK, FlyStages, FlyCleanup,
         CleanedMeansDestroyed, LoadState, Active, Confirmations
    <2>5. QED
      BY <2>1, <2>2, <2>3, <2>4
  <1>12. QED
    BY <1>8, <1>9, <1>10, <1>11 DEF FlyInv

\* The invariant holds from the start.
LEMMA FlyStartsSound == FlyInit => FlyInv
  BY LayoutIs, FlyAssumption
     DEF FlyInit, FlyInv, FlyTypes, FlyTypeOK, FlyStages, FlyVerdicts, FlyCleanup,
         CleanedMeansDestroyed, LoadState, Provisioning, Gating, Confirmations

\* No step breaks it.
LEMMA FlyStaysSound == FlyInv /\ [FlyNext]_flyVars => FlyInv'
  <1>1. FlyInv /\ UNCHANGED flyVars => FlyInv'
    BY DEF flyVars, FlyInv, FlyTypes, FlyTypeOK, FlyStages, FlyVerdicts, FlyCleanup,
           CleanedMeansDestroyed, LoadState, Active
  <1>2. ASSUME FlyInv, ListExisting \/ CreateMachine \/ WaitStarted \/ ReadPeerId \/ Journal PROVE FlyInv'
    BY <1>2, ProvisioningKeeps
  <1>3. ASSUME FlyInv, NEW route,
               GateLoad \/ Coverage \/ ActiveSpans \/ HardKill \/ CleanProbe \/ Recover(route)
        PROVE  FlyInv'
    BY <1>3, GateKeeps
  <1>4. ASSUME FlyInv, Resolve \/ Scan \/ CleanupEnds(GateResult) PROVE FlyInv'
    BY <1>4, CleanupKeeps
  <1>5. ASSUME FlyInv, NEW r \in Resources, Killed \/ CleanupAgain \/ MachineStops(r) \/ CreateLands(r)
        PROVE  FlyInv'
    BY <1>5, AroundKeeps
  <1>6. \E r \in Resources : TRUE
    BY LayoutIs
  <1>7. QED
    BY <1>1, <1>2, <1>3, <1>4, <1>5, <1>6 DEF FlyNext

\* What the two properties of the run say follows from it.
LEMMA FlyInvRecovers == FlyInv => CleanedMeansDestroyed /\ PassedRecovered /\ FlyTypeOK
  BY DEF FlyInv, FlyTypes, FlyCleanup, FlyVerdicts, PassedRecovered

-----------------------------------------------------------------------------
(***************************************************************************)
(* The packaged run on a clean host, for any number of faults and window   *)
(* acts.  Its program has nearly a hundred operations, most of which move  *)
(* no unit and no token.  So each position is given a mark, the phases are *)
(* shown to lead from mark to mark (Fits), and the invariant says what a   *)
(* mark promises while the run goes on (PkGoesOn) and what each step of    *)
(* the finally block adds once it does not (PkKnown).                      *)
(***************************************************************************)
\* What is known where the program stands: the product is off and the token not yet
\* stored, off, up, or off with the token cleared.
Marks == {"fresh", "off", "up", "cleared"}
Quiet ==
  {"audit", "audit_replacement", "no_credential", "extract", "self_test", "bootstrap", "acquire",
   "cache_empty", "same_cache", "count", "observe_fault", "baseline_create", "baseline_revoke",
   "baseline_list", "baseline_count", "key_create", "complete", "key_revoke", "get_policy", "share",
   "unshare", "await_worker", "await_pause", "stop_all"}
Operations ==
  Quiet \cup {"store_token", "start", "stop", "fault_kill", "remove_install", "remove_data",
              "clear_token", "remove_work"}

\* How an operation leads from one mark to the next.
Goes(op, a, b) ==
  \/ op \in Quiet /\ a = b
  \/ op = "store_token" /\ a = "fresh" /\ b = "off"
  \/ op = "start" /\ a = "off" /\ b = "up"
  \/ op \in {"stop", "fault_kill"} /\ a = "up" /\ b = "off"
  \/ op \in {"remove_install", "remove_data"} /\ a = "off" /\ b = "off"
  \/ op = "clear_token" /\ a = "off" /\ b = "cleared"
  \/ op = "remove_work" /\ a = "cleared" /\ b = "cleared"

Outline(s, m) ==
  /\ m \in [1..(Len(s) + 1) -> Marks]
  /\ \A n \in 1..Len(s) : Goes(s[n], m[n], m[n + 1])

Fits(s, a, b) ==
  /\ s \in Seq(Operations)
  /\ \E m : Outline(s, m) /\ m[1] = a /\ m[Len(s) + 1] = b

\* The program up to the validation of its document.
Phased ==
  <<"audit">> \o CleanInstall \o SelfTests \o SignedBootstrap \o SelectedBytes
    \o VerifiedAcquisition \o LocalhostInference \o BoundedContribution \o ContributionPause
    \o RestartCacheReuse \o ManualReplacement \o Recovery \o UninstallRetain
    \o RetainedDataReinstall \o UninstallDelete \o ProcessCleanup

\* The elements of two sequences in a row.
LEMMA ConcatParts ==
  ASSUME NEW S, NEW s \in Seq(S), NEW t \in Seq(S)
  PROVE  /\ s \o t \in Seq(S) /\ Len(s \o t) = Len(s) + Len(t)
         /\ \A n \in 1..Len(s) : (s \o t)[n] = s[n]
         /\ \A n \in 1..Len(t) : (s \o t)[Len(s) + n] = t[n]
  BY ConcatProperties

\* Outlines of two programs make one of the programs in a row.
LEMMA FitsConcat ==
  ASSUME NEW s, NEW t, NEW a, NEW b, NEW c, Fits(s, a, b), Fits(t, b, c)
  PROVE  Fits(s \o t, a, c)
  <1>1. PICK f : Outline(s, f) /\ f[1] = a /\ f[Len(s) + 1] = b
    BY DEF Fits
  <1>2. PICK g : Outline(t, g) /\ g[1] = b /\ g[Len(t) + 1] = c
    BY DEF Fits
  <1>3. s \in Seq(Operations) /\ t \in Seq(Operations) /\ Len(s) \in Nat /\ Len(t) \in Nat
    BY DEF Fits
  <1>4. /\ s \o t \in Seq(Operations) /\ Len(s \o t) = Len(s) + Len(t)
        /\ \A n \in 1..Len(s) : (s \o t)[n] = s[n]
        /\ \A n \in 1..Len(t) : (s \o t)[Len(s) + n] = t[n]
    BY <1>3, ConcatParts
  <1> DEFINE m == [n \in 1..(Len(s) + Len(t) + 1) |-> IF n <= Len(s) THEN f[n] ELSE g[n - Len(s)]]
  <1>5. m \in [1..(Len(s \o t) + 1) -> Marks]
    BY <1>1, <1>2, <1>3, <1>4 DEF Outline
  <1>6. ASSUME NEW n \in 1..Len(s \o t) PROVE Goes((s \o t)[n], m[n], m[n + 1])
    <2>1. CASE n < Len(s)
      <3>1. n \in 1..Len(s) /\ m[n] = f[n] /\ m[n + 1] = f[n + 1]
        BY <1>3, <1>4, <2>1
      <3>2. QED
        BY <1>1, <1>4, <3>1 DEF Outline
    <2>2. CASE n = Len(s)
      <3>1. n \in 1..Len(s) /\ m[n] = f[n] /\ m[n + 1] = g[1] /\ g[1] = f[n + 1]
        BY <1>1, <1>2, <1>3, <1>4, <2>2
      <3>2. QED
        BY <1>1, <1>4, <3>1 DEF Outline
    <2>3. CASE n > Len(s)
      <3>1. PICK j \in 1..Len(t) : n = Len(s) + j
        <4>1. n - Len(s) \in 1..Len(t) /\ n = Len(s) + (n - Len(s))
          BY <1>3, <1>4, <2>3
        <4>2. QED
          BY <4>1
      <3>2. m[n] = g[j] /\ m[n + 1] = g[j + 1]
        BY <1>3, <1>4, <2>3, <3>1
      <3>3. QED
        BY <1>2, <1>4, <3>1, <3>2 DEF Outline
    <2>4. QED
      BY <1>3, <1>4, <2>1, <2>2, <2>3
  <1>7. m[1] = a /\ m[Len(s \o t) + 1] = c
    BY <1>1, <1>2, <1>3, <1>4
  <1> HIDE DEF m
  <1>8. QED
    BY <1>4, <1>5, <1>6, <1>7 DEF Fits, Outline

\* Operations that change nothing of it.
LEMMA QuietFits ==
  ASSUME NEW s \in Seq(Quiet), NEW a \in Marks
  PROVE  Fits(s, a, a)
  <1> DEFINE m == [n \in 1..(Len(s) + 1) |-> a]
  <1>1. s \in Seq(Operations) /\ Len(s) \in Nat
    BY DEF Operations
  <1>2. Outline(s, m) /\ m[1] = a /\ m[Len(s) + 1] = a
    BY <1>1 DEF Outline, Goes
  <1>3. QED
    BY <1>1, <1>2 DEF Fits

\* Where the product runs, the token is stored or the trees are removed.
LEMMA InferenceFits == Fits(Inference, "up", "up")
  <1>1. Inference \in Seq(Quiet) /\ "up" \in Marks
    BY DEF Inference, Quiet, Marks
  <1>2. QED
    BY <1>1, QuietFits

\* The operations that start and stop the product, store and clear the token, or
\* remove what is installed.
LEMMA MovingFits ==
  /\ Fits(<<"store_token", "start", "baseline_create", "baseline_revoke",
            "baseline_list", "baseline_count">>, "fresh", "up")
  /\ Fits(<<"stop", "same_cache", "start">>, "up", "up")
  /\ Fits(<<"stop", "same_cache", "count", "audit_replacement", "remove_install",
            "extract">>, "up", "off")
  /\ Fits(<<"start">>, "off", "up")
  /\ Fits(<<"fault_kill", "observe_fault", "start">>, "up", "up")
  /\ Fits(<<"stop", "count", "remove_install", "same_cache", "count">>, "up", "off")
  /\ Fits(<<"same_cache", "count", "extract", "start">>, "off", "up")
  /\ Fits(<<"stop", "remove_install", "remove_data", "clear_token">>, "up", "cleared")
  /\ Fits(<<"stop_all", "remove_work">>, "cleared", "cleared")
  <1> USE DEF Outline, Goes, Quiet, Operations, Marks
  <1>1. Fits(<<"store_token", "start", "baseline_create", "baseline_revoke",
              "baseline_list", "baseline_count">>, "fresh", "up")
    <2> DEFINE s == <<"store_token", "start", "baseline_create", "baseline_revoke",
                      "baseline_list", "baseline_count">>
               m == <<"fresh", "off", "up", "up", "up", "up", "up">>
    <2>1. s \in Seq(Operations) /\ Len(s) = 6 /\ m[1] = "fresh" /\ m[7] = "up"
      OBVIOUS
    <2>2. m \in [1..7 -> Marks]
      OBVIOUS
    <2>3. \A n \in 1..6 : Goes(s[n], m[n], m[n + 1])
      OBVIOUS
    <2> HIDE DEF s, m
    <2>4. Outline(s, m)
      BY <2>1, <2>2, <2>3
    <2>5. Fits(s, "fresh", "up")
      BY <2>1, <2>4 DEF Fits
    <2>6. QED
      BY <2>5 DEF s
  <1>2. Fits(<<"stop", "same_cache", "start">>, "up", "up")
    <2> DEFINE s == <<"stop", "same_cache", "start">>
               m == <<"up", "off", "off", "up">>
    <2>1. s \in Seq(Operations) /\ Len(s) = 3 /\ m[1] = "up" /\ m[4] = "up"
      OBVIOUS
    <2>2. m \in [1..4 -> Marks]
      OBVIOUS
    <2>3. \A n \in 1..3 : Goes(s[n], m[n], m[n + 1])
      OBVIOUS
    <2> HIDE DEF s, m
    <2>4. Outline(s, m)
      BY <2>1, <2>2, <2>3
    <2>5. Fits(s, "up", "up")
      BY <2>1, <2>4 DEF Fits
    <2>6. QED
      BY <2>5 DEF s
  <1>3. Fits(<<"stop", "same_cache", "count", "audit_replacement", "remove_install",
              "extract">>, "up", "off")
    <2> DEFINE s == <<"stop", "same_cache", "count", "audit_replacement",
                      "remove_install", "extract">>
               m == <<"up", "off", "off", "off", "off", "off", "off">>
    <2>1. s \in Seq(Operations) /\ Len(s) = 6 /\ m[1] = "up" /\ m[7] = "off"
      OBVIOUS
    <2>2. m \in [1..7 -> Marks]
      OBVIOUS
    <2>3. \A n \in 1..6 : Goes(s[n], m[n], m[n + 1])
      OBVIOUS
    <2> HIDE DEF s, m
    <2>4. Outline(s, m)
      BY <2>1, <2>2, <2>3
    <2>5. Fits(s, "up", "off")
      BY <2>1, <2>4 DEF Fits
    <2>6. QED
      BY <2>5 DEF s
  <1>4. Fits(<<"start">>, "off", "up")
    <2> DEFINE s == <<"start">>
               m == <<"off", "up">>
    <2>1. s \in Seq(Operations) /\ Len(s) = 1 /\ m[1] = "off" /\ m[2] = "up"
      OBVIOUS
    <2>2. m \in [1..2 -> Marks]
      OBVIOUS
    <2>3. \A n \in 1..1 : Goes(s[n], m[n], m[n + 1])
      OBVIOUS
    <2> HIDE DEF s, m
    <2>4. Outline(s, m)
      BY <2>1, <2>2, <2>3
    <2>5. Fits(s, "off", "up")
      BY <2>1, <2>4 DEF Fits
    <2>6. QED
      BY <2>5 DEF s
  <1>5. Fits(<<"fault_kill", "observe_fault", "start">>, "up", "up")
    <2> DEFINE s == <<"fault_kill", "observe_fault", "start">>
               m == <<"up", "off", "off", "up">>
    <2>1. s \in Seq(Operations) /\ Len(s) = 3 /\ m[1] = "up" /\ m[4] = "up"
      OBVIOUS
    <2>2. m \in [1..4 -> Marks]
      OBVIOUS
    <2>3. \A n \in 1..3 : Goes(s[n], m[n], m[n + 1])
      OBVIOUS
    <2> HIDE DEF s, m
    <2>4. Outline(s, m)
      BY <2>1, <2>2, <2>3
    <2>5. Fits(s, "up", "up")
      BY <2>1, <2>4 DEF Fits
    <2>6. QED
      BY <2>5 DEF s
  <1>6. Fits(<<"stop", "count", "remove_install", "same_cache", "count">>, "up", "off")
    <2> DEFINE s == <<"stop", "count", "remove_install", "same_cache", "count">>
               m == <<"up", "off", "off", "off", "off", "off">>
    <2>1. s \in Seq(Operations) /\ Len(s) = 5 /\ m[1] = "up" /\ m[6] = "off"
      OBVIOUS
    <2>2. m \in [1..6 -> Marks]
      OBVIOUS
    <2>3. \A n \in 1..5 : Goes(s[n], m[n], m[n + 1])
      OBVIOUS
    <2> HIDE DEF s, m
    <2>4. Outline(s, m)
      BY <2>1, <2>2, <2>3
    <2>5. Fits(s, "up", "off")
      BY <2>1, <2>4 DEF Fits
    <2>6. QED
      BY <2>5 DEF s
  <1>7. Fits(<<"same_cache", "count", "extract", "start">>, "off", "up")
    <2> DEFINE s == <<"same_cache", "count", "extract", "start">>
               m == <<"off", "off", "off", "off", "up">>
    <2>1. s \in Seq(Operations) /\ Len(s) = 4 /\ m[1] = "off" /\ m[5] = "up"
      OBVIOUS
    <2>2. m \in [1..5 -> Marks]
      OBVIOUS
    <2>3. \A n \in 1..4 : Goes(s[n], m[n], m[n + 1])
      OBVIOUS
    <2> HIDE DEF s, m
    <2>4. Outline(s, m)
      BY <2>1, <2>2, <2>3
    <2>5. Fits(s, "off", "up")
      BY <2>1, <2>4 DEF Fits
    <2>6. QED
      BY <2>5 DEF s
  <1>8. Fits(<<"stop", "remove_install", "remove_data", "clear_token">>, "up", "cleared")
    <2> DEFINE s == <<"stop", "remove_install", "remove_data", "clear_token">>
               m == <<"up", "off", "off", "off", "cleared">>
    <2>1. s \in Seq(Operations) /\ Len(s) = 4 /\ m[1] = "up" /\ m[5] = "cleared"
      OBVIOUS
    <2>2. m \in [1..5 -> Marks]
      OBVIOUS
    <2>3. \A n \in 1..4 : Goes(s[n], m[n], m[n + 1])
      OBVIOUS
    <2> HIDE DEF s, m
    <2>4. Outline(s, m)
      BY <2>1, <2>2, <2>3
    <2>5. Fits(s, "up", "cleared")
      BY <2>1, <2>4 DEF Fits
    <2>6. QED
      BY <2>5 DEF s
  <1>9. Fits(<<"stop_all", "remove_work">>, "cleared", "cleared")
    <2> DEFINE s == <<"stop_all", "remove_work">>
               m == <<"cleared", "cleared", "cleared">>
    <2>1. s \in Seq(Operations) /\ Len(s) = 2 /\ m[1] = "cleared" /\ m[3] = "cleared"
      OBVIOUS
    <2>2. m \in [1..3 -> Marks]
      OBVIOUS
    <2>3. \A n \in 1..2 : Goes(s[n], m[n], m[n + 1])
      OBVIOUS
    <2> HIDE DEF s, m
    <2>4. Outline(s, m)
      BY <2>1, <2>2, <2>3
    <2>5. Fits(s, "cleared", "cleared")
      BY <2>1, <2>4 DEF Fits
    <2>6. QED
      BY <2>5 DEF s
  <1>10. QED
    BY <1>1, <1>2, <1>3, <1>4, <1>5, <1>6, <1>7, <1>8, <1>9

\* Every phase of the program.
LEMMA PhasesFit ==
  /\ Fits(<<"audit">>, "fresh", "fresh") /\ Fits(CleanInstall, "fresh", "fresh")
  /\ Fits(SelfTests, "fresh", "fresh") /\ Fits(SignedBootstrap, "fresh", "fresh")
  /\ Fits(SelectedBytes, "fresh", "fresh") /\ Fits(VerifiedAcquisition, "fresh", "fresh")
  /\ Fits(LocalhostInference, "fresh", "up") /\ Fits(BoundedContribution, "up", "up")
  /\ Fits(ContributionPause, "up", "up") /\ Fits(RestartCacheReuse, "up", "up")
  /\ Fits(ManualReplacement, "up", "up") /\ Fits(Recovery, "up", "up")
  /\ Fits(UninstallRetain, "up", "off") /\ Fits(RetainedDataReinstall, "off", "up")
  /\ Fits(UninstallDelete, "up", "cleared") /\ Fits(ProcessCleanup, "cleared", "cleared")
  <1>1. /\ <<"audit">> \in Seq(Quiet) /\ CleanInstall \in Seq(Quiet) /\ SelfTests \in Seq(Quiet)
        /\ SignedBootstrap \in Seq(Quiet) /\ SelectedBytes \in Seq(Quiet)
        /\ VerifiedAcquisition \in Seq(Quiet) /\ BoundedContribution \in Seq(Quiet)
        /\ ContributionPause \in Seq(Quiet) /\ <<"same_cache">> \in Seq(Quiet)
        /\ <<"same_cache", "count">> \in Seq(Quiet)
    BY DEF CleanInstall, SelfTests, SignedBootstrap, SelectedBytes, VerifiedAcquisition,
           BoundedContribution, ContributionPause, Quiet
  <1>2. "fresh" \in Marks /\ "up" \in Marks /\ "off" \in Marks
    BY DEF Marks
  <1>3. /\ Fits(<<"audit">>, "fresh", "fresh") /\ Fits(CleanInstall, "fresh", "fresh")
        /\ Fits(SelfTests, "fresh", "fresh") /\ Fits(SignedBootstrap, "fresh", "fresh")
        /\ Fits(SelectedBytes, "fresh", "fresh") /\ Fits(VerifiedAcquisition, "fresh", "fresh")
    BY <1>1, <1>2, QuietFits
  <1>4. /\ Fits(BoundedContribution, "up", "up") /\ Fits(ContributionPause, "up", "up")
        /\ Fits(SelfTests, "off", "off") /\ Fits(<<"same_cache">>, "up", "up")
        /\ Fits(<<"same_cache", "count">>, "up", "up")
    BY <1>1, <1>2, QuietFits
  <1>5. Fits(LocalhostInference, "fresh", "up")
    BY MovingFits, InferenceFits, FitsConcat DEF LocalhostInference
  <1>6. Fits(RestartCacheReuse, "up", "up")
    <2>1. Fits(<<"stop", "same_cache", "start">> \o Inference, "up", "up")
      BY MovingFits, InferenceFits, FitsConcat
    <2>2. QED
      BY <1>4, <2>1, FitsConcat DEF RestartCacheReuse
  <1>7. Fits(ManualReplacement, "up", "up")
    <2> DEFINE s == <<"stop", "same_cache", "count", "audit_replacement", "remove_install", "extract">>
    <2>1. Fits(s, "up", "off")
      BY MovingFits
    <2> HIDE DEF s
    <2>2. Fits(s \o SelfTests, "up", "off")
      BY <1>4, <2>1, FitsConcat
    <2>3. Fits(s \o SelfTests \o <<"start">>, "up", "up")
      BY <2>2, MovingFits, FitsConcat
    <2>4. Fits(s \o SelfTests \o <<"start">> \o Inference, "up", "up")
      BY <2>3, InferenceFits, FitsConcat
    <2>5. Fits(s \o SelfTests \o <<"start">> \o Inference \o <<"same_cache", "count">>, "up", "up")
      BY <1>4, <2>4, FitsConcat
    <2>6. QED
      BY <2>5 DEF ManualReplacement, s
  <1>8. Fits(Recovery, "up", "up")
    <2>1. Fits(<<"fault_kill", "observe_fault", "start">> \o Inference, "up", "up")
      BY MovingFits, InferenceFits, FitsConcat
    <2>2. QED
      BY <1>4, <2>1, FitsConcat DEF Recovery
  <1>9. Fits(RetainedDataReinstall, "off", "up")
    <2>1. Fits(<<"same_cache", "count", "extract", "start">> \o Inference, "off", "up")
      BY MovingFits, InferenceFits, FitsConcat
    <2>2. QED
      BY <1>4, <2>1, FitsConcat DEF RetainedDataReinstall
  <1>10. /\ Fits(UninstallRetain, "up", "off") /\ Fits(UninstallDelete, "up", "cleared")
         /\ Fits(ProcessCleanup, "cleared", "cleared")
    BY MovingFits DEF UninstallRetain, UninstallDelete, ProcessCleanup
  <1>11. QED
    BY <1>3, <1>4, <1>5, <1>6, <1>7, <1>8, <1>9, <1>10

\* The whole of it.
LEMMA PhasedFits == Fits(Phased, "fresh", "cleared")
  <1> DEFINE p1 == <<"audit">>
             p2 == p1 \o CleanInstall
             p3 == p2 \o SelfTests
             p4 == p3 \o SignedBootstrap
             p5 == p4 \o SelectedBytes
             p6 == p5 \o VerifiedAcquisition
             p7 == p6 \o LocalhostInference
             p8 == p7 \o BoundedContribution
             p9 == p8 \o ContributionPause
             p10 == p9 \o RestartCacheReuse
             p11 == p10 \o ManualReplacement
             p12 == p11 \o Recovery
             p13 == p12 \o UninstallRetain
             p14 == p13 \o RetainedDataReinstall
             p15 == p14 \o UninstallDelete
             p16 == p15 \o ProcessCleanup
  <1> HIDE DEF p1, p2, p3, p4, p5, p6, p7, p8, p9, p10, p11, p12, p13, p14, p15, p16
  <1>1. Fits(p1, "fresh", "fresh")
    BY PhasesFit DEF p1
  <1>2. Fits(p2, "fresh", "fresh")
    BY <1>1, PhasesFit, FitsConcat DEF p2
  <1>3. Fits(p3, "fresh", "fresh")
    BY <1>2, PhasesFit, FitsConcat DEF p3
  <1>4. Fits(p4, "fresh", "fresh")
    BY <1>3, PhasesFit, FitsConcat DEF p4
  <1>5. Fits(p5, "fresh", "fresh")
    BY <1>4, PhasesFit, FitsConcat DEF p5
  <1>6. Fits(p6, "fresh", "fresh")
    BY <1>5, PhasesFit, FitsConcat DEF p6
  <1>7. Fits(p7, "fresh", "up")
    BY <1>6, PhasesFit, FitsConcat DEF p7
  <1>8. Fits(p8, "fresh", "up")
    BY <1>7, PhasesFit, FitsConcat DEF p8
  <1>9. Fits(p9, "fresh", "up")
    BY <1>8, PhasesFit, FitsConcat DEF p9
  <1>10. Fits(p10, "fresh", "up")
    BY <1>9, PhasesFit, FitsConcat DEF p10
  <1>11. Fits(p11, "fresh", "up")
    BY <1>10, PhasesFit, FitsConcat DEF p11
  <1>12. Fits(p12, "fresh", "up")
    BY <1>11, PhasesFit, FitsConcat DEF p12
  <1>13. Fits(p13, "fresh", "off")
    BY <1>12, PhasesFit, FitsConcat DEF p13
  <1>14. Fits(p14, "fresh", "up")
    BY <1>13, PhasesFit, FitsConcat DEF p14
  <1>15. Fits(p15, "fresh", "cleared")
    BY <1>14, PhasesFit, FitsConcat DEF p15
  <1>16. Fits(p16, "fresh", "cleared")
    BY <1>15, PhasesFit, FitsConcat DEF p16
  <1>17. QED
    BY <1>16 DEF Phased, p1, p2, p3, p4, p5, p6, p7, p8, p9, p10, p11, p12, p13, p14, p15, p16

\* The mark of each position.
Marked == CHOOSE m : Outline(Phased, m) /\ m[1] = "fresh" /\ m[Len(Phased) + 1] = "cleared"

\* There are such marks, from a fresh host to a cleared token.
LEMMA MarkedIs ==
  /\ Phased \in Seq(Operations) /\ Len(Phased) \in Nat
  /\ Outline(Phased, Marked) /\ Marked[1] = "fresh" /\ Marked[Len(Phased) + 1] = "cleared"
  BY PhasedFits DEF Fits, Marked

Finals == {"validate", "finally_units", "finally_token", "finally_trees"}

\* The positions of the program: its phases, the validation and the finally block.
LEMMA ProgramIs ==
  /\ Len(Phased) \in Nat /\ Len(Body) = Len(Phased) + 1 /\ Len(Program) = Len(Phased) + 4
  /\ PkEnd = Len(Phased) + 5
  /\ \A n \in 1..Len(Phased) : Program[n] = Phased[n] /\ Phased[n] \in Operations
  /\ Program[Len(Phased) + 1] = "validate" /\ Program[Len(Phased) + 2] = "finally_units"
  /\ Program[Len(Phased) + 3] = "finally_token" /\ Program[Len(Phased) + 4] = "finally_trees"
  <1> DEFINE All == Operations \cup Finals
  <1>1. Body = Phased \o <<"validate">> /\ Program = Body \o FinalSteps
    BY DEF Body, Phased, Program
  <1>2. Phased \in Seq(All) /\ <<"validate">> \in Seq(All) /\ FinalSteps \in Seq(All) /\ Len(FinalSteps) = 3
        /\ Len(Phased) \in Nat /\ Len(<<"validate">>) = 1
    BY MarkedIs DEF FinalSteps, Finals
  <1>3. /\ Body \in Seq(All) /\ Len(Body) = Len(Phased) + 1
        /\ \A n \in 1..Len(Phased) : Body[n] = Phased[n]
        /\ Body[Len(Phased) + 1] = "validate"
    <2>1. /\ Phased \o <<"validate">> \in Seq(All)
          /\ Len(Phased \o <<"validate">>) = Len(Phased) + Len(<<"validate">>)
          /\ \A n \in 1..Len(Phased) : (Phased \o <<"validate">>)[n] = Phased[n]
          /\ \A n \in 1..Len(<<"validate">>) : (Phased \o <<"validate">>)[Len(Phased) + n] = <<"validate">>[n]
      BY <1>2, ConcatParts
    <2>2. 1 \in 1..Len(<<"validate">>)
      BY <1>2
    <2>3. (Phased \o <<"validate">>)[Len(Phased) + 1] = "validate"
      BY <2>1, <2>2
    <2>4. QED
      BY <1>1, <1>2, <2>1, <2>3
  <1>4. /\ Len(Program) = Len(Body) + 3
        /\ \A n \in 1..Len(Body) : Program[n] = Body[n]
        /\ \A n \in 1..3 : Program[Len(Body) + n] = FinalSteps[n]
    <2> HIDE DEF All
    <2>a. Body \in Seq(All) /\ FinalSteps \in Seq(All)
      BY <1>2, <1>3
    <2>b. \A s, t \in Seq(All) :
            /\ Len(s \o t) = Len(s) + Len(t)
            /\ \A n \in 1..Len(s) : (s \o t)[n] = s[n]
            /\ \A n \in 1..Len(t) : (s \o t)[Len(s) + n] = t[n]
      BY ConcatParts
    <2>1. /\ Len(Body \o FinalSteps) = Len(Body) + Len(FinalSteps)
          /\ \A n \in 1..Len(Body) : (Body \o FinalSteps)[n] = Body[n]
          /\ \A n \in 1..Len(FinalSteps) : (Body \o FinalSteps)[Len(Body) + n] = FinalSteps[n]
      BY <2>a, <2>b
    <2>2. 1..Len(FinalSteps) = 1..3
      BY <1>2
    <2>3. QED
      BY <1>1, <1>2, <2>1, <2>2
  <1>5. FinalSteps[1] = "finally_units" /\ FinalSteps[2] = "finally_token" /\ FinalSteps[3] = "finally_trees"
    BY DEF FinalSteps
  <1>6. \A n \in 1..Len(Phased) : Phased[n] \in Operations
    BY MarkedIs
  <1>7. /\ Program[Len(Phased) + 1] = "validate" /\ Program[Len(Phased) + 2] = "finally_units"
        /\ Program[Len(Phased) + 3] = "finally_token" /\ Program[Len(Phased) + 4] = "finally_trees"
    <2> HIDE DEF All
    <2>1. /\ Len(Phased) + 1 \in 1..Len(Body) /\ 1 \in 1..3 /\ 2 \in 1..3 /\ 3 \in 1..3
          /\ Len(Body) + 1 = Len(Phased) + 2 /\ Len(Body) + 2 = Len(Phased) + 3 /\ Len(Body) + 3 = Len(Phased) + 4
      BY <1>2, <1>3
    <2>2. QED
      BY <1>3, <1>4, <1>5, <2>1
  <1>8. \A n \in 1..Len(Phased) : n \in 1..Len(Body)
    BY <1>2, <1>3
  <1>9. QED
    BY <1>2, <1>3, <1>4, <1>6, <1>7, <1>8 DEF PkEnd

\* What an operation of a phase says of the position.
LEMMA AtPhase ==
  ASSUME NEW op \in Operations, PkAt(op), pkStep \in 1..PkEnd
  PROVE  /\ pkStep \in 1..Len(Phased) /\ pkStep + 1 \in 1..(Len(Phased) + 1)
         /\ Goes(op, Marked[pkStep], Marked[pkStep + 1])
         /\ Marked[pkStep] \in Marks /\ Marked[pkStep + 1] \in Marks
  <1>1. op \notin Finals
    BY DEF Operations, Quiet, Finals
  <1>2. pkStep \in 1..(Len(Phased) + 4) /\ Program[pkStep] = op
    BY ProgramIs DEF PkAt
  <1>3. pkStep \in 1..Len(Phased) /\ pkStep \in Nat
    BY <1>1, <1>2, ProgramIs DEF Finals
  <1>4. Phased[pkStep] = op
    BY <1>2, <1>3, ProgramIs
  <1>5. pkStep + 1 \in 1..(Len(Phased) + 1) /\ pkStep \in 1..(Len(Phased) + 1)
    BY <1>3, ProgramIs
  <1>6. QED
    BY <1>3, <1>4, <1>5, MarkedIs DEF Outline

\* What the last operations say of it.
LEMMA AtFinal ==
  ASSUME pkStep \in 1..PkEnd
  PROVE  /\ PkAt("validate") => pkStep = Len(Phased) + 1
         /\ PkAt("finally_units") => pkStep = Len(Phased) + 2
         /\ PkAt("finally_token") => pkStep = Len(Phased) + 3
         /\ PkAt("finally_trees") => pkStep = Len(Phased) + 4
  <1>1. \A op \in Finals : op \notin Operations
    BY DEF Operations, Quiet, Finals
  <1>2. ASSUME NEW op \in Finals, PkAt(op)
        PROVE  pkStep \in (Len(Phased) + 1)..(Len(Phased) + 4) /\ Program[pkStep] = op
    BY <1>1, <1>2, ProgramIs DEF PkAt
  <1>3. ASSUME NEW op \in Finals, PkAt(op)
        PROVE  \/ pkStep = Len(Phased) + 1 /\ op = "validate"
               \/ pkStep = Len(Phased) + 2 /\ op = "finally_units"
               \/ pkStep = Len(Phased) + 3 /\ op = "finally_token"
               \/ pkStep = Len(Phased) + 4 /\ op = "finally_trees"
    <2>1. pkStep \in {Len(Phased) + 1, Len(Phased) + 2, Len(Phased) + 3, Len(Phased) + 4}
      BY <1>2, <1>3, ProgramIs
    <2>2. QED
      BY <1>2, <1>3, <2>1, ProgramIs
  <1>4. QED
    BY <1>3 DEF Finals

PkUnits == {"command", "product"}
PkKeys == {"bootstrap", "baseline", "qualification", "window"}
SecretTypes == [credential : BOOLEAN, active : SUBSET PkKeys, file : BOOLEAN]

PkTypes ==
  /\ pkStep \in 1..PkEnd /\ pkAlive \subseteq PkUnits /\ pkOwned \subseteq PkUnits
  /\ pkSecrets \in SecretTypes /\ pkCreated \in BOOLEAN /\ pkStored \in BOOLEAN /\ pkError \in BOOLEAN
  /\ pkResult \in {"running", "failed", "passed", "unproved"}

\* While the run goes on, what the mark of its position says is true.
PkGoesOn ==
  pkResult = "running" =>
    /\ pkStep \in 1..(Len(Phased) + 1) /\ ~pkError
    /\ pkAlive \subseteq pkOwned /\ pkOwned \subseteq {"product"}
    /\ Marked[pkStep] # "up" => pkAlive = {}
    /\ Marked[pkStep] = "fresh" => ~pkSecrets.credential /\ ~pkStored /\ ~pkCreated
    /\ Marked[pkStep] \in {"off", "up"} => pkCreated
    /\ Marked[pkStep] = "cleared" => ~pkSecrets.credential

\* What the end of the run relies on, and what each step of the finally block adds.
Known(phased) ==
  /\ pkResult # "running" => pkStep >= phased + 2
  /\ pkResult = "unproved" => pkStep = phased + 5
  /\ pkResult = "passed" => pkAlive \subseteq pkOwned
  /\ pkSecrets.credential /\ (pkStored \/ pkResult = "passed") => pkCreated \/ pkStep >= phased + 4
  /\ pkStep >= phased + 3 /\ ~pkError => pkOwned = {}
  /\ pkStep >= phased + 4 /\ ~pkError /\ (pkStored \/ pkResult = "passed") => ~pkSecrets.credential
  /\ pkStep = phased + 5 /\ pkResult # "unproved" =>
       /\ ~pkError /\ pkTree = [installed |-> "absent", data |-> {}, work |-> FALSE]
       /\ pkSecrets.active = {} /\ ~pkSecrets.file
PkKnown == Known(Len(Phased))

PkInv == PkTypes /\ PkGoesOn /\ PkKnown

\* A step that changes no unit but by failing, and neither the credential nor what is
\* known of it.
Harmless ==
  /\ UNCHANGED <<pkCreated, pkStored, pkError>>
  /\ pkSecrets' \in SecretTypes /\ pkSecrets'.credential = pkSecrets.credential
  /\ \/ Done /\ UNCHANGED pkUnits
     \/ Abort /\ pkAlive' \subseteq PkUnits /\ pkOwned' \subseteq PkUnits

\* Where a phase's operation finds the run.
LEMMA InPhase ==
  ASSUME PkInv, NEW op \in Operations, PkAt(op)
  PROVE  /\ pkResult = "running" /\ pkStep \in 1..Len(Phased) /\ Len(Phased) \in Nat
         /\ pkStep + 1 \in 1..(Len(Phased) + 1) /\ pkStep + 1 \in 1..PkEnd /\ pkStep + 1 < Len(Phased) + 2
         /\ Len(Body) + 1 = Len(Phased) + 2 /\ Len(Phased) + 2 \in 1..PkEnd
         /\ Goes(op, Marked[pkStep], Marked[pkStep + 1])
         /\ Marked[pkStep] \in Marks /\ Marked[pkStep + 1] \in Marks
  <1>1. pkStep \in 1..PkEnd
    BY DEF PkInv, PkTypes
  <1>2. /\ pkStep \in 1..Len(Phased) /\ pkStep + 1 \in 1..(Len(Phased) + 1)
        /\ Goes(op, Marked[pkStep], Marked[pkStep + 1])
        /\ Marked[pkStep] \in Marks /\ Marked[pkStep + 1] \in Marks
    BY <1>1, AtPhase
  <1>3. pkStep < Len(Phased) + 2 /\ ~(pkStep >= Len(Phased) + 2)
    BY <1>2, ProgramIs
  <1>4. pkResult = "running"
    BY <1>3 DEF PkInv, PkKnown, Known
  <1>5. /\ pkStep + 1 \in 1..PkEnd /\ pkStep + 1 < Len(Phased) + 2
        /\ Len(Body) + 1 = Len(Phased) + 2 /\ Len(Phased) + 2 \in 1..PkEnd /\ Len(Phased) \in Nat
    BY <1>2, ProgramIs
  <1>6. QED
    BY <1>2, <1>4, <1>5

\* A run that is aborted goes to the finally block.
LEMMA AbortKeeps ==
  ASSUME PkInv, NEW op \in Operations, PkAt(op), Abort, UNCHANGED pkError,
         pkAlive' \subseteq PkUnits, pkOwned' \subseteq PkUnits, pkSecrets' \in SecretTypes,
         pkCreated' \in BOOLEAN, pkStored' \in BOOLEAN,
         pkSecrets'.credential /\ pkStored' => pkCreated'
  PROVE  PkInv'
  <1>1. pkStep' = Len(Phased) + 2 /\ pkResult' = "failed" /\ Len(Phased) \in Nat /\ Len(Phased) + 2 \in 1..PkEnd
    BY InPhase DEF Abort
  <1>2. PkTypes'
    BY <1>1 DEF PkInv, PkTypes, PkEnd
  <1>3. PkGoesOn'
    BY <1>1 DEF PkGoesOn
  <1>4. /\ pkStep' >= Len(Phased) + 2 /\ ~(pkStep' >= Len(Phased) + 3) /\ ~(pkStep' >= Len(Phased) + 4)
        /\ pkStep' # Len(Phased) + 5
    BY <1>1
  <1>5. PkKnown'
    BY <1>1, <1>4 DEF PkKnown, Known
  <1>6. QED
    BY <1>2, <1>3, <1>5 DEF PkInv

\* A run that goes on stands at the next position.
LEMMA DoneKeeps ==
  ASSUME PkInv, NEW op \in Operations, PkAt(op), Done, UNCHANGED pkError,
         pkAlive' \subseteq pkOwned', pkOwned' \subseteq {"product"}, pkSecrets' \in SecretTypes,
         pkCreated' \in BOOLEAN, pkStored' \in BOOLEAN,
         Marked[pkStep + 1] # "up" => pkAlive' = {},
         Marked[pkStep + 1] = "fresh" => ~pkSecrets'.credential /\ ~pkStored' /\ ~pkCreated',
         Marked[pkStep + 1] \in {"off", "up"} => pkCreated',
         Marked[pkStep + 1] = "cleared" => ~pkSecrets'.credential
  PROVE  PkInv'
  <1>1. /\ pkStep' = pkStep + 1 /\ pkResult' = "running" /\ pkResult = "running" /\ Len(Phased) \in Nat
        /\ pkStep' \in 1..(Len(Phased) + 1) /\ pkStep' \in 1..PkEnd /\ pkStep' < Len(Phased) + 2
    BY InPhase DEF Done
  <1>2. PkTypes'
    BY <1>1 DEF PkInv, PkTypes, PkEnd, PkUnits
  <1>3. PkGoesOn'
    BY <1>1 DEF PkGoesOn, PkInv
  <1>4. /\ ~(pkStep' >= Len(Phased) + 2) /\ ~(pkStep' >= Len(Phased) + 3) /\ ~(pkStep' >= Len(Phased) + 4)
        /\ pkStep' # Len(Phased) + 5
    BY <1>1
  <1>5. pkSecrets'.credential => pkCreated'
    BY InPhase DEF Marks
  <1>6. PkKnown'
    BY <1>1, <1>4, <1>5 DEF PkKnown, Known
  <1>7. QED
    BY <1>2, <1>3, <1>6 DEF PkInv

\* Marks that stay need nothing but that units and credential stay.
LEMMA HarmlessKeeps ==
  ASSUME PkInv, NEW op \in Quiet \cup {"remove_install", "remove_data", "remove_work"}, PkAt(op), Harmless
  PROVE  PkInv'
  <1>1. op \in Operations /\ pkResult = "running"
    BY InPhase DEF Operations
  <1>2. Marked[pkStep] = Marked[pkStep + 1] /\ Marked[pkStep] \in Marks
    BY <1>1, InPhase DEF Goes, Quiet
  <1>3. /\ pkAlive \subseteq pkOwned /\ pkOwned \subseteq {"product"}
        /\ Marked[pkStep] # "up" => pkAlive = {}
        /\ Marked[pkStep] = "fresh" => ~pkSecrets.credential /\ ~pkStored /\ ~pkCreated
        /\ Marked[pkStep] \in {"off", "up"} => pkCreated
        /\ Marked[pkStep] = "cleared" => ~pkSecrets.credential
        /\ pkCreated \in BOOLEAN /\ pkStored \in BOOLEAN
    BY <1>1 DEF PkInv, PkTypes, PkGoesOn
  <1>4. CASE Done /\ UNCHANGED pkUnits
    <2>1. UNCHANGED <<pkAlive, pkOwned, pkCreated, pkStored, pkError>>
      BY <1>4 DEF Harmless, pkUnits
    <2>2. QED
      BY <1>1, <1>2, <1>3, <1>4, <2>1, DoneKeeps DEF Harmless
  <1>5. CASE Abort /\ pkAlive' \subseteq PkUnits /\ pkOwned' \subseteq PkUnits
    <2>1. pkSecrets.credential /\ pkStored => pkCreated
      BY <1>2, <1>3 DEF Marks
    <2>2. QED
      BY <1>1, <1>3, <1>5, <2>1, AbortKeeps DEF Harmless
  <1>6. QED
    BY <1>4, <1>5 DEF Harmless

\* Operations that only look, ask, or write what no unit or credential depends on.
LEMMA QuietStepKeeps ==
  ASSUME PkInv,
         \/ Audit \/ AuditReplacement \/ NoCredential \/ Extract \/ CacheEmpty \/ SameCache \/ Count
         \/ ObserveFault \/ BaselineCreate \/ BaselineRevoke \/ BaselineList \/ BaselineCount
         \/ KeyCreate \/ Complete \/ KeyRevoke \/ GetPolicy \/ Share \/ Unshare
         \/ AwaitWorker \/ AwaitPause \/ RemoveInstall \/ RemoveData \/ RemoveWork
  PROVE  PkInv'
  <1> DEFINE Ops == Quiet \cup {"remove_install", "remove_data", "remove_work"}
  <1>1. /\ pkSecrets \in SecretTypes /\ pkSecrets.active \in SUBSET PkKeys
        /\ pkAlive \subseteq PkUnits /\ pkOwned \subseteq PkUnits
    BY DEF PkInv, PkTypes, SecretTypes
  <1>2. ASSUME \/ Audit \/ AuditReplacement \/ NoCredential \/ Extract \/ CacheEmpty \/ SameCache \/ Count
               \/ ObserveFault \/ BaselineList \/ BaselineCount \/ Complete \/ GetPolicy \/ Share \/ Unshare
               \/ AwaitWorker \/ AwaitPause \/ RemoveInstall \/ RemoveWork
        PROVE  Harmless
    <2>1. /\ UNCHANGED <<pkCreated, pkStored, pkError>> /\ pkSecrets' = pkSecrets
          /\ UNCHANGED <<pkAlive, pkOwned>> /\ (Done \/ Abort)
      BY <1>2 DEF Audit, AuditReplacement, NoCredential, Extract, CacheEmpty, SameCache, Count,
                  ObserveFault, BaselineList, BaselineCount, Complete, GetPolicy, Share, Unshare,
                  PutPolicy, AwaitWorker, AwaitPause, RemoveInstall, RemoveWork, pkMemory, pkUnits
    <2>2. QED
      BY <1>1, <2>1 DEF Harmless, pkUnits
  <1>3. ASSUME BaselineCreate \/ BaselineRevoke \/ KeyCreate \/ KeyRevoke \/ RemoveData
        PROVE  Harmless
    <2>1. /\ UNCHANGED <<pkCreated, pkStored, pkError>> /\ UNCHANGED <<pkAlive, pkOwned>> /\ (Done \/ Abort)
      BY <1>3 DEF BaselineCreate, BaselineRevoke, KeyCreate, KeyRevoke, RemoveData, pkMemory, pkUnits
    <2>2. \E keys \in SUBSET PkKeys, kept \in BOOLEAN :
            pkSecrets' = [pkSecrets EXCEPT !.active = keys, !.file = kept]
      <3>0. /\ pkSecrets = [pkSecrets EXCEPT !.active = pkSecrets.active, !.file = pkSecrets.file]
            /\ pkSecrets.file \in BOOLEAN
        BY <1>1 DEF SecretTypes
      <3>1. CASE BaselineCreate
        <4>1. \/ pkSecrets' = pkSecrets
              \/ pkSecrets' = [pkSecrets EXCEPT !.active = pkSecrets.active \cup {"baseline"},
                                                !.file = pkSecrets.file]
          BY <1>1, <3>0, <3>1 DEF BaselineCreate, SecretTypes
        <4>2. pkSecrets.active \cup {"baseline"} \in SUBSET PkKeys
          BY <1>1 DEF PkKeys
        <4>3. QED
          BY <1>1, <3>0, <4>1, <4>2
      <3>2. CASE BaselineRevoke
        <4>1. \/ pkSecrets' = pkSecrets
              \/ pkSecrets' = [pkSecrets EXCEPT !.active = pkSecrets.active \ {"bootstrap"}, !.file = FALSE]
          BY <1>1, <3>2 DEF BaselineRevoke, SecretTypes
        <4>2. pkSecrets.active \ {"bootstrap"} \in SUBSET PkKeys
          BY <1>1
        <4>3. QED
          BY <1>1, <3>0, <4>1, <4>2
      <3>3. CASE KeyCreate
        <4>1. \/ pkSecrets' = pkSecrets
              \/ pkSecrets' = [pkSecrets EXCEPT !.active = pkSecrets.active \cup {"qualification"},
                                                !.file = pkSecrets.file]
          BY <1>1, <3>0, <3>3 DEF KeyCreate, SecretTypes
        <4>2. pkSecrets.active \cup {"qualification"} \in SUBSET PkKeys
          BY <1>1 DEF PkKeys
        <4>3. QED
          BY <1>1, <3>0, <4>1, <4>2
      <3>4. CASE KeyRevoke
        <4>1. \/ pkSecrets' = pkSecrets
              \/ pkSecrets' = [pkSecrets EXCEPT !.active = pkSecrets.active \ Temporary,
                                                !.file = pkSecrets.file]
          BY <1>1, <3>0, <3>4 DEF KeyRevoke, SecretTypes
        <4>2. pkSecrets.active \ Temporary \in SUBSET PkKeys
          BY <1>1
        <4>3. QED
          BY <1>1, <3>0, <4>1, <4>2
      <3>5. CASE RemoveData
        <4>1. pkSecrets' = [pkSecrets EXCEPT !.active = {}, !.file = FALSE]
          BY <3>5 DEF RemoveData
        <4>2. QED
          BY <4>1
      <3>6. QED
        BY <1>3, <3>1, <3>2, <3>3, <3>4, <3>5
    <2>3. pkSecrets' \in SecretTypes /\ pkSecrets'.credential = pkSecrets.credential
      BY <1>1, <2>2 DEF SecretTypes
    <2>4. QED
      BY <1>1, <2>1, <2>3 DEF Harmless, pkUnits
  <1>4. PICK op \in Ops : PkAt(op)
    BY DEF Audit, AuditReplacement, NoCredential, Extract, CacheEmpty, SameCache, Count,
           ObserveFault, BaselineCreate, BaselineRevoke, BaselineList, BaselineCount,
           KeyCreate, Complete, KeyRevoke, GetPolicy, Share, Unshare, PutPolicy,
           AwaitWorker, AwaitPause, RemoveInstall, RemoveData, RemoveWork, Quiet
  <1>5. Harmless
    BY <1>2, <1>3
  <1>6. QED
    BY <1>4, <1>5, HarmlessKeeps

\* A contained command that fails may leave its unit behind, owned or not.
LEMMA CapturedKeeps ==
  ASSUME PkInv, SelfTest \/ Bootstrap \/ Acquire
  PROVE  PkInv'
  <1>1. PICK op \in {"self_test", "bootstrap", "acquire"}, made \in SUBSET {"config", "cache"} : Captured(op, made)
    BY DEF SelfTest, Bootstrap, Acquire
  <1>2. /\ pkSecrets \in SecretTypes /\ pkAlive \subseteq PkUnits /\ pkOwned \subseteq PkUnits
    BY DEF PkInv, PkTypes
  <1>3. PkAt(op) /\ op \in Quiet /\ UNCHANGED <<pkCreated, pkStored, pkError, pkSecrets>>
    BY <1>1 DEF Captured, pkMemory, Quiet
  <1>4. \/ Done /\ UNCHANGED pkUnits
        \/ Abort /\ pkAlive' \subseteq PkUnits /\ pkOwned' \subseteq PkUnits
    BY <1>1, <1>2 DEF Captured, Leaves, pkUnits, PkUnits
  <1>5. QED
    BY <1>2, <1>3, <1>4, HarmlessKeeps DEF Harmless

\* The token is stored before the product is first started, and cleared after its last stop.
LEMMA TokenKeeps ==
  ASSUME PkInv, StoreToken \/ ClearToken
  PROVE  PkInv'
  <1>1. /\ pkSecrets \in SecretTypes /\ pkAlive \subseteq PkUnits /\ pkOwned \subseteq PkUnits
        /\ pkCreated \in BOOLEAN /\ pkStored \in BOOLEAN
    BY DEF PkInv, PkTypes
  <1>2. \A kept \in BOOLEAN :
          /\ [pkSecrets EXCEPT !.credential = kept] \in SecretTypes
          /\ [pkSecrets EXCEPT !.credential = kept].credential = kept
    BY <1>1 DEF SecretTypes
  <1>3. CASE StoreToken
    <2>1. PkAt("store_token") /\ "store_token" \in Operations
      BY <1>3 DEF StoreToken, Operations
    <2>2. /\ pkResult = "running" /\ Marked[pkStep] = "fresh" /\ Marked[pkStep + 1] = "off"
      BY <2>1, InPhase DEF Goes, Quiet
    <2>3. pkAlive = {} /\ pkOwned \subseteq {"product"} /\ ~pkStored /\ ~pkCreated
      BY <2>2 DEF PkInv, PkGoesOn
    <2>4. UNCHANGED <<pkAlive, pkOwned, pkError>>
      BY <1>3 DEF StoreToken, pkUnits
    <2>5. CASE /\ Done /\ pkSecrets' = [pkSecrets EXCEPT !.credential = TRUE]
               /\ pkCreated' = TRUE /\ pkStored' = TRUE
      BY <1>2, <2>1, <2>2, <2>3, <2>4, <2>5, DoneKeeps
    <2>6. CASE /\ Abort /\ \E kept \in BOOLEAN : pkSecrets' = [pkSecrets EXCEPT !.credential = kept]
               /\ UNCHANGED <<pkCreated, pkStored>>
      BY <1>1, <1>2, <2>1, <2>3, <2>4, <2>6, AbortKeeps
    <2>7. QED
      BY <1>3, <2>5, <2>6 DEF StoreToken
  <1>4. CASE ClearToken
    <2>1. PkAt("clear_token") /\ "clear_token" \in Operations
      BY <1>4 DEF ClearToken, Operations
    <2>2. /\ pkResult = "running" /\ Marked[pkStep] = "off" /\ Marked[pkStep + 1] = "cleared"
      BY <2>1, InPhase DEF Goes, Quiet
    <2>3. pkAlive = {} /\ pkOwned \subseteq {"product"} /\ pkCreated
      BY <2>2 DEF PkInv, PkGoesOn
    <2>4. UNCHANGED <<pkAlive, pkOwned, pkError, pkStored>>
      BY <1>4 DEF ClearToken, pkUnits
    <2>5. CASE Done /\ pkSecrets' = [pkSecrets EXCEPT !.credential = FALSE] /\ pkCreated' = FALSE
      BY <1>1, <1>2, <2>1, <2>2, <2>3, <2>4, <2>5, DoneKeeps
    <2>6. CASE /\ Abort /\ \E kept \in BOOLEAN : pkSecrets' = [pkSecrets EXCEPT !.credential = kept]
               /\ UNCHANGED pkCreated
      BY <1>1, <1>2, <2>1, <2>3, <2>4, <2>6, AbortKeeps
    <2>7. QED
      BY <1>4, <2>5, <2>6 DEF ClearToken
  <1>5. QED
    BY <1>3, <1>4

\* The product starts where it is off, and is off again where it has been stopped or killed.
LEMMA ProductKeeps ==
  ASSUME PkInv, StartProducts \/ StopProducts \/ FaultKill \/ StopUnits
  PROVE  PkInv'
  <1>1. /\ pkSecrets \in SecretTypes /\ pkAlive \subseteq PkUnits /\ pkOwned \subseteq PkUnits
        /\ pkCreated \in BOOLEAN /\ pkStored \in BOOLEAN
    BY DEF PkInv, PkTypes
  <1>2. pkResult = "running" =>
          /\ pkAlive \subseteq pkOwned /\ pkOwned \subseteq {"product"}
          /\ Marked[pkStep] # "up" => pkAlive = {}
          /\ Marked[pkStep] \in {"off", "up"} => pkCreated
          /\ Marked[pkStep] = "cleared" => ~pkSecrets.credential
    BY DEF PkInv, PkGoesOn
  <1>3. CASE StartProducts
    <2>1. PkAt("start") /\ "start" \in Operations
      BY <1>3 DEF StartProducts, Operations
    <2>2. /\ pkResult = "running" /\ Marked[pkStep] = "off" /\ Marked[pkStep + 1] = "up"
      BY <2>1, InPhase DEF Goes, Quiet
    <2>3. UNCHANGED <<pkCreated, pkStored, pkError>> /\ pkSecrets' = NodeKeys
      BY <1>3 DEF StartProducts, pkMemory
    <2>4. NodeKeys \in SecretTypes
      BY <1>1 DEF NodeKeys, SecretTypes, PkKeys
    <2>5. CASE /\ Done /\ pkAlive' = pkAlive \cup {"product"} /\ pkOwned' = pkOwned \cup {"product"}
      <3>1. pkAlive' \subseteq pkOwned' /\ pkOwned' \subseteq {"product"}
        BY <1>2, <2>2, <2>5
      <3>2. QED
        BY <1>1, <1>2, <2>1, <2>2, <2>3, <2>4, <2>5, <3>1, DoneKeeps
    <2>6. CASE Abort /\ Leaves("product")
      <3>1. pkAlive' \subseteq PkUnits /\ pkOwned' \subseteq PkUnits
        BY <1>1, <2>6 DEF Leaves, PkUnits, pkUnits
      <3>2. QED
        BY <1>1, <1>2, <2>1, <2>2, <2>3, <2>4, <2>6, <3>1, AbortKeeps
    <2>7. QED
      BY <1>3, <2>5, <2>6 DEF StartProducts
  <1>4. CASE StopProducts \/ FaultKill
    <2>1. PICK op \in {"stop", "fault_kill"} : PkAt(op)
      BY <1>4 DEF StopProducts, FaultKill
    <2>2. /\ op \in Operations /\ pkResult = "running" /\ Marked[pkStep] = "up" /\ Marked[pkStep + 1] = "off"
      BY <2>1, InPhase DEF Goes, Quiet, Operations
    <2>3. UNCHANGED <<pkCreated, pkStored, pkError, pkSecrets>>
      BY <1>4 DEF StopProducts, FaultKill, pkMemory
    <2>4. \/ Done /\ pkAlive' = pkAlive \ {"product"} /\ pkOwned' = pkOwned \ {"product"}
          \/ Abort /\ pkAlive' \subseteq pkAlive /\ UNCHANGED pkOwned
      BY <1>4 DEF StopProducts, FaultKill, ProductGone, pkUnits
    <2>5. CASE Done /\ pkAlive' = pkAlive \ {"product"} /\ pkOwned' = pkOwned \ {"product"}
      <3>1. pkAlive' = {} /\ pkOwned' = {}
        BY <1>2, <2>2, <2>5
      <3>2. QED
        BY <1>1, <1>2, <2>1, <2>2, <2>3, <2>5, <3>1, DoneKeeps
    <2>6. CASE Abort /\ pkAlive' \subseteq pkAlive /\ UNCHANGED pkOwned
      BY <1>1, <1>2, <2>1, <2>2, <2>3, <2>6, AbortKeeps
    <2>7. QED
      BY <2>4, <2>5, <2>6
  <1>5. CASE StopUnits
    <2>1. PkAt("stop_all") /\ "stop_all" \in Operations
      BY <1>5 DEF StopUnits, Operations, Quiet
    <2>2. /\ pkResult = "running" /\ Marked[pkStep] = Marked[pkStep + 1] /\ Marked[pkStep] \in Marks
      BY <2>1, InPhase DEF Goes, Quiet
    <2>3. UNCHANGED <<pkCreated, pkStored, pkError, pkSecrets>> /\ Done
      BY <1>5 DEF StopUnits, pkMemory
    <2>4. pkAlive' = {} /\ pkOwned' = {}
      BY <1>2, <1>5, <2>2 DEF StopUnits, StopEach
    <2>5. Marked[pkStep] = "fresh" => ~pkSecrets.credential /\ ~pkStored /\ ~pkCreated
      BY <2>2 DEF PkInv, PkGoesOn
    <2>6. QED
      BY <1>1, <1>2, <2>1, <2>2, <2>3, <2>4, <2>5, DoneKeeps
  <1>6. QED
    BY <1>3, <1>4, <1>5

\* What happens beside the run: the worker, a product that dies, the person at the window.
LEMMA BesideKeeps ==
  ASSUME PkInv, WorkerFollows \/ ProductDies \/ WindowActs
  PROVE  PkInv'
  <1>1. /\ pkResult = "running" /\ UNCHANGED <<pkStep, pkResult, pkError, pkOwned, pkCreated, pkStored>>
    BY DEF WorkerFollows, ProductDies, WindowActs, pkMemory, pkUnits
  <1>2. pkAlive' \subseteq pkAlive
    BY DEF WorkerFollows, ProductDies, WindowActs, pkUnits, ProductGone
  <1>3. pkSecrets' \in SecretTypes /\ pkSecrets'.credential = pkSecrets.credential
    <2>1. pkSecrets \in SecretTypes
      BY DEF PkInv, PkTypes
    <2>2. pkSecrets' = pkSecrets \/ pkSecrets' = [pkSecrets EXCEPT !.active = @ \cup {"window"}]
      BY DEF WorkerFollows, ProductDies, WindowActs
    <2>3. QED
      BY <2>1, <2>2 DEF SecretTypes, PkKeys
  <1>4. pkStep \in 1..(Len(Phased) + 1) /\ Len(Phased) \in Nat
    BY <1>1, ProgramIs DEF PkInv, PkGoesOn
  <1>5. PkTypes'
    BY <1>1, <1>2, <1>3 DEF PkInv, PkTypes, PkEnd
  <1>6. PkGoesOn'
    BY <1>1, <1>2, <1>3 DEF PkInv, PkGoesOn
  <1>7. ~(pkStep >= Len(Phased) + 3) /\ ~(pkStep >= Len(Phased) + 4) /\ pkStep # Len(Phased) + 5
    BY <1>4
  <1>8. PkKnown'
    BY <1>1, <1>3, <1>7 DEF PkInv, PkKnown, Known
  <1>9. QED
    BY <1>5, <1>6, <1>8 DEF PkInv

\* A run whose document is accepted has stopped what it owned and cleared its token.
LEMMA ValidateKeeps ==
  ASSUME PkInv, Validate
  PROVE  PkInv'
  <1>1. pkStep = Len(Phased) + 1 /\ Len(Phased) \in Nat /\ PkEnd = Len(Phased) + 5
    BY AtFinal, ProgramIs DEF Validate, PkInv, PkTypes
  <1>2. /\ pkStep' = Len(Phased) + 2 /\ pkResult' \in {"passed", "failed"}
        /\ UNCHANGED <<pkCreated, pkStored, pkError, pkSecrets, pkAlive, pkOwned>>
    BY <1>1 DEF Validate, pkMemory, pkUnits
  <1>3. pkResult = "running"
    BY <1>1 DEF PkInv, PkKnown, Known, PkTypes
  <1>4. pkAlive \subseteq pkOwned /\ ~pkSecrets.credential
    BY <1>1, <1>3, MarkedIs DEF PkInv, PkGoesOn
  <1>5. PkTypes'
    BY <1>1, <1>2 DEF PkInv, PkTypes
  <1>6. PkGoesOn'
    BY <1>2 DEF PkGoesOn
  <1>7. /\ pkStep' >= Len(Phased) + 2 /\ ~(pkStep' >= Len(Phased) + 3) /\ ~(pkStep' >= Len(Phased) + 4)
        /\ pkStep' # Len(Phased) + 5
    BY <1>1, <1>2
  <1>8. PkKnown'
    BY <1>2, <1>4, <1>7 DEF PkKnown, Known
  <1>9. QED
    BY <1>5, <1>6, <1>8 DEF PkInv

\* The finally block: what each of its steps adds to what is known.
LEMMA FinallyKeeps ==
  ASSUME PkInv, FinallyUnits \/ FinallyToken \/ FinallyTrees
  PROVE  PkInv'
  <1>1. /\ pkSecrets \in SecretTypes /\ pkAlive \subseteq PkUnits /\ pkOwned \subseteq PkUnits
        /\ pkCreated \in BOOLEAN /\ pkStored \in BOOLEAN /\ pkError \in BOOLEAN
        /\ pkStep \in 1..PkEnd /\ pkResult \in {"running", "failed", "passed", "unproved"}
    BY DEF PkInv, PkTypes
  <1>2. Len(Phased) \in Nat /\ PkEnd = Len(Phased) + 5
    BY ProgramIs
  <1>3. /\ FinallyUnits => pkStep = Len(Phased) + 2
        /\ FinallyToken => pkStep = Len(Phased) + 3
        /\ FinallyTrees => pkStep = Len(Phased) + 4
    BY <1>1, AtFinal DEF FinallyUnits, FinallyToken, FinallyTrees
  <1>4. pkStep \in {Len(Phased) + 2, Len(Phased) + 3, Len(Phased) + 4}
    BY <1>3
  <1>5. ~(pkStep \in 1..(Len(Phased) + 1)) /\ pkStep # Len(Phased) + 5
    BY <1>2, <1>4
  <1>6. pkResult \in {"failed", "passed"}
    BY <1>1, <1>5 DEF PkInv, PkGoesOn, PkKnown, Known
  <1>7. CASE FinallyUnits
    <2>1. pkStep' = Len(Phased) + 3 /\ pkResult' = pkResult
      BY <1>2, <1>3, <1>7 DEF FinallyUnits, Done
    <2>2. UNCHANGED <<pkCreated, pkStored, pkSecrets>>
      BY <1>7 DEF FinallyUnits, pkMemory
    <2>3. /\ pkAlive' \subseteq PkUnits /\ pkOwned' \subseteq PkUnits /\ pkError' \in BOOLEAN
          /\ pkAlive \subseteq pkOwned => pkAlive' \subseteq pkOwned'
          /\ pkOwned' = {} \/ pkError'
      <3>1. CASE StopEach(pkOwned) /\ UNCHANGED pkError
        BY <1>1, <3>1 DEF StopEach
      <3>2. CASE pkError' = TRUE /\ \E stopped \in SUBSET pkOwned : StopEach(stopped)
        BY <1>1, <3>2 DEF StopEach
      <3>3. QED
        BY <1>7, <3>1, <3>2 DEF FinallyUnits
    <2>4. PkTypes'
      BY <1>1, <1>2, <2>1, <2>2, <2>3 DEF PkTypes
    <2>5. PkGoesOn'
      BY <1>6, <2>1 DEF PkGoesOn
    <2>6. /\ pkStep' >= Len(Phased) + 2 /\ ~(pkStep' >= Len(Phased) + 4) /\ pkStep' # Len(Phased) + 5
          /\ ~(pkStep >= Len(Phased) + 4)
      BY <1>2, <1>3, <1>7, <2>1
    <2>7. PkKnown'
      BY <1>6, <2>1, <2>2, <2>3, <2>6 DEF PkInv, PkKnown, Known
    <2>8. QED
      BY <2>4, <2>5, <2>7 DEF PkInv
  <1>8. CASE FinallyToken
    <2>1. pkStep' = Len(Phased) + 4 /\ pkResult' = pkResult
      BY <1>2, <1>3, <1>8 DEF FinallyToken, Done
    <2>2. UNCHANGED <<pkCreated, pkStored, pkAlive, pkOwned>>
      BY <1>8 DEF FinallyToken, pkMemory, pkUnits
    <2>3. /\ [pkSecrets EXCEPT !.credential = FALSE] \in SecretTypes
          /\ ~[pkSecrets EXCEPT !.credential = FALSE].credential
      BY <1>1 DEF SecretTypes
    <2>4. /\ pkSecrets' \in SecretTypes /\ pkError' \in BOOLEAN /\ (pkError => pkError')
          /\ pkError' \/ (pkCreated /\ ~pkSecrets'.credential) \/ (~pkCreated /\ UNCHANGED pkSecrets)
      <3>1. CASE pkCreated /\ pkSecrets' = [pkSecrets EXCEPT !.credential = FALSE] /\ UNCHANGED pkError
        BY <1>1, <2>3, <3>1
      <3>2. CASE pkError' = TRUE /\ pkSecrets' \in {pkSecrets, [pkSecrets EXCEPT !.credential = FALSE]}
        BY <1>1, <2>3, <3>2
      <3>3. CASE ~pkCreated /\ UNCHANGED <<pkSecrets, pkError>>
        BY <1>1, <3>3
      <3>4. QED
        BY <1>8, <3>1, <3>2, <3>3 DEF FinallyToken
    <2>5. PkTypes'
      BY <1>1, <1>2, <2>1, <2>2, <2>4 DEF PkTypes
    <2>6. PkGoesOn'
      BY <1>6, <2>1 DEF PkGoesOn
    <2>7. /\ pkStep' >= Len(Phased) + 2 /\ pkStep' >= Len(Phased) + 4 /\ pkStep' # Len(Phased) + 5
          /\ pkStep >= Len(Phased) + 3 /\ ~(pkStep >= Len(Phased) + 4)
      BY <1>2, <1>3, <1>8, <2>1
    <2>8. PkKnown'
      BY <1>6, <2>1, <2>2, <2>4, <2>7 DEF PkInv, PkKnown, Known
    <2>9. QED
      BY <2>5, <2>6, <2>8 DEF PkInv
  <1>9. CASE FinallyTrees
    <2>1. pkStep' = Len(Phased) + 5 /\ pkResult' = IF pkError' THEN "unproved" ELSE pkResult
      BY <1>2, <1>9 DEF FinallyTrees
    <2>2. UNCHANGED <<pkCreated, pkStored, pkAlive, pkOwned>>
      BY <1>9 DEF FinallyTrees, pkMemory, pkUnits
    <2>3. \/ /\ pkTree' = [installed |-> "absent", data |-> {}, work |-> FALSE]
             /\ pkSecrets' = [pkSecrets EXCEPT !.active = {}, !.file = FALSE]
             /\ UNCHANGED pkError
          \/ pkError' = TRUE /\ UNCHANGED pkSecrets
      BY <1>9 DEF FinallyTrees
    <2>4. /\ pkSecrets' \in SecretTypes /\ pkSecrets'.credential = pkSecrets.credential
          /\ pkError' \in BOOLEAN /\ (pkError => pkError')
          /\ \/ pkError'
             \/ /\ pkTree' = [installed |-> "absent", data |-> {}, work |-> FALSE]
                /\ pkSecrets'.active = {} /\ ~pkSecrets'.file
      BY <1>1, <2>3 DEF SecretTypes
    <2>5. PkTypes'
      BY <1>1, <1>2, <1>6, <2>1, <2>2, <2>4 DEF PkTypes
    <2>6. pkResult' # "running" /\ (pkResult' # "unproved" => ~pkError' /\ pkResult' = pkResult)
      BY <1>6, <2>1, <2>4
    <2>7. PkGoesOn'
      BY <2>6 DEF PkGoesOn
    <2>8. /\ pkStep' >= Len(Phased) + 2 /\ pkStep' >= Len(Phased) + 4
          /\ pkStep >= Len(Phased) + 3 /\ pkStep >= Len(Phased) + 4
      BY <1>2, <1>3, <1>9, <2>1
    <2>9. PkKnown'
      BY <1>6, <2>1, <2>2, <2>4, <2>6, <2>8 DEF PkInv, PkKnown, Known
    <2>10. QED
      BY <2>5, <2>7, <2>9 DEF PkInv
  <1>10. QED
    BY <1>7, <1>8, <1>9

\* Initially.
LEMMA PackageStartsSound == PkInit => PkInv
  <1> SUFFICES ASSUME PkInit PROVE PkInv
    OBVIOUS
  <1>1. /\ pkStep = 1 /\ pkAlive = {} /\ pkOwned = {} /\ pkResult = "running" /\ pkError = FALSE
        /\ pkCreated = FALSE /\ pkStored = FALSE
        /\ pkSecrets = [credential |-> FALSE, active |-> {}, file |-> FALSE]
    BY DEF PkInit
  <1>2. Len(Phased) \in Nat /\ PkEnd = Len(Phased) + 5 /\ Marked[1] = "fresh"
    BY ProgramIs, MarkedIs
  <1>3. PkTypes
    <2>1. pkStep \in 1..PkEnd
      BY <1>1, <1>2
    <2>2. pkSecrets \in SecretTypes
      BY <1>1 DEF SecretTypes
    <2>3. QED
      BY <1>1, <2>1, <2>2 DEF PkTypes
  <1>4. PkGoesOn
    BY <1>1, <1>2 DEF PkGoesOn
  <1>5. ~(1 >= Len(Phased) + 3) /\ ~(1 >= Len(Phased) + 4) /\ 1 # Len(Phased) + 5
    BY <1>2
  <1>6. PkKnown
    BY <1>1, <1>5 DEF PkKnown, Known
  <1>7. QED
    BY <1>3, <1>4, <1>6 DEF PkInv

\* Every step.
LEMMA PackageStaysSound == PkInv /\ [PkNext]_pkVars => PkInv'
  <1>1. ASSUME PkInv, PkNext PROVE PkInv'
    BY <1>1, QuietStepKeeps, CapturedKeeps, TokenKeeps, ProductKeeps, BesideKeeps, ValidateKeeps,
       FinallyKeeps DEF PkNext, PkRun
  <1>2. ASSUME PkInv, UNCHANGED pkVars PROVE PkInv'
    <2>1. PkTypes' /\ PkGoesOn' /\ PkKnown'
      BY <1>2 DEF PkInv, PkTypes, PkGoesOn, PkKnown, Known, PkEnd, pkVars
    <2>2. QED
      BY <2>1 DEF PkInv
  <1>3. QED
    BY <1>1, <1>2

\* What the invariant says of the end.
LEMMA PkInvLeavesClean == PkInv => EndedClean /\ NothingUnowned
  <1> SUFFICES ASSUME PkInv PROVE EndedClean /\ NothingUnowned
    OBVIOUS
  <1>1. Len(Phased) \in Nat /\ PkEnd = Len(Phased) + 5
    BY ProgramIs
  <1>2. EndedClean
    <2>1. ASSUME pkStep = PkEnd
          PROVE  pkStep >= Len(Phased) + 3 /\ pkStep >= Len(Phased) + 4 /\ pkStep = Len(Phased) + 5
      BY <1>1, <2>1
    <2>2. QED
      BY <2>1 DEF PkInv, PkKnown, Known, EndedClean
  <1>3. pkResult \in {"running", "passed"} => pkAlive \subseteq pkOwned
    BY DEF PkInv, PkGoesOn, PkKnown, Known
  <1>4. ASSUME NEW op \in {"remove_install", "remove_data", "remove_work"}, PkAt(op) PROVE pkAlive = {}
    <2>1. op \in Operations
      BY DEF Operations
    <2>2. pkResult = "running" /\ Marked[pkStep] # "up"
      BY <1>4, <2>1, InPhase DEF Goes, Quiet
    <2>3. QED
      BY <2>2 DEF PkInv, PkGoesOn
  <1>5. QED
    BY <1>2, <1>3, <1>4 DEF NothingUnowned

\* What is installed and kept, and the node's worker, have their types.
TreeTypes == [installed : {"absent", "present"}, data : SUBSET {"config", "cache"}, work : BOOLEAN]
NodeTypes == [sharing : BOOLEAN, revision : Int, worker : {"paused", "running"}]
PkShape == pkTree \in TreeTypes /\ pkNode \in NodeTypes

\* They have them on the clean host.
LEMMA ShapeStarts == PkInit => PkShape
  BY DEF PkInit, PkShape, TreeTypes, NodeTypes

\* The tree is changed by the extractions, the commands that make data and the
\* removals; the node by the policy's writes, its worker and the product's end.
LEMMA ShapeKept ==
  PkShape /\ [PkNext]_pkVars => PkShape'
  <1> SUFFICES ASSUME PkShape, [PkNext]_pkVars PROVE PkShape'
    OBVIOUS
  <1>1. pkTree \in TreeTypes /\ pkNode \in NodeTypes
    BY DEF PkShape
  <1>2. \/ pkTree' = pkTree
        \/ \E b \in BOOLEAN : pkTree' = [pkTree EXCEPT !.work = b]
        \/ \E i \in {"absent", "present"} : pkTree' = [pkTree EXCEPT !.installed = i]
        \/ \E d \in SUBSET {"config", "cache"} : pkTree' = [pkTree EXCEPT !.data = d]
        \/ pkTree' = [installed |-> "absent", data |-> {}, work |-> FALSE]
    <2>1. pkTree.data \subseteq {"config", "cache"}
      BY <1>1 DEF TreeTypes
    <2>2. CASE NoCredential \/ Extract \/ RemoveInstall \/ RemoveData \/ RemoveWork \/ FinallyTrees
      BY <2>2 DEF NoCredential, Extract, RemoveInstall, RemoveData, RemoveWork, FinallyTrees
    <2>3. ASSUME NEW op, NEW made \in SUBSET {"config", "cache"}, Captured(op, made)
          PROVE  \E d \in SUBSET {"config", "cache"} : pkTree' = [pkTree EXCEPT !.data = d]
      <3>1. PICK partly \in SUBSET made : pkTree' = [pkTree EXCEPT !.data = @ \cup partly]
        BY <2>3 DEF Captured
      <3>2. PICK d : d = pkTree.data \cup partly
        OBVIOUS
      <3>3. d \in SUBSET {"config", "cache"} /\ pkTree' = [pkTree EXCEPT !.data = d]
        BY <2>1, <3>1, <3>2
      <3>4. QED
        BY <3>3
    <2>4. SelfTest \/ Bootstrap \/ Acquire => \E d \in SUBSET {"config", "cache"} : pkTree' = [pkTree EXCEPT !.data = d]
      BY <2>3 DEF SelfTest, Bootstrap, Acquire
    <2>5. QED
      BY <2>2, <2>4 DEF PkNext, PkRun, Audit, AuditReplacement, CacheEmpty, SameCache, StoreToken, ClearToken, Count,
         StartProducts,
         StopProducts, FaultKill, ObserveFault, BaselineCreate, BaselineRevoke, BaselineList, BaselineCount, KeyCreate, Complete,
         KeyRevoke, GetPolicy, Share, Unshare, PutPolicy, AwaitWorker, AwaitPause, StopUnits, Validate, FinallyUnits, FinallyToken,
         WorkerFollows, ProductDies, WindowActs, pkVars
  <1>3. pkTree' \in TreeTypes
    <2>1. CASE pkTree' = pkTree
      BY <1>1, <2>1
    <2>2. ASSUME NEW b \in BOOLEAN, pkTree' = [pkTree EXCEPT !.work = b] PROVE pkTree' \in TreeTypes
      BY <1>1, <2>2, Zenon DEF TreeTypes
    <2>3. ASSUME NEW i \in {"absent", "present"}, pkTree' = [pkTree EXCEPT !.installed = i] PROVE pkTree' \in TreeTypes
      BY <1>1, <2>3 DEF TreeTypes
    <2>4. ASSUME NEW d \in SUBSET {"config", "cache"}, pkTree' = [pkTree EXCEPT !.data = d] PROVE pkTree' \in TreeTypes
      BY <1>1, <2>4 DEF TreeTypes
    <2>5. CASE pkTree' = [installed |-> "absent", data |-> {}, work |-> FALSE]
      BY <2>5 DEF TreeTypes
    <2>6. QED
      BY <1>2, <2>1, <2>2, <2>3, <2>4, <2>5
  <1>4. \/ pkNode' = pkNode
        \/ \E w \in {"paused", "running"} : pkNode' = [pkNode EXCEPT !.worker = w]
        \/ \E b \in BOOLEAN : pkNode' = [pkNode EXCEPT !.sharing = b, !.revision = pkNode.revision + 1]
    <2>1. CASE StopProducts \/ FaultKill \/ WorkerFollows \/ ProductDies \/ StopUnits \/ FinallyUnits
      BY <2>1 DEF StopProducts, FaultKill, WorkerFollows, ProductDies, StopUnits, FinallyUnits, StopEach, ProductGone
    <2>2. CASE Share \/ Unshare
      BY <2>2 DEF Share, Unshare, PutPolicy
    <2>3. CASE WindowActs
      <3>1. (~pkNode.sharing) \in BOOLEAN
        OBVIOUS
      <3>2. QED
        BY <2>3, <3>1 DEF WindowActs
    <2>4. QED
      BY <2>1, <2>2, <2>3 DEF PkNext, PkRun, Audit, AuditReplacement, NoCredential, Extract, SelfTest, Bootstrap, Acquire,
         Captured,
         CacheEmpty, SameCache, StoreToken, ClearToken, Count, StartProducts, ObserveFault, BaselineCreate, BaselineRevoke,
         BaselineList, BaselineCount, KeyCreate, Complete, KeyRevoke, GetPolicy, AwaitWorker, AwaitPause, RemoveInstall, RemoveData,
         RemoveWork, Validate, FinallyToken, FinallyTrees, pkVars
  <1>5. pkNode' \in NodeTypes
    <2>1. CASE pkNode' = pkNode
      BY <1>1, <2>1
    <2>2. ASSUME NEW w \in {"paused", "running"}, pkNode' = [pkNode EXCEPT !.worker = w] PROVE pkNode' \in NodeTypes
      BY <1>1, <2>2 DEF NodeTypes
    <2>3. ASSUME NEW b \in BOOLEAN, pkNode' = [pkNode EXCEPT !.sharing = b, !.revision = pkNode.revision + 1]
          PROVE  pkNode' \in NodeTypes
      <3>1. PICK n : n = pkNode.revision + 1
        OBVIOUS
      <3>2. n \in Int
        BY <1>1, <3>1 DEF NodeTypes
      <3>3. pkNode' = [pkNode EXCEPT !.sharing = b, !.revision = n]
        BY <2>3, <3>1
      <3>4. QED
        BY <1>1, <3>2, <3>3, Zenon DEF NodeTypes
    <2>4. QED
      BY <1>4, <2>1, <2>2, <2>3
  <1>6. QED
    BY <1>3, <1>5 DEF PkShape

\* The packaged run has its types.
LEMMA PkTyped == PkInv /\ PkShape => PkTypeOK
  BY DEF PkInv, PkTypes, PkShape, TreeTypes, NodeTypes, SecretTypes, PkKeys, PkUnits, PkTypeOK

-----------------------------------------------------------------------------
(***************************************************************************)
(* The document of a packaged run.  A disturbance of what must be kept is  *)
(* visible in the host until the record that compares it with an earlier   *)
(* one (Shows), and that record is then refused.  With two disturbances    *)
(* the second could undo the first, and no record would tell.              *)
(***************************************************************************)
Hosts == [product : BOOLEAN, cached : BOOLEAN, secrets : Nat, processes : Nat, workers : Nat]
Submissions ==
  [phase : {Phases[m] : m \in 1..16}, before : Hosts, after : Hosts, about : {"this", "other"}, flags : BOOLEAN,
   kind : {"reinstall", "upgrade"}, replacement : {"same"}]

DocumentTypes ==
  /\ ldHost \in Hosts /\ ldRecords \in Seq(Submissions) /\ ldStruck \in BOOLEAN
  /\ Len(ldRecords) <= 16 /\ ldStrikes \in 0..MaxDisturbances
  /\ ldResult \in {"running", "failed", "passed"}

\* Every accepted record was valid after the ones before it.
Accepted ==
  \A n \in 1..Len(ldRecords) :
    ldRecords[n].phase = Phases[n] /\ Valid(SubSeq(ldRecords, 1, n - 1), ldRecords[n])

\* What must not be lost since the acquisition, the replacement and the uninstallation,
\* as the records have it.
SecretsKept ==
  /\ Len(ldRecords) \in 11..13 => ldHost.secrets = ldRecords[11].after.secrets
  /\ Len(ldRecords) = 13 => ldHost.secrets = ldRecords[13].after.secrets

Retains ==
  /\ Len(ldRecords) \in 6..13 => ldHost.cached
  /\ SecretsKept

\* What was disturbed still shows, unless the document has failed.
Shows ==
  /\ ldStruck => ldStrikes # 0
  /\ ldStruck /\ ldResult # "failed" =>
       \/ Len(ldRecords) \in 6..13 /\ ~ldHost.cached
       \/ Len(ldRecords) \in 11..13 /\ ~SecretsKept
  /\ ~ldStruck /\ ldResult # "failed" => Retains

Ends ==
  /\ Len(ldRecords) = 16 => ldHost = Nothing
  /\ ldResult = "passed" => Len(ldRecords) = 16

DocumentInv == DocumentTypes /\ Accepted /\ Shows /\ Ends

\* What a phase does to the host, by its position.
PhaseDoes(n, from, to) ==
  /\ to \in Hosts
  /\ n \in 7..14 => to.cached = from.cached
  /\ n \in 11..14 => to.secrets = from.secrets
  /\ n = 15 => to = Nothing

\* What the acceptance of a record says of the host, by its position.
PhaseProves(n, p, r) ==
  /\ WellFormed(r)
  /\ n \in {6, 12, 13} => r.after.cached
  /\ n \in {10, 11, 14} => r.before.cached /\ r.after.cached
  /\ n = 11 => r.after.secrets = r.before.secrets
  /\ n = 13 => KeepsSecrets(p[11], r)
  /\ n = 14 => KeepsSecrets(p[13], r)
  /\ n \in {15, 16} => r.after = Nothing

\* An empty host is a host.
LEMMA NothingIsHost == Nothing \in Hosts
  BY DEF Nothing, Hosts

\* The name of each phase, and that no two have the same.
LEMMA PhaseNames ==
  /\ Phases[1] = "package_verification" /\ Phases[2] = "clean_install"
  /\ Phases[3] = "packaged_self_tests" /\ Phases[4] = "signed_bootstrap"
  /\ Phases[5] = "selected_bytes" /\ Phases[6] = "verified_acquisition"
  /\ Phases[7] = "localhost_inference" /\ Phases[8] = "bounded_contribution"
  /\ Phases[9] = "contribution_pause" /\ Phases[10] = "restart_cache_reuse"
  /\ Phases[11] = "manual_replacement" /\ Phases[12] = "recovery"
  /\ Phases[13] = "uninstall_retain" /\ Phases[14] = "retained_data_reinstall"
  /\ Phases[15] = "uninstall_delete" /\ Phases[16] = "process_cleanup"
  BY DEF Phases

\* A phase has one position.
LEMMA PhasesDiffer ==
  ASSUME NEW n \in 1..16, NEW m \in 1..16, Phases[n] = Phases[m]
  PROVE  n = m
  <1>1. n \in {1, 2, 3, 4, 5, 6, 7, 8, 9, 10, 11, 12, 13, 14, 15, 16}
        /\ m \in {1, 2, 3, 4, 5, 6, 7, 8, 9, 10, 11, 12, 13, 14, 15, 16}
    OBVIOUS
  <1>2. QED
    BY <1>1, PhaseNames

\* What Does says, by position instead of by name.
LEMMA DoesByPosition ==
  ASSUME NEW n \in 1..16, NEW h \in Hosts
  PROVE  PhaseDoes(n, h, Does(Phases[n], h))
  <1> DEFINE to == Does(Phases[n], h)
  <1>1. n \in {1, 2, 3, 4, 5, 6, 7, 8, 9, 10, 11, 12, 13, 14, 15, 16}
    OBVIOUS
  <1>2. 1 \in Nat /\ 2 \in Nat
    OBVIOUS
  <1>3. ASSUME n = 1 PROVE PhaseDoes(n, h, to)
    BY <1>3, PhaseNames, NothingIsHost DEF Does, PhaseDoes, Hosts
  <1>4. ASSUME n = 2 PROVE PhaseDoes(n, h, to)
    BY <1>4, PhaseNames, NothingIsHost DEF Does, PhaseDoes, Hosts
  <1>5. ASSUME n = 3 PROVE PhaseDoes(n, h, to)
    BY <1>5, PhaseNames, NothingIsHost DEF Does, PhaseDoes, Hosts
  <1>6. ASSUME n = 4 PROVE PhaseDoes(n, h, to)
    BY <1>6, PhaseNames, NothingIsHost DEF Does, PhaseDoes, Hosts
  <1>7. ASSUME n = 5 PROVE PhaseDoes(n, h, to)
    BY <1>7, PhaseNames, NothingIsHost DEF Does, PhaseDoes, Hosts
  <1>8. ASSUME n = 6 PROVE PhaseDoes(n, h, to)
    <2>1. to = [h EXCEPT !.cached = TRUE]
      BY <1>8, PhaseNames DEF Does
    <2>2. to \in Hosts
      BY <2>1 DEF Hosts
    <2> HIDE DEF to
    <2>3. QED
      BY <1>8, <2>2 DEF PhaseDoes
  <1>9. ASSUME n = 7 PROVE PhaseDoes(n, h, to)
    <2>1. to = [h EXCEPT !.secrets = 2, !.processes = 1]
      BY <1>9, PhaseNames DEF Does
    <2>2. to \in Hosts /\ to.cached = h.cached
      BY <1>2, <2>1 DEF Hosts
    <2> HIDE DEF to
    <2>3. QED
      BY <1>9, <2>2 DEF PhaseDoes
  <1>10. ASSUME n = 8 PROVE PhaseDoes(n, h, to)
    <2>1. to = [h EXCEPT !.workers = 1]
      BY <1>10, PhaseNames DEF Does
    <2>2. to \in Hosts /\ to.cached = h.cached
      BY <1>2, <2>1 DEF Hosts
    <2> HIDE DEF to
    <2>3. QED
      BY <1>10, <2>2 DEF PhaseDoes
  <1>11. ASSUME n = 9 PROVE PhaseDoes(n, h, to)
    BY <1>11, PhaseNames, NothingIsHost DEF Does, PhaseDoes, Hosts
  <1>12. ASSUME n = 10 PROVE PhaseDoes(n, h, to)
    BY <1>12, PhaseNames, NothingIsHost DEF Does, PhaseDoes, Hosts
  <1>13. ASSUME n = 11 PROVE PhaseDoes(n, h, to)
    BY <1>13, PhaseNames, NothingIsHost DEF Does, PhaseDoes, Hosts
  <1>14. ASSUME n = 12 PROVE PhaseDoes(n, h, to)
    BY <1>14, PhaseNames, NothingIsHost DEF Does, PhaseDoes, Hosts
  <1>15. ASSUME n = 13 PROVE PhaseDoes(n, h, to)
    BY <1>15, PhaseNames, NothingIsHost DEF Does, PhaseDoes, Hosts
  <1>16. ASSUME n = 14 PROVE PhaseDoes(n, h, to)
    BY <1>16, PhaseNames, NothingIsHost DEF Does, PhaseDoes, Hosts
  <1>17. ASSUME n = 15 PROVE PhaseDoes(n, h, to)
    BY <1>17, PhaseNames, NothingIsHost DEF Does, PhaseDoes, Hosts
  <1>18. ASSUME n = 16 PROVE PhaseDoes(n, h, to)
    BY <1>18, PhaseNames, NothingIsHost DEF Does, PhaseDoes, Hosts
  <1>19. QED
    BY <1>1, <1>2, <1>3, <1>4, <1>5, <1>6, <1>7, <1>8, <1>9, <1>10, <1>11, <1>12, <1>13, <1>14,
       <1>15, <1>16, <1>17, <1>18

\* What the validator of a position has checked when it accepts a record.
LEMMA ValidByPosition ==
  ASSUME NEW n \in 1..16, NEW p, NEW r, r.phase = Phases[n], Valid(p, r)
  PROVE  PhaseProves(n, p, r)
  <1>1. \A m \in 1..16 : r.phase = Phases[m] <=> m = n
    BY PhasesDiffer
  <1> USE DEF Valid, PhaseProves, KeepsCache
  <1>2. CASE n = 1
    <2>1. ValidPackageVerification(p, r)
      BY <1>1, <1>2
    <2>2. QED
      BY <1>2, <2>1 DEF ValidPackageVerification
  <1>3. CASE n = 2
    <2>1. ValidCleanInstall(p, r)
      BY <1>1, <1>3
    <2>2. QED
      BY <1>3, <2>1 DEF ValidCleanInstall
  <1>4. CASE n = 3
    <2>1. ValidPackagedSelfTests(p, r)
      BY <1>1, <1>4
    <2>2. QED
      BY <1>4, <2>1 DEF ValidPackagedSelfTests
  <1>5. CASE n = 4
    <2>1. ValidSignedBootstrap(p, r)
      BY <1>1, <1>5
    <2>2. QED
      BY <1>5, <2>1 DEF ValidSignedBootstrap
  <1>6. CASE n = 5
    <2>1. ValidSelectedBytes(p, r)
      BY <1>1, <1>6
    <2>2. QED
      BY <1>6, <2>1 DEF ValidSelectedBytes
  <1>7. CASE n = 6
    <2>1. ValidVerifiedAcquisition(p, r)
      BY <1>1, <1>7
    <2>2. QED
      BY <1>7, <2>1 DEF ValidVerifiedAcquisition
  <1>8. CASE n = 7
    <2>1. ValidLocalhostInference(p, r)
      BY <1>1, <1>8
    <2>2. QED
      BY <1>8, <2>1 DEF ValidLocalhostInference
  <1>9. CASE n = 8
    <2>1. ValidBoundedContribution(p, r)
      BY <1>1, <1>9
    <2>2. QED
      BY <1>9, <2>1 DEF ValidBoundedContribution
  <1>10. CASE n = 9
    <2>1. ValidContributionPause(p, r)
      BY <1>1, <1>10
    <2>2. QED
      BY <1>10, <2>1 DEF ValidContributionPause
  <1>11. CASE n = 10
    <2>1. ValidRestartCacheReuse(p, r)
      BY <1>1, <1>11
    <2>2. QED
      BY <1>11, <2>1 DEF ValidRestartCacheReuse
  <1>12. CASE n = 11
    <2>1. ValidManualReplacement(p, r)
      BY <1>1, <1>12
    <2>2. QED
      BY <1>12, <2>1 DEF ValidManualReplacement
  <1>13. CASE n = 12
    <2>1. ValidRecovery(p, r)
      BY <1>1, <1>13
    <2>2. QED
      BY <1>13, <2>1 DEF ValidRecovery
  <1>14. CASE n = 13
    <2>1. ValidUninstallRetain(p, r)
      BY <1>1, <1>14
    <2>2. QED
      BY <1>14, <2>1 DEF ValidUninstallRetain
  <1>15. CASE n = 14
    <2>1. ValidRetainedDataReinstall(p, r)
      BY <1>1, <1>15
    <2>2. QED
      BY <1>15, <2>1 DEF ValidRetainedDataReinstall
  <1>16. CASE n = 15
    <2>1. ValidUninstallDelete(p, r)
      BY <1>1, <1>16
    <2>2. QED
      BY <1>16, <2>1 DEF ValidUninstallDelete
  <1>17. CASE n = 16
    <2>1. ValidProcessCleanup(p, r)
      BY <1>1, <1>17
    <2>2. QED
      BY <1>17, <2>1 DEF ValidProcessCleanup
  <1>18. QED
    BY <1>2, <1>3, <1>4, <1>5, <1>6, <1>7, <1>8, <1>9, <1>10, <1>11, <1>12, <1>13, <1>14, <1>15, <1>16, <1>17

\* The record of a replacement still binds the secrets at the uninstallation.
LEMMA SecretsChained ==
  ASSUME DocumentTypes, Accepted, Len(ldRecords) >= 13
  PROVE  ldRecords[13].after.secrets = ldRecords[11].after.secrets
  <1>1. 13 \in 1..Len(ldRecords) /\ 13 \in 1..16 /\ 13 - 1 = 12
    BY DEF DocumentTypes
  <1> DEFINE p == SubSeq(ldRecords, 1, 12)
  <1>2. Valid(p, ldRecords[13]) /\ ldRecords[13].phase = Phases[13]
    BY <1>1 DEF Accepted
  <1>3. p[11] = ldRecords[11]
    BY <1>1 DEF DocumentTypes
  <1> HIDE DEF p
  <1>4. KeepsSecrets(p[11], ldRecords[13])
    BY <1>1, <1>2, ValidByPosition DEF PhaseProves
  <1>5. QED
    BY <1>3, <1>4 DEF KeepsSecrets

\* What can happen in one phase: a record of it is accepted, or the document fails.
Submitted(r) ==
  LET n == Len(ldRecords) + 1
      done == Does(Phases[n], ldHost)
  IN  /\ r \in Submissions /\ r.phase = Phases[n] /\ r.before = ldHost /\ r.after = ldHost'
      /\ Valid(ldRecords, r) /\ ldRecords' = Append(ldRecords, r) /\ ldResult' = "running"
      /\ ldStrikes' = ldStrikes \/ Strike
      /\ \/ r.after = done /\ ldStruck' = ldStruck
         \/ Strike /\ ldStruck' = (ldStruck \/ (n # 15 /\ Loses(n, done, r.after)))

Rejected ==
  /\ ldResult' = "failed" /\ ldRecords' = ldRecords
  /\ ldStruck' = ldStruck \/ (Strike /\ ldStruck' \in BOOLEAN)

\* A disturbed host is a host.
LEMMA DisturbedIsHost ==
  ASSUME NEW h \in Hosts, NEW to \in Disturbed(h)
  PROVE  to \in Hosts
  <1>0. h.secrets + 1 \in Nat /\ 1 \in Nat
    BY DEF Hosts
  <1>1. CASE to = [h EXCEPT !.cached = FALSE] \/ to = [h EXCEPT !.secrets = @ + 1]
    BY <1>0, <1>1 DEF Hosts
  <1>2. CASE h.secrets > 0 /\ to = [h EXCEPT !.secrets = @ - 1]
    BY <1>2 DEF Hosts
  <1>3. CASE to = [h EXCEPT !.processes = 1] \/ to = [h EXCEPT !.product = TRUE]
    BY <1>0, <1>3 DEF Hosts
  <1>4. QED
    BY <1>1, <1>2, <1>3 DEF Disturbed

\* A submission is accepted, and the host is then what the record says, or rejected.
LEMMA SubmitCases ==
  ASSUME DocumentTypes, Submit
  PROVE  /\ ldHost' \in Hosts /\ ldResult = "running" /\ Len(ldRecords) < 16
         /\ ldStruck' \in BOOLEAN /\ (ldStrikes' = ldStrikes \/ Strike)
         /\ Rejected \/ \E r : Submitted(r)
  <1> DEFINE n == Len(ldRecords) + 1
             done == Does(Phases[n], ldHost)
             right == [phase |-> Phases[n], before |-> ldHost, after |-> done,
                       about |-> "this", flags |-> TRUE, kind |-> "reinstall", replacement |-> "same"]
  <1>0. ldResult = "running" /\ Len(ldRecords) < 16
    BY DEF Submit
  <1>1. /\ ldResult = "running" /\ Len(ldRecords) < 16 /\ n \in 1..16
        /\ ldHost \in Hosts /\ Len(ldRecords) \in Nat
    BY <1>0 DEF DocumentTypes
  <1>2. done \in Hosts /\ Phases[n] \in {Phases[m] : m \in 1..16}
    BY <1>1, DoesByPosition DEF PhaseDoes
  <1>3. right \in Submissions /\ right.phase = Phases[n] /\ right.before = ldHost /\ right.after = done
    BY <1>1, <1>2 DEF Submissions
  <1>4. \/ /\ Accept(right) /\ ldHost' = right.after /\ UNCHANGED <<ldStrikes, ldStruck>>
        \/ /\ Strike
           /\ \E shown \in Disturbed(right.after) :
                /\ Accept([right EXCEPT !.after = shown]) /\ ldHost' = shown
                /\ ldStruck' = (ldStruck \/ (n # 15 /\ Loses(n, right.after, shown)))
        \/ /\ Strike /\ ldHost' = right.after /\ UNCHANGED ldStruck
           /\ \E r \in {[right EXCEPT !.phase = Phases[IF n = 16 THEN 1 ELSE n + 1]],
                        [right EXCEPT !.about = "other"], [right EXCEPT !.flags = FALSE],
                        [right EXCEPT !.kind = "upgrade"]} : Accept(r)
    BY DEF Submit
  <1>5. ASSUME NEW r, Accept(r)
        PROVE  \/ ldResult' = "failed" /\ ldRecords' = ldRecords
               \/ /\ r.phase = Phases[n] /\ Valid(ldRecords, r)
                  /\ ldRecords' = Append(ldRecords, r) /\ ldResult' = "running"
    BY <1>1, <1>5 DEF Accept
  <1> HIDE DEF right, done
  <1>6. CASE Accept(right) /\ ldHost' = right.after /\ UNCHANGED <<ldStrikes, ldStruck>>
    <2>1. CASE ldResult' = "failed" /\ ldRecords' = ldRecords
      BY <1>1, <1>2, <1>3, <1>6, <2>1 DEF Rejected, DocumentTypes
    <2>2. CASE /\ right.phase = Phases[n] /\ Valid(ldRecords, right)
               /\ ldRecords' = Append(ldRecords, right) /\ ldResult' = "running"
      <3>1. Submitted(right)
        BY <1>3, <1>6, <2>2 DEF Submitted, done
      <3>2. QED
        BY <1>1, <1>2, <1>3, <1>6, <3>1 DEF DocumentTypes
    <2>3. QED
      BY <1>5, <1>6, <2>1, <2>2
  <1>7. ASSUME Strike, NEW shown \in Disturbed(right.after),
               Accept([right EXCEPT !.after = shown]), ldHost' = shown,
               ldStruck' = (ldStruck \/ (n # 15 /\ Loses(n, right.after, shown)))
        PROVE  ldHost' \in Hosts /\ ldStruck' \in BOOLEAN /\ (Rejected \/ \E r : Submitted(r))
    <2> DEFINE r == [right EXCEPT !.after = shown]
    <2>1. shown \in Hosts
      BY <1>2, <1>3, <1>7, DisturbedIsHost
    <2>2. ldStruck' \in BOOLEAN
      BY <1>7 DEF DocumentTypes
    <2>3. r \in Submissions /\ r.before = ldHost /\ r.after = shown
      BY <1>3, <2>1 DEF Submissions
    <2>4. Accept(r)
      BY <1>7
    <2> HIDE DEF r
    <2>5. CASE ldResult' = "failed" /\ ldRecords' = ldRecords
      BY <1>7, <2>1, <2>2, <2>5 DEF Rejected
    <2>6. CASE /\ r.phase = Phases[n] /\ Valid(ldRecords, r)
               /\ ldRecords' = Append(ldRecords, r) /\ ldResult' = "running"
      <3>1. Submitted(r)
        BY <1>3, <1>7, <2>3, <2>6 DEF Submitted, done
      <3>2. QED
        BY <1>7, <2>1, <2>2, <3>1
    <2>7. QED
      BY <1>5, <2>4, <2>5, <2>6
  <1>8. ASSUME Strike, ldHost' = right.after, UNCHANGED ldStruck,
               NEW r \in {[right EXCEPT !.phase = Phases[IF n = 16 THEN 1 ELSE n + 1]],
                          [right EXCEPT !.about = "other"], [right EXCEPT !.flags = FALSE],
                          [right EXCEPT !.kind = "upgrade"]},
               Accept(r)
        PROVE  ldHost' \in Hosts /\ ldStruck' \in BOOLEAN /\ (Rejected \/ \E q : Submitted(q))
    <2>1. ldHost' \in Hosts /\ ldStruck' \in BOOLEAN
      BY <1>2, <1>3, <1>8 DEF DocumentTypes
    <2>2. CASE ldResult' = "failed" /\ ldRecords' = ldRecords
      BY <1>8, <2>1, <2>2 DEF Rejected
    <2>3. CASE /\ r.phase = Phases[n] /\ Valid(ldRecords, r)
               /\ ldRecords' = Append(ldRecords, r) /\ ldResult' = "running"
      <3>1. WellFormed(r)
        BY <1>1, <2>3, ValidByPosition DEF PhaseProves
      <3>2. (IF n = 16 THEN 1 ELSE n + 1) \in 1..16 /\ Phases[IF n = 16 THEN 1 ELSE n + 1] # Phases[n]
        BY <1>1 DEF Phases
      <3>3. r = [right EXCEPT !.kind = "upgrade"]
        BY <1>3, <1>8, <2>3, <3>1, <3>2 DEF WellFormed, Submissions
      <3>4. r \in Submissions /\ r.before = ldHost /\ r.after = done
        BY <1>3, <3>3 DEF Submissions
      <3>5. Submitted(r)
        BY <1>3, <1>8, <2>3, <3>4 DEF Submitted, done
      <3>6. QED
        BY <2>1, <3>5
    <2>4. QED
      BY <1>5, <1>8, <2>2, <2>3
  <1>9. QED
    BY <1>1, <1>4, <1>6, <1>7, <1>8

\* A disturbance still shows after a record is accepted, unless nothing has to be kept any
\* more: then the record has compared it with the earlier ones.
LEMMA SubmittedShows ==
  ASSUME MaxDisturbances <= 1, DocumentInv, Len(ldRecords) < 16, ldResult = "running", NEW r, Submitted(r)
  PROVE  Shows'
  <1>0. PICK n \in Nat : n = Len(ldRecords) + 1
    BY DEF DocumentInv, DocumentTypes
  <1> DEFINE done == Does(Phases[n], ldHost)
  <1>1. /\ n \in 1..16 /\ n = Len(ldRecords) + 1 /\ ldHost \in Hosts /\ ldRecords \in Seq(Submissions)
        /\ Len(ldRecords) \in Nat /\ ldStrikes \in Nat /\ r \in Submissions
    BY <1>0, DocumentAssumption DEF DocumentInv, DocumentTypes, Submitted
  <1>n. n \in 1..16 /\ Len(ldRecords) = n - 1
    BY <1>1
  <1>2. PhaseDoes(n, ldHost, done)
    BY <1>1, DoesByPosition
  <1>3. PhaseProves(n, ldRecords, r) /\ r.before = ldHost /\ r.after = ldHost' /\ ldResult' = "running"
    BY <1>1, ValidByPosition DEF Submitted
  <1>4. /\ Len(ldRecords') = n /\ ldRecords'[n] = r
        /\ \A m \in 1..(n - 1) : ldRecords'[m] = ldRecords[m]
    BY <1>1, AppendProperties DEF Submitted
  <1>5. \/ r.after = done /\ ldStruck' = ldStruck
        \/ /\ ldStrikes < MaxDisturbances /\ ldStrikes' = ldStrikes + 1
           /\ ldStruck' = (ldStruck \/ (n # 15 /\ Loses(n, done, r.after)))
    BY <1>1 DEF Submitted, Strike
  <1>6. ldStruck => ldStrikes # 0
    BY DEF DocumentInv, Shows
  <1>7. ldStruck' => ldStrikes' # 0
    <2>1. ldStrikes' = ldStrikes \/ ldStrikes' # 0
      BY <1>1 DEF Submitted, Strike
    <2>2. ldStrikes' = ldStrikes => ldStrikes' # ldStrikes + 1
      BY <1>1
    <2>4. ldStruck' /\ ldStrikes' = ldStrikes => ldStruck
      BY <1>5, <2>2
    <2>3. QED
      BY <1>6, <2>1, <2>4
  <1>s. n - 1 >= 13 => ldRecords[13].after.secrets = ldRecords[11].after.secrets
    BY <1>1, SecretsChained DEF DocumentInv
  <1> HIDE DEF done
  \* The two ways in which a disturbance shows afterwards, and no disturbance.
  <1>8. ASSUME ldStruck', n \in 6..13, ~r.after.cached PROVE Shows'
    BY <1>3, <1>4, <1>7, <1>8 DEF Shows
  <1>9. ASSUME ldStruck', n \in 12..13, r.after.secrets # ldRecords[11].after.secrets PROVE Shows'
    <2>1. ldRecords'[11] = ldRecords[11] /\ Len(ldRecords') \in 11..13
      BY <1>1, <1>4, <1>9
    <2>2. ~SecretsKept'
      BY <1>3, <1>9, <2>1 DEF SecretsKept
    <2>3. QED
      BY <1>7, <1>9, <2>1, <2>2 DEF Shows
  <1>10. ASSUME ~ldStruck', n \in 6..13 => r.after.cached,
                n \in 12..13 => r.after.secrets = ldRecords[11].after.secrets
         PROVE  Shows'
    <2>1. CASE n \in 12..13
      <3>1. ldRecords'[11] = ldRecords[11] /\ ldHost'.secrets = ldRecords[11].after.secrets
        BY <1>1, <1>3, <1>4, <1>10, <2>1
      <3>2. Len(ldRecords') = 13 => ldRecords'[13] = r
        BY <1>4
      <3>3. SecretsKept'
        BY <1>3, <3>1, <3>2 DEF SecretsKept
      <3>4. Retains'
        BY <1>3, <1>4, <1>10, <3>3 DEF Retains
      <3>5. QED
        BY <1>10, <3>4 DEF Shows
    <2>2. CASE n \notin 12..13
      <3>1. Len(ldRecords') \in 11..13 => ldRecords'[11] = r
        BY <1>1, <1>4, <2>2
      <3>2. Len(ldRecords') # 13
        BY <1>4, <2>2
      <3>3. SecretsKept'
        BY <1>3, <3>1, <3>2 DEF SecretsKept
      <3>4. Retains'
        BY <1>3, <1>4, <1>10, <3>3 DEF Retains
      <3>5. QED
        BY <1>10, <3>4 DEF Shows
    <2>3. QED
      BY <2>1, <2>2
  <1>11. CASE ldStruck
    <2>1. r.after = done /\ ldStruck'
      <3>1. ~(ldStrikes < MaxDisturbances)
        BY <1>1, <1>6, <1>11, DocumentAssumption
      <3>2. QED
        BY <1>5, <1>11, <3>1
    <2>2. CASE n - 1 \in 6..13 /\ ~ldHost.cached
      <3>1. n \notin {10, 11, 14}
        BY <1>3, <2>2 DEF PhaseProves
      <3>2. n \notin {12, 13}
        <4>1. n \in {12, 13} => r.after.cached /\ r.after.cached = ldHost.cached
          BY <1>2, <1>3, <2>1 DEF PhaseDoes, PhaseProves
        <4>2. QED
          BY <2>2, <4>1
      <3>3. n - 1 \in 6..13
        BY <2>2
      <3>6. n \in 7..9
        BY <1>n, <3>1, <3>2, <3>3
      <3>7. n \in 7..14 /\ n \in 6..13
        BY <3>6
      <3>4. r.after.cached = ldHost.cached /\ n \in 6..13
        BY <1>2, <2>1, <3>7 DEF PhaseDoes
      <3>5. QED
        BY <1>8, <2>1, <2>2, <3>4
    <2>3. CASE n - 1 \in 11..13 /\ ~SecretsKept
      <3>7. n - 1 \in 11..13
        BY <2>3
      <3>0. n \in {12, 13, 14} /\ Len(ldRecords) = n - 1
        BY <1>n, <3>7
      <3>1. n # 14
        BY <1>1, <1>3, <1>s, <2>3, <3>0 DEF SecretsKept, PhaseProves, KeepsSecrets
      <3>2. n # 13
        BY <1>1, <1>3, <2>3, <3>0 DEF SecretsKept, PhaseProves, KeepsSecrets
      <3>3. n = 12
        BY <3>0, <3>1, <3>2
      <3>4. ldHost.secrets # ldRecords[11].after.secrets
        BY <2>3, <3>0, <3>3 DEF SecretsKept
      <3>5. r.after.secrets = ldHost.secrets
        BY <1>2, <2>1, <3>3 DEF PhaseDoes
      <3>6. QED
        BY <1>9, <2>1, <3>3, <3>4, <3>5
    <2>4. QED
      BY <1>1, <1>11, <2>2, <2>3 DEF DocumentInv, Shows
  <1>12. CASE ~ldStruck
    <2>1. Retains
      BY <1>12 DEF DocumentInv, Shows
    <2>2. n \in 7..14 => done.cached
      <3>3. n \in 7..14 => Len(ldRecords) \in 6..13
        BY <1>n
      <3>1. n \in 7..14 => ldHost.cached
        BY <2>1, <3>3 DEF Retains
      <3>2. QED
        BY <1>2, <3>1 DEF PhaseDoes
    <2>3. n \in 12..14 => done.secrets = ldRecords[11].after.secrets
      <3>3. n \in 12..14 => Len(ldRecords) \in 11..13
        BY <1>n
      <3>1. n \in 12..14 => ldHost.secrets = ldRecords[11].after.secrets
        BY <2>1, <3>3 DEF Retains, SecretsKept
      <3>2. QED
        BY <1>2, <3>1 DEF PhaseDoes
    <2>4. n = 6 => r.after.cached
      BY <1>3 DEF PhaseProves
    <2>5. n \in 6..13 => n = 6 \/ n \in 7..14
      BY <1>1
    <2>6. n \in 12..13 => n \in 12..14
      OBVIOUS
    <2>7. CASE r.after = done /\ ldStruck' = ldStruck
      BY <1>10, <1>12, <2>2, <2>3, <2>4, <2>5, <2>6, <2>7
    <2>8. CASE ldStruck' = (n # 15 /\ Loses(n, done, r.after))
      <3>1. CASE ldStruck'
        <4>1. \/ n \in 6..13 /\ ~r.after.cached
              \/ n \in 11..13 /\ done.secrets # r.after.secrets
          BY <2>8, <3>1 DEF Loses, MustKeep
        <4>2. n # 11 \/ done.secrets = r.after.secrets
          BY <1>2, <1>3 DEF PhaseProves, PhaseDoes
        <4>3. n \in 11..13 /\ n # 11 => n \in 12..13
          BY <1>1
        <4>4. QED
          BY <1>8, <1>9, <2>3, <2>6, <3>1, <4>1, <4>2, <4>3
      <3>2. CASE ~ldStruck'
        <4>1. n # 15 => ~Loses(n, done, r.after)
          BY <2>8, <3>2
        <4>2. n \in 6..13 => n # 15
          OBVIOUS
        <4>3. n \in 6..13 /\ done.cached => r.after.cached
          BY <4>1, <4>2 DEF Loses, MustKeep
        <4>4. n \in 12..13 => n \in 11..13 /\ n # 15
          OBVIOUS
        <4>5. n \in 12..13 => done.secrets = r.after.secrets
          BY <4>1, <4>4 DEF Loses, MustKeep
        <4>6. QED
          BY <1>10, <2>2, <2>3, <2>4, <2>5, <2>6, <3>2, <4>3, <4>5
      <3>3. QED
        BY <3>1, <3>2
    <2>9. QED
      BY <1>5, <1>12, <2>7, <2>8
  <1>13. QED
    BY <1>11, <1>12

\* An accepted record is valid after those before it, and the last one leaves nothing.
LEMMA SubmittedAccepted ==
  ASSUME DocumentInv, Len(ldRecords) < 16, NEW r, Submitted(r)
  PROVE  /\ Accepted' /\ ldRecords' \in Seq(Submissions) /\ Len(ldRecords') = Len(ldRecords) + 1
         /\ Len(ldRecords') = 16 => ldHost' = Nothing
  <1> DEFINE n == Len(ldRecords) + 1
  <1>1. ldRecords \in Seq(Submissions) /\ n \in 1..16 /\ Len(ldRecords) \in Nat /\ r \in Submissions
    BY DEF DocumentInv, DocumentTypes, Submitted
  <1>2. /\ ldRecords' \in Seq(Submissions) /\ Len(ldRecords') = n /\ ldRecords'[n] = r
        /\ \A m \in 1..(n - 1) : ldRecords'[m] = ldRecords[m]
    BY <1>1, AppendProperties DEF Submitted
  <1>3. ASSUME NEW m \in 1..n PROVE SubSeq(ldRecords', 1, m - 1) = SubSeq(ldRecords, 1, m - 1)
    <2>1. m - 1 <= Len(ldRecords) /\ m - 1 <= Len(ldRecords') /\ m - 1 \in Nat
      BY <1>1, <1>2
    <2>2. SubSeq(ldRecords', 1, m - 1) = [j \in 1..(m - 1) |-> ldRecords'[j]]
      BY <1>2, <2>1
    <2>3. SubSeq(ldRecords, 1, m - 1) = [j \in 1..(m - 1) |-> ldRecords[j]]
      BY <1>1, <2>1
    <2>4. \A j \in 1..(m - 1) : ldRecords'[j] = ldRecords[j]
      BY <1>1, <1>2, <2>1
    <2>5. QED
      BY <2>2, <2>3, <2>4
  <1>4. SubSeq(ldRecords, 1, n - 1) = ldRecords
    BY <1>1
  <1>5. ASSUME NEW m \in 1..n
        PROVE  ldRecords'[m].phase = Phases[m] /\ Valid(SubSeq(ldRecords', 1, m - 1), ldRecords'[m])
    <2>1. CASE m = n
      BY <1>2, <1>3, <1>4, <2>1 DEF Submitted
    <2>2. CASE m # n
      <3>1. m \in 1..Len(ldRecords) /\ m \in 1..(n - 1)
        BY <1>1, <2>2
      <3>2. QED
        BY <1>2, <1>3, <3>1 DEF DocumentInv, Accepted
    <2>3. QED
      BY <2>1, <2>2
  <1>6. n = 16 => ldHost' = Nothing
    BY <1>1, ValidByPosition DEF Submitted, PhaseProves
  <1>7. QED
    BY <1>2, <1>5, <1>6 DEF Accepted

\* The step of the adapter and the controller.
LEMMA SubmitKeeps ==
  ASSUME MaxDisturbances <= 1, DocumentInv, Submit
  PROVE  DocumentInv'
  <1>1. /\ ldHost' \in Hosts /\ ldResult = "running" /\ Len(ldRecords) < 16 /\ Len(ldRecords) \in Nat
        /\ ldStruck' \in BOOLEAN /\ (ldStrikes' = ldStrikes \/ Strike)
        /\ Rejected \/ \E r : Submitted(r)
    BY SubmitCases DEF DocumentInv, DocumentTypes
  <1>n. Len(ldRecords) # 16
    <2>1. Len(ldRecords) < 16 /\ Len(ldRecords) \in Nat
      BY <1>1
    <2>2. PICK m \in Nat : m = Len(ldRecords)
      BY <2>1
    <2>3. m < 16
      BY <2>1, <2>2
    <2>4. m # 16
      BY <2>3
    <2>5. QED
      BY <2>2, <2>4, Zenon
  <1>2. ldStrikes' \in 0..MaxDisturbances
    BY <1>1, DocumentAssumption DEF DocumentInv, DocumentTypes, Strike
  <1>3. CASE Rejected
    <2>1. DocumentTypes'
      BY <1>1, <1>2, <1>3 DEF DocumentInv, DocumentTypes, Rejected
    <2>2. Accepted' /\ Ends'
      <3>1. UNCHANGED ldRecords /\ ldResult' = "failed"
        BY <1>3 DEF Rejected
      <3>2. Accepted'
        BY <3>1 DEF DocumentInv, Accepted
      <3>3. Len(ldRecords) # 16
        BY <1>n
      <3>5. Ends'
        BY <3>1, <3>3 DEF Ends
      <3>4. QED
        BY <3>2, <3>5
    <2>3. Shows'
      BY <1>1, <1>3, DocumentAssumption DEF DocumentInv, DocumentTypes, Shows, Rejected, Strike
    <2>4. QED
      BY <2>1, <2>2, <2>3 DEF DocumentInv
  <1>4. ASSUME NEW r, Submitted(r) PROVE DocumentInv'
    <2>1. Accepted' /\ ldRecords' \in Seq(Submissions) /\ Len(ldRecords') = Len(ldRecords) + 1
          /\ (Len(ldRecords') = 16 => ldHost' = Nothing)
      BY <1>1, <1>4, SubmittedAccepted
    <2>2. Shows' /\ ldResult' = "running"
      BY <1>1, <1>4, SubmittedShows DEF Submitted
    <2>3. DocumentTypes'
      BY <1>1, <1>2, <2>1, <2>2 DEF DocumentTypes
    <2>4. Ends'
      BY <2>1, <2>2 DEF Ends
    <2>5. QED
      BY <2>1, <2>2, <2>3, <2>4 DEF DocumentInv
  <1>5. QED
    BY <1>1, <1>3, <1>4

\* The host is disturbed between two phases.
LEMMA DisturbKeeps ==
  ASSUME MaxDisturbances <= 1, DocumentInv, Disturb
  PROVE  DocumentInv'
  <1>1. /\ UNCHANGED <<ldRecords, ldResult>> /\ ldHost' \in Hosts /\ ldResult = "running"
        /\ ldStrikes' = ldStrikes + 1 /\ ldStrikes < MaxDisturbances /\ Len(ldRecords) \in 1..13
        /\ ldStruck' = (ldStruck \/ Loses(Len(ldRecords), ldHost, ldHost'))
    BY DisturbedIsHost DEF Disturb, Strike, DocumentInv, DocumentTypes
  <1>n. Len(ldRecords) \in 1..13
    BY <1>1
  <1>r. ldRecords' = ldRecords /\ ldResult' = ldResult /\ ldResult = "running"
    BY <1>1
  <1>2. ~ldStruck /\ Retains /\ ldStrikes' # 0 /\ ldStrikes' \in 0..MaxDisturbances
    BY <1>1, DocumentAssumption DEF DocumentInv, DocumentTypes, Shows
  <1>3. ldStruck' = Loses(Len(ldRecords), ldHost, ldHost') /\ ldStruck' \in BOOLEAN
    BY <1>1, <1>2 DEF Loses
  <1>4. ASSUME ldStruck' PROVE Shows'
    <2>1. \/ Len(ldRecords) \in 6..13 /\ ~ldHost'.cached
          \/ Len(ldRecords) \in 11..13 /\ ldHost.secrets # ldHost'.secrets
      BY <1>3, <1>4 DEF Loses, MustKeep
    <2>2. Len(ldRecords) \in 11..13 /\ ldHost.secrets # ldHost'.secrets => ~SecretsKept'
      BY <1>1, <1>2 DEF Retains, SecretsKept
    <2>3. \/ Len(ldRecords') \in 6..13 /\ ~ldHost'.cached
          \/ Len(ldRecords') \in 11..13 /\ ~SecretsKept'
      BY <1>r, <2>1, <2>2
    <2>4. QED
      BY <1>2, <1>4, <2>3 DEF Shows
  <1>5. ASSUME ~ldStruck' PROVE Shows'
    <2>1. ~Loses(Len(ldRecords), ldHost, ldHost')
      BY <1>3, <1>5
    <2>2. Len(ldRecords) \in 6..13 => ldHost'.cached
      BY <1>2, <2>1 DEF Loses, MustKeep, Retains
    <2>3. Len(ldRecords) \in 11..13 => ldHost'.secrets = ldHost.secrets
      BY <2>1 DEF Loses, MustKeep
    <2>4. SecretsKept'
      BY <1>1, <1>2, <2>3 DEF Retains, SecretsKept
    <2>5. Retains'
      BY <1>r, <2>2, <2>4 DEF Retains
    <2>6. QED
      BY <1>5, <2>5 DEF Shows
  <1>6. DocumentTypes'
    BY <1>1, <1>2, <1>3 DEF DocumentInv, DocumentTypes
  <1>7. Accepted'
    BY <1>1 DEF DocumentInv, Accepted
  <1>9. Ends'
    <2>1. Len(ldRecords) # 16
      BY <1>n
    <2>2. QED
      BY <1>r, <2>1 DEF Ends
  <1>10. QED
    BY <1>3, <1>4, <1>5, <1>6, <1>7, <1>9 DEF DocumentInv

\* No step breaks it.
LEMMA DocumentStaysSound ==
  ASSUME MaxDisturbances <= 1, DocumentInv, [DocumentNext]_ldVars
  PROVE  DocumentInv'
  <1>1. CASE Finalize
    <2>1. UNCHANGED <<ldHost, ldRecords, ldStrikes, ldStruck>> /\ ldResult' = "passed"
          /\ ldResult = "running" /\ Len(ldRecords) = 16
      BY <1>1 DEF Finalize
    <2>2. QED
      BY <2>1 DEF DocumentInv, DocumentTypes, Accepted, Shows, Ends, Retains, SecretsKept
  <1>2. CASE UNCHANGED ldVars
    BY <1>2 DEF ldVars, DocumentInv, DocumentTypes, Accepted, Shows, Ends, Retains, SecretsKept
  <1>3. QED
    BY <1>1, <1>2, SubmitKeeps, DisturbKeeps DEF DocumentNext

\* The invariant holds from the start.
LEMMA DocumentStartsSound == DocumentInit => DocumentInv
  <1> SUFFICES ASSUME DocumentInit PROVE DocumentInv
    OBVIOUS
  <1>1. ldRecords \in Seq(Submissions) /\ Len(ldRecords) = 0
    BY DEF DocumentInit
  <1>2. DocumentTypes
    <2>1. Len(ldRecords) <= 16 /\ 0 \in 0..MaxDisturbances
      BY <1>1, DocumentAssumption
    <2>2. QED
      BY <1>1, <2>1, NothingIsHost DEF DocumentInit, DocumentTypes
  <1>3. Accepted
    BY <1>1 DEF Accepted
  <1>4. Shows /\ Ends
    <2>1. Len(ldRecords) \notin 6..13 /\ Len(ldRecords) \notin 11..13 /\ Len(ldRecords) # 13 /\ Len(ldRecords) # 16
      BY <1>1
    <2>2. QED
      BY <2>1 DEF DocumentInit, Shows, Ends, Retains, SecretsKept
  <1>5. QED
    BY <1>2, <1>3, <1>4 DEF DocumentInv

\* What the run checks of a document follows from it.
LEMMA DocumentInvProves == DocumentInv => DocumentProves
  <1> SUFFICES ASSUME DocumentInv, ldResult = "passed" PROVE ~ldStruck /\ ldHost = Nothing /\ Revalidated
    BY DEF DocumentProves
  <1>1. Len(ldRecords) = 16 /\ ldHost = Nothing
    BY DEF DocumentInv, Ends
  <1>2. Len(ldRecords) \notin 6..13 /\ Len(ldRecords) \notin 11..13
    BY <1>1
  <1>3. ~ldStruck
    BY <1>2 DEF DocumentInv, DocumentTypes, Shows
  <1>4. Revalidated
    BY <1>1 DEF DocumentInv, Accepted, Revalidated
  <1>5. QED
    BY <1>1, <1>3, <1>4

-----------------------------------------------------------------------------
(***************************************************************************)
(* The download of a package by two invocations side by side.              *)
(***************************************************************************)
\* With a third invocation the exactness of the package is lost.
AtMostTwo == \A i, j, l \in Invocations : i = j \/ j = l \/ i = l

Past == {"unlink", "clean", "cleaned", "over"}
Holding == {"extract", "unwrapped", "link", "unlink"}

DownloadTypes ==
  /\ pdAt \in [Invocations -> {"begin", "request", "transfer", "unwrap", "extract", "unwrapped", "link"} \cup Past]
  /\ pdFile \in [{"wrapper", "partial", "target"} -> Inodes \cup {Absent}]
  /\ pdBytes \in [Inodes -> {"none", "part", "wrong", "exact"}]
  /\ pdZip \in [Invocations -> Inodes \cup {Absent}]
  /\ \A i \in Invocations : pdAt[i] = "extract" => pdZip[i] \in Inodes

\* A name leads to a file that its maker has not yet taken away.
NamesOwned ==
  /\ pdFile["wrapper"] \in {Absent} \cup {<<j, "wrapper">> : j \in Invocations}
  /\ pdFile["partial"] \in {Absent} \cup {<<j, "partial">> : j \in Invocations}
  /\ pdFile["target"] \in {Absent} \cup {<<j, "partial">> : j \in Invocations}
  /\ \A i \in Invocations :
    /\ pdFile["wrapper"] = <<i, "wrapper">> /\ i \notin pdKilled =>
         pdAt[i] \in {"transfer", "unwrap", "extract", "unwrapped", "clean"}
    /\ pdFile["partial"] = <<i, "partial">> /\ i \notin pdKilled => pdAt[i] \in Holding \cup {"clean", "cleaned"}

\* Two invocations never hold the partial together, and it has no other file's name.
PartialHeld ==
  \A i, j \in Invocations : i # j /\ pdAt[i] \in Holding =>
    /\ pdFile["partial"] # <<j, "partial">>
    /\ pdFile["partial"] = Absent => pdAt[j] \in Past

\* What is linked, or about to be, is exact.
LinkedExact ==
  \A i \in Invocations :
    /\ pdAt[i] \in {"unwrapped", "link", "unlink"} => pdBytes[<<i, "partial">>] = "exact"
    /\ pdFile["target"] = <<i, "partial">> => pdAt[i] \in Past /\ pdBytes[<<i, "partial">>] = "exact"

\* Who says that it passed has linked, and nobody takes the link away.
PassedLinked ==
  \A i \in Invocations :
    /\ i \notin pdFailed \cup pdKilled /\ pdAt[i] \in {"clean", "cleaned", "over"} => pdFile["target"] # Absent
    /\ pdAt[i] = "unlink" =>
         /\ pdFile["target"] # Absent
         /\ \A j \in Invocations \ {i} : /\ pdAt[j] # "unlink"
                                         /\ pdAt[j] \in {"clean", "cleaned", "over"} => j \in pdFailed \cup pdKilled

DownloadInv == DownloadTypes /\ NamesOwned /\ PartialHeld /\ LinkedExact /\ PassedLinked

\* The steps of one invocation.
LEMMA DownloadStepKeeps ==
  ASSUME AtMostTwo, DownloadInv, NEW i \in Invocations, DownloadStep(i) \/ KillDownload(i)
  PROVE  DownloadInv'
  <1> USE DEF At, Raises, BadAnswer, OpenExclusive, Past, DownloadStep
  <1>1. DownloadTypes /\ NamesOwned /\ PartialHeld /\ LinkedExact /\ PassedLinked
    BY DEF DownloadInv
  <1>2. \A j \in Invocations \ {i} :
          /\ pdBytes'[<<j, "partial">>] = pdBytes[<<j, "partial">>] /\ pdAt'[j] = pdAt[j]
          /\ <<j, "partial">> # <<i, "partial">> /\ <<j, "partial">> # Absent
    BY <1>1 DEF BeginDownload, OpenWrapper, CopyWrapper, OpenArchive, ExtractArchive,
       RemoveWrapper, LinkTarget, UnlinkPartial, CleanWrapper, CleanPartial, KillDownload,
       DownloadTypes, Inodes, Absent
  <1>3. DownloadTypes'
    BY <1>1 DEF BeginDownload, OpenWrapper, CopyWrapper, OpenArchive, ExtractArchive,
       RemoveWrapper, LinkTarget, UnlinkPartial, CleanWrapper, CleanPartial, KillDownload,
       DownloadTypes, Inodes, Absent
  <1>4. NamesOwned'
    <2>1. CASE BeginDownload(i)
      BY <2>1, <1>1 DEF BeginDownload, DownloadTypes, Inodes, Absent, NamesOwned, Holding
    <2>2. CASE OpenWrapper(i)
      BY <2>2, <1>1 DEF OpenWrapper, DownloadTypes, Inodes, Absent, NamesOwned, Holding
    <2>3. CASE CopyWrapper(i)
      BY <2>3, <1>1 DEF CopyWrapper, DownloadTypes, Inodes, Absent, NamesOwned, Holding
    <2>4. CASE OpenArchive(i)
      BY <2>4, <1>1 DEF OpenArchive, DownloadTypes, Inodes, Absent, NamesOwned, Holding
    <2>5. CASE ExtractArchive(i)
      BY <2>5, <1>1 DEF ExtractArchive, DownloadTypes, Inodes, Absent, NamesOwned, Holding
    <2>6. CASE RemoveWrapper(i)
      BY <2>6, <1>1 DEF RemoveWrapper, DownloadTypes, Inodes, Absent, NamesOwned, Holding
    <2>7. CASE LinkTarget(i)
      BY <2>7, <1>1 DEF LinkTarget, DownloadTypes, Inodes, Absent, NamesOwned, Holding
    <2>8. CASE UnlinkPartial(i)
      BY <2>8, <1>1 DEF UnlinkPartial, DownloadTypes, Inodes, Absent, NamesOwned, Holding
    <2>9. CASE CleanWrapper(i)
      BY <2>9, <1>1 DEF CleanWrapper, DownloadTypes, Inodes, Absent, NamesOwned, Holding
    <2>10. CASE CleanPartial(i)
      BY <2>10, <1>1 DEF CleanPartial, DownloadTypes, Inodes, Absent, NamesOwned, Holding
    <2>11. CASE KillDownload(i)
      BY <2>11, <1>1 DEF KillDownload, DownloadTypes, Inodes, Absent, NamesOwned, Holding
    <2>12. QED
      BY <2>1, <2>2, <2>3, <2>4, <2>5, <2>6, <2>7, <2>8, <2>9, <2>10, <2>11
  <1>5. PartialHeld'
    BY <1>1 DEF BeginDownload, OpenWrapper, CopyWrapper, OpenArchive, ExtractArchive,
       RemoveWrapper, LinkTarget, UnlinkPartial, CleanWrapper, CleanPartial, KillDownload,
       DownloadTypes, Inodes, Absent, NamesOwned, PartialHeld, Holding, AtMostTwo
  <1>6. pdAt'[i] \in {"unwrapped", "link", "unlink"} => pdBytes'[<<i, "partial">>] = "exact"
    BY <1>1 DEF BeginDownload, OpenWrapper, CopyWrapper, OpenArchive, ExtractArchive,
       RemoveWrapper, LinkTarget, UnlinkPartial, CleanWrapper, CleanPartial, KillDownload,
       DownloadTypes, Inodes, Absent, LinkedExact
  <1>7. pdFile'["target"] = <<i, "partial">> => pdAt'[i] \in Past /\ pdBytes'[<<i, "partial">>] = "exact"
    BY <1>1 DEF BeginDownload, OpenWrapper, CopyWrapper, OpenArchive, ExtractArchive,
       RemoveWrapper, LinkTarget, UnlinkPartial, CleanWrapper, CleanPartial, KillDownload,
       DownloadTypes, Inodes, Absent, LinkedExact, PartialHeld, Holding
  <1>8. pdFile'["target"] = pdFile["target"] \/ pdFile'["target"] \in {Absent, <<i, "partial">>}
    BY <1>1 DEF BeginDownload, OpenWrapper, CopyWrapper, OpenArchive, ExtractArchive,
       RemoveWrapper, LinkTarget, UnlinkPartial, CleanWrapper, CleanPartial, KillDownload,
       DownloadTypes, NamesOwned, PartialHeld, Holding
  <1>9. LinkedExact'
    <2>1. \A j \in Invocations :
            pdAt'[j] \in {"unwrapped", "link", "unlink"} => pdBytes'[<<j, "partial">>] = "exact"
      BY <1>1, <1>2, <1>6 DEF LinkedExact
    <2>2. \A j \in Invocations : pdFile'["target"] = <<j, "partial">> =>
            pdAt'[j] \in Past /\ pdBytes'[<<j, "partial">>] = "exact"
      BY <1>1, <1>2, <1>7, <1>8 DEF LinkedExact
    <2>3. QED
      BY <2>1, <2>2 DEF LinkedExact
  <1>10. PassedLinked'
    BY <1>1 DEF BeginDownload, OpenWrapper, CopyWrapper, OpenArchive, ExtractArchive,
       RemoveWrapper, LinkTarget, UnlinkPartial, CleanWrapper, CleanPartial, KillDownload,
       DownloadTypes, Inodes, Absent, PartialHeld, PassedLinked, NamesOwned, Holding
  <1>11. QED
    BY <1>3, <1>4, <1>5, <1>9, <1>10 DEF DownloadInv

\* The invariant holds from the start.
LEMMA DownloadStartsSound == DownloadInit => DownloadInv
  BY DEF DownloadInit, DownloadInv, DownloadTypes, NamesOwned, PartialHeld, LinkedExact, PassedLinked,
         Holding, Past, Inodes, Absent

\* No step breaks it.
LEMMA DownloadStaysSound == AtMostTwo /\ DownloadInv /\ [DownloadNext]_pdVars => DownloadInv'
  <1>1. DownloadInv /\ UNCHANGED pdVars => DownloadInv'
    BY DEF pdVars, DownloadInv, DownloadTypes, NamesOwned, PartialHeld, LinkedExact, PassedLinked
  <1>2. QED
    BY <1>1, DownloadStepKeeps DEF DownloadNext

\* What the run checks of a package follows from it.
LEMMA DownloadInvExact == DownloadInv => PackageExact
  BY DEF DownloadInv, DownloadTypes, NamesOwned, LinkedExact, PassedLinked, PackageExact, Holding

-----------------------------------------------------------------------------
(***************************************************************************)
(* The paid hosts, for any workload, one or two regions and any number of  *)
(* faults.  CloudInv says, of each stage, what exists and what may still   *)
(* arrive: the run goes on only when nothing is in flight, so a pass is    *)
(* over a provider that the checks have seen; and a cleanup that nothing   *)
(* disturbs takes away, in the order of the plan, all that any prefix of   *)
(* the creates has made.                                                   *)
(***************************************************************************)
\* The regions and the profiles of the fleet, and everything a run of each workload may
\* create.
RegionSet == IF HasFallback(FleetRegions) THEN {Primary(FleetRegions), Fallback(FleetRegions)}
                                          ELSE {Primary(FleetRegions)}
ProfileSet == {"windows-cpu", "linux-cpu", "windows-cuda", "linux-cuda"}
Everything ==
  CASE work = "route" -> {Res(kind) : kind \in {"network", "subnet", "firewall", "iap", "instance", "disk"}}
    [] work = "cache" -> {Res(kind) : kind \in {"repository", "account", "reader", "network", "subnet", "firewall",
                                                "instance", "disk"}}
    [] work = "fleet" -> {Res("network"), Res("firewall")}
         \cup {In(kind, g) : kind \in {"subnet", "router", "address", "nat"}, g \in RegionSet}
         \cup {In(kind, p) : kind \in {"instance", "disk"}, p \in ProfileSet}

\* The stages of the run, by who passes through them.
DrillNames == {"install", "boot", "start_primary", "start_standby", "health_start",
  "probe_primary", "probe_standby", "probe_auto", "stop_primary", "health_fallback",
  "probe_fallback", "restore", "health_restored", "probe_restored", "monitor"}
SecretStages == {"sec_prepare", "sec_upload", "sec_consume", "sec_clean"}
HostFinally == {"fin_registry", "fin_stop", "fin_cleanup"}
CacheStages == {"warm", "policy", "repo_delete", "repo_check"}
PhaseStages == {"phase_create", "phase_work", "phase_delete", "phase_verify"}
Common == {"load", "preflight", "create", "await", "delete", "verify", "protected", "report", "cut", "done"}
Closing == {"delete", "verify", "protected", "report", "cut", "done"}

\* The locals of the lifecycle.
Locals == [created : BOOLEAN, preflight : BOOLEAN, pass : BOOLEAN, failed : BOOLEAN, local : BOOLEAN, remote : BOOLEAN,
  kind : {"sentinel", "token"}, err : {"none", "other", "local"}, protected : BOOLEAN, repoGone : BOOLEAN, warmed : BOOLEAN]

\* The tool stands at a stage of its workload, and at a row of the plan that is there.
Control ==
  /\ work \in Workloads /\ phase \in 1..4 /\ k \in 1..16
  /\ pc \in Common \cup DrillNames \cup SecretStages \cup HostFinally \cup CacheStages \cup PhaseStages
  /\ pc = "create" => k <= Len(CreateList)
  /\ pc = "delete" => k <= Len(CleanupList)
  /\ pc = "verify" => k <= Len(VerifyList)
  /\ pc \in DrillNames \cup SecretStages \cup HostFinally => work = "route"
  /\ pc \in CacheStages => work = "cache"
  /\ pc \in PhaseStages => work = "fleet"
  /\ pc = "await" => work # "fleet"
\* The counters, the locals, the credential file and the machine have their types.
Tally ==
  /\ fl \in Locals /\ secret \in {"absent", "sentinel", "token"} /\ faults \in 0..MaxFaults /\ calm \in BOOLEAN
  /\ absent \subseteq 1..Len(VerifyList) /\ host \in HostStates
\* What exists: what the plan names, an instance with its disk, a NAT on its router; and
\* a NAT is not made while its router is still in flight.
Things ==
  /\ cloud \subseteq Everything /\ inflight \subseteq Everything
  /\ \A r \in inflight : Kind(r) # "disk"
  /\ \A r \in Everything : Kind(r) = "instance" => (In("disk", r[2]) \in cloud <=> r \in cloud)
  /\ \A g \in RegionSet :
       /\ In("nat", g) \in cloud => In("router", g) \in cloud
       /\ In("router", g) \in inflight \cup late => In("nat", g) \notin cloud \cup inflight

\* The run goes on as planned.
Working ==
  \/ pc \in {"load", "preflight", "create", "await", "warm"} \cup DrillNames \cup SecretStages
  \/ pc \in PhaseStages /\ ~fl.failed
\* Then nothing flies, and what exists while it creates is what it has created so far.
WorkClean ==
  /\ Working \/ fl.warmed \/ fl.pass => inflight = {} /\ late = {}
  /\ pc \in {"load", "preflight"} => cloud = {}
  /\ pc = "create" => \A r \in cloud : \E j \in 1..(k - 1) : r \in With(CreateList[j])
\* The locals agree with the stage; the credential is there only between its making and
\* the cleanup of the host that has it.
FlowFits ==
  /\ pc \in {"load", "preflight", "create"} => ~fl.warmed /\ ~fl.pass
  /\ work = "fleet" => ~fl.warmed /\ ~fl.pass
  /\ pc \in {"load", "preflight", "create", "phase_create", "phase_work"} => ~fl.failed
  /\ Working \/ pc \in PhaseStages \cup HostFinally => absent = {}
  /\ secret # "absent" => /\ work = "route" /\ ~fl.pass
                          /\ \/ pc = "sec_clean" /\ fl.err = "local"
                             \/ pc \in HostFinally \cup Closing
  /\ fl.pass => pc \in HostFinally \cup Closing
  /\ pc \notin {"sec_clean", "done"} => fl.err = "none"
\* What a check found absent and exists has come late.
Seen == \A j \in absent : VerifyList[j] \in cloud => VerifyList[j] \in late
\* The fleet has no host but that of its phase.
HostsFit ==
  work = "fleet" =>
    /\ \A r \in cloud \cup inflight : Kind(r) = "instance" => r = PhaseHost
    /\ pc = "phase_create" => PhaseHost \notin cloud
    /\ pc = "create" => Instances = {}
\* A route machine that does not exist has no state.
MachineFits ==
  /\ Res("instance") \notin cloud => host = FreshHost
  /\ work # "route" => host = FreshHost
\* A cleanup that nothing has disturbed and nothing can: what it has deleted is gone, and
\* what it has checked is absent.
Calm == calm /\ inflight = {}
Deleted(n) == /\ \A i \in 1..n : CleanupList[i] \notin cloud
              /\ work = "fleet" => Instances = {}
CalmFits ==
  Calm =>
    /\ pc = "phase_verify" => PhaseHost \notin cloud
    /\ pc = "delete" => Deleted(k - 1)
    /\ pc = "verify" => Deleted(Len(CleanupList)) /\ 1..(k - 1) \subseteq absent
    /\ pc \in {"policy", "repo_delete", "repo_check", "protected", "report", "cut"} /\ fl.created => AllAbsent
    /\ report # NoReport /\ fl.created => AllAbsent
\* A pass and a report are of what the checks found.
PassFits ==
  /\ work = "cache" /\ fl.pass =>
       pc \in {"protected", "report", "done"} /\ AllAbsent /\ Res("reader") \notin cloud /\ Res("repository") \in cloud
  /\ pc = "policy" => AllAbsent /\ fl.warmed
  /\ report # NoReport =>
       /\ pc = "done" /\ (report.allAbsent <=> AllAbsent)
       /\ report.result = "passed" => AllAbsent /\ (work # "fleet" => fl.pass)

-----------------------------------------------------------------------------
\* The plans, row by row.

\* PairParts are equal when their parts are.
LEMMA PairParts ==
  /\ \A a, b : Kind(In(a, b)) = a /\ In(a, b)[2] = b
  /\ \A a, b, c, d : In(a, b) = In(c, d) <=> a = c /\ b = d
  BY DEF In, Kind

\* The same, of a list that is two rows one after the other.
LEMMA RowOf ==
  ASSUME NEW S, NEW s \in Seq(S), NEW t \in Seq(S), NEW r, r = s \o t
  PROVE  /\ r \in Seq(S) /\ Len(r) = Len(s) + Len(t)
         /\ \A n \in 1..Len(s) : r[n] = s[n]
         /\ \A n \in 1..Len(t) : r[Len(s) + n] = t[n]
  BY ConcatParts

\* Four parts in a row, of which the first and the last have one element.
LEMMA FourParts ==
  ASSUME NEW S, NEW a \in S, NEW t \in Seq(S), NEW u \in Seq(S), NEW b \in S,
         NEW r, r = <<a>> \o t \o u \o <<b>>
  PROVE  /\ r \in Seq(S) /\ Len(r) = Len(t) + Len(u) + 2 /\ r[1] = a /\ r[Len(t) + Len(u) + 2] = b
         /\ \A i \in 1..Len(t) : r[1 + i] = t[i]
         /\ \A i \in 1..Len(u) : r[1 + Len(t) + i] = u[i]
  <1>1. PICK x, y, p, q, z : x = <<a>> /\ y = <<b>> /\ p = x \o t /\ q = p \o u /\ z = q \o y
    OBVIOUS
  <1>2. r = z /\ z = q \o y
    BY <1>1
  <1>3. x \in Seq(S) /\ Len(x) = 1 /\ x[1] = a /\ y \in Seq(S) /\ Len(y) = 1 /\ y[1] = b
    BY <1>1
  <1>4. Len(t) \in Nat /\ Len(u) \in Nat
    OBVIOUS
  <1>5. /\ p \in Seq(S) /\ Len(p) = Len(x) + Len(t)
        /\ \A n \in 1..Len(x) : p[n] = x[n]
        /\ \A n \in 1..Len(t) : p[Len(x) + n] = t[n]
    BY <1>1, <1>3, RowOf
  <1>6. /\ q \in Seq(S) /\ Len(q) = Len(p) + Len(u)
        /\ \A n \in 1..Len(p) : q[n] = p[n]
        /\ \A n \in 1..Len(u) : q[Len(p) + n] = u[n]
    BY <1>1, <1>5, RowOf
  <1>7. /\ z \in Seq(S) /\ Len(z) = Len(q) + Len(y)
        /\ \A n \in 1..Len(q) : z[n] = q[n]
        /\ \A n \in 1..Len(y) : z[Len(q) + n] = y[n]
    <2>1. q \in Seq(S)
      BY <1>6
    <2>2. y \in Seq(S)
      BY <1>3
    <2>3. QED
      BY <1>2, <2>1, <2>2, RowOf
  <1>8. Len(p) = 1 + Len(t) /\ Len(q) = 1 + Len(t) + Len(u)
    BY <1>3, <1>4, <1>5, <1>6
  <1>9. \A n \in 1..Len(t) : p[1 + n] = t[n] /\ q[1 + n] = p[1 + n] /\ z[1 + n] = q[1 + n]
    BY <1>3, <1>4, <1>5, <1>6, <1>7, <1>8
  <1>10. \A n \in 1..Len(u) : q[1 + Len(t) + n] = u[n] /\ z[1 + Len(t) + n] = q[1 + Len(t) + n]
    BY <1>3, <1>4, <1>6, <1>7, <1>8
  <1>11. z[1] = q[1] /\ q[1] = p[1] /\ p[1] = x[1] /\ z[Len(q) + 1] = y[1]
    BY <1>3, <1>4, <1>5, <1>6, <1>7, <1>8
  <1>12. Len(z) = Len(t) + Len(u) + 2 /\ Len(q) + 1 = Len(t) + Len(u) + 2
    BY <1>3, <1>4, <1>7, <1>8
  <1>13. QED
    BY <1>2, <1>3, <1>7, <1>9, <1>10, <1>11, <1>12

\* The lists of the fleet, position by position.
LEMMA FleetCreates ==
  LET L == FleetCreate(FleetRegions)  g == Primary(FleetRegions)  h == Fallback(FleetRegions)
  IN  /\ L[1] = Res("network")
      /\ L[2] = In("subnet", g) /\ L[3] = In("router", g) /\ L[4] = In("address", g) /\ L[5] = In("nat", g)
      /\ HasFallback(FleetRegions) =>
           /\ Len(L) = 10 /\ L[10] = Res("firewall")
           /\ L[6] = In("subnet", h) /\ L[7] = In("router", h) /\ L[8] = In("address", h) /\ L[9] = In("nat", h)
      /\ ~HasFallback(FleetRegions) => Len(L) = 6 /\ L[6] = Res("firewall")
  <1> DEFINE g == Primary(FleetRegions)  h == Fallback(FleetRegions)
             t == RegionCreate(g)  u == IF HasFallback(FleetRegions) THEN RegionCreate(h) ELSE <<>>
             L == FleetCreate(FleetRegions)
             S == {Res("network"), Res("firewall")} \cup {In(kind, x) : kind \in {"subnet", "router", "address", "nat"}, x \in {g, h}}
  <1>1. /\ t \in Seq(S) /\ Len(t) = 4
        /\ t[1] = In("subnet", g) /\ t[2] = In("router", g) /\ t[3] = In("address", g) /\ t[4] = In("nat", g)
    BY DEF RegionCreate
  <1>2. /\ RegionCreate(h) \in Seq(S) /\ <<>> \in Seq(S)
    BY DEF RegionCreate
  <1>3. u \in Seq(S)
    BY <1>2
  <1>4. HasFallback(FleetRegions) =>
          /\ Len(u) = 4
          /\ u[1] = In("subnet", h) /\ u[2] = In("router", h) /\ u[3] = In("address", h) /\ u[4] = In("nat", h)
    BY DEF RegionCreate
  <1>5. ~HasFallback(FleetRegions) => Len(u) = 0
    OBVIOUS
  <1>6. L = <<Res("network")>> \o t \o u \o <<Res("firewall")>> /\ Res("network") \in S /\ Res("firewall") \in S
    BY DEF FleetCreate
  <1> HIDE DEF g, h, t, u, L, S
  <1>7. /\ Len(L) = Len(t) + Len(u) + 2 /\ L[1] = Res("network") /\ L[Len(t) + Len(u) + 2] = Res("firewall")
        /\ \A i \in 1..Len(t) : L[1 + i] = t[i]
        /\ \A i \in 1..Len(u) : L[1 + Len(t) + i] = u[i]
    <2>1. t \in Seq(S)
      BY <1>1
    <2>2. QED
      BY <1>3, <1>6, <2>1, FourParts
  <1>8. L[2] = t[1] /\ L[3] = t[2] /\ L[4] = t[3] /\ L[5] = t[4]
    BY <1>1, <1>7
  <1>9. HasFallback(FleetRegions) =>
          Len(L) = 10 /\ L[10] = Res("firewall") /\ L[6] = u[1] /\ L[7] = u[2] /\ L[8] = u[3] /\ L[9] = u[4]
    <2> SUFFICES ASSUME HasFallback(FleetRegions)
                 PROVE  Len(L) = 10 /\ L[10] = Res("firewall") /\ L[6] = u[1] /\ L[7] = u[2] /\ L[8] = u[3] /\ L[9] = u[4]
      OBVIOUS
    <2>1. Len(t) = 4 /\ Len(u) = 4
      BY <1>1, <1>4
    <2>2. \A i \in 1..4 : L[5 + i] = u[i]
      BY <1>7, <2>1
    <2>3. QED
      BY <1>7, <2>1, <2>2
  <1>10. ~HasFallback(FleetRegions) => Len(L) = 6 /\ L[6] = Res("firewall")
    BY <1>1, <1>5, <1>7
  <1>11. QED
    BY <1>1, <1>4, <1>7, <1>8, <1>9, <1>10 DEF g, h, L

\* The cleanup of a fleet, row by row: the firewall, each region's NAT, router, subnet
\* and address, and the network.
LEMMA FleetCleans ==
  LET L == FleetCleanup(FleetRegions)  g == Primary(FleetRegions)  h == Fallback(FleetRegions)
  IN  /\ L[1] = Res("firewall")
      /\ HasFallback(FleetRegions) =>
           /\ Len(L) = 10 /\ L[10] = Res("network")
           /\ L[2] = In("nat", h) /\ L[3] = In("router", h) /\ L[4] = In("subnet", h) /\ L[5] = In("address", h)
           /\ L[6] = In("nat", g) /\ L[7] = In("router", g) /\ L[8] = In("subnet", g) /\ L[9] = In("address", g)
      /\ ~HasFallback(FleetRegions) =>
           /\ Len(L) = 6 /\ L[6] = Res("network")
           /\ L[2] = In("nat", g) /\ L[3] = In("router", g) /\ L[4] = In("subnet", g) /\ L[5] = In("address", g)
  <1> DEFINE g == Primary(FleetRegions)  h == Fallback(FleetRegions)
             t == IF HasFallback(FleetRegions) THEN RegionCleanup(h) ELSE <<>>  u == RegionCleanup(g)
             L == FleetCleanup(FleetRegions)
             S == {Res("network"), Res("firewall")} \cup {In(kind, x) : kind \in {"subnet", "router", "address", "nat"}, x \in {g, h}}
  <1>1. /\ u \in Seq(S) /\ Len(u) = 4
        /\ u[1] = In("nat", g) /\ u[2] = In("router", g) /\ u[3] = In("subnet", g) /\ u[4] = In("address", g)
    BY DEF RegionCleanup
  <1>2. RegionCleanup(h) \in Seq(S) /\ <<>> \in Seq(S)
    BY DEF RegionCleanup
  <1>3. t \in Seq(S)
    BY <1>2
  <1>4. HasFallback(FleetRegions) =>
          /\ Len(t) = 4
          /\ t[1] = In("nat", h) /\ t[2] = In("router", h) /\ t[3] = In("subnet", h) /\ t[4] = In("address", h)
    BY DEF RegionCleanup
  <1>5. ~HasFallback(FleetRegions) => Len(t) = 0
    OBVIOUS
  <1>6. L = <<Res("firewall")>> \o t \o u \o <<Res("network")>> /\ Res("network") \in S /\ Res("firewall") \in S
    BY DEF FleetCleanup
  <1> HIDE DEF g, h, t, u, L, S
  <1>7. /\ Len(L) = Len(t) + Len(u) + 2 /\ L[1] = Res("firewall") /\ L[Len(t) + Len(u) + 2] = Res("network")
        /\ \A i \in 1..Len(t) : L[1 + i] = t[i]
        /\ \A i \in 1..Len(u) : L[1 + Len(t) + i] = u[i]
    <2>1. u \in Seq(S)
      BY <1>1
    <2>2. QED
      BY <1>3, <1>6, <2>1, FourParts
  <1>8. HasFallback(FleetRegions) =>
          /\ Len(L) = 10 /\ L[10] = Res("network") /\ L[2] = t[1] /\ L[3] = t[2] /\ L[4] = t[3] /\ L[5] = t[4]
          /\ L[6] = u[1] /\ L[7] = u[2] /\ L[8] = u[3] /\ L[9] = u[4]
    <2> SUFFICES ASSUME HasFallback(FleetRegions)
                 PROVE  /\ Len(L) = 10 /\ L[10] = Res("network")
                        /\ L[2] = t[1] /\ L[3] = t[2] /\ L[4] = t[3] /\ L[5] = t[4]
                        /\ L[6] = u[1] /\ L[7] = u[2] /\ L[8] = u[3] /\ L[9] = u[4]
      OBVIOUS
    <2>1. Len(t) = 4 /\ Len(u) = 4
      BY <1>1, <1>4
    <2>2. \A i \in 1..4 : L[1 + i] = t[i] /\ L[5 + i] = u[i]
      BY <1>7, <2>1
    <2>3. QED
      BY <1>7, <2>1, <2>2
  <1>9. ~HasFallback(FleetRegions) =>
          /\ Len(L) = 6 /\ L[6] = Res("network") /\ L[2] = u[1] /\ L[3] = u[2] /\ L[4] = u[3] /\ L[5] = u[4]
    <2> SUFFICES ASSUME ~HasFallback(FleetRegions)
                 PROVE  /\ Len(L) = 6 /\ L[6] = Res("network")
                        /\ L[2] = u[1] /\ L[3] = u[2] /\ L[4] = u[3] /\ L[5] = u[4]
      OBVIOUS
    <2>1. Len(t) = 0 /\ Len(u) = 4
      BY <1>1, <1>5
    <2>2. \A i \in 1..4 : L[1 + i] = u[i]
      BY <1>7, <2>1
    <2>3. QED
      BY <1>7, <2>1, <2>2
  <1>10. QED
    BY <1>1, <1>4, <1>7, <1>8, <1>9 DEF g, h, L

\* What is in one of two rows is in both together, and nothing else is.
LEMMA RowHas ==
  ASSUME NEW S, NEW s \in Seq(S), NEW t \in Seq(S)
  PROVE  s \o t \in Seq(S) /\ Len(s \o t) = Len(s) + Len(t) /\ Range(s \o t) = Range(s) \cup Range(t)
  <1>1. PICK r : r = s \o t
    OBVIOUS
  <1>2. /\ r \in Seq(S) /\ Len(r) = Len(s) + Len(t)
        /\ \A n \in 1..Len(s) : r[n] = s[n]
        /\ \A n \in 1..Len(t) : r[Len(s) + n] = t[n]
    BY <1>1, RowOf
  <1>3. Len(s) \in Nat /\ Len(t) \in Nat /\ DOMAIN s = 1..Len(s) /\ DOMAIN t = 1..Len(t)
    OBVIOUS
  <1>4. DOMAIN r = 1..(Len(s) + Len(t))
    BY <1>2
  <1>5. ASSUME NEW i \in 1..(Len(s) + Len(t)) PROVE r[i] \in Range(s) \cup Range(t)
    <2>1. CASE i <= Len(s)
      BY <1>2, <1>3, <2>1 DEF Range
    <2>2. CASE i > Len(s)
      <3> DEFINE n == i - Len(s)
      <3>1. n \in 1..Len(t) /\ i = Len(s) + n
        BY <1>3, <2>2
      <3> HIDE DEF n
      <3>2. QED
        BY <1>2, <1>3, <3>1 DEF Range
    <2>3. QED
      BY <1>3, <2>1, <2>2
  <1>6. \A n \in 1..Len(s) : n \in DOMAIN r /\ r[n] = s[n]
    BY <1>2, <1>3, <1>4
  <1>7. \A n \in 1..Len(t) : Len(s) + n \in DOMAIN r /\ r[Len(s) + n] = t[n]
    BY <1>2, <1>3, <1>4
  <1>8. Range(r) = Range(s) \cup Range(t)
    <2>1. \A e \in Range(r) : e \in Range(s) \cup Range(t)
      BY <1>4, <1>5 DEF Range
    <2>2. \A e \in Range(s) : e \in Range(r)
      BY <1>3, <1>6 DEF Range
    <2>3. \A e \in Range(t) : e \in Range(r)
      BY <1>3, <1>7 DEF Range
    <2>4. QED
      BY <2>1, <2>2, <2>3
  <1>9. QED
    BY <1>1, <1>2, <1>8

\* What the absence checks of the fleet look for.
LEMMA FleetVerifies ==
  LET L == FleetVerify(FleetRegions)
  IN  /\ L \in Seq(Range(L)) /\ Len(L) \in 1..16
      /\ Range(L) = {Res("network"), Res("firewall")}
           \cup {In(kind, p) : kind \in {"instance", "disk"}, p \in ProfileSet}
           \cup {In(kind, x) : kind \in {"router", "subnet", "address"}, x \in RegionSet}
  <1> DEFINE S == {Res("network"), Res("firewall")}
                    \cup {In(kind, p) : kind \in {"instance", "disk"}, p \in ProfileSet}
                    \cup {In(kind, x) : kind \in {"router", "subnet", "address"}, x \in RegionSet}
             P(p) == {In("instance", p), In("disk", p)}
             R(x) == {In("router", x), In("subnet", x), In("address", x)}
  <1>1. ASSUME NEW p \in ProfileSet
        PROVE  PhaseVerify(p) \in Seq(S) /\ Len(PhaseVerify(p)) = 2 /\ Range(PhaseVerify(p)) = P(p)
    <2>1. In("instance", p) \in S /\ In("disk", p) \in S
      OBVIOUS
    <2> HIDE DEF S
    <2>2. QED
      BY <2>1 DEF PhaseVerify, Range
  <1>2. ASSUME NEW x \in RegionSet
        PROVE  RegionVerify(x) \in Seq(S) /\ Len(RegionVerify(x)) = 3 /\ Range(RegionVerify(x)) = R(x)
    <2>1. In("router", x) \in S /\ In("subnet", x) \in S /\ In("address", x) \in S
      OBVIOUS
    <2> HIDE DEF S
    <2>2. QED
      BY <2>1 DEF RegionVerify, Range
  <1>3. /\ <<Res("network")>> \in Seq(S) /\ Len(<<Res("network")>>) = 1 /\ Range(<<Res("network")>>) = {Res("network")}
        /\ <<Res("firewall")>> \in Seq(S) /\ Len(<<Res("firewall")>>) = 1 /\ Range(<<Res("firewall")>>) = {Res("firewall")}
        /\ <<>> \in Seq(S) /\ Len(<<>>) = 0 /\ Range(<<>>) = {}
    BY DEF Range
  <1> DEFINE g == Primary(FleetRegions)  h == Fallback(FleetRegions)
             w == IF HasFallback(FleetRegions) THEN RegionVerify(h) ELSE <<>>
             H == IF HasFallback(FleetRegions) THEN R(h) ELSE {}
             L == FleetVerify(FleetRegions)
  <1>4. g \in RegionSet /\ (HasFallback(FleetRegions) => h \in RegionSet)
    BY DEF RegionSet
  <1>5. w \in Seq(S) /\ Len(w) \in 0..3 /\ Range(w) = H
    <2>1. CASE HasFallback(FleetRegions)
      <3> HIDE DEF S, R
      <3>1. RegionVerify(h) \in Seq(S) /\ Len(RegionVerify(h)) = 3 /\ Range(RegionVerify(h)) = R(h)
        <4> HIDE DEF h
        <4>1. QED
          BY <1>2, <1>4, <2>1
      <3>2. w = RegionVerify(h) /\ H = R(h)
        BY <2>1
      <3> HIDE DEF H, w
      <3>3. QED
        BY <3>1, <3>2
    <2>2. CASE ~HasFallback(FleetRegions)
      BY <1>3, <2>2
    <2>3. QED
      BY <2>1, <2>2
  <1>6. PICK a, b, c, d, f, r, n :
          /\ a = PhaseVerify("windows-cpu") /\ b = PhaseVerify("linux-cpu")
          /\ c = PhaseVerify("windows-cuda") /\ d = PhaseVerify("linux-cuda")
          /\ f = <<Res("firewall")>> /\ r = RegionVerify(g) /\ n = <<Res("network")>>
    OBVIOUS
  <1>7. L = a \o b \o c \o d \o f \o r \o w \o n
    BY <1>6 DEF FleetVerify, Profiles
  <1>8. /\ a \in Seq(S) /\ Len(a) = 2 /\ Range(a) = P("windows-cpu")
        /\ b \in Seq(S) /\ Len(b) = 2 /\ Range(b) = P("linux-cpu")
        /\ c \in Seq(S) /\ Len(c) = 2 /\ Range(c) = P("windows-cuda")
        /\ d \in Seq(S) /\ Len(d) = 2 /\ Range(d) = P("linux-cuda")
    BY <1>1, <1>6 DEF ProfileSet
  <1>9. /\ f \in Seq(S) /\ Len(f) = 1 /\ Range(f) = {Res("firewall")}
        /\ r \in Seq(S) /\ Len(r) = 3 /\ Range(r) = R(g)
        /\ n \in Seq(S) /\ Len(n) = 1 /\ Range(n) = {Res("network")}
    BY <1>2, <1>3, <1>4, <1>6
  <1>10. Range(L) = P("windows-cpu") \cup P("linux-cpu") \cup P("windows-cuda") \cup P("linux-cuda")
                      \cup {Res("firewall")} \cup R(g) \cup H \cup {Res("network")}
         /\ L \in Seq(S) /\ Len(L) = 13 + Len(w)
    <2> HIDE DEF S, P, R, H, w, L
    <2>1. PICK y : y = a \o b
      OBVIOUS
    <2>2. y \in Seq(S) /\ Len(y) = 4 /\ Range(y) = Range(a) \cup Range(b)
      <3>1. a \in Seq(S)
        BY <1>8
      <3>2. b \in Seq(S)
        BY <1>8
      <3>3. y \in Seq(S) /\ Len(y) = Len(a) + Len(b) /\ Range(y) = Range(a) \cup Range(b)
        BY <2>1, <3>1, <3>2, RowHas
      <3>4. QED
        BY <1>8, <3>3
    <2>3. PICK z : z = y \o c
      OBVIOUS
    <2>4. z \in Seq(S) /\ Len(z) = 6 /\ Range(z) = Range(a) \cup Range(b) \cup Range(c)
      <3>1. y \in Seq(S)
        BY <2>2
      <3>2. c \in Seq(S)
        BY <1>8
      <3>3. z \in Seq(S) /\ Len(z) = Len(y) + Len(c) /\ Range(z) = Range(y) \cup Range(c)
        BY <2>3, <3>1, <3>2, RowHas
      <3>4. QED
        BY <2>2, <1>8, <3>3
    <2>5. PICK e : e = z \o d
      OBVIOUS
    <2>6. e \in Seq(S) /\ Len(e) = 8 /\ Range(e) = Range(a) \cup Range(b) \cup Range(c) \cup Range(d)
      <3>1. z \in Seq(S)
        BY <2>4
      <3>2. d \in Seq(S)
        BY <1>8
      <3>3. e \in Seq(S) /\ Len(e) = Len(z) + Len(d) /\ Range(e) = Range(z) \cup Range(d)
        BY <2>5, <3>1, <3>2, RowHas
      <3>4. QED
        BY <2>4, <1>8, <3>3
    <2>7. PICK i : i = e \o f
      OBVIOUS
    <2>8. i \in Seq(S) /\ Len(i) = 9 /\ Range(i) = Range(e) \cup Range(f)
      <3>1. e \in Seq(S)
        BY <2>6
      <3>2. f \in Seq(S)
        BY <1>9
      <3>3. i \in Seq(S) /\ Len(i) = Len(e) + Len(f) /\ Range(i) = Range(e) \cup Range(f)
        BY <2>7, <3>1, <3>2, RowHas
      <3>4. QED
        BY <2>6, <1>9, <3>3
    <2>9. PICK j : j = i \o r
      OBVIOUS
    <2>10. j \in Seq(S) /\ Len(j) = 12 /\ Range(j) = Range(e) \cup Range(f) \cup Range(r)
      <3>1. i \in Seq(S)
        BY <2>8
      <3>2. r \in Seq(S)
        BY <1>9
      <3>3. j \in Seq(S) /\ Len(j) = Len(i) + Len(r) /\ Range(j) = Range(i) \cup Range(r)
        BY <2>9, <3>1, <3>2, RowHas
      <3>4. QED
        BY <2>8, <1>9, <3>3
    <2>11. PICK l : l = j \o w
      OBVIOUS
    <2>12. l \in Seq(S) /\ Len(l) = 12 + Len(w) /\ Range(l) = Range(e) \cup Range(f) \cup Range(r) \cup Range(w)
      <3>1. j \in Seq(S)
        BY <2>10
      <3>2. w \in Seq(S)
        BY <1>5
      <3>3. l \in Seq(S) /\ Len(l) = Len(j) + Len(w) /\ Range(l) = Range(j) \cup Range(w)
        BY <2>11, <3>1, <3>2, RowHas
      <3>4. QED
        BY <2>10, <1>5, <3>3
    <2>13. PICK m : m = l \o n
      OBVIOUS
    <2>14. m \in Seq(S) /\ Len(m) = 12 + Len(w) + 1 /\ Range(m) = Range(l) \cup Range(n)
      <3>1. l \in Seq(S)
        BY <2>12
      <3>2. n \in Seq(S)
        BY <1>9
      <3>3. m \in Seq(S) /\ Len(m) = Len(l) + Len(n) /\ Range(m) = Range(l) \cup Range(n)
        BY <2>13, <3>1, <3>2, RowHas
      <3>4. QED
        BY <2>12, <1>9, <3>3
    <2>15. L = m
      BY <1>7, <2>1, <2>3, <2>5, <2>7, <2>9, <2>11, <2>13
    <2>16. QED
      BY <1>5, <1>8, <1>9, <2>6, <2>12, <2>14, <2>15
  <1>11. Range(L) = S
    <2>1. P("windows-cpu") \cup P("linux-cpu") \cup P("windows-cuda") \cup P("linux-cuda")
            = {In(kind, p) : kind \in {"instance", "disk"}, p \in ProfileSet}
      BY DEF ProfileSet
    <2>2. R(g) \cup H = {In(kind, x) : kind \in {"router", "subnet", "address"}, x \in RegionSet}
      BY DEF RegionSet
    <2> HIDE DEF P, R, H
    <2>3. QED
      BY <1>10, <2>1, <2>2
  <1>12. Len(L) \in 1..16
    <2>1. Len(w) \in 0..3 /\ Len(L) = 13 + Len(w)
      BY <1>5, <1>10
    <2>2. PICK u, v : u = Len(L) /\ v = Len(w)
      OBVIOUS
    <2> HIDE DEF L, w
    <2>3. v \in 0..3 /\ u = 13 + v
      BY <2>1, <2>2
    <2>4. u \in 1..16
      BY <2>3
    <2>5. QED
      BY <2>2, <2>4
  <1>13. L \in Seq(Range(L))
    <2> HIDE DEF L, S
    <2>1. QED
      BY <1>10, <1>11
  <1>14. QED
    BY <1>11, <1>12, <1>13

Plans == work \in {"route", "cache", "fleet"}

\* What the create commands name, and that a router comes before its NAT.
LEMMA PlanCreates ==
  ASSUME Plans
  PROVE  /\ Len(CreateList) \in 1..16
         /\ \A j \in 1..Len(CreateList) :
              /\ CreateList[j] \in Everything /\ With(CreateList[j]) \subseteq Everything
              /\ Kind(CreateList[j]) # "disk" /\ (work = "fleet" => Kind(CreateList[j]) # "instance")
         /\ \A j \in 1..Len(CreateList) : \A g \in RegionSet : \A i \in 1..(j - 1) :
              CreateList[j] = In("router", g) => In("nat", g) \notin With(CreateList[i])
  <1>1. CASE work = "route"
    <2>1. CreateList = RouteCreate
      BY <1>1 DEF CreateList
    <2>2. Len(CreateList) = 5 /\ \A j \in 1..5 : \E kind \in {"network", "subnet", "firewall", "iap", "instance"} : CreateList[j] = Res(kind)
      BY <2>1 DEF RouteCreate
    <2>3. ASSUME NEW kind \in {"network", "subnet", "firewall", "iap", "instance"}
          PROVE  /\ Res(kind) \in Everything /\ With(Res(kind)) \subseteq Everything /\ Kind(Res(kind)) # "disk"
                 /\ \A g : Res(kind) # In("router", g)
      BY <1>1 DEF Everything, With, Res, In, Kind
    <2>4. QED
      BY <1>1, <2>2, <2>3
  <1>2. CASE work = "cache"
    <2>1. CreateList = CacheCreate
      BY <1>2 DEF CreateList
    <2> DEFINE K == {"repository", "account", "reader", "network", "subnet", "firewall", "instance"}
    <2>2. Len(CreateList) = 7 /\ \A j \in 1..7 : \E kind \in K : CreateList[j] = Res(kind)
      BY <2>1 DEF CacheCreate
    <2>3. ASSUME NEW kind \in K
          PROVE  /\ Res(kind) \in Everything /\ With(Res(kind)) \subseteq Everything /\ Kind(Res(kind)) # "disk"
                 /\ \A g : Res(kind) # In("router", g)
      BY <1>2 DEF Everything, With, Res, In, Kind
    <2> HIDE DEF K
    <2>4. QED
      BY <1>2, <2>2, <2>3
  <1>3. CASE work = "fleet"
    <2>1. CreateList = FleetCreate(FleetRegions)
      BY <1>3 DEF CreateList
    <2> DEFINE L == FleetCreate(FleetRegions)  g == Primary(FleetRegions)  h == Fallback(FleetRegions)
               T == {Res("network"), Res("firewall")} \cup {In(kind, x) : kind \in {"subnet", "router", "address", "nat"}, x \in RegionSet}
    <2>2. /\ L[1] = Res("network")
          /\ L[2] = In("subnet", g) /\ L[3] = In("router", g) /\ L[4] = In("address", g) /\ L[5] = In("nat", g)
          /\ HasFallback(FleetRegions) =>
               /\ Len(L) = 10 /\ L[10] = Res("firewall")
               /\ L[6] = In("subnet", h) /\ L[7] = In("router", h) /\ L[8] = In("address", h) /\ L[9] = In("nat", h)
          /\ ~HasFallback(FleetRegions) => Len(L) = 6 /\ L[6] = Res("firewall")
      BY FleetCreates
    <2>3. g \in RegionSet /\ (HasFallback(FleetRegions) => h \in RegionSet /\ g # h)
      BY RegionsAssumption DEF RegionSet
    <2>4. \A j \in 1..Len(L) : L[j] \in T
      <3>1. /\ Res("network") \in T /\ Res("firewall") \in T
            /\ \A x \in RegionSet : In("subnet", x) \in T /\ In("router", x) \in T /\ In("address", x) \in T /\ In("nat", x) \in T
        OBVIOUS
      <3> HIDE DEF L, T, g, h
      <3>2. QED
        BY <2>2, <2>3, <3>1
    <2>5. ASSUME NEW r \in T
          PROVE  r \in Everything /\ With(r) = {r} /\ Kind(r) \notin {"disk", "instance"}
      BY <1>3, <2>5 DEF Everything, With, In, Kind, Res
    <2>6. ASSUME NEW j \in 1..Len(L), NEW x \in RegionSet, NEW i \in 1..(j - 1), L[j] = In("router", x), L[i] = In("nat", x)
          PROVE  FALSE
      <3> HIDE DEF L, T, g, h
      <3>20. Len(L) \in {6, 10} /\ (~HasFallback(FleetRegions) => Len(L) = 6)
        BY <2>2
      <3>21. PICK n : n = Len(L)
        OBVIOUS
      <3>22. n \in {6, 10}
        BY <3>20, <3>21
      <3>23. j \in 1..n
        BY <3>21
      <3>2. j \in 1..10 /\ i \in 1..10 /\ i < j
        BY <3>22, <3>23
      <3>30. ~HasFallback(FleetRegions) => j \in 1..6
        BY <3>20, <3>21, <3>23
      <3>3. j \in {3, 7}
        BY <2>2, <2>6, <3>2, <3>20, <3>21, <3>22, <3>23 DEF In, Res
      <3>4. i \in {5, 9}
        BY <2>2, <2>6, <3>2, <3>20, <3>21, <3>22, <3>23, <3>30 DEF In, Res
      <3>5. j = 7 /\ i = 5
        BY <3>2, <3>3, <3>4
      <3>6. QED
        BY <2>2, <2>3, <2>6, <3>30, <3>5 DEF In
    <2>7. Len(L) \in 1..16
      BY <2>2
    <2> HIDE DEF L, T, g, h
    <2>8. \A j \in 1..Len(L) : L[j] \in Everything /\ With(L[j]) = {L[j]} /\ Kind(L[j]) \notin {"disk", "instance"}
      BY <2>4, <2>5
    <2>9. CreateList = L
      BY <2>1 DEF L
    <2> HIDE DEF L
    <2>10. \A j \in 1..Len(L) : L[j] \in Everything /\ With(L[j]) \subseteq Everything /\ Kind(L[j]) # "disk" /\ Kind(L[j]) # "instance"
      BY <2>8
    <2>11. \A j \in 1..Len(L) : \A x \in RegionSet : \A i \in 1..(j - 1) : L[j] = In("router", x) => In("nat", x) \notin With(L[i])
      <3> SUFFICES ASSUME NEW j \in 1..Len(L), NEW x \in RegionSet, NEW i \in 1..(j - 1), L[j] = In("router", x), In("nat", x) \in With(L[i])
                   PROVE  FALSE
        OBVIOUS
      <3>1. i \in 1..Len(L)
        BY <2>7
      <3>2. L[i] = In("nat", x)
        BY <2>8, <3>1
      <3>3. QED
        BY <2>6, <3>2
    <2>12. QED
      BY <2>7, <2>9, <2>10, <2>11
  <1>4. QED
    BY <1>1, <1>2, <1>3 DEF Plans

\* The cleanup commands are in an order in which none is refused.
LEMMA PlanCleans ==
  ASSUME Plans
  PROVE  /\ Len(CleanupList) \in 1..16
         /\ \A i \in 1..Len(CleanupList) : Kind(CleanupList[i]) # "disk"
         /\ \A i \in 1..Len(CleanupList) : \A d \in Everything :
              Blocks(d, CleanupList[i], FleetRegions) =>
                \/ d \in Gone(CleanupList[i])
                \/ \E j \in 1..(i - 1) : CleanupList[j] = d
                \/ work = "fleet" /\ Kind(d) = "instance"
  <1>1. CASE work = "route"
    <2>1. CleanupList = RouteCleanup
      BY <1>1 DEF CleanupList
    <2>2. /\ Len(CleanupList) = 5 /\ CleanupList[1] = Res("instance") /\ CleanupList[2] = Res("iap")
          /\ CleanupList[3] = Res("firewall") /\ CleanupList[4] = Res("subnet") /\ CleanupList[5] = Res("network")
      BY <2>1 DEF RouteCleanup
    <2>3. ASSUME NEW i \in 1..5, NEW d \in Everything, Blocks(d, CleanupList[i], FleetRegions)
          PROVE  \E j \in 1..(i - 1) : CleanupList[j] = d
      <3>1. \/ i = 5 /\ d \in {Res("iap"), Res("firewall"), Res("subnet")}
            \/ i = 4 /\ d = Res("instance")
        BY <1>1, <2>2, <2>3 DEF Everything, Blocks, Needs, Res, In, Kind
      <3>2. QED
        BY <2>2, <3>1
    <2>4. \A i \in 1..5 : Kind(CleanupList[i]) # "disk"
      BY <2>2 DEF Kind, Res, In
    <2>5. QED
      BY <2>2, <2>3, <2>4
  <1>2. CASE work = "cache"
    <2>1. CleanupList = CacheCleanup
      BY <1>2 DEF CleanupList
    <2>2. /\ Len(CleanupList) = 6 /\ CleanupList[1] = Res("instance") /\ CleanupList[2] = Res("reader")
          /\ CleanupList[3] = Res("account") /\ CleanupList[4] = Res("firewall") /\ CleanupList[5] = Res("subnet")
          /\ CleanupList[6] = Res("network")
      BY <2>1 DEF CacheCleanup
    <2>3. ASSUME NEW i \in 1..6, NEW d \in Everything, Blocks(d, CleanupList[i], FleetRegions)
          PROVE  \E j \in 1..(i - 1) : CleanupList[j] = d
      <3>1. \/ i = 6 /\ d \in {Res("firewall"), Res("subnet")}
            \/ i = 5 /\ d = Res("instance")
        BY <1>2, <2>2, <2>3 DEF Everything, Blocks, Needs, Res, In, Kind
      <3>2. QED
        BY <2>2, <3>1
    <2>4. \A i \in 1..6 : Kind(CleanupList[i]) # "disk"
      BY <2>2 DEF Kind, Res, In
    <2>5. QED
      BY <2>2, <2>3, <2>4
  <1>3. CASE work = "fleet"
    <2>1. CleanupList = FleetCleanup(FleetRegions)
      BY <1>3 DEF CleanupList
    <2> DEFINE L == CleanupList  g == Primary(FleetRegions)  h == Fallback(FleetRegions)
    <2>2. /\ L[1] = Res("firewall")
          /\ HasFallback(FleetRegions) =>
               /\ Len(L) = 10 /\ L[10] = Res("network")
               /\ L[2] = In("nat", h) /\ L[3] = In("router", h) /\ L[4] = In("subnet", h) /\ L[5] = In("address", h)
               /\ L[6] = In("nat", g) /\ L[7] = In("router", g) /\ L[8] = In("subnet", g) /\ L[9] = In("address", g)
          /\ ~HasFallback(FleetRegions) =>
               /\ Len(L) = 6 /\ L[6] = Res("network")
               /\ L[2] = In("nat", g) /\ L[3] = In("router", g) /\ L[4] = In("subnet", g) /\ L[5] = In("address", g)
      BY <2>1, FleetCleans
    <2>3. HasFallback(FleetRegions) => RegionSet = {g, h}
      BY DEF RegionSet
    <2>4. ~HasFallback(FleetRegions) => RegionSet = {g}
      BY DEF RegionSet
    <2>5. ASSUME NEW d \in Everything, NEW r, Blocks(d, r, FleetRegions)
          PROVE  \/ r = Res("network") /\ (d = Res("firewall") \/ \E x \in RegionSet : d = In("router", x) \/ d = In("subnet", x))
                 \/ \E x \in RegionSet : r = In("address", x) /\ d = In("nat", x)
                 \/ Kind(d) = "instance"
      <3>1. PICK kind, x :
              /\ kind \in {"subnet", "router", "address", "nat", "instance", "disk", "network", "firewall"}
              /\ d = In(kind, x)
              /\ kind = "firewall" => x = "run"
              /\ kind \in {"subnet", "router", "address", "nat"} => x \in RegionSet
        BY <1>3 DEF Everything, Res
      <3>2. Kind(d) = kind /\ d[2] = x
        BY <3>1 DEF In, Kind
      <3>3. r \in Needs(d, FleetRegions) /\ Kind(r) # "router"
        BY <2>5 DEF Blocks
      <3>4. CASE kind \in {"subnet", "router", "firewall"}
        <4>1. r = Res("network")
          BY <3>1, <3>2, <3>3, <3>4 DEF Needs, Res, In, Kind
        <4>2. QED
          BY <3>1, <3>4, <4>1 DEF Res
      <3>5. CASE kind = "nat"
        <4>1. r \in {In("router", x), In("address", x)} /\ x \in RegionSet
          BY <3>1, <3>2, <3>3, <3>5 DEF Needs, Res, In, Kind
        <4>2. r = In("address", x)
          BY <3>3, <4>1 DEF In, Kind
        <4>3. QED
          BY <3>1, <3>5, <4>1, <4>2
      <3>6. CASE kind = "instance"
        BY <3>2, <3>6
      <3>7. CASE kind \in {"address", "disk", "network"}
        <4>1. Needs(d, FleetRegions) = {}
          BY <3>1, <3>2, <3>7 DEF Needs, Res, In
        <4>2. QED
          BY <3>3, <4>1
      <3>8. QED
        BY <3>1, <3>4, <3>5, <3>6, <3>7
    <2>6. PICK n : n = Len(L) /\ n \in {6, 10} /\ (HasFallback(FleetRegions) => n = 10) /\ (~HasFallback(FleetRegions) => n = 6)
      BY <2>2
    <2> HIDE DEF L, g, h
    <2>7. ASSUME NEW i \in 1..n, NEW d \in Everything, Blocks(d, L[i], FleetRegions), Kind(d) # "instance"
          PROVE  \E j \in 1..(i - 1) : L[j] = d
      <3>1. CASE L[i] = Res("network") /\ (d = Res("firewall") \/ \E x \in RegionSet : d = In("router", x) \/ d = In("subnet", x))
        <4>1. i = n
          <5>1. CASE HasFallback(FleetRegions)
            <6>1. i \in 1..10 /\ n = 10
              BY <2>6, <5>1
            <6>2. QED
              BY <2>2, <3>1, <5>1, <6>1 DEF Res, In
          <5>2. CASE ~HasFallback(FleetRegions)
            <6>1. i \in 1..6 /\ n = 6
              BY <2>6, <5>2
            <6>2. QED
              BY <2>2, <3>1, <5>2, <6>1 DEF Res, In
          <5>3. QED
            BY <5>1, <5>2
        <4>2. CASE HasFallback(FleetRegions)
          <5>1. d \in {L[1], L[3], L[4], L[7], L[8]} /\ n = 10
            BY <2>2, <2>3, <2>6, <3>1, <4>2
          <5>2. QED
            BY <4>1, <5>1
        <4>3. CASE ~HasFallback(FleetRegions)
          <5>1. d \in {L[1], L[3], L[4]} /\ n = 6
            BY <2>2, <2>4, <2>6, <3>1, <4>3
          <5>2. QED
            BY <4>1, <5>1
        <4>4. QED
          BY <4>2, <4>3
      <3>2. ASSUME NEW x \in RegionSet, L[i] = In("address", x), d = In("nat", x) PROVE \E j \in 1..(i - 1) : L[j] = d
        <4>1. CASE x = g /\ HasFallback(FleetRegions)
          <5>1. i \in {5, 9}
            BY <2>2, <2>6, <3>2, <4>1 DEF Res, In
          <5>2. i # 5
            BY <2>2, <3>2, <4>1, RegionsAssumption DEF In, g, h
          <5>3. QED
            BY <2>2, <3>2, <4>1, <5>1, <5>2
        <4>2. CASE x = h /\ HasFallback(FleetRegions)
          <5>1. i \in {5, 9}
            BY <2>2, <2>6, <3>2, <4>2 DEF Res, In
          <5>2. QED
            BY <2>2, <3>2, <4>2, <5>1
        <4>3. CASE x = g /\ ~HasFallback(FleetRegions)
          <5>1. i = 5
            BY <2>2, <2>6, <3>2, <4>3 DEF Res, In
          <5>2. QED
            BY <2>2, <3>2, <4>3, <5>1
        <4>4. QED
          BY <2>3, <2>4, <4>1, <4>2, <4>3
      <3>3. QED
        BY <2>5, <2>7, <3>1, <3>2
    <2>8. ASSUME NEW i \in 1..n PROVE Kind(L[i]) # "disk"
      <3>1. CASE HasFallback(FleetRegions)
        <4>1. i \in 1..10
          BY <2>6, <3>1
        <4>2. QED
          BY <2>2, <3>1, <4>1 DEF Kind, In, Res
      <3>2. CASE ~HasFallback(FleetRegions)
        <4>1. i \in 1..6
          BY <2>6, <3>2
        <4>2. QED
          BY <2>2, <3>2, <4>1 DEF Kind, In, Res
      <3>3. QED
        BY <3>1, <3>2
    <2>9. n \in 1..16
      BY <2>6
    <2>10. QED
      BY <1>3, <2>6, <2>7, <2>8, <2>9 DEF L
  <1>4. QED
    BY <1>1, <1>2, <1>3 DEF Plans

\* What the absence checks look for: everything the cleanup names and the hosts with
\* their disks; and all that a run may create, but what the cache run keeps and the
\* NATs, which go with their routers.
LEMMA PlanVerifies ==
  ASSUME Plans
  PROVE  /\ Len(VerifyList) \in 1..16
         /\ \A j \in 1..Len(VerifyList) :
              \/ \E i \in 1..Len(CleanupList) : CleanupList[i] = VerifyList[j]
              \/ work = "fleet" /\ \E p \in ProfileSet : VerifyList[j] \in {In("instance", p), In("disk", p)}
              \/ /\ VerifyList[j] = Res("disk") /\ Res("instance") \in Everything
                 /\ \E i \in 1..Len(CleanupList) : CleanupList[i] = Res("instance")
         /\ \A r \in Everything :
              \/ \E j \in 1..Len(VerifyList) : VerifyList[j] = r
              \/ work = "cache" /\ r \in Retained
              \/ \E g \in RegionSet : r = In("nat", g) /\ \E j \in 1..Len(VerifyList) : VerifyList[j] = In("router", g)
  <1>1. CASE work = "route"
    <2>1. CleanupList = RouteCleanup /\ VerifyList = RouteVerify
      BY <1>1 DEF CleanupList, VerifyList
    <2>2. /\ Len(CleanupList) = 5 /\ CleanupList[1] = Res("instance") /\ CleanupList[2] = Res("iap")
          /\ CleanupList[3] = Res("firewall") /\ CleanupList[4] = Res("subnet") /\ CleanupList[5] = Res("network")
      BY <2>1 DEF RouteCleanup
    <2>3. /\ Len(VerifyList) = 6 /\ VerifyList[1] = Res("instance") /\ VerifyList[2] = Res("disk") /\ VerifyList[3] = Res("firewall")
          /\ VerifyList[4] = Res("iap") /\ VerifyList[5] = Res("subnet") /\ VerifyList[6] = Res("network")
      BY <2>1 DEF RouteVerify
    <2>4. \A r \in Everything : r \in {Res("instance"), Res("disk"), Res("firewall"), Res("iap"), Res("subnet"), Res("network")}
      BY <1>1 DEF Everything
    <2>5. \A r \in Everything : \E j \in 1..6 : VerifyList[j] = r
      BY <2>3, <2>4
    <2>6. Res("instance") \in Everything
      BY <1>1 DEF Everything
    <2>7. QED
      BY <2>2, <2>3, <2>5, <2>6
  <1>2. CASE work = "cache"
    <2>1. CleanupList = CacheCleanup /\ VerifyList = CacheVerify
      BY <1>2 DEF CleanupList, VerifyList
    <2>2. /\ Len(CleanupList) = 6 /\ CleanupList[1] = Res("instance") /\ CleanupList[2] = Res("reader")
          /\ CleanupList[3] = Res("account") /\ CleanupList[4] = Res("firewall") /\ CleanupList[5] = Res("subnet")
          /\ CleanupList[6] = Res("network")
      BY <2>1 DEF CacheCleanup
    <2>3. /\ Len(VerifyList) = 6 /\ VerifyList[1] = Res("instance") /\ VerifyList[2] = Res("disk") /\ VerifyList[3] = Res("firewall")
          /\ VerifyList[4] = Res("subnet") /\ VerifyList[5] = Res("network") /\ VerifyList[6] = Res("account")
      BY <2>1 DEF CacheVerify
    <2>4. \A r \in Everything : r \in {Res("instance"), Res("disk"), Res("firewall"), Res("subnet"), Res("network"), Res("account")}
                                   \cup Retained
      BY <1>2 DEF Everything, Retained
    <2>5. \A r \in Everything : (\E j \in 1..6 : VerifyList[j] = r) \/ r \in Retained
      BY <2>3, <2>4
    <2>6. Res("instance") \in Everything
      BY <1>2 DEF Everything
    <2>7. QED
      BY <1>2, <2>2, <2>3, <2>5, <2>6
  <1>3. CASE work = "fleet"
    <2> DEFINE V == VerifyList  L == CleanupList  g == Primary(FleetRegions)  h == Fallback(FleetRegions)
               Seen0 == {Res("network"), Res("firewall")}
                        \cup {In(kind, p) : kind \in {"instance", "disk"}, p \in ProfileSet}
                        \cup {In(kind, x) : kind \in {"router", "subnet", "address"}, x \in RegionSet}
    <2>1. CleanupList = FleetCleanup(FleetRegions) /\ VerifyList = FleetVerify(FleetRegions)
      BY <1>3 DEF CleanupList, VerifyList
    <2>2. V \in Seq(Range(V)) /\ Len(V) \in 1..16 /\ Range(V) = Seen0
      BY <2>1, FleetVerifies
    <2>3. /\ L[1] = Res("firewall")
          /\ HasFallback(FleetRegions) =>
               /\ Len(L) = 10 /\ L[10] = Res("network")
               /\ L[2] = In("nat", h) /\ L[3] = In("router", h) /\ L[4] = In("subnet", h) /\ L[5] = In("address", h)
               /\ L[6] = In("nat", g) /\ L[7] = In("router", g) /\ L[8] = In("subnet", g) /\ L[9] = In("address", g)
          /\ ~HasFallback(FleetRegions) =>
               /\ Len(L) = 6 /\ L[6] = Res("network")
               /\ L[2] = In("nat", g) /\ L[3] = In("router", g) /\ L[4] = In("subnet", g) /\ L[5] = In("address", g)
      BY <2>1, FleetCleans
    <2>4. HasFallback(FleetRegions) => RegionSet = {g, h}
      BY DEF RegionSet
    <2>5. ~HasFallback(FleetRegions) => RegionSet = {g}
      BY DEF RegionSet
    <2>7. \A r \in Everything : r \in Seen0 \/ \E x \in RegionSet : r = In("nat", x) /\ In("router", x) \in Seen0
      BY <1>3 DEF Everything
    <2>60. \A r \in Seen0 : \/ r \in {Res("network"), Res("firewall")}
                           \/ r \in {In(kind, p) : kind \in {"instance", "disk"}, p \in ProfileSet}
                           \/ r \in {In(kind, x) : kind \in {"router", "subnet", "address"}, x \in RegionSet}
      OBVIOUS
    <2> HIDE DEF V, L, g, h, Seen0
    <2>6. \A r \in Seen0 : \/ r \in {Res("network"), Res("firewall")}
                           \/ \E p \in ProfileSet : r \in {In("instance", p), In("disk", p)}
                           \/ \E x \in RegionSet : r \in {In("router", x), In("subnet", x), In("address", x)}
      <3>1. \A r \in {In(kind, p) : kind \in {"instance", "disk"}, p \in ProfileSet} :
               \E p \in ProfileSet : r \in {In("instance", p), In("disk", p)}
        OBVIOUS
      <3>2. \A r \in {In(kind, x) : kind \in {"router", "subnet", "address"}, x \in RegionSet} :
               \E x \in RegionSet : r \in {In("router", x), In("subnet", x), In("address", x)}
        OBVIOUS
      <3>3. QED
        BY <2>60, <3>1, <3>2
    <2>8. \A r \in Seen0 : \E j \in 1..Len(V) : V[j] = r
      <3>1. DOMAIN V = 1..Len(V)
        BY <2>2
      <3>2. QED
        BY <2>2, <3>1 DEF Range
    <2>9. \A j \in 1..Len(V) : V[j] \in Seen0
      <3>1. DOMAIN V = 1..Len(V)
        BY <2>2
      <3>2. QED
        BY <2>2, <3>1 DEF Range
    <2>10. \A r \in {Res("network"), Res("firewall")} : \E i \in 1..Len(L) : L[i] = r
      <3>1. CASE HasFallback(FleetRegions)
        <4>1. 1..Len(L) = 1..10
          BY <2>3, <3>1
        <4>2. QED
          BY <2>3, <3>1, <4>1
      <3>2. CASE ~HasFallback(FleetRegions)
        <4>1. 1..Len(L) = 1..6
          BY <2>3, <3>2
        <4>2. QED
          BY <2>3, <3>2, <4>1
      <3>3. QED
        BY <3>1, <3>2
    <2>11. ASSUME NEW x \in RegionSet, NEW r \in {In("router", x), In("subnet", x), In("address", x)}
           PROVE  \E i \in 1..Len(L) : L[i] = r
      <3>1. CASE HasFallback(FleetRegions)
        <4>1. 1..Len(L) = 1..10
          BY <2>3, <3>1
        <4>2. CASE x = h
          BY <2>3, <3>1, <4>1, <4>2
        <4>3. CASE x = g
          BY <2>3, <3>1, <4>1, <4>3
        <4>4. QED
          BY <2>4, <3>1, <4>2, <4>3
      <3>2. CASE ~HasFallback(FleetRegions)
        <4>1. 1..Len(L) = 1..6
          BY <2>3, <3>2
        <4>2. x = g
          BY <2>5, <3>2
        <4>3. QED
          BY <2>3, <3>2, <4>1, <4>2
      <3>3. QED
        BY <3>1, <3>2
    <2>12. \A j \in 1..Len(V) :
             \/ \E i \in 1..Len(L) : L[i] = V[j]
             \/ \E p \in ProfileSet : V[j] \in {In("instance", p), In("disk", p)}
      <3> SUFFICES ASSUME NEW j \in 1..Len(V)
                   PROVE  \/ \E i \in 1..Len(L) : L[i] = V[j]
                          \/ \E p \in ProfileSet : V[j] \in {In("instance", p), In("disk", p)}
        OBVIOUS
      <3>1. PICK r : r = V[j]
        OBVIOUS
      <3>2. r \in Seen0
        BY <2>9, <3>1
      <3>3. QED
        BY <2>6, <2>10, <2>11, <3>1, <3>2
    <2>13. \A r \in Everything :
              \/ \E j \in 1..Len(V) : V[j] = r
              \/ \E x \in RegionSet : r = In("nat", x) /\ \E j \in 1..Len(V) : V[j] = In("router", x)
      BY <2>7, <2>8
    <2>14. QED
      BY <1>3, <2>2, <2>12, <2>13 DEF V, L
  <1>4. QED
    BY <1>1, <1>2, <1>3 DEF Plans

-----------------------------------------------------------------------------
\* The machine: every operation leaves it with its type.

\* A machine of the right type, piece by piece.
LEMMA HostParts ==
  ASSUME NEW h \in HostStates
  PROVE  /\ \A u \in Uploads : [h EXCEPT !.upload = u] \in HostStates
         /\ \A c \in BOOLEAN : [h EXCEPT !.config = c] \in HostStates
         /\ [h EXCEPT !.config = FALSE, !.images = TRUE] \in HostStates
         /\ \A b \in [Roles -> BOOLEAN] : [h EXCEPT !.box = b] \in HostStates
         /\ \A b \in [Roles -> BOOLEAN], n \in [Roles -> {"absent", "running", "stopped"}] :
              [h EXCEPT !.box = b, !.known = n] \in HostStates
         /\ \A b \in [Roles -> BOOLEAN], n \in [Roles -> {"absent", "running", "stopped"}], d \in [Roles -> BOOLEAN] :
              [h EXCEPT !.box = b, !.dir = d, !.known = n] \in HostStates
         /\ \A p \in [Roles -> 0..NotSeen] : [h EXCEPT !.print = p] \in HostStates
  BY DEF HostStates

\* A new machine has its type.
LEMMA FreshTyped == FreshHost \in HostStates
  BY DEF FreshHost, HostStates, Uploads, NotSeen, Roles

\* The outcomes of an action leave a machine of the right type.
Typed(outcomes) == \A o \in outcomes : o.host \in HostStates

\* The actions that read the machine or take a file away.
LEMMA SimpleTyped ==
  ASSUME NEW h \in HostStates
  PROVE  Typed({Ack(h)}) /\ Typed(BootstrapPreflight(h)) /\ Typed(PrepareUpload(h)) /\ Typed(RemoveUpload(h))
         /\ Typed(RemoveConfig(h)) /\ \A s : Typed(Probe(h, s))
  <1>1. /\ [h EXCEPT !.upload = "empty"] \in HostStates /\ [h EXCEPT !.upload = "absent"] \in HostStates
        /\ [h EXCEPT !.config = FALSE] \in HostStates
    BY HostParts DEF Uploads
  <1>2. \A g \in HostStates : Ack(g).host \in HostStates /\ Err(g).host \in HostStates
    BY DEF Ack, Err
  <1>3. Typed({Ack(h)}) /\ Typed(BootstrapPreflight(h))
    BY <1>2 DEF Typed, BootstrapPreflight
  <1>4. Typed(PrepareUpload(h))
    <2>1. \A o \in PrepareUpload(h) : o = Err(h) \/ o = Ack([h EXCEPT !.upload = "empty"])
      BY DEF PrepareUpload
    <2>2. QED
      BY <1>1, <1>2, <2>1 DEF Typed
  <1>5. Typed(RemoveUpload(h))
    BY <1>1, <1>2 DEF Typed, RemoveUpload
  <1>6. Typed(RemoveConfig(h))
    BY <1>1, <1>2 DEF Typed, RemoveConfig
  <1>7. ASSUME NEW s PROVE Typed(Probe(h, s))
    BY <1>2 DEF Typed, Probe
  <1>8. QED
    BY <1>3, <1>4, <1>5, <1>6, <1>7

\* Those that read the upload, try the transport or fetch the images.
LEMMA ReadTyped ==
  ASSUME NEW h \in HostStates, NEW kind
  PROVE  Typed(ReadUpload(h, kind)) /\ Typed(TransportSentinel(h)) /\ Typed(PrefetchImages(h))
  <1>1. [h EXCEPT !.upload = "absent"] \in HostStates
    BY HostParts DEF Uploads
  <1>2. ASSUME NEW x PROVE Typed(ReadUpload(h, x))
    BY <1>1 DEF Typed, ReadUpload, Err
  <1>3. Typed(TransportSentinel(h))
    <2>1. Typed(ReadUpload(h, "sentinel"))
      BY <1>2
    <2>2. QED
      BY <2>1 DEF Typed, TransportSentinel, Err
  <1>4. Typed(PrefetchImages(h))
    <2>1. Typed(ReadUpload(h, "token"))
      BY <1>2
    <2>2. ASSUME NEW o \in ReadUpload(h, "token")
          PROVE  /\ [o.host EXCEPT !.config = FALSE, !.images = TRUE] \in HostStates
                 /\ [o.host EXCEPT !.config = FALSE] \in HostStates /\ [o.host EXCEPT !.config = TRUE] \in HostStates
      <3>1. PICK g : g = o.host /\ g \in HostStates
        BY <2>1 DEF Typed
      <3>2. QED
        BY <3>1, HostParts
    <2>3. ASSUME NEW p \in PrefetchImages(h)
          PROVE  \E o \in ReadUpload(h, "token") :
                   p \in {o, Ack([o.host EXCEPT !.config = FALSE, !.images = TRUE]), Err([o.host EXCEPT !.config = FALSE]),
                          Err([o.host EXCEPT !.config = TRUE])}
      BY DEF PrefetchImages
    <2>4. ASSUME NEW p \in PrefetchImages(h) PROVE p.host \in HostStates
      <3>1. PICK o \in ReadUpload(h, "token") :
                   p \in {o, Ack([o.host EXCEPT !.config = FALSE, !.images = TRUE]), Err([o.host EXCEPT !.config = FALSE]),
                          Err([o.host EXCEPT !.config = TRUE])}
        BY <2>3
      <3>2. o.host \in HostStates
        BY <2>1 DEF Typed
      <3>3. PICK x, y, z : /\ x = [o.host EXCEPT !.config = FALSE, !.images = TRUE]
                           /\ y = [o.host EXCEPT !.config = FALSE] /\ z = [o.host EXCEPT !.config = TRUE]
        OBVIOUS
      <3>4. x \in HostStates /\ y \in HostStates /\ z \in HostStates
        BY <2>2, <3>3
      <3>5. p = o \/ p = Ack(x) \/ p = Err(y) \/ p = Err(z)
        BY <3>1, <3>3
      <3>6. QED
        BY <3>2, <3>4, <3>5 DEF Ack, Err
    <2>5. QED
      BY <2>4 DEF Typed
  <1>5. QED
    BY <1>2, <1>3, <1>4

\* A start of a service.
LEMMA StartTyped ==
  ASSUME NEW h \in HostStates, NEW r \in Roles
  PROVE  Typed(Start(h, r))
  <1> DEFINE dirMade == [h EXCEPT !.dir[r] = TRUE]
             ran == [dirMade EXCEPT !.box[r] = TRUE]
             on == [ran EXCEPT !.known[r] = "running"]
  <1>1. dirMade \in HostStates
    BY DEF HostStates
  <1>2. ran \in HostStates
    <2> HIDE DEF dirMade
    <2>1. QED
      BY <1>1 DEF HostStates
  <1>3. on \in HostStates
    <2> HIDE DEF ran
    <2>1. QED
      BY <1>2 DEF HostStates
  <1>4. \A o \in Start(h, r) : o \in {Err(h), Err(dirMade), Err(ran), Ack(on)}
    BY DEF Start
  <1> HIDE DEF dirMade, ran, on
  <1>5. QED
    BY <1>1, <1>2, <1>3, <1>4 DEF Typed, Ack, Err

\* A change of the primary node.
LEMMA SetTyped ==
  ASSUME NEW h \in HostStates, NEW running \in BOOLEAN, NEW id \in 0..1
  PROVE  Typed(SetPrimary(h, running, id))
  <1> DEFINE boxed == [h EXCEPT !.box["primary"] = running, !.ident["primary"] = id]
             on(s) == [boxed EXCEPT !.known["primary"] = s]
  <1>1. boxed \in HostStates
    BY DEF HostStates, Roles
  <1>2. ASSUME NEW s \in {"running", "stopped"} PROVE on(s) \in HostStates
    <2> HIDE DEF boxed
    <2>1. QED
      BY <1>1 DEF HostStates, Roles
  <1>3. \A o \in SetPrimary(h, running, id) : o \in {Err(h), Err(boxed), Ack(on("running")), Ack(on("stopped"))}
    BY DEF SetPrimary
  <1>4. on("running") \in HostStates /\ on("stopped") \in HostStates
    BY <1>2
  <1> HIDE DEF boxed, on
  <1>5. QED
    BY <1>1, <1>3, <1>4 DEF Typed, Ack, Err

\* A reading of the registry and the route.
LEMMA HealthTyped ==
  ASSUME NEW h \in HostStates
  PROVE  Typed(Health(h))
  <1>1. [r \in Roles |-> IF h.known[r] = "running" THEN h.ident[r] ELSE h.print[r]] \in [Roles -> 0..NotSeen]
    BY DEF HostStates, NotSeen
  <1>2. Recorded(h) \in HostStates
    BY <1>1, HostParts DEF Recorded
  <1>3. QED
    BY <1>2 DEF Typed, Health, Ack, Err

\* The stop of the services, and the cleanup of the machine.
LEMMA StopTyped ==
  ASSUME NEW h \in HostStates
  PROVE  Typed(StopAll(h)) /\ Typed(Cleanup(h))
  <1>1. ASSUME NEW g \in HostStates, NEW S
        PROVE  [r \in Roles |-> g.box[r] /\ r \notin S] \in [Roles -> BOOLEAN]
    BY DEF HostStates
  <1>2. ASSUME NEW g \in HostStates, NEW S
        PROVE  [g EXCEPT !.box = [r \in Roles |-> g.box[r] /\ r \notin S]] \in HostStates
    BY <1>1, HostParts
  <1>3. Typed(StopAll(h))
    <2> DEFINE running == {r \in Roles : h.known[r] = "running"}
               b == [r \in Roles |-> h.box[r] /\ r \notin running]
               n == [r \in Roles |-> IF r \in running THEN "stopped" ELSE h.known[r]]
    <2>1. b \in [Roles -> BOOLEAN]
      BY <1>1
    <2>2. n \in [Roles -> {"absent", "running", "stopped"}]
      BY DEF HostStates
    <2>3. \A o \in StopAll(h) : \/ o = Ack([h EXCEPT !.box = b, !.known = n])
                                \/ \E S : o = Err([h EXCEPT !.box = [r \in Roles |-> h.box[r] /\ r \notin S]])
      BY DEF StopAll
    <2>4. [h EXCEPT !.box = b, !.known = n] \in HostStates
      <3> HIDE DEF b, n
      <3>1. QED
        BY <2>1, <2>2, HostParts
    <2> HIDE DEF b, n, running
    <2>5. QED
      BY <1>2, <2>3, <2>4 DEF Typed, Ack, Err
  <1>4. Typed(Cleanup(h))
    <2>1. Typed(RemoveConfig(h))
      BY SimpleTyped
    <2>2. ASSUME NEW o \in RemoveConfig(h), NEW p,
                 \/ p = o
                 \/ \E S : p = Err([o.host EXCEPT !.box = [r \in Roles |-> o.host.box[r] /\ r \notin S]])
                 \/ p = Ack([o.host EXCEPT !.box = [r \in Roles |-> o.host.box[r] /\ r \notin {x \in Roles : o.host.known[x] # "absent"}],
                                           !.dir = [r \in Roles |-> FALSE], !.known = [r \in Roles |-> "absent"]])
          PROVE  p.host \in HostStates
      <3>1. PICK g : g = o.host /\ g \in HostStates
        BY <2>1 DEF Typed
      <3> DEFINE b == [r \in Roles |-> g.box[r] /\ r \notin {x \in Roles : g.known[x] # "absent"}]
                 d == [r \in Roles |-> FALSE]
                 n == [r \in Roles |-> "absent"]
                 last == [g EXCEPT !.box = b, !.dir = d, !.known = n]
      <3>2. last \in HostStates
        <4>1. b \in [Roles -> BOOLEAN] /\ d \in [Roles -> BOOLEAN] /\ n \in [Roles -> {"absent", "running", "stopped"}]
          BY <1>1, <3>1
        <4> HIDE DEF b, d, n
        <4>2. QED
          BY <3>1, <4>1, HostParts
      <3>3. CASE p = o
        BY <2>1, <3>3 DEF Typed
      <3>4. CASE \E S : p = Err([g EXCEPT !.box = [r \in Roles |-> g.box[r] /\ r \notin S]])
        BY <1>2, <3>1, <3>4 DEF Err
      <3>5. CASE p = Ack(last)
        <4> HIDE DEF last
        <4>1. QED
          BY <3>2, <3>5 DEF Ack
      <3>6. QED
        BY <2>2, <3>1, <3>3, <3>4, <3>5
    <2>3. QED
      BY <2>2 DEF Typed, Cleanup
  <1>5. QED
    BY <1>3, <1>4

-----------------------------------------------------------------------------
\* Where the tool stands after a step.

CloudInv == Control /\ Tally /\ Things /\ WorkClean /\ FlowFits /\ Seen /\ HostsFit /\ MachineFits /\ CalmFits /\ PassFits

\* There is a plan for the workload.
LEMMA PlansHold == Control => Plans
  BY WorkloadsAssumption DEF Control, Plans

\* No step changes the workload, so none changes the plan.
LEMMA SamePlan ==
  ASSUME CloudNext
  PROVE  work' = work /\ CreateList' = CreateList /\ CleanupList' = CleanupList /\ VerifyList' = VerifyList
         /\ Everything' = Everything
  <1>1. Tool => work' = work
    BY DEF Tool, LoadPlan, Preflight, Create, Await, AwaitBoot, SecretPrepare, SecretUpload, SecretConsume, SecretClean,
           DrillStep, Sample, Warm, Policy, PhaseCreate, PhaseWork, PhaseDelete, PhaseAbsent, FinRegistry, FinHost,
           CleanupDelete, CleanupVerify, RepoDelete, RepoCheck, Protected, WriteReport
  <1>2. Around => work' = work
    BY DEF Around, Expire, Land, Crash, InterruptCleanup
  <1>3. work' = work
    BY <1>1, <1>2 DEF CloudNext
  <1>4. QED
    BY <1>3 DEF CreateList, CleanupList, VerifyList, Everything

\* Where an exception leads.
LEMMA RaiseSteps ==
  ASSUME Plans, Raise
  PROVE  /\ k' = 1
         /\ \/ pc' = "protected" /\ ~fl.created /\ absent' = absent
            \/ pc' = "fin_registry" /\ fl.created /\ work = "route" /\ absent' = absent
            \/ pc' = "repo_delete" /\ fl.created /\ work = "cache" /\ AllAbsent /\ absent' = absent
            \/ pc' = "delete" /\ fl.created /\ work # "route" /\ absent' = {}
  <1>1. CASE ~fl.created
    <2>1. FinallyStage = "protected"
      BY <1>1 DEF FinallyStage
    <2>2. QED
      BY <1>1, <2>1 DEF Raise, Goto
  <1>2. CASE fl.created /\ work = "route"
    <2>1. FinallyStage = "fin_registry"
      BY <1>2 DEF FinallyStage
    <2>2. QED
      BY <1>2, <2>1 DEF Raise, Goto
  <1>3. CASE fl.created /\ work = "cache" /\ AllAbsent
    <2>1. FinallyStage = "repo_delete"
      BY <1>3 DEF FinallyStage
    <2>2. QED
      BY <1>3, <2>1 DEF Raise, Goto
  <1>4. CASE fl.created /\ work # "route" /\ ~(work = "cache" /\ AllAbsent)
    <2>1. FinallyStage = "delete"
      BY <1>4 DEF FinallyStage
    <2>2. QED
      BY <1>4, <2>1 DEF Raise, Goto
  <1>5. QED
    BY <1>1, <1>2, <1>3, <1>4 DEF Plans

\* The stages a run of this workload can be at.
Allowed(stage) ==
  /\ stage \in Common \cup DrillNames \cup SecretStages \cup HostFinally \cup CacheStages \cup PhaseStages
  /\ stage \in DrillNames \cup SecretStages \cup HostFinally => work = "route"
  /\ stage \in CacheStages => work = "cache"
  /\ stage \in PhaseStages => work = "fleet"
  /\ stage = "await" => work # "fleet"

SameLists == work' = work /\ CreateList' = CreateList /\ CleanupList' = CleanupList /\ VerifyList' = VerifyList

\* A step to the first row of a stage of the workload.
LEMMA GotoControl ==
  ASSUME Plans, Control, SameLists, phase' \in 1..4, k' = 1, Allowed(pc')
  PROVE  Control'
  <1>1. 1 <= Len(CreateList) /\ 1 <= Len(CleanupList) /\ 1 <= Len(VerifyList)
    <2>1. Len(CreateList) \in 1..16
      BY PlanCreates
    <2>2. Len(CleanupList) \in 1..16
      BY PlanCleans
    <2>3. Len(VerifyList) \in 1..16
      BY PlanVerifies
    <2>4. PICK a, b, c : a = Len(CreateList) /\ b = Len(CleanupList) /\ c = Len(VerifyList)
      OBVIOUS
    <2>5. a \in 1..16 /\ b \in 1..16 /\ c \in 1..16
      BY <2>1, <2>2, <2>3, <2>4
    <2>6. 1 <= a /\ 1 <= b /\ 1 <= c
      BY <2>5
    <2>7. QED
      BY <2>4, <2>6
  <1>2. QED
    BY <1>1 DEF Control, Allowed, SameLists

\* A step that leaves the tool where it is.
LEMMA StayControl ==
  ASSUME Control, SameLists, UNCHANGED <<pc, k, phase>>
  PROVE  Control'
  BY DEF Control, SameLists

\* A step that raises.
LEMMA RaiseControl ==
  ASSUME Plans, Control, SameLists, phase' = phase, Raise
  PROVE  Control'
  <1>1. k' = 1 /\ Allowed(pc')
    BY RaiseSteps DEF Allowed, Common, HostFinally, CacheStages, DrillNames, SecretStages, PhaseStages
  <1>2. phase' \in 1..4
    BY DEF Control
  <1>3. QED
    BY <1>1, <1>2, GotoControl

\* The drill goes on with a stage of the drill.
LEMMA DrillGoes ==
  ASSUME NEW stage \in DrillNames \ {"monitor"}
  PROVE  NextInDrill(stage) \in DrillNames
  <1>1. \A i \in 1..15 : Drill[i] \in DrillNames
    BY DEF Drill, DrillNames
  <1>2. Len(Drill) = 15 /\ Drill[15] = "monitor"
    BY DEF Drill
  <1>3. \E i \in 1..15 : Drill[i] = stage
    BY DEF Drill, DrillNames
  <1>4. PICK c : c = CHOOSE i \in 1..15 : Drill[i] = stage
    OBVIOUS
  <1>5. c \in 1..15 /\ Drill[c] = stage
    BY <1>3, <1>4
  <1>6. c # 15
    BY <1>2, <1>5
  <1>7. 1 + c \in 1..15
    BY <1>5, <1>6
  <1>8. NextInDrill(stage) = Drill[1 + c]
    BY <1>2, <1>4 DEF NextInDrill
  <1>9. QED
    BY <1>1, <1>7, <1>8

\* Wherever a step leads, it is a stage of the workload and a row of the plan.
LEMMA ControlStep ==
  ASSUME CloudInv, CloudNext
  PROVE  Control'
  <1> USE DEF CloudInv
  <1>1. Plans /\ Control
    BY PlansHold
  <1>2. SameLists
    BY SamePlan DEF SameLists
  <1> DEFINE Names == Common \cup DrillNames \cup SecretStages \cup HostFinally \cup CacheStages \cup PhaseStages
  <1>3. ASSUME phase' \in 1..4, k' = 1, Allowed(pc') PROVE Control'
    BY <1>1, <1>2, <1>3, GotoControl
  <1>4. phase \in 1..4 /\ Allowed(pc)
    BY <1>1 DEF Control, Allowed
  <1>5. CASE LoadPlan \/ Preflight
    BY <1>3, <1>4, <1>5 DEF LoadPlan, Preflight, Goto, Allowed, Common, HostFinally, CacheStages, DrillNames, SecretStages,
       PhaseStages
  <1>6. CASE Create
    <2>1. CASE k < Len(CreateList) /\ k' = k + 1 /\ UNCHANGED <<pc, phase>>
      <3>1. Len(CreateList) \in 1..16
        BY <1>1, PlanCreates
      <3>2. pc = "create"
        BY <1>6 DEF Create
      <3>3. PICK n : n = Len(CreateList)
        OBVIOUS
      <3>4. k \in 1..16 /\ n \in 1..16 /\ k < n
        BY <1>1, <2>1, <3>1, <3>3 DEF Control
      <3>5. k + 1 \in 1..16 /\ k + 1 <= n
        BY <3>4
      <3>6. QED
        BY <1>1, <1>2, <2>1, <3>2, <3>3, <3>5 DEF Control, SameLists
    <2>2. CASE Goto(IF work = "fleet" THEN "phase_create" ELSE "await") /\ phase' = phase
      BY <1>3, <1>4, <2>2 DEF Goto, Allowed, Common, HostFinally, CacheStages, DrillNames, SecretStages, PhaseStages
    <2>3. CASE Raise /\ phase' = phase
      BY <1>1, <1>2, <2>3, RaiseControl
    <2>4. QED
      BY <1>6, <2>1, <2>2, <2>3 DEF Create
  <1>7. CASE Await
    <2>1. CASE Goto(IF work = "route" THEN "install" ELSE "warm") /\ phase' = phase
      <3>1. work \in {"route", "cache"}
        BY <1>1, <1>7 DEF Await, Control, Plans
      <3>2. QED
        BY <1>3, <1>4, <2>1, <3>1 DEF Goto, Allowed, Common, HostFinally, CacheStages, DrillNames, SecretStages, PhaseStages
    <2>2. CASE Raise /\ phase' = phase
      BY <1>1, <1>2, <2>2, RaiseControl
    <2>3. QED
      BY <1>7, <2>1, <2>2 DEF Await
  <1>8. CASE AwaitBoot \/ (\E r \in Instances : Expire(r)) \/ (\E r \in inflight : Land(r))
    <2>1. UNCHANGED <<pc, k, phase>>
      BY <1>8 DEF AwaitBoot, Expire, Land
    <2>2. QED
      BY <1>1, <1>2, <2>1, StayControl
  <1>9. CASE SecretPrepare \/ SecretUpload \/ SecretConsume
    <2>1. pc \in SecretStages /\ k' = 1 /\ pc' \in SecretStages /\ phase' = phase
      BY <1>9 DEF SecretPrepare, SecretUpload, SecretConsume, HostStep, Goto, SecretStages
    <2>2. work = "route"
      BY <1>1, <2>1 DEF Control
    <2>3. QED
      BY <1>3, <1>4, <2>1, <2>2 DEF Allowed, Common, HostFinally, CacheStages, DrillNames, SecretStages, PhaseStages
  <1>10. CASE SecretClean
    <2>1. pc = "sec_clean" /\ phase' = phase
      BY <1>10 DEF SecretClean
    <2>2. work = "route"
      BY <1>1, <2>1 DEF Control, SecretStages
    <2>3. CASE k' = 1 /\ pc' \in {"start_primary", "sec_prepare"}
      BY <1>3, <1>4, <2>1, <2>2, <2>3 DEF Allowed, Common, HostFinally, CacheStages, DrillNames, SecretStages, PhaseStages
    <2>4. CASE Raise
      BY <1>1, <1>2, <2>1, <2>4, RaiseControl
    <2>5. QED
      BY <1>10, <2>3, <2>4 DEF SecretClean, HostStep, AfterSecret, Goto
  <1>11. ASSUME NEW stage \in DrillNames, DrillStep(stage), stage # "monitor" PROVE Control'
    <2>1. pc = stage /\ phase' = phase
      BY <1>11 DEF DrillStep
    <2>2. work = "route"
      BY <1>1, <2>1 DEF Control
    <2>3. NextInDrill(stage) \in DrillNames
      BY <1>11, DrillGoes
    <2>4. CASE k' = 1 /\ pc' \in {"sec_prepare", NextInDrill(stage)}
      BY <1>3, <1>4, <2>1, <2>2, <2>3, <2>4 DEF Allowed, Common, HostFinally, CacheStages, DrillNames, SecretStages, PhaseStages
    <2>5. CASE Raise
      BY <1>1, <1>2, <2>1, <2>5, RaiseControl
    <2>6. QED
      BY <1>11, <2>4, <2>5 DEF DrillStep, HostStep, Goto
  <1>12. ASSUME NEW stage \in DrillNames, NEW retries \in BOOLEAN, Sample(stage, retries) PROVE Control'
    <2>1. pc = stage /\ phase' = phase
      BY <1>12 DEF Sample
    <2>2. work = "route"
      BY <1>1, <2>1 DEF Control
    <2>3. stage # "monitor" => NextInDrill(stage) \in DrillNames
      BY <1>12, DrillGoes
    <2>4. CASE k' = 1 /\ pc' = (IF stage = "monitor" THEN "fin_registry" ELSE NextInDrill(stage))
      BY <1>3, <1>4, <2>1, <2>2, <2>3, <2>4 DEF Allowed, Common, HostFinally, CacheStages, DrillNames, SecretStages, PhaseStages
    <2>5. CASE Raise
      BY <1>1, <1>2, <2>1, <2>5, RaiseControl
    <2>6. CASE UNCHANGED <<pc, k>>
      BY <1>1, <1>2, <2>1, <2>6, StayControl
    <2>7. QED
      BY <1>12, <2>4, <2>5, <2>6 DEF Sample, Goto
  <1>13. CASE Warm \/ Policy
    <2>1. phase' = phase
      BY <1>13 DEF Warm, Policy
    <2>2. CASE k' = 1 /\ pc' \in {"delete", "protected"}
      BY <1>3, <1>4, <2>1, <2>2 DEF Allowed, Common, HostFinally, CacheStages, DrillNames, SecretStages, PhaseStages
    <2>3. CASE Raise
      BY <1>1, <1>2, <2>1, <2>3, RaiseControl
    <2>4. QED
      BY <1>13, <2>2, <2>3 DEF Warm, Policy, Goto
  <1>14. CASE PhaseCreate \/ PhaseWork \/ PhaseDelete \/ PhaseAbsent
    <2>1. pc \in PhaseStages /\ k' = 1 /\ pc' \in PhaseStages \cup {"delete"}
      BY <1>14 DEF PhaseCreate, PhaseWork, PhaseDelete, PhaseAbsent, Goto, PhaseStages
    <2>2. phase' \in 1..4
      BY <1>4, <1>14 DEF PhaseCreate, PhaseWork, PhaseDelete, PhaseAbsent, Profiles
    <2>3. work = "fleet"
      BY <1>1, <2>1 DEF Control
    <2>4. QED
      BY <1>3, <2>1, <2>2, <2>3 DEF Allowed, Common, HostFinally, CacheStages, DrillNames, SecretStages, PhaseStages
  <1>15. CASE FinRegistry \/ FinHost("fin_stop", "fin_cleanup") \/ FinHost("fin_cleanup", "delete")
    <2>1. pc \in HostFinally /\ k' = 1 /\ pc' \in HostFinally \cup {"delete"} /\ phase' = phase
      BY <1>15 DEF FinRegistry, FinHost, Goto, HostFinally
    <2>2. work = "route"
      BY <1>1, <2>1 DEF Control
    <2>3. QED
      BY <1>3, <1>4, <2>1, <2>2 DEF Allowed, Common, HostFinally, CacheStages, DrillNames, SecretStages, PhaseStages
  <1>16. CASE CleanupDelete
    <2>1. CASE k < Len(CleanupList) /\ k' = k + 1 /\ UNCHANGED <<pc, phase>>
      <3>1. Len(CleanupList) \in 1..16
        BY <1>1, PlanCleans
      <3>2. pc = "delete"
        BY <1>16 DEF CleanupDelete
      <3>3. PICK n : n = Len(CleanupList)
        OBVIOUS
      <3>4. k \in 1..16 /\ n \in 1..16 /\ k < n
        BY <1>1, <2>1, <3>1, <3>3 DEF Control
      <3>5. k + 1 \in 1..16 /\ k + 1 <= n
        BY <3>4
      <3>6. QED
        BY <1>1, <1>2, <2>1, <3>2, <3>3, <3>5 DEF Control, SameLists
    <2>2. CASE Goto("verify") /\ phase' = phase
      BY <1>3, <1>4, <2>2 DEF Goto, Allowed, Common, HostFinally, CacheStages, DrillNames, SecretStages, PhaseStages
    <2>3. QED
      BY <1>16, <2>1, <2>2 DEF CleanupDelete
  <1>17. CASE CleanupVerify
    <2>1. CASE k < Len(VerifyList) /\ k' = k + 1 /\ UNCHANGED <<pc, phase>>
      <3>1. Len(VerifyList) \in 1..16
        BY <1>1, PlanVerifies
      <3>2. pc = "verify"
        BY <1>17 DEF CleanupVerify
      <3>3. PICK n : n = Len(VerifyList)
        OBVIOUS
      <3>4. k \in 1..16 /\ n \in 1..16 /\ k < n
        BY <1>1, <2>1, <3>1, <3>3 DEF Control
      <3>5. k + 1 \in 1..16 /\ k + 1 <= n
        BY <3>4
      <3>6. QED
        BY <1>1, <1>2, <2>1, <3>2, <3>3, <3>5 DEF Control, SameLists
    <2>2. CASE Goto("delete") /\ phase' = phase
      BY <1>3, <1>4, <2>2 DEF Goto, Allowed, Common, HostFinally, CacheStages, DrillNames, SecretStages, PhaseStages
    <2>3. CASE Goto(AfterVerify) /\ phase' = phase
      <3>1. AfterVerify = "protected" \/ (AfterVerify \in {"policy", "repo_delete"} /\ work = "cache")
        BY DEF AfterVerify
      <3>2. QED
        BY <1>3, <1>4, <2>3, <3>1 DEF Goto, Allowed, Common, HostFinally, CacheStages, DrillNames, SecretStages, PhaseStages
    <2>4. QED
      BY <1>17, <2>1, <2>2, <2>3 DEF CleanupVerify
  <1>18. CASE RepoDelete \/ RepoCheck
    <2>1. pc \in CacheStages /\ k' = 1 /\ pc' \in {"repo_check", "protected"} /\ phase' = phase
      BY <1>18 DEF RepoDelete, RepoCheck, Goto, CacheStages
    <2>2. work = "cache"
      BY <1>1, <2>1 DEF Control
    <2>3. QED
      BY <1>3, <1>4, <2>1, <2>2 DEF Allowed, Common, HostFinally, CacheStages, DrillNames, SecretStages, PhaseStages
  <1>19. CASE (\E running \in BOOLEAN : Protected(running)) \/ WriteReport \/ Crash \/ InterruptCleanup
    <2>1. k' = 1 /\ pc' \in {"report", "cut", "done"} /\ phase' = phase
      BY <1>19 DEF Protected, WriteReport, Crash, InterruptCleanup, Goto
    <2>2. QED
      BY <1>3, <1>4, <2>1 DEF Allowed, Common, HostFinally, CacheStages, DrillNames, SecretStages, PhaseStages
  <1>20. ASSUME NEW stage \in {"install", "boot", "start_primary", "start_standby", "probe_primary",
                   "probe_standby", "probe_auto", "stop_primary", "probe_fallback", "restore",
                   "probe_restored"}, DrillStep(stage) PROVE Control'
    <2>1. stage \in DrillNames /\ stage # "monitor"
      BY DEF DrillNames
    <2>2. QED
      BY <1>11, <1>20, <2>1
  <1>21. ASSUME NEW stage \in {"health_start", "health_restored", "health_fallback", "monitor"}, NEW retries \in BOOLEAN,
                Sample(stage, retries) PROVE Control'
    <2>1. stage \in DrillNames
      BY DEF DrillNames
    <2>2. QED
      BY <1>12, <1>21, <2>1
  <1>22. Tool => Control'
    BY <1>5, <1>6, <1>7, <1>8, <1>9, <1>10, <1>13, <1>14, <1>15, <1>16, <1>17, <1>18, <1>19, <1>20, <1>21 DEF Tool
  <1>23. Around => Control'
    BY <1>8, <1>19 DEF Around
  <1>24. QED
    BY <1>22, <1>23 DEF CloudNext

-----------------------------------------------------------------------------
\* The actions by what they touch.

\* The actions that leave the provider and the machine as they are.
Apart == \/ LoadPlan \/ Preflight \/ Await \/ AwaitBoot \/ Warm \/ Policy \/ PhaseWork \/ PhaseAbsent
         \/ CleanupVerify \/ RepoCheck \/ (\E running \in BOOLEAN : Protected(running)) \/ WriteReport
         \/ Crash \/ InterruptCleanup
DrillSteps == \E stage \in DrillNames \ {"monitor"} : DrillStep(stage)
AnySample == \E stage \in DrillNames, retries \in BOOLEAN : Sample(stage, retries)
OnHost == \/ SecretPrepare \/ SecretUpload \/ SecretConsume \/ SecretClean
          \/ FinRegistry \/ FinHost("fin_stop", "fin_cleanup") \/ FinHost("fin_cleanup", "delete")
          \/ DrillSteps \/ AnySample
Creates == Create \/ PhaseCreate \/ (\E r \in inflight : Land(r))
Deletes == PhaseDelete \/ CleanupDelete \/ RepoDelete \/ (\E r \in Instances : Expire(r))

\* Every step is of one of the four kinds.
LEMMA EveryAction == CloudNext => Apart \/ OnHost \/ Creates \/ Deletes
  <1>1. (\E stage \in {"install", "boot", "start_primary", "start_standby", "probe_primary",
                   "probe_standby", "probe_auto", "stop_primary", "probe_fallback", "restore",
                   "probe_restored"} : DrillStep(stage)) => DrillSteps
    BY DEF DrillSteps, DrillNames
  <1>2. (\E stage \in {"health_start", "health_restored"} : Sample(stage, TRUE)) => AnySample
    BY DEF AnySample, DrillNames
  <1>3. (\E stage \in {"health_fallback", "monitor"} : Sample(stage, FALSE)) => AnySample
    BY DEF AnySample, DrillNames
  <1>4. QED
    BY <1>1, <1>2, <1>3 DEF CloudNext, Tool, Around, Apart, OnHost, Creates, Deletes

\* Those of the first kind.
LEMMA ApartSame == Apart => UNCHANGED <<cloud, inflight, late, host>>
  BY DEF Apart, LoadPlan, Preflight, Await, AwaitBoot, Warm, Policy, PhaseWork, PhaseAbsent, CleanupVerify, RepoCheck,
         Protected, WriteReport, Crash, InterruptCleanup, provider

\* A step on the machine leaves the provider alone, and changes the machine, to
\* something of its type, only when it can be reached.
LEMMA OnHostEffect ==
  ASSUME CloudInv, OnHost
  PROVE  /\ UNCHANGED <<cloud, inflight, late>> /\ work = "route" /\ pc \in DrillNames \cup SecretStages \cup HostFinally
         /\ host' = host \/ (Reachable /\ host' \in HostStates)
  <1>1. host \in HostStates /\ fl \in Locals /\ Control
    BY DEF CloudInv, Tally
  <1>2. ASSUME NEW S, Typed(S), NEW o \in S PROVE o.host \in HostStates
    BY <1>2 DEF Typed
  <1>3. UNCHANGED <<cloud, inflight, late>> /\ pc \in DrillNames \cup SecretStages \cup HostFinally
    BY DEF OnHost, SecretPrepare, SecretUpload, SecretConsume, SecretClean, FinRegistry, FinHost, DrillSteps, DrillStep,
           AnySample, Sample, provider, SecretStages, HostFinally
  <1>4. work = "route"
    BY <1>1, <1>3 DEF Control
  <1>5. CASE SecretPrepare
    <2>1. Typed(PrepareUpload(host))
      BY <1>1, SimpleTyped
    <2>2. QED
      BY <1>2, <1>3, <1>4, <1>5, <2>1 DEF SecretPrepare, HostStep
  <1>6. CASE SecretUpload
    <2>1. [host EXCEPT !.upload = fl.kind] \in HostStates
      <3>1. fl.kind \in Uploads
        BY <1>1 DEF Locals, Uploads
      <3>2. QED
        BY <1>1, <3>1, HostParts
    <2>2. host' = host \/ (Reachable /\ host' = [host EXCEPT !.upload = fl.kind])
      BY <1>6 DEF SecretUpload
    <2>3. QED
      BY <1>3, <1>4, <2>1, <2>2
  <1>7. CASE SecretConsume
    <2>1. Typed(TransportSentinel(host)) /\ Typed(PrefetchImages(host))
      BY <1>1, ReadTyped
    <2>2. QED
      BY <1>2, <1>3, <1>4, <1>7, <2>1 DEF SecretConsume, HostStep
  <1>8. CASE SecretClean
    <2>1. Typed(RemoveUpload(host))
      BY <1>1, SimpleTyped
    <2>2. QED
      BY <1>2, <1>3, <1>4, <1>8, <2>1 DEF SecretClean, HostStep
  <1>9. CASE FinRegistry
    <2>1. Typed(RemoveConfig(host))
      BY <1>1, SimpleTyped
    <2>2. QED
      BY <1>2, <1>3, <1>4, <1>9, <2>1 DEF FinRegistry, HostStep
  <1>10. CASE FinHost("fin_stop", "fin_cleanup") \/ FinHost("fin_cleanup", "delete")
    <2>1. Typed(StopAll(host)) /\ Typed(Cleanup(host))
      BY <1>1, StopTyped
    <2>2. QED
      BY <1>2, <1>3, <1>4, <1>10, <2>1 DEF FinHost, HostStep
  <1>11. CASE DrillSteps
    <2>1. PICK stage \in DrillNames \ {"monitor"} : DrillStep(stage)
      BY <1>11 DEF DrillSteps
    <2>2. Typed(DrillOutcomes(stage))
      <3>1. Typed({Ack(host)}) /\ Typed(BootstrapPreflight(host)) /\ \A s : Typed(Probe(host, s))
        BY <1>1, SimpleTyped
      <3>2. Typed(Start(host, "primary")) /\ Typed(Start(host, "standby"))
        BY <1>1, StartTyped DEF Roles
      <3>3. host.ident["primary"] \in 0..1
        BY <1>1 DEF HostStates, Roles
      <3>4. Typed(SetPrimary(host, FALSE, host.ident["primary"]))
        BY <1>1, <3>3, SetTyped
      <3>5. Typed(UNION {SetPrimary(host, TRUE, id) : id \in 0..1})
        <4>1. ASSUME NEW id \in 0..1 PROVE Typed(SetPrimary(host, TRUE, id))
          BY <1>1, SetTyped
        <4>2. QED
          BY <4>1 DEF Typed
      <3>6. ASSUME NEW s PROVE Typed({o \in Probe(host, s) : o.ok => Selected(host, s) = ExpectedOf(stage)})
        BY <3>1 DEF Typed
      <3>7. QED
        BY <3>1, <3>2, <3>4, <3>5, <3>6 DEF DrillOutcomes
    <2>3. host' = host \/ (Reachable /\ \E o \in DrillOutcomes(stage) : host' = o.host)
      BY <2>1 DEF DrillStep, HostStep
    <2>4. QED
      BY <1>2, <1>3, <1>4, <2>2, <2>3
  <1>12. CASE AnySample
    <2>1. PICK stage \in DrillNames, retries \in BOOLEAN : Sample(stage, retries)
      BY <1>12 DEF AnySample
    <2>2. Typed(Health(host))
      BY <1>1, HealthTyped
    <2>3. host' = host \/ (Reachable /\ \E o \in Health(host) : host' = o.host)
      BY <2>1 DEF Sample
    <2>4. QED
      BY <1>2, <1>3, <1>4, <2>2, <2>3
  <1>13. QED
    BY <1>5, <1>6, <1>7, <1>8, <1>9, <1>10, <1>11, <1>12 DEF OnHost

\* A delete takes away what it names, with what goes with that, or nothing.
LEMMA DeletesEffect ==
  ASSUME Control, Deletes
  PROVE  /\ UNCHANGED <<inflight, late, work>>
         /\ \/ UNCHANGED <<cloud, host>>
            \/ \E r \in cloud : Kind(r) # "disk" /\ cloud' = cloud \ Gone(r) /\ host' = IF r = Res("instance") THEN FreshHost ELSE host
  <1>1. ASSUME NEW r, DeleteOne(r)
        PROVE  /\ UNCHANGED <<inflight, late>>
               /\ \/ UNCHANGED <<cloud, host>>
                  \/ r \in cloud /\ cloud' = cloud \ Gone(r) /\ host' = IF r = Res("instance") THEN FreshHost ELSE host
    BY <1>1 DEF DeleteOne
  <1>2. CASE PhaseDelete \/ CleanupDelete \/ RepoDelete
    <2>1. work' = work /\ (DeleteOne(PhaseHost) \/ DeleteOne(Res("repository")) \/ (pc = "delete" /\ DeleteOne(CleanupList[k])))
      BY <1>2 DEF PhaseDelete, CleanupDelete, RepoDelete
    <2>2. Kind(PhaseHost) # "disk" /\ Kind(Res("repository")) # "disk"
      BY DEF PhaseHost, Res, In, Kind
    <2>3. pc = "delete" => Kind(CleanupList[k]) # "disk"
      <3>1. PICK n : n = Len(CleanupList)
        OBVIOUS
      <3>2. Plans /\ k \in 1..16 /\ (pc = "delete" => k <= n)
        BY <3>1, PlansHold DEF Control
      <3>3. n \in 1..16 /\ \A i \in 1..n : Kind(CleanupList[i]) # "disk"
        BY <3>1, <3>2, PlanCleans
      <3>4. QED
        BY <3>2, <3>3
    <2>4. QED
      BY <1>1, <2>1, <2>2, <2>3
  <1>3. ASSUME NEW r \in Instances, Expire(r)
        PROVE  /\ UNCHANGED <<inflight, late, work>> /\ r \in cloud /\ Kind(r) # "disk"
               /\ cloud' = cloud \ Gone(r) /\ host' = IF r = Res("instance") THEN FreshHost ELSE host
    <2>1. Kind(r) = "instance" /\ r \in cloud
      BY DEF Instances
    <2>2. Gone(r) = With(r)
      BY <2>1 DEF Gone
    <2>3. QED
      BY <1>3, <2>1, <2>2 DEF Expire
  <1>4. QED
    BY <1>2, <1>3 DEF Deletes

\* What else than r goes with r is its disk or its NAT.
LEMMA GoneParts ==
  ASSUME NEW r
  PROVE  /\ r \in Gone(r) /\ \A x \in Gone(r) : x = r \/ (x = In("disk", r[2]) /\ Kind(r) = "instance")
                                                   \/ (x = In("nat", r[2]) /\ Kind(r) = "router")
         /\ Kind(r) = "instance" => Gone(r) = {r, In("disk", r[2])}
         /\ Kind(r) = "router" => Gone(r) = {r, In("nat", r[2])}
         /\ Kind(r) \notin {"instance", "router"} => Gone(r) = {r}
  BY DEF Gone, With

\* One command of the run creates r, may create it later, or does nothing; or a
\* command that was given up takes effect.
Made(r) ==
  /\ UNCHANGED late
  /\ \/ UNCHANGED <<cloud, inflight>>
     \/ Needs(r, FleetRegions) \subseteq cloud /\ cloud' = cloud \cup With(r) /\ UNCHANGED inflight
     \/ Needs(r, FleetRegions) \subseteq cloud /\ inflight' = inflight \cup {r} /\ UNCHANGED cloud

\* A create makes what it names, or sets it going, or fails.
LEMMA CreatesEffect ==
  ASSUME Creates
  PROVE  /\ host' = host /\ work' = work /\ cloud \subseteq cloud'
         /\ \/ Create /\ Made(CreateList[k])
            \/ PhaseCreate /\ Made(PhaseHost)
            \/ \E r \in inflight : Land(r)
  <1>1. ASSUME NEW r, CreateOk(r) \/ CreateFails(r) PROVE Made(r)
    BY <1>1 DEF CreateOk, CreateFails, Made
  <1>2. CASE Create
    BY <1>1, <1>2 DEF Create, Made
  <1>3. CASE PhaseCreate
    BY <1>1, <1>3 DEF PhaseCreate, Made
  <1>4. CASE \E r \in inflight : Land(r)
    BY <1>4 DEF Land
  <1>5. QED
    BY <1>2, <1>3, <1>4 DEF Creates

\* A machine that goes away takes its state with it, and a new one is fresh.
LEMMA MachineStep ==
  ASSUME CloudInv, CloudNext
  PROVE  MachineFits' /\ host' \in HostStates
  <1>1. MachineFits /\ host \in HostStates
    BY DEF CloudInv, Tally
  <1>2. work' = work
    BY SamePlan
  <1>3. CASE Apart
    BY <1>1, <1>2, <1>3, ApartSame DEF MachineFits
  <1>4. CASE OnHost
    <2>1. cloud' = cloud /\ work = "route" /\ (host' = host \/ (Reachable /\ host' \in HostStates))
      BY <1>4, OnHostEffect
    <2>2. Reachable => Res("instance") \in cloud
      BY DEF Reachable
    <2>3. QED
      BY <1>1, <1>2, <2>1, <2>2 DEF MachineFits
  <1>5. CASE Creates
    <2>1. host' = host /\ cloud \subseteq cloud'
      BY <1>5, CreatesEffect
    <2>2. QED
      BY <1>1, <1>2, <2>1 DEF MachineFits
  <1>6. CASE Deletes
    <2>1. CASE UNCHANGED <<cloud, host>>
      BY <1>1, <1>2, <2>1 DEF MachineFits
    <2>2. ASSUME NEW r \in cloud, cloud' = cloud \ Gone(r), host' = IF r = Res("instance") THEN FreshHost ELSE host
          PROVE  MachineFits' /\ host' \in HostStates
      <3>1. CASE r = Res("instance")
        BY <1>1, <1>2, <2>2, <3>1, FreshTyped DEF MachineFits
      <3>2. CASE r # Res("instance")
        <4>1. Res("instance") \notin Gone(r)
          <5>1. \A y : Res("instance") # In("disk", y) /\ Res("instance") # In("nat", y)
            BY DEF Res, In
          <5>2. QED
            BY <3>2, <5>1, GoneParts
        <4>2. QED
          BY <1>1, <1>2, <2>2, <3>2, <4>1 DEF MachineFits
      <3>3. QED
        BY <3>1, <3>2
    <2>3. QED
      BY <1>6, <2>1, <2>2, DeletesEffect DEF CloudInv
  <1>7. QED
    BY <1>3, <1>4, <1>5, <1>6, EveryAction

\* Faults are counted; the cleanup is calm until one hits it.
LEMMA CountStep ==
  ASSUME CloudInv, CloudNext
  PROVE  /\ faults' \in 0..MaxFaults /\ calm' \in BOOLEAN /\ (calm' => calm)
         /\ \/ NoFault \/ Fault \/ InterruptCleanup \/ \E r \in inflight : Land(r)
  <1>1. faults \in 0..MaxFaults /\ calm \in BOOLEAN
    BY DEF CloudInv, Tally
  <1>2. Tool => NoFault \/ Fault
    BY DEF Tool, LoadPlan, Preflight, Create, CreateOk, CreateFails, Await, AwaitBoot, SecretPrepare, SecretUpload,
       SecretConsume,
           SecretClean, DrillStep, HostStep, Sample, Warm, Policy, PhaseCreate, PhaseWork, PhaseDelete, DeleteOne, PhaseAbsent,
           FinRegistry, FinHost, CleanupDelete, CleanupVerify, RepoDelete, RepoCheck, Protected, WriteReport
  <1>3. Around => NoFault \/ Fault \/ InterruptCleanup \/ \E r \in inflight : Land(r)
    BY DEF Around, Expire, Crash, NoFault
  <1>4. CASE NoFault
    BY <1>1, <1>4 DEF NoFault
  <1>5. CASE Fault
    <2>1. faults' = faults + 1 /\ faults < MaxFaults /\ calm' = (calm /\ pc \notin Finally)
      BY <1>5 DEF Fault
    <2>2. faults' \in 0..MaxFaults
      BY <1>1, <2>1, FaultsAssumption
    <2>3. QED
      BY <1>1, <1>5, <2>1, <2>2
  <1>6. CASE \E r \in inflight : Land(r)
    BY <1>1, <1>6 DEF Land
  <1>7. CASE InterruptCleanup
    <2>1. faults' = faults + 1 /\ faults < MaxFaults /\ calm' = FALSE
      BY <1>7 DEF InterruptCleanup
    <2>2. faults' \in 0..MaxFaults
      BY <1>1, <2>1, FaultsAssumption
    <2>3. QED
      BY <1>7, <2>1, <2>2
  <1>8. QED
    BY <1>2, <1>3, <1>4, <1>5, <1>6, <1>7 DEF CloudNext

-----------------------------------------------------------------------------
\* The locals and what went wrong.

\* The locals of the lifecycle, the credential file and the absence checks after a
\* step; and that a run that went wrong does not work on.
Flow ==
  /\ fl' \in Locals /\ secret' \in {"absent", "sentinel", "token"} /\ absent' \subseteq 1..Len(VerifyList)
  /\ FlowFits'
  /\ Working' => Working
  /\ fl'.warmed => fl.warmed \/ Working
  /\ fl'.pass => fl.pass \/ fl.warmed \/ Working
  /\ pc' \in {"load", "preflight"} => pc \in {"load", "preflight"}
  /\ pc' = "create" => pc \in {"preflight", "create"}
  /\ \A j \in absent' : j \in absent \/ VerifyList[j] \notin cloud

\* No step makes the locals disagree with the stage.
LEMMA FlowStep ==
  ASSUME CloudInv, CloudNext
  PROVE  Flow
  <1>1. /\ Plans /\ Control /\ fl \in Locals /\ secret \in {"absent", "sentinel", "token"}
        /\ absent \subseteq 1..Len(VerifyList) /\ FlowFits
    BY PlansHold DEF CloudInv, Tally
  <1>2. work' = work
    BY SamePlan
  <1>3. pc = "policy" => fl.warmed
    BY DEF CloudInv, PassFits
  <1>31. ASSUME Raise
          PROVE  \/ pc' = "protected" /\ absent' = absent
                 \/ pc' = "fin_registry" /\ work = "route" /\ absent' = absent
                 \/ pc' = "repo_delete" /\ work = "cache" /\ absent' = absent
                 \/ pc' = "delete" /\ work # "route" /\ absent' = {}
    BY <1>1, <1>31, RaiseSteps
  <1>4. CASE LoadPlan
    BY <1>1, <1>2, <1>4 DEF LoadPlan, evidence, FlowFits, Flow, Working, Locals, Goto, Common, Closing, DrillNames,
       SecretStages, HostFinally, CacheStages, PhaseStages
  <1>5. CASE Preflight
    BY <1>1, <1>2, <1>5 DEF Preflight, evidence, FlowFits, Flow, Working, Locals, Goto, Common, Closing, DrillNames,
       SecretStages, HostFinally, CacheStages, PhaseStages
  <1>6. CASE Create
    <2>1. CASE UNCHANGED <<fl, absent>> /\ pc' \in {"create", "phase_create", "await"}
      BY <1>1, <1>2, <1>6, <2>1 DEF Create, FlowFits, Flow, Working, Locals, Goto, Common, Closing, DrillNames,
         SecretStages, HostFinally, CacheStages, PhaseStages
    <2>2. CASE Raise /\ fl' = [fl EXCEPT !.failed = TRUE]
      BY <1>1, <1>2, <1>6, <2>2, RaiseSteps DEF Create, FlowFits, Flow, Working, Locals, Goto, Common, Closing, DrillNames,
         SecretStages, HostFinally, CacheStages, PhaseStages
    <2>3. QED
      BY <1>6, <2>1, <2>2 DEF Create, Goto
  <1>7. CASE Await
    <2>1. CASE Raise
      <3>1. pc = "await" /\ UNCHANGED <<fl, secret>>
        BY <1>7 DEF Await
      <3>2. QED
        BY <1>1, <1>2, <1>31, <2>1, <3>1 DEF FlowFits, Flow, Working, Goto, Common, Closing, DrillNames, SecretStages,
           HostFinally, CacheStages, PhaseStages
    <2>2. CASE ~Raise
      BY <1>1, <1>2, <1>7, <2>2 DEF Await, FlowFits, Flow, Working, Locals, Goto, Common, Closing, DrillNames,
         SecretStages, HostFinally, CacheStages, PhaseStages
    <2>3. QED
      BY <2>1, <2>2
  <1>8. CASE AwaitBoot \/ (\E r \in Instances : Expire(r)) \/ (\E r \in inflight : Land(r))
    <2>1. UNCHANGED <<pc, secret, fl, absent>>
      BY <1>8 DEF AwaitBoot, Expire, Land, evidence
    <2>2. QED
      BY <1>1, <1>2, <2>1 DEF FlowFits, Flow, Working
  <1>9. CASE SecretPrepare
    BY <1>1, <1>2, <1>9 DEF SecretPrepare, HostStep, evidence, FlowFits, Flow, Working, Locals, Goto, Common, Closing,
       DrillNames, SecretStages, HostFinally, CacheStages, PhaseStages
  <1>10. CASE SecretUpload
    BY <1>1, <1>2, <1>10 DEF SecretUpload, Control, evidence, FlowFits, Flow, Working, Locals, Goto, Common, Closing,
       DrillNames, SecretStages, HostFinally, CacheStages, PhaseStages
  <1>11. CASE SecretConsume
    BY <1>1, <1>2, <1>11 DEF SecretConsume, HostStep, evidence, FlowFits, Flow, Working, Locals, Goto, Common, Closing,
       DrillNames, SecretStages, HostFinally, CacheStages, PhaseStages
  <1>12. CASE SecretClean
    <2>1. /\ pc = "sec_clean" /\ UNCHANGED <<work, secret>>
          /\ \/ AfterSecret(fl.err) \/ AfterSecret("other")
      BY <1>12 DEF SecretClean, HostStep
    <2>2. work = "route"
      BY <1>1, <2>1 DEF Control, SecretStages
    <2>3. CASE Raise /\ \E b \in BOOLEAN : fl' = [fl EXCEPT !.local = b, !.err = "none"]
      <3>1. PICK b \in BOOLEAN : fl' = [fl EXCEPT !.local = b, !.err = "none"]
        BY <2>3
      <3>2. /\ fl' \in Locals /\ fl'.warmed = fl.warmed /\ fl'.pass = fl.pass /\ fl'.failed = fl.failed /\ fl'.err = "none"
        BY <1>1, <3>1 DEF Locals
      <3>3. QED
        BY <1>1, <1>2, <1>31, <2>1, <2>2, <2>3, <3>2 DEF FlowFits, Flow, Working, Goto, Common, Closing, DrillNames,
           SecretStages, HostFinally, CacheStages, PhaseStages
    <2>4. CASE fl.err = "none" /\ AfterSecret("none")
      BY <1>1, <1>2, <2>1, <2>2, <2>4 DEF AfterSecret, FlowFits, Flow, Working, Locals, Goto, Common, Closing, DrillNames,
         SecretStages, HostFinally, CacheStages, PhaseStages
    <2>5. QED
      BY <2>1, <2>3, <2>4 DEF AfterSecret
  <1>13. CASE DrillSteps
    <2>1. PICK stage \in DrillNames \ {"monitor"} : DrillStep(stage)
      BY <1>13 DEF DrillSteps
    <2>2. pc = stage /\ UNCHANGED <<fl, secret>> /\ work = "route"
      BY <1>1, <2>1 DEF DrillStep, Control
    <2>3. CASE Raise
      BY <1>1, <1>2, <1>31, <2>1, <2>2, <2>3 DEF FlowFits, Flow, Working, Goto, Common, Closing, DrillNames, SecretStages,
         HostFinally, CacheStages, PhaseStages
    <2>4. CASE pc' \in {"sec_prepare", NextInDrill(stage)} /\ UNCHANGED absent
      <3>1. NextInDrill(stage) \in DrillNames
        BY DrillGoes
      <3>2. QED
        BY <1>1, <1>2, <2>1, <2>2, <2>4, <3>1 DEF FlowFits, Flow, Working, Locals, Goto, Common, Closing, DrillNames,
           SecretStages, HostFinally, CacheStages, PhaseStages
    <2>5. QED
      BY <2>1, <2>3, <2>4 DEF DrillStep, HostStep, Goto
  <1>14. CASE AnySample
    <2>1. PICK stage \in DrillNames, retries \in BOOLEAN : Sample(stage, retries)
      BY <1>14 DEF AnySample
    <2>2. pc = stage /\ UNCHANGED secret /\ work = "route"
      BY <1>1, <2>1 DEF Sample, Control
    <2>3. CASE Raise /\ UNCHANGED fl
      BY <1>1, <1>2, <1>31, <2>1, <2>2, <2>3 DEF FlowFits, Flow, Working, Goto, Common, Closing, DrillNames, SecretStages,
         HostFinally, CacheStages, PhaseStages
    <2>4. CASE stage # "monitor" /\ pc' = NextInDrill(stage) /\ UNCHANGED <<fl, absent>>
      <3>1. NextInDrill(stage) \in DrillNames
        BY <2>4, DrillGoes
      <3>2. QED
        BY <1>1, <1>2, <2>1, <2>2, <2>4, <3>1 DEF FlowFits, Flow, Working, Locals, Goto, Common, Closing, DrillNames,
           SecretStages, HostFinally, CacheStages, PhaseStages
    <2>5. CASE pc' = "fin_registry" /\ fl' = [fl EXCEPT !.pass = TRUE] /\ UNCHANGED absent
      BY <1>1, <1>2, <2>1, <2>2, <2>5 DEF FlowFits, Flow, Working, Locals, Goto, Common, Closing, DrillNames, SecretStages,
         HostFinally, CacheStages, PhaseStages
    <2>6. CASE UNCHANGED <<pc, fl, absent>>
      BY <1>1, <1>2, <2>1, <2>2, <2>6 DEF FlowFits, Flow, Working
    <2>7. QED
      BY <2>1, <2>3, <2>4, <2>5, <2>6 DEF Sample, Goto
  <1>15. CASE Warm
    <2>1. pc = "warm" /\ UNCHANGED <<work, secret>> /\ work = "cache"
      BY <1>1, <1>15 DEF Warm, Control, CacheStages
    <2>2. CASE Raise /\ fl' = [fl EXCEPT !.failed = TRUE]
      BY <1>1, <1>2, <1>31, <2>1, <2>2 DEF FlowFits, Flow, Working, Locals, Goto, Common, Closing, DrillNames,
         SecretStages, HostFinally, CacheStages, PhaseStages
    <2>3. CASE pc' = "delete" /\ absent' = {} /\ fl' = [fl EXCEPT !.warmed = TRUE]
      BY <1>1, <1>2, <2>1, <2>3 DEF FlowFits, Flow, Working, Locals, Goto, Common, Closing, DrillNames, SecretStages,
         HostFinally, CacheStages, PhaseStages
    <2>4. QED
      BY <1>15, <2>2, <2>3 DEF Warm, Goto
  <1>16. CASE Policy
    <2>1. pc = "policy" /\ UNCHANGED <<work, secret>> /\ work = "cache"
      BY <1>1, <1>16 DEF Policy, Control, CacheStages
    <2>2. CASE Raise /\ fl' = [fl EXCEPT !.failed = TRUE]
      BY <1>1, <1>2, <1>31, <2>1, <2>2 DEF FlowFits, Flow, Working, Locals, Goto, Common, Closing, DrillNames,
         SecretStages, HostFinally, CacheStages, PhaseStages
    <2>3. CASE pc' = "protected" /\ UNCHANGED absent /\ fl' = [fl EXCEPT !.pass = TRUE]
      BY <1>1, <1>2, <1>3, <2>1, <2>3 DEF FlowFits, Flow, Working, Locals, Goto, Common, Closing, DrillNames, SecretStages,
         HostFinally, CacheStages, PhaseStages
    <2>4. QED
      BY <1>16, <2>2, <2>3 DEF Policy, Goto
  <1>17. CASE PhaseCreate
    BY <1>1, <1>2, <1>17 DEF PhaseCreate, evidence, Control, FlowFits, Flow, Working, Locals, Goto, Common, Closing,
       DrillNames, SecretStages, HostFinally, CacheStages, PhaseStages
  <1>18. CASE PhaseWork
    BY <1>1, <1>2, <1>18 DEF PhaseWork, evidence, Control, FlowFits, Flow, Working, Locals, Goto, Common, Closing,
       DrillNames, SecretStages, HostFinally, CacheStages, PhaseStages
  <1>19. CASE PhaseDelete
    BY <1>1, <1>2, <1>19 DEF PhaseDelete, evidence, Control, FlowFits, Flow, Working, Locals, Goto, Common, Closing,
       DrillNames, SecretStages, HostFinally, CacheStages, PhaseStages
  <1>20. CASE PhaseAbsent
    BY <1>1, <1>2, <1>20 DEF PhaseAbsent, evidence, Control, FlowFits, Flow, Working, Locals, Goto, Common, Closing,
       DrillNames, SecretStages, HostFinally, CacheStages, PhaseStages
  <1>21. CASE FinRegistry
    <2>1. pc = "fin_registry" /\ pc' = "fin_stop" /\ UNCHANGED <<secret, absent>> /\ fl' \in {fl, [fl EXCEPT !.remote = TRUE]}
      BY <1>21 DEF FinRegistry, HostStep, evidence, Goto
    <2>2. QED
      BY <1>1, <1>2, <2>1 DEF FlowFits, Flow, Working, Locals, Goto, Common, Closing, DrillNames, SecretStages,
         HostFinally, CacheStages, PhaseStages
  <1>22. CASE FinHost("fin_stop", "fin_cleanup") \/ FinHost("fin_cleanup", "delete")
    BY <1>1, <1>2, <1>22 DEF FinHost, evidence, FlowFits, Flow, Working, Locals, Goto, Common, Closing, DrillNames,
       SecretStages, HostFinally, CacheStages, PhaseStages
  <1>23. CASE CleanupDelete
    BY <1>1, <1>2, <1>23 DEF CleanupDelete, evidence, FlowFits, Flow, Working, Locals, Goto, Common, Closing, DrillNames,
       SecretStages, HostFinally, CacheStages, PhaseStages
  <1>24. CASE CleanupVerify
    <2>1. pc = "verify" /\ UNCHANGED secret /\ pc' \in {"verify", "delete", "policy", "repo_delete", "protected"}
      BY <1>24 DEF CleanupVerify, Goto, AfterVerify
    <2>2. k \in 1..Len(VerifyList)
      <3>1. PICK n : n = Len(VerifyList)
        OBVIOUS
      <3>2. n \in 1..16 /\ k \in 1..16 /\ k <= n
        BY <1>1, <2>1, <3>1, PlanVerifies DEF Control
      <3>3. QED
        BY <3>1, <3>2
    <2>3. absent' \subseteq 1..Len(VerifyList)
      BY <1>1, <1>24, <2>2 DEF CleanupVerify
    <2>40. \A j \in absent' : j \in absent \/ VerifyList[j] \notin cloud
      BY <1>24 DEF CleanupVerify
    <2>4. \E b \in BOOLEAN : fl' \in {fl, [fl EXCEPT !.failed = TRUE], [fl EXCEPT !.remote = b]}
      BY <1>1, <1>24 DEF CleanupVerify
    <2>5. QED
      <3>1. PICK b \in BOOLEAN : fl' \in {fl, [fl EXCEPT !.failed = TRUE], [fl EXCEPT !.remote = b]}
        BY <2>4
      <3>2. fl' \in Locals /\ fl'.warmed = fl.warmed /\ fl'.pass = fl.pass /\ fl'.err = fl.err
        BY <1>1, <3>1 DEF Locals
      <3>3. /\ pc' \in {"policy", "repo_delete"} => work = "cache"
            /\ work = "cache" => ~fl.pass
        BY <1>24, <2>1 DEF CleanupVerify, Goto, AfterVerify, CloudInv, PassFits
      <3>4. QED
        BY <1>1, <1>2, <2>1, <2>3, <2>40, <3>2, <3>3 DEF FlowFits, Flow, Working, Goto, Common, Closing, DrillNames,
           SecretStages, HostFinally, CacheStages, PhaseStages
  <1>25. CASE RepoDelete
    BY <1>1, <1>2, <1>25 DEF RepoDelete, evidence, FlowFits, Flow, Working, Locals, Goto, Common, Closing, DrillNames,
       SecretStages, HostFinally, CacheStages, PhaseStages
  <1>26. CASE RepoCheck
    BY <1>1, <1>2, <1>26 DEF RepoCheck, evidence, FlowFits, Flow, Working, Locals, Goto, Common, Closing, DrillNames,
       SecretStages, HostFinally, CacheStages, PhaseStages
  <1>27. CASE \E running \in BOOLEAN : Protected(running)
    BY <1>1, <1>2, <1>27 DEF Protected, evidence, FlowFits, Flow, Working, Locals, Goto, Common, Closing, DrillNames,
       SecretStages, HostFinally, CacheStages, PhaseStages
  <1>28. CASE WriteReport \/ Crash
    BY <1>1, <1>2, <1>28 DEF WriteReport, Crash, evidence, FlowFits, Flow, Working, Locals, Goto, Common, Closing,
       DrillNames, SecretStages, HostFinally, CacheStages, PhaseStages
  <1>29. CASE InterruptCleanup
    <2>1. /\ pc' = "cut" /\ fl' = fl /\ secret' = secret /\ work' = work
          /\ absent' = {} \/ absent' = absent
          /\ pc \in HostFinally \cup Closing /\ pc \notin {"sec_clean", "done"}
      BY <1>29 DEF InterruptCleanup, Goto, HostFinally, Closing
    <2>2. ~Working' /\ pc' \notin PhaseStages \cup HostFinally /\ pc' \in Closing
      BY <2>1 DEF Working, PhaseStages, HostFinally, Closing, Common, DrillNames, SecretStages, CacheStages
    <2>3. FlowFits'
      BY <1>1, <2>1, <2>2 DEF FlowFits, Locals
    <2>4. QED
      BY <1>1, <1>2, <2>1, <2>2, <2>3 DEF Flow
  <1>30. QED
    BY EveryAction, <1>4, <1>5, <1>6, <1>7, <1>8, <1>9, <1>10, <1>11, <1>12, <1>13, <1>14, <1>15, <1>16, <1>17, <1>18,
       <1>19, <1>20, <1>21,
       <1>22, <1>23, <1>24, <1>25, <1>26, <1>27, <1>28, <1>29 DEF Apart, OnHost, Creates, Deletes

-----------------------------------------------------------------------------
\* The provider, and what flies.

\* Everything a run may create is a pair, and comes with nothing else.
LEMMA EverythingParts ==
  ASSUME Plans, NEW r \in Everything
  PROVE  /\ r = In(Kind(r), r[2]) /\ With(r) \subseteq Everything /\ r \in With(r)
         /\ Kind(r) = "nat" => r[2] \in RegionSet
  <1>1. CASE work = "route"
    BY <1>1 DEF Everything, With, Res, In, Kind
  <1>2. CASE work = "cache"
    BY <1>2 DEF Everything, With, Res, In, Kind
  <1>3. CASE work = "fleet"
    BY <1>3 DEF Everything, With, Res, In, Kind
  <1>4. QED
    BY <1>1, <1>2, <1>3 DEF Plans

\* The host of the phase is one of the fleet.
LEMMA HostIsIn ==
  ASSUME Control, work = "fleet"
  PROVE  PhaseHost \in Everything /\ Kind(PhaseHost) = "instance" /\ PhaseHost = In("instance", PhaseHost[2])
  <1>1. phase \in 1..4
    BY DEF Control
  <1>2. Profiles[phase] \in ProfileSet
    BY <1>1 DEF Profiles, ProfileSet
  <1>3. QED
    BY <1>2 DEF PhaseHost, Everything, In, Kind

\* Nothing flies while the run works, so a create finds a quiet provider.
LEMMA CleanStep ==
  ASSUME CloudInv, CloudNext
  PROVE  Working' \/ fl'.warmed \/ fl'.pass => inflight' = {} /\ late' = {}
  <1>1. /\ Working \/ fl.warmed \/ fl.pass => inflight = {} /\ late = {}
        /\ Plans /\ Control /\ FlowFits /\ fl \in Locals
    BY PlansHold DEF CloudInv, WorkClean, Tally
  <1>2. Flow
    BY FlowStep
  <1>3. CASE UNCHANGED <<inflight, late>>
    BY <1>1, <1>2, <1>3 DEF Flow
  <1>4. CASE Create /\ ~UNCHANGED <<inflight, late>>
    <2>1. Raise /\ fl' = [fl EXCEPT !.failed = TRUE] /\ pc = "create"
      BY <1>4 DEF Create, CreateOk
    <2>2. ~Working'
      <3>1. pc' \in {"protected", "fin_registry", "repo_delete", "delete"}
        BY <1>1, <2>1, RaiseSteps
      <3>2. QED
        BY <3>1 DEF Working, DrillNames, SecretStages, PhaseStages
    <2>3. ~fl'.warmed /\ ~fl'.pass
      BY <1>1, <2>1 DEF FlowFits, Locals
    <2>4. QED
      BY <2>2, <2>3
  <1>5. CASE PhaseCreate /\ ~UNCHANGED <<inflight, late>>
    <2>1. pc' = "phase_delete" /\ fl' = [fl EXCEPT !.failed = TRUE] /\ pc = "phase_create"
      BY <1>5 DEF PhaseCreate, CreateOk, Goto
    <2>2. fl'.failed /\ fl'.warmed = fl.warmed /\ fl'.pass = fl.pass
      BY <1>1, <2>1 DEF Locals
    <2>3. ~Working'
      BY <2>1, <2>2 DEF Working, DrillNames, SecretStages
    <2>4. work = "fleet"
      BY <1>1, <2>1 DEF Control, PhaseStages
    <2>5. QED
      BY <1>1, <2>2, <2>3, <2>4 DEF FlowFits
  <1>6. CASE \E r \in inflight : Land(r)
    <2>1. inflight # {} /\ UNCHANGED <<pc, fl>>
      BY <1>6 DEF Land
    <2>2. QED
      BY <1>1, <2>1 DEF Working
  <1>7. CASE Apart
    BY <1>3, <1>7, ApartSame
  <1>8. CASE OnHost
    BY <1>3, <1>8, OnHostEffect
  <1>9. CASE Deletes
    BY <1>1, <1>3, <1>9, DeletesEffect
  <1>10. QED
    BY <1>3, <1>4, <1>5, <1>6, <1>7, <1>8, <1>9, EveryAction DEF Creates

\* While the creates run, what exists is what the commands so far have created.
LEMMA BegunStep ==
  ASSUME CloudInv, CloudNext
  PROVE  /\ pc' \in {"load", "preflight"} => cloud' = {}
         /\ pc' = "create" => \A r \in cloud' : \E j \in 1..(k' - 1) : r \in With(CreateList'[j])
  <1>1. /\ Plans /\ Control /\ WorkClean
    BY PlansHold DEF CloudInv
  <1>2. Flow
    BY FlowStep
  <1>3. CreateList' = CreateList
    BY SamePlan
  <1>4. Creates => Create \/ PhaseCreate \/ inflight # {}
    BY DEF Creates
  <1>5. pc \in {"load", "preflight", "create"} => inflight = {}
    BY <1>1 DEF WorkClean, Working
  <1>6. Deletes => cloud' \subseteq cloud
    BY <1>1, DeletesEffect
  <1>7. pc \in {"load", "preflight"} => cloud' = {}
    <2>1. SUFFICES ASSUME pc \in {"load", "preflight"} PROVE cloud' = {}
      OBVIOUS
    <2>2. cloud = {} /\ ~Creates
      BY <1>1, <1>4, <1>5, <2>1 DEF WorkClean, Create, PhaseCreate
    <2>3. ~OnHost
      <3>1. pc \notin DrillNames \cup SecretStages \cup HostFinally
        BY <2>1 DEF DrillNames, SecretStages, HostFinally
      <3>2. QED
        BY <3>1, OnHostEffect
    <2>4. QED
      BY <1>6, <2>2, <2>3, ApartSame, EveryAction
  <1>8. pc = "create" /\ pc' = "create" => \A r \in cloud' : \E j \in 1..(k' - 1) : r \in With(CreateList[j])
    <2>1. SUFFICES ASSUME pc = "create", pc' = "create" PROVE \A r \in cloud' : \E j \in 1..(k' - 1) : r \in With(CreateList[j])
      OBVIOUS
    <2>2. k \in 1..16 /\ \A r \in cloud : \E j \in 1..(k - 1) : r \in With(CreateList[j])
      BY <1>1, <2>1 DEF Control, WorkClean
    <2>3. ~OnHost
      <3>1. pc \notin DrillNames \cup SecretStages \cup HostFinally
        BY <2>1 DEF DrillNames, SecretStages, HostFinally
      <3>2. QED
        BY <3>1, OnHostEffect
    <2>4. ~Apart
      BY <2>1 DEF Apart, LoadPlan, Preflight, Await, AwaitBoot, Warm, Policy, PhaseWork, PhaseAbsent, CleanupVerify, RepoCheck,
         Protected, WriteReport, Crash, InterruptCleanup, Goto
    <2>5. CASE Deletes
      <3>1. k' = k
        BY <2>1, <2>5 DEF Deletes, PhaseDelete, CleanupDelete, RepoDelete, Expire
      <3>2. QED
        BY <1>6, <2>2, <2>5, <3>1
    <2>6. CASE Creates
      <3>1. Create
        BY <1>4, <1>5, <2>1, <2>6 DEF PhaseCreate
      <3>2. ~Raise
        BY <1>1, <2>1, RaiseSteps
      <3>3. k' = k + 1 /\ cloud' = cloud \cup With(CreateList[k])
        BY <2>1, <3>1, <3>2 DEF Create, CreateOk, Goto
      <3>4. QED
        BY <2>2, <3>3
    <2>7. QED
      BY <2>3, <2>4, <2>5, <2>6, EveryAction
  <1>9. QED
    BY <1>2, <1>3, <1>7, <1>8 DEF Flow

\* A check passes over what is not there, and nothing comes back but late.
LEMMA SeenStep ==
  ASSUME CloudInv, CloudNext
  PROVE  Seen'
  <1>1. Plans /\ Control /\ WorkClean /\ FlowFits /\ Seen
    BY PlansHold DEF CloudInv
  <1>2. VerifyList' = VerifyList
    BY SamePlan
  <1>3. \A j \in absent' : j \in absent \/ VerifyList[j] \notin cloud
    BY FlowStep DEF Flow
  <1>4. CASE cloud' \subseteq cloud /\ late' = late
    BY <1>1, <1>2, <1>3, <1>4 DEF Seen
  <1>5. CASE Create \/ PhaseCreate
    <2>1. absent = {}
      BY <1>1, <1>5 DEF FlowFits, Create, PhaseCreate, Working, PhaseStages
    <2>2. absent' = {}
      <3>1. CASE Create
        <4>1. Raise => absent' \in {absent, {}}
          BY <1>1, RaiseSteps
        <4>2. QED
          BY <2>1, <3>1, <4>1 DEF Create
      <3>2. CASE PhaseCreate
        BY <2>1, <3>2 DEF PhaseCreate, evidence
      <3>3. QED
        BY <1>5, <3>1, <3>2
    <2>3. QED
      BY <2>2 DEF Seen
  <1>6. ASSUME NEW r \in inflight, Land(r) PROVE Seen'
    <2>1. absent' = absent
      BY <1>6 DEF Land, evidence
    <2>2. \/ UNCHANGED <<cloud, late>>
          \/ /\ cloud' = cloud \cup With(r)
             /\ late' = late \cup {x \in With(r) : \E j \in 1..Len(VerifyList) :
                                      VerifyList[j] = x /\ (j \in absent \/ pc \in {"report", "cut", "done"})}
      BY <1>6 DEF Land
    <2>3. absent \subseteq 1..Len(VerifyList)
      BY DEF CloudInv, Tally
    <2>4. QED
      BY <1>1, <1>2, <2>1, <2>2, <2>3 DEF Seen
  <1>7. Apart \/ OnHost => UNCHANGED <<cloud, late>>
    BY ApartSame, OnHostEffect
  <1>8. Deletes => cloud' \subseteq cloud /\ late' = late
    BY <1>1, DeletesEffect
  <1>9. QED
    BY <1>4, <1>5, <1>6, <1>7, <1>8, EveryAction DEF Creates

\* Provider: what exists and what flies fit together.
DisksPaired(c) == \A r \in Everything : Kind(r) = "instance" => (In("disk", r[2]) \in c <=> r \in c)
Nats(c, f, l) ==
  \A g \in RegionSet :
    /\ In("nat", g) \in c => In("router", g) \in c
    /\ In("router", g) \in f \cup l => In("nat", g) \notin c \cup f

\* What exists and what flies, by parts.
LEMMA ThingsAre ==
  /\ Things <=> /\ cloud \subseteq Everything /\ inflight \subseteq Everything
                /\ \A r \in inflight : Kind(r) # "disk"
                /\ DisksPaired(cloud) /\ Nats(cloud, inflight, late)
  /\ Things' <=> /\ cloud' \subseteq Everything' /\ inflight' \subseteq Everything'
                 /\ \A r \in inflight' : Kind(r) # "disk"
                 /\ (\A r \in Everything' : Kind(r) = "instance" => (In("disk", r[2]) \in cloud' <=> r \in cloud'))
                 /\ Nats(cloud', inflight', late')
  BY DEF Things, DisksPaired, Nats

\* A create keeps every instance with its disk.
LEMMA AddsPairs ==
  ASSUME Plans, NEW c, DisksPaired(c), NEW r \in Everything, Kind(r) # "disk"
  PROVE  DisksPaired(c \cup With(r))
  <1>1. SUFFICES ASSUME NEW x \in Everything, Kind(x) = "instance"
                 PROVE  In("disk", x[2]) \in c \cup With(r) <=> x \in c \cup With(r)
    BY DEF DisksPaired
  <1>2. x = In("instance", x[2]) /\ r = In(Kind(r), r[2])
    BY <1>1, EverythingParts
  <1>3. In("disk", x[2]) \in With(r) <=> x \in With(r)
    <2>1. CASE Kind(r) = "instance"
      BY <1>2, <2>1 DEF With, In
    <2>2. CASE Kind(r) # "instance"
      <3>1. With(r) = {r}
        BY <2>2 DEF With
      <3>2. x # r /\ In("disk", x[2]) # r
        BY <1>1, <2>2 DEF In, Kind
      <3>3. QED
        BY <3>1, <3>2
    <2>3. QED
      BY <2>1, <2>2
  <1>4. In("disk", x[2]) \in c <=> x \in c
    BY <1>1 DEF DisksPaired
  <1>5. QED
    BY <1>3, <1>4

\* A delete does.
LEMMA TakesPairs ==
  ASSUME Plans, NEW c, DisksPaired(c), NEW r \in Everything, Kind(r) # "disk"
  PROVE  DisksPaired(c \ Gone(r))
  <1>1. SUFFICES ASSUME NEW x \in Everything, Kind(x) = "instance"
                 PROVE  In("disk", x[2]) \in c \ Gone(r) <=> x \in c \ Gone(r)
    BY DEF DisksPaired
  <1>2. x = In("instance", x[2]) /\ r = In(Kind(r), r[2])
    BY <1>1, EverythingParts
  <1>3. In("disk", x[2]) \in Gone(r) <=> x \in Gone(r)
    <2>1. CASE Kind(r) = "instance"
      <3>1. Gone(r) = {r, In("disk", r[2])}
        BY <2>1, GoneParts
      <3>2. QED
        BY <1>2, <2>1, <3>1 DEF In
    <2>2. CASE Kind(r) # "instance"
      <3>1. \A y \in Gone(r) : y = r \/ y = In("nat", r[2])
        BY <2>2, GoneParts
      <3>2. x # r /\ In("disk", x[2]) # r /\ x # In("nat", r[2]) /\ In("disk", x[2]) # In("nat", r[2])
        BY <1>1, <2>2 DEF In, Kind
      <3>3. QED
        BY <3>1, <3>2
    <2>3. QED
      BY <2>1, <2>2
  <1>4. In("disk", x[2]) \in c <=> x \in c
    BY <1>1 DEF DisksPaired
  <1>5. QED
    BY <1>3, <1>4

\* The parts of what comes with a resource, by kind.
LEMMA WithKinds ==
  ASSUME Plans, NEW r \in Everything, NEW g
  PROVE  /\ In("nat", g) \in With(r) => r = In("nat", g)
         /\ In("router", g) \in With(r) => r = In("router", g)
         /\ r = In("nat", g) => In("router", g) \in Needs(r, FleetRegions)
  <1>1. r = In(Kind(r), r[2])
    BY EverythingParts
  <1>2. \A x \in With(r) : x = r \/ x = In("disk", r[2])
    BY DEF With
  <1>3. In("nat", g) # In("disk", r[2]) /\ In("router", g) # In("disk", r[2])
    BY DEF In
  <1>4. ASSUME r = In("nat", g) PROVE In("router", g) \in Needs(r, FleetRegions)
    <2>1. Kind(r) = "nat" /\ r[2] = g
      BY <1>4 DEF In, Kind
    <2>2. r # Res("instance")
      BY <1>4 DEF In, Res
    <2>3. QED
      BY <2>1, <2>2 DEF Needs
  <1>5. QED
    BY <1>2, <1>3, <1>4

\* A create needs its router first, so every NAT keeps its router.
LEMMA GrowsNats ==
  ASSUME Plans, NEW c, NEW r \in Everything, Nats(c, {}, {}), Needs(r, FleetRegions) \subseteq c
  PROVE  Nats(c \cup With(r), {}, {})
  <1>1. SUFFICES ASSUME NEW g \in RegionSet, In("nat", g) \in c \cup With(r)
                 PROVE  In("router", g) \in c
    BY DEF Nats
  <1>2. CASE In("nat", g) \in c
    BY <1>2 DEF Nats
  <1>3. CASE In("nat", g) \in With(r)
    BY <1>3, WithKinds
  <1>4. QED
    BY <1>1, <1>2, <1>3

\* A create of the run.
LEMMA MadeThings ==
  ASSUME Control, Plans, Things, inflight = {}, late = {}, NEW r \in Everything, Kind(r) # "disk", Made(r),
         \A g \in RegionSet : r = In("router", g) => In("nat", g) \notin cloud, Everything' = Everything
  PROVE  Things'
  <1>1. cloud \subseteq Everything /\ DisksPaired(cloud) /\ Nats(cloud, {}, {})
    BY ThingsAre
  <1>2. late' = {}
    BY DEF Made
  <1>3. CASE UNCHANGED <<cloud, inflight>>
    BY <1>1, <1>2, <1>3 DEF Things, DisksPaired, Nats
  <1>4. CASE Needs(r, FleetRegions) \subseteq cloud /\ cloud' = cloud \cup With(r) /\ UNCHANGED inflight
    <2>1. cloud' \subseteq Everything
      BY <1>1, <1>4, EverythingParts
    <2>2. DisksPaired(cloud \cup With(r)) /\ Nats(cloud \cup With(r), {}, {})
      BY <1>1, <1>4, AddsPairs, GrowsNats
    <2>3. QED
      BY <1>2, <1>4, <2>1, <2>2 DEF Things, DisksPaired, Nats
  <1>5. CASE inflight' = inflight \cup {r} /\ UNCHANGED cloud
    <2>1. inflight' = {r}
      BY <1>5
    <2>2. ASSUME NEW g \in RegionSet, In("router", g) \in inflight' \cup late'
          PROVE  In("nat", g) \notin cloud' \cup inflight'
      <3>1. r = In("router", g)
        BY <1>2, <2>1, <2>2
      <3>2. In("nat", g) # r
        BY <3>1 DEF In
      <3>3. QED
        BY <1>5, <2>1, <3>1, <3>2
    <2>3. QED
      BY <1>1, <1>5, <2>1, <2>2 DEF Things, DisksPaired, Nats
  <1>6. QED
    BY <1>3, <1>4, <1>5 DEF Made

\* What lands late finds what it needs, or nothing that depends on it.
LEMMA LandThings ==
  ASSUME Control, Plans, Things, NEW r \in inflight, Land(r), Everything' = Everything
  PROVE  Things'
  <1>1. /\ cloud \subseteq Everything /\ inflight \subseteq Everything /\ DisksPaired(cloud) /\ Nats(cloud, inflight, late)
        /\ \A x \in inflight : Kind(x) # "disk"
    BY ThingsAre
  <1>2. r \in Everything /\ Kind(r) # "disk" /\ inflight' = inflight \ {r}
    BY <1>1 DEF Land
  <1>3. CASE UNCHANGED <<cloud, late>>
    BY <1>1, <1>2, <1>3 DEF Things, DisksPaired, Nats
  <1>4. CASE Needs(r, FleetRegions) \subseteq cloud /\ cloud' = cloud \cup With(r) /\ late' \subseteq late \cup With(r)
    <2>1. cloud' \subseteq Everything
      BY <1>1, <1>2, <1>4, EverythingParts
    <2>2. DisksPaired(cloud \cup With(r))
      BY <1>1, <1>2, AddsPairs
    <2>3. ASSUME NEW g \in RegionSet, In("nat", g) \in cloud' PROVE In("router", g) \in cloud'
      <3>1. CASE In("nat", g) \in cloud
        BY <1>1, <1>4, <3>1 DEF Nats
      <3>2. CASE In("nat", g) \in With(r)
        BY <1>2, <1>4, <3>2, WithKinds
      <3>3. QED
        BY <1>4, <2>3, <3>1, <3>2
    <2>4. ASSUME NEW g \in RegionSet, In("router", g) \in inflight' \cup late'
          PROVE  In("nat", g) \notin cloud' \cup inflight'
      <3>1. In("router", g) \in inflight \cup late
        BY <1>2, <1>4, <2>4, WithKinds
      <3>2. In("nat", g) \notin cloud \cup inflight
        BY <1>1, <3>1 DEF Nats
      <3>3. In("nat", g) \notin With(r)
        BY <1>2, <3>2, WithKinds
      <3>4. QED
        BY <1>2, <1>4, <3>2, <3>3
    <2>5. QED
      BY <1>1, <1>2, <1>4, <2>1, <2>2, <2>3, <2>4 DEF Things, DisksPaired
  <1>5. QED
    BY <1>3, <1>4 DEF Land

\* A delete takes along what cannot be without it.
LEMMA TakesThings ==
  ASSUME Plans, Things, NEW r \in cloud, Kind(r) # "disk", cloud' = cloud \ Gone(r), UNCHANGED <<inflight, late>>,
         Everything' = Everything
  PROVE  Things'
  <1>1. /\ cloud \subseteq Everything /\ inflight \subseteq Everything /\ DisksPaired(cloud) /\ Nats(cloud, inflight, late)
        /\ \A x \in inflight : Kind(x) # "disk"
    BY ThingsAre
  <1>2. DisksPaired(cloud \ Gone(r))
    BY <1>1, TakesPairs
  <1>3. ASSUME NEW g \in RegionSet, In("nat", g) \in cloud' PROVE In("router", g) \in cloud'
    <2>1. In("nat", g) \in cloud /\ In("nat", g) \notin Gone(r)
      BY <1>3
    <2>2. In("router", g) \in cloud
      BY <1>1, <2>1 DEF Nats
    <2>3. In("router", g) \notin Gone(r)
      <3>1. SUFFICES ASSUME In("router", g) \in Gone(r) PROVE FALSE
        OBVIOUS
      <3>2. In("router", g) # In("disk", r[2]) /\ In("router", g) # In("nat", r[2])
        BY DEF In
      <3>3. r = In("router", g)
        BY <3>1, <3>2, GoneParts
      <3>4. Kind(r) = "router" /\ r[2] = g
        BY <3>3 DEF In, Kind
      <3>5. QED
        BY <2>1, <3>4, GoneParts
    <2>4. QED
      BY <2>2, <2>3
  <1>4. QED
    BY <1>1, <1>2, <1>3 DEF Things, DisksPaired, Nats

\* Every step leaves what exists and what flies fit together.
LEMMA ThingsStep ==
  ASSUME CloudInv, CloudNext
  PROVE  Things'
  <1>1. Plans /\ Control /\ WorkClean /\ FlowFits /\ Things
    BY PlansHold DEF CloudInv
  <1>2. Everything' = Everything
    BY SamePlan
  <1>3. CASE UNCHANGED <<cloud, inflight, late>>
    BY <1>1, <1>2, <1>3 DEF Things
  <1>4. CASE Create /\ Made(CreateList[k])
    <2>1. pc = "create" /\ inflight = {} /\ late = {}
      BY <1>1, <1>4 DEF Create, WorkClean, Working
    <2>2. PICK n, r : n = Len(CreateList) /\ r = CreateList[k]
      OBVIOUS
    <2>3. k \in 1..n
      <3>1. n \in 1..16
        BY <1>1, <2>2, PlanCreates
      <3>2. QED
        BY <1>1, <2>1, <2>2, <3>1 DEF Control
    <2>4. r \in Everything /\ Kind(r) # "disk"
      BY <1>1, <2>2, <2>3, PlanCreates
    <2>5. ASSUME NEW g \in RegionSet, r = In("router", g) PROVE In("nat", g) \notin cloud
      <3>1. SUFFICES ASSUME In("nat", g) \in cloud PROVE FALSE
        OBVIOUS
      <3>2. PICK j \in 1..(k - 1) : In("nat", g) \in With(CreateList[j])
        BY <1>1, <2>1, <3>1 DEF WorkClean
      <3>3. QED
        BY <1>1, <2>2, <2>3, <2>5, <3>2, PlanCreates
    <2>6. Made(r)
      BY <1>4, <2>2
    <2>7. QED
      BY <1>1, <1>2, <2>1, <2>4, <2>5, <2>6, MadeThings
  <1>5. CASE PhaseCreate /\ Made(PhaseHost)
    <2>1. pc = "phase_create" /\ work = "fleet"
      BY <1>1, <1>5 DEF PhaseCreate, Control, PhaseStages
    <2>2. inflight = {} /\ late = {}
      BY <1>1, <2>1 DEF WorkClean, Working, FlowFits, PhaseStages
    <2>3. PICK r : r = PhaseHost
      OBVIOUS
    <2>4. r \in Everything /\ Kind(r) = "instance" /\ r = In("instance", r[2]) /\ Made(r)
      BY <1>1, <1>5, <2>1, <2>3, HostIsIn
    <2>5. \A g \in RegionSet : r # In("router", g)
      BY <2>4 DEF In, Kind
    <2>6. QED
      BY <1>1, <1>2, <2>2, <2>4, <2>5, MadeThings
  <1>6. CASE \E r \in inflight : Land(r)
    BY <1>1, <1>2, <1>6, LandThings
  <1>7. CASE Deletes
    BY <1>1, <1>2, <1>3, <1>7, DeletesEffect, TakesThings
  <1>8. Apart \/ OnHost => UNCHANGED <<cloud, inflight, late>>
    BY ApartSame, OnHostEffect
  <1>9. QED
    BY <1>3, <1>4, <1>5, <1>6, <1>7, <1>8, EveryAction, CreatesEffect

-----------------------------------------------------------------------------
\* The hosts of the fleet and the verdict.

\* A phase creates its own host, after that of the phase before is gone.
LEMMA HostsStep ==
  ASSUME CloudInv, CloudNext
  PROVE  HostsFit'
  <1>1. Plans /\ Control /\ WorkClean /\ FlowFits /\ HostsFit
    BY PlansHold DEF CloudInv
  <1>2. work' = work
    BY SamePlan
  <1>3. Flow
    BY FlowStep
  <1>4. SUFFICES ASSUME work = "fleet" PROVE HostsFit'
    BY <1>2 DEF HostsFit
  <1>5. /\ \A r \in cloud \cup inflight : Kind(r) = "instance" => r = PhaseHost
        /\ pc = "phase_create" => PhaseHost \notin cloud
        /\ pc = "create" => Instances = {}
    BY <1>1, <1>4 DEF HostsFit
  <1>6. Kind(PhaseHost) = "instance" /\ \A y : Kind(In("disk", y)) # "instance"
    BY <1>1, <1>4, HostIsIn DEF In, Kind
  <1>7. CASE Apart
    <2>1. UNCHANGED <<cloud, inflight>>
      BY <1>7, ApartSame
    <2>2. pc' = "create" => Instances' = {}
      <3>1. pc = "preflight" => cloud = {}
        BY <1>1 DEF WorkClean
      <3>2. QED
        BY <1>3, <1>5, <2>1, <3>1 DEF Flow, Instances
    <2>3. CASE phase' = phase /\ pc' # "phase_create"
      BY <1>4, <1>5, <2>1, <2>2, <2>3 DEF HostsFit, PhaseHost
    <2>4. CASE PhaseAbsent /\ pc' = "phase_create"
      <3>1. pc = "phase_verify" /\ ~fl.failed /\ {r \in cloud : r \in {PhaseVerify(Profiles[phase])[j] : j \in 1..2}} = {}
        BY <2>4 DEF PhaseAbsent, Goto
      <3>2. inflight = {}
        BY <1>1, <3>1 DEF WorkClean, Working, PhaseStages
      <3>3. PhaseHost \notin cloud
        <4>1. PhaseVerify(Profiles[phase])[1] = PhaseHost
          BY DEF PhaseVerify, PhaseHost
        <4>2. QED
          BY <3>1, <4>1
      <3>4. \A r \in cloud : Kind(r) # "instance"
        BY <1>5, <3>3
      <3>5. Kind(PhaseHost') = "instance"
        BY DEF PhaseHost, In, Kind
      <3>6. QED
        BY <2>1, <2>4, <3>2, <3>4, <3>5 DEF HostsFit
    <2>5. phase' = phase \/ PhaseAbsent
      BY <1>7 DEF Apart, LoadPlan, Preflight, Await, AwaitBoot, Warm, Policy, PhaseWork, CleanupVerify, RepoCheck,
         Protected, WriteReport, Crash, InterruptCleanup
    <2>6. pc' = "phase_create" => PhaseAbsent
      <3>1. Raise => pc' # "phase_create"
        BY <1>1, RaiseSteps
      <3>2. QED
        BY <1>7, <3>1 DEF Apart, LoadPlan, Preflight, Await, AwaitBoot, Warm, Policy, PhaseWork, CleanupVerify, RepoCheck,
         Protected, WriteReport, Crash, InterruptCleanup, Goto, AfterVerify
    <2>7. PhaseAbsent /\ pc' # "phase_create" => phase' = phase
      BY DEF PhaseAbsent, Goto
    <2>8. QED
      BY <2>3, <2>4, <2>5, <2>6, <2>7
  <1>8. ~OnHost
    BY <1>4, OnHostEffect
  <1>9. CASE Create /\ Made(CreateList[k])
    <2>1. pc = "create" /\ phase' = phase
      BY <1>9 DEF Create
    <2>2. PICK n, r : n = Len(CreateList) /\ r = CreateList[k]
      OBVIOUS
    <2>3. k \in 1..n
      <3>1. n \in 1..16
        BY <1>1, <2>2, PlanCreates
      <3>2. QED
        BY <1>1, <2>1, <2>2, <3>1 DEF Control
    <2>4. Kind(r) # "instance"
      BY <1>1, <1>4, <2>2, <2>3, PlanCreates
    <2>5. With(r) = {r}
      BY <2>4 DEF With
    <2>6. cloud' \subseteq cloud \cup {r} /\ inflight' \subseteq inflight \cup {r}
      BY <1>9, <2>2, <2>5 DEF Made
    <2>7. \A x \in cloud' : Kind(x) # "instance"
      BY <1>5, <2>1, <2>4, <2>6 DEF Instances
    <2>8. \A x \in inflight' : Kind(x) = "instance" => x = PhaseHost
      BY <1>5, <2>4, <2>6
    <2>9. PhaseHost' = PhaseHost
      BY <2>1 DEF PhaseHost
    <2>10. QED
      BY <1>6, <2>7, <2>8, <2>9 DEF HostsFit, Instances
  <1>10. CASE PhaseCreate /\ Made(PhaseHost)
    <2>1. phase' = phase /\ pc' \notin {"phase_create", "create"}
      BY <1>10 DEF PhaseCreate, Goto
    <2>2. \A x \in With(PhaseHost) : Kind(x) = "instance" => x = PhaseHost
      BY <1>6 DEF With
    <2>3. \A x \in cloud' \cup inflight' : x \in cloud \cup inflight \cup With(PhaseHost) \cup {PhaseHost}
      BY <1>10 DEF Made
    <2>4. PhaseHost' = PhaseHost
      BY <2>1 DEF PhaseHost
    <2>5. QED
      BY <1>5, <2>1, <2>2, <2>3, <2>4 DEF HostsFit
  <1>11. ASSUME NEW r \in inflight, Land(r) PROVE HostsFit'
    <2>1. UNCHANGED <<pc, phase>> /\ inflight' \subseteq inflight /\ cloud' \subseteq cloud \cup With(r)
      BY <1>11 DEF Land
    <2>2. pc \notin {"phase_create", "create"}
      BY <1>1, <1>11 DEF WorkClean, Working, FlowFits, PhaseStages
    <2>3. \A x \in With(r) : x = r \/ Kind(x) # "instance"
      BY <1>6 DEF With
    <2>4. PhaseHost' = PhaseHost
      BY <2>1 DEF PhaseHost
    <2>5. QED
      BY <1>5, <2>1, <2>2, <2>3, <2>4 DEF HostsFit
  <1>12. CASE Deletes
    <2>1. cloud' \subseteq cloud /\ inflight' = inflight
      BY <1>1, <1>12, DeletesEffect
    <2>2. phase' = phase /\ (pc' = pc \/ pc' \notin {"phase_create", "create"})
      BY <1>12 DEF Deletes, PhaseDelete, CleanupDelete, RepoDelete, Expire, Goto
    <2>3. PhaseHost' = PhaseHost
      BY <2>2 DEF PhaseHost
    <2>4. QED
      BY <1>5, <2>1, <2>2, <2>3 DEF HostsFit, Instances
  <1>13. QED
    BY <1>7, <1>8, <1>9, <1>10, <1>11, <1>12, EveryAction, CreatesEffect DEF Creates

\* The report is written once, at the end.
LEMMA ReportStep ==
  ASSUME CloudInv, CloudNext
  PROVE  report' # NoReport => WriteReport \/ (report # NoReport /\ pc = "done" /\ UNCHANGED <<report, pc, absent, fl>>)
  <1>1. CASE pc = "done"
    <2>1. ~Apart /\ ~Create /\ ~PhaseCreate /\ ~PhaseDelete /\ ~CleanupDelete /\ ~RepoDelete
      BY <1>1 DEF Apart, LoadPlan, Preflight, Await, AwaitBoot, Warm, Policy, PhaseWork, PhaseAbsent, CleanupVerify, RepoCheck,
         Protected, WriteReport, Crash, InterruptCleanup, Create, PhaseCreate, PhaseDelete, CleanupDelete, RepoDelete
    <2>2. ~OnHost
      <3>1. pc \notin DrillNames \cup SecretStages \cup HostFinally
        BY <1>1 DEF DrillNames, SecretStages, HostFinally
      <3>2. QED
        BY <3>1, OnHostEffect
    <2>3. (\E r \in Instances : Expire(r)) \/ (\E r \in inflight : Land(r))
      BY <2>1, <2>2, EveryAction DEF Creates, Deletes
    <2>4. QED
      BY <1>1, <2>3 DEF Expire, Land, evidence
  <1>2. CASE pc # "done"
    <2>1. report = NoReport
      BY <1>2 DEF PassFits, CloudInv
    <2>2. ~WriteReport => report' = report
      BY EveryAction DEF Apart, LoadPlan, Preflight, Await, AwaitBoot, Warm, Policy, PhaseWork, PhaseAbsent, CleanupVerify,
         RepoCheck,
         Protected, Crash, InterruptCleanup, Creates, Create, PhaseCreate, Land, Deletes, PhaseDelete, CleanupDelete,
         RepoDelete, Expire, OnHost, SecretPrepare, SecretUpload, SecretConsume, SecretClean, FinRegistry, FinHost, DrillSteps, DrillStep,
         AnySample, Sample, evidence
    <2>3. QED
      BY <2>1, <2>2
  <1>3. QED
    BY <1>1, <1>2

\* A pass is of a clean provider; the report says what the absence checks said.
LEMMA PassStep ==
  ASSUME CloudInv, CloudNext
  PROVE  PassFits'
  <1>1. Plans /\ Control /\ WorkClean /\ FlowFits /\ PassFits /\ fl \in Locals
    BY PlansHold DEF CloudInv, Tally
  <1>2. work' = work /\ VerifyList' = VerifyList
    BY SamePlan
  <1>3. Flow
    BY FlowStep
  <1>4. report' # NoReport => WriteReport \/ (report # NoReport /\ pc = "done" /\ UNCHANGED <<report, pc, absent, fl>>)
    BY ReportStep
  <1>5. report' # NoReport =>
          /\ pc' = "done" /\ (report'.allAbsent <=> AllAbsent')
          /\ report'.result = "passed" => AllAbsent' /\ (work' # "fleet" => fl'.pass)
    <2>1. CASE WriteReport
      <3>1. AllAbsent' <=> AllAbsent
        BY <1>2, <2>1 DEF WriteReport, AllAbsent
      <3>2. UNCHANGED <<fl, work>> /\ pc' = "done"
        BY <2>1 DEF WriteReport, Goto
      <3>3. report'.allAbsent <=> AllAbsent
        BY <2>1 DEF WriteReport
      <3>4. report'.result = "passed" =>
              CASE work = "route" -> pc = "report" /\ fl.pass /\ CredentialsRemoved /\ AllAbsent /\ (fl.preflight => fl.protected)
                [] work = "cache" -> fl.pass
                [] work = "fleet" -> ~fl.failed /\ AllAbsent
        BY <2>1 DEF WriteReport
      <3>5. work = "cache" /\ fl.pass => AllAbsent
        BY <1>1 DEF PassFits
      <3>6. report'.result = "passed" => AllAbsent /\ (work # "fleet" => fl.pass)
        <4>1. CASE work = "route"
          BY <3>4, <4>1
        <4>2. CASE work = "cache"
          BY <3>4, <3>5, <4>2
        <4>3. CASE work = "fleet"
          BY <3>4, <4>3
        <4>4. QED
          BY <1>1, <4>1, <4>2, <4>3 DEF Plans
      <3>7. QED
        BY <3>1, <3>2, <3>3, <3>6
    <2>2. CASE report # NoReport /\ pc = "done" /\ UNCHANGED <<report, pc, absent, fl>>
      <3>1. AllAbsent' <=> AllAbsent
        BY <1>2, <2>2 DEF AllAbsent
      <3>2. QED
        BY <1>1, <1>2, <2>2, <3>1 DEF PassFits
    <2>3. QED
      BY <1>4, <2>1, <2>2
  <1>6. pc' = "policy" => AllAbsent' /\ fl'.warmed
    <2>1. SUFFICES ASSUME pc' = "policy" PROVE AllAbsent' /\ fl'.warmed
      OBVIOUS
    <2>2. CASE CleanupVerify
      <3>1. absent' = 1..Len(VerifyList) /\ fl.warmed /\ \E b : fl' = [fl EXCEPT !.remote = b]
        BY <2>1, <2>2 DEF CleanupVerify, Goto, AfterVerify
      <3>2. QED
        BY <1>1, <1>2, <3>1 DEF AllAbsent, Locals
    <2>3. CASE UNCHANGED <<pc, fl, absent>>
      BY <1>1, <1>2, <2>1, <2>3 DEF PassFits, AllAbsent
    <2>4. CASE OnHost
      <3>1. work = "route"
        BY <2>4, OnHostEffect
      <3>2. Control'
        BY ControlStep
      <3>3. QED
        BY <1>2, <2>1, <3>1, <3>2 DEF Control, CacheStages
    <2>5. CASE Apart /\ ~CleanupVerify
      <3>1. ~Raise
        BY <1>1, <2>1, RaiseSteps
      <3>2. QED
        BY <2>1, <2>5, <3>1 DEF Apart, LoadPlan, Preflight, Await, AwaitBoot, Warm, Policy, PhaseWork, PhaseAbsent, RepoCheck,
           Protected, WriteReport, Crash, InterruptCleanup, Goto
    <2>6. CASE Creates \/ Deletes
      <3>1. ~Raise
        BY <1>1, <2>1, RaiseSteps
      <3>2. QED
        BY <2>1, <2>3, <2>6, <3>1 DEF Creates, Create, PhaseCreate, Land, Deletes, PhaseDelete, CleanupDelete, RepoDelete,
           Expire,
           Goto, evidence
    <2>7. QED
      BY <2>2, <2>4, <2>5, <2>6, EveryAction
  <1>7. work = "cache" /\ fl'.pass =>
          pc' \in {"protected", "report", "done"} /\ AllAbsent' /\ Res("reader") \notin cloud' /\ Res("repository") \in cloud'
    <2>1. SUFFICES ASSUME work = "cache", fl'.pass
                   PROVE  pc' \in {"protected", "report", "done"} /\ AllAbsent' /\ Res("reader") \notin cloud'
                          /\ Res("repository") \in cloud'
      OBVIOUS
    <2>2. ~OnHost
      BY <2>1, OnHostEffect
    <2>3. CASE ~fl.pass
      <3>1. pc \notin PhaseStages
        BY <1>1, <2>1 DEF Control
      <3>2. Policy /\ pc' = "protected" /\ UNCHANGED <<absent, cloud>> /\ Res("reader") \notin cloud /\ Res("repository") \in cloud
        <4>1. fl' # fl
          BY <2>1, <2>3
        <4>2. ~Creates
          <5>1. ~Create
            BY <1>1, <2>1, <2>3, <4>1 DEF Create, Locals
          <5>2. ~PhaseCreate
            BY <3>1 DEF PhaseCreate, PhaseStages
          <5>3. QED
            BY <4>1, <5>1, <5>2 DEF Creates, Land
        <4>3. ~Deletes
          BY <4>1 DEF Deletes, PhaseDelete, CleanupDelete, RepoDelete, Expire
        <4>4. Policy
          <5>1. ~Preflight /\ ~Warm /\ ~CleanupVerify /\ ~RepoCheck /\ (\A running \in BOOLEAN : ~Protected(running))
            BY <1>1, <2>1, <2>3 DEF Preflight, Warm, CleanupVerify, RepoCheck, Protected, Locals
          <5>2. ~PhaseWork /\ ~PhaseAbsent
            BY <3>1 DEF PhaseWork, PhaseAbsent, PhaseStages
          <5>3. QED
            BY <2>2, <4>1, <4>2, <4>3, <5>1, <5>2, EveryAction
               DEF Apart, LoadPlan, Await, AwaitBoot, WriteReport, Crash, InterruptCleanup, evidence
        <4>5. QED
          BY <1>1, <2>1, <2>3, <4>4 DEF Policy, Locals, Goto, provider
      <3>3. pc = "policy"
        BY <3>2 DEF Policy
      <3>4. QED
        BY <1>1, <1>2, <3>2, <3>3 DEF PassFits, AllAbsent
    <2>4. CASE fl.pass
      <3>1. /\ pc \in {"protected", "report", "done"} /\ AllAbsent /\ Res("reader") \notin cloud /\ Res("repository") \in cloud
            /\ inflight = {}
        BY <1>1, <2>1, <2>4 DEF PassFits, WorkClean
      <3>2. ~Creates
        BY <3>1 DEF Creates, Create, PhaseCreate
      <3>3. CASE Apart
        <4>1. pc' \in {"report", "done"} /\ absent' = absent
          BY <2>1, <3>1, <3>3 DEF Apart, LoadPlan, Preflight, Await, AwaitBoot, Warm, Policy, PhaseWork, PhaseAbsent,
             CleanupVerify, RepoCheck,
             Protected, WriteReport, Crash, InterruptCleanup, Goto, evidence
        <4>2. QED
          BY <1>2, <3>1, <3>3, <4>1, ApartSame DEF AllAbsent
      <3>4. ASSUME NEW r \in Instances, Expire(r)
            PROVE  pc' \in {"protected", "report", "done"} /\ AllAbsent' /\ Res("reader") \notin cloud'
                   /\ Res("repository") \in cloud'
        <4>1. pc' = pc /\ absent' = absent /\ cloud' = cloud \ With(r)
          BY <3>4 DEF Expire, evidence
        <4>2. Res("repository") \notin With(r)
          BY DEF Instances, With, Res, In, Kind
        <4>3. QED
          BY <1>2, <3>1, <4>1, <4>2 DEF AllAbsent
      <3>5. CASE Deletes
        BY <3>1, <3>4, <3>5 DEF Deletes, PhaseDelete, CleanupDelete, RepoDelete
      <3>6. QED
        BY <2>2, <3>2, <3>3, <3>5, EveryAction
    <2>5. QED
      BY <2>3, <2>4
  <1>8. QED
    BY <1>2, <1>5, <1>6, <1>7 DEF PassFits

-----------------------------------------------------------------------------
\* A cleanup that nothing disturbs.

\* Once disturbed, a cleanup is never calm again.
LEMMA CalmBack ==
  ASSUME CloudInv, CloudNext, Calm'
  PROVE  /\ Calm /\ ~(\E r \in inflight : Land(r)) /\ ~InterruptCleanup
         /\ pc \in Finally => NoFault /\ ~Fault
  <1>1. calm' /\ calm /\ inflight' = {} /\ faults \in Nat
    BY CountStep DEF Calm, CloudInv, Tally
  <1>2. ~(\E r \in inflight : Land(r))
    BY <1>1 DEF Land
  <1>3. inflight \subseteq inflight'
    <2>1. Apart \/ OnHost => inflight' = inflight
      BY ApartSame, OnHostEffect
    <2>2. Creates => inflight \subseteq inflight'
      BY <1>2, CreatesEffect DEF Made
    <2>3. Deletes => inflight' = inflight
      BY DeletesEffect DEF CloudInv
    <2>4. QED
      BY <2>1, <2>2, <2>3, EveryAction
  <1>4. Fault => pc \notin Finally
    BY <1>1 DEF Fault
  <1>5. ~InterruptCleanup
    BY <1>1 DEF InterruptCleanup
  <1>6. NoFault \/ Fault
    BY <1>2, <1>5, CountStep
  <1>7. QED
    BY <1>1, <1>2, <1>3, <1>4, <1>5, <1>6 DEF Calm

\* When every cleanup command has done its work, no check finds anything.
LEMMA NothingLeft ==
  ASSUME Plans, Things, Deleted(Len(CleanupList)), NEW j \in 1..Len(VerifyList)
  PROVE  VerifyList[j] \notin cloud
  <1>1. /\ \A i \in 1..Len(CleanupList) : CleanupList[i] \notin cloud
        /\ work = "fleet" => Instances = {}
    BY DEF Deleted
  <1>2. ASSUME NEW y, In("instance", y) \in Everything, In("instance", y) \notin cloud PROVE In("disk", y) \notin cloud
    <2>1. Kind(In("instance", y)) = "instance" /\ In("instance", y)[2] = y
      BY PairParts
    <2>2. QED
      BY <1>2, <2>1 DEF Things
  <1>3. CASE \E i \in 1..Len(CleanupList) : CleanupList[i] = VerifyList[j]
    BY <1>1, <1>3
  <1>4. ASSUME work = "fleet", NEW p \in ProfileSet, VerifyList[j] \in {In("instance", p), In("disk", p)}
        PROVE  VerifyList[j] \notin cloud
    <2>1. In("instance", p) \in Everything
      BY <1>4 DEF Everything
    <2>2. In("instance", p) \notin cloud
      BY <1>1, <1>4, PairParts DEF Instances
    <2>3. QED
      BY <1>2, <1>4, <2>1, <2>2
  <1>5. CASE /\ VerifyList[j] = Res("disk") /\ Res("instance") \in Everything
             /\ \E i \in 1..Len(CleanupList) : CleanupList[i] = Res("instance")
    <2>1. Res("instance") \notin cloud
      BY <1>1, <1>5
    <2>2. QED
      BY <1>2, <1>5, <2>1 DEF Res
  <1>6. QED
    BY <1>3, <1>4, <1>5, PlanVerifies

\* An instance is needed by nothing.
LEMMA NoneNeedsHosts ==
  ASSUME NEW d, NEW x \in Needs(d, FleetRegions)
  PROVE  Kind(x) # "instance"
  BY DEF Needs, Res, In, Kind

\* A cleanup command that nothing disturbs takes away what it names.
LEMMA DeletesNext ==
  ASSUME CloudInv, CleanupDelete, Deleted(k - 1), NoFault
  PROVE  /\ \A i \in 1..k : CleanupList[i] \notin cloud'
         /\ work = "fleet" => Instances' = {}
  <1>1. Plans /\ Control /\ cloud \subseteq Everything
    BY PlansHold DEF CloudInv, Things
  <1>2. PICK n, r : n = Len(CleanupList) /\ r = CleanupList[k]
    OBVIOUS
  <1>3. k \in 1..n /\ n \in 1..16
    <2>1. pc = "delete"
      BY DEF CleanupDelete
    <2>2. n \in 1..16
      BY <1>1, <1>2, PlanCleans
    <2>3. k \in 1..16 /\ k <= n
      BY <1>1, <1>2, <2>1 DEF Control
    <2>4. QED
      BY <2>2, <2>3
  <1>4. \A i \in 1..(k - 1) : CleanupList[i] \notin cloud
    BY DEF Deleted
  <1>5. work = "fleet" => Instances = {}
    BY DEF Deleted
  <1>6. cloud' \subseteq cloud
    BY <1>1, DeletesEffect DEF Deletes
  <1>7. \A d \in cloud \ Gone(r) : ~Blocks(d, r, FleetRegions)
    <2>1. SUFFICES ASSUME NEW d \in cloud \ Gone(r), Blocks(d, r, FleetRegions) PROVE FALSE
      OBVIOUS
    <2>2. d \in Everything /\ d \notin Gone(r) /\ d \in cloud
      BY <1>1
    <2>3. \/ \E i \in 1..(k - 1) : CleanupList[i] = d
          \/ work = "fleet" /\ Kind(d) = "instance"
      BY <1>1, <1>2, <1>3, <2>1, <2>2, PlanCleans
    <2>4. QED
      BY <1>4, <1>5, <2>2, <2>3 DEF Instances
  <1>8. r \notin cloud'
    <2>1. DeleteOne(r)
      BY <1>2 DEF CleanupDelete
    <2>2. ~Fault
      <3>1. faults \in Nat
        BY DEF CloudInv, Tally
      <3>2. QED
        BY <3>1 DEF Fault, NoFault
    <2>3. r \in Gone(r)
      BY GoneParts
    <2>4. QED
      BY <1>7, <2>1, <2>2, <2>3 DEF DeleteOne
  <1>9. \A i \in 1..k : i \in 1..(k - 1) \/ i = k
    BY <1>3
  <1>10. QED
    BY <1>2, <1>4, <1>5, <1>6, <1>8, <1>9 DEF Instances

\* A phase deletes its host.
LEMMA PhaseCalm ==
  ASSUME CloudInv, CloudNext, Calm', pc' = "phase_verify"
  PROVE  PhaseHost' \notin cloud'
  <1>1. /\ Calm /\ ~(\E r \in inflight : Land(r)) /\ (pc \in Finally => NoFault /\ ~Fault)
        /\ Plans /\ Control /\ CalmFits
    BY CalmBack, PlansHold DEF CloudInv
  <1>2. ~Raise
    BY <1>1, RaiseSteps
  <1>3. ~OnHost
    <2>1. OnHost => work = "route"
      BY OnHostEffect
    <2>2. work' = work /\ Control'
      BY SamePlan, ControlStep
    <2>3. QED
      BY <2>1, <2>2 DEF Control, PhaseStages
  <1>4. CASE PhaseDelete
    <2>1. DeleteOne(PhaseHost) /\ phase' = phase /\ pc = "phase_delete"
      BY <1>4 DEF PhaseDelete
    <2>2. ~Fault
      BY <1>1, <2>1 DEF Finally
    <2>3. Kind(PhaseHost) = "instance"
      BY DEF PhaseHost, In, Kind
    <2>4. \A d : ~Blocks(d, PhaseHost, FleetRegions)
      BY <2>3, NoneNeedsHosts DEF Blocks
    <2>5. PhaseHost \in Gone(PhaseHost)
      BY GoneParts
    <2>6. PICK r : r = PhaseHost
      OBVIOUS
    <2>7. r \notin cloud'
      BY <2>1, <2>2, <2>4, <2>5, <2>6 DEF DeleteOne
    <2>8. PhaseHost' = PhaseHost
      BY <2>1 DEF PhaseHost
    <2>9. QED
      BY <2>6, <2>7, <2>8
  <1>5. CASE \E r \in Instances : Expire(r)
    <2>1. pc = "phase_verify" /\ phase' = phase /\ cloud' \subseteq cloud
      BY <1>5 DEF Expire
    <2>2. PhaseHost \notin cloud
      BY <1>1, <2>1 DEF CalmFits
    <2>3. PhaseHost' = PhaseHost
      BY <2>1 DEF PhaseHost
    <2>4. QED
      BY <2>1, <2>2, <2>3
  <1>6. ~Apart
    BY <1>2 DEF Apart, LoadPlan, Preflight, Await, AwaitBoot, Warm, Policy, PhaseWork, PhaseAbsent, CleanupVerify, RepoCheck,
         Protected, WriteReport, Crash, InterruptCleanup, Goto, AfterVerify
  <1>7. ~Create /\ ~PhaseCreate /\ ~CleanupDelete /\ ~RepoDelete
    BY <1>2 DEF Create, PhaseCreate, CleanupDelete, RepoDelete, Goto
  <1>8. QED
    BY <1>1, <1>3, <1>4, <1>5, <1>6, <1>7, EveryAction DEF Creates, Deletes

\* A create of the fleet's own list is of no host.
LEMMA CreateNoHost ==
  ASSUME CloudInv, Create, work = "fleet"
  PROVE  Instances' = {}
  <1>1. Plans /\ Control /\ pc = "create" /\ Instances = {}
    BY PlansHold DEF CloudInv, HostsFit, Create
  <1>2. PICK n, r : n = Len(CreateList) /\ r = CreateList[k]
    OBVIOUS
  <1>3. k \in 1..n
    <2>1. n \in 1..16
      BY <1>1, <1>2, PlanCreates
    <2>2. QED
      BY <1>1, <1>2, <2>1 DEF Control
  <1>4. Kind(r) # "instance"
    BY <1>1, <1>2, <1>3, PlanCreates
  <1>5. With(r) = {r}
    BY <1>4 DEF With
  <1>6. cloud' \subseteq cloud \cup {r}
    BY <1>2, <1>5 DEF Create, CreateOk, CreateFails
  <1>7. QED
    BY <1>1, <1>4, <1>6 DEF Instances

\* What the cleanup has deleted so far is gone.
LEMMA DeleteCalm ==
  ASSUME CloudInv, CloudNext, Calm', pc' = "delete"
  PROVE  Deleted(k - 1)'
  <1>1. /\ Calm /\ ~(\E r \in inflight : Land(r)) /\ (pc \in Finally => NoFault /\ ~Fault)
        /\ Plans /\ Control /\ CalmFits /\ HostsFit
    BY CalmBack, PlansHold DEF CloudInv
  <1>2. work' = work /\ CleanupList' = CleanupList
    BY SamePlan
  <1>3. k \in 1..16
    BY <1>1 DEF Control
  <1>4. ASSUME k' = 1, work = "fleet" => Instances' = {} PROVE Deleted(k - 1)'
    <2>1. 1..(k' - 1) = {}
      BY <1>4
    <2>2. QED
      BY <1>2, <1>4, <2>1 DEF Deleted
  <1>5. CASE pc = "delete"
    <2>1. Deleted(k - 1)
      BY <1>1, <1>5 DEF CalmFits
    <2>2. CASE CleanupDelete
      <3>1. k' = k + 1
        BY <1>5, <2>2 DEF CleanupDelete, Goto
      <3>2. 1..(k' - 1) = 1..k
        BY <1>3, <3>1
      <3>3. NoFault
        BY <1>1, <1>5 DEF Finally
      <3>4. QED
        BY <1>2, <2>1, <2>2, <3>2, <3>3, DeletesNext DEF Deleted
    <2>3. CASE \E r \in Instances : Expire(r)
      <3>1. k' = k /\ cloud' \subseteq cloud
        BY <2>3 DEF Expire
      <3>2. QED
        BY <1>2, <2>1, <3>1 DEF Deleted, Instances
    <2>4. ~OnHost
      <3>1. pc \notin DrillNames \cup SecretStages \cup HostFinally
        BY <1>5 DEF DrillNames, SecretStages, HostFinally
      <3>2. QED
        BY <3>1, OnHostEffect
    <2>5. ~Apart
      BY <1>5 DEF Apart, LoadPlan, Preflight, Await, AwaitBoot, Warm, Policy, PhaseWork, PhaseAbsent, CleanupVerify, RepoCheck,
           Protected, WriteReport, Crash, InterruptCleanup, Goto
    <2>6. ~Create /\ ~PhaseCreate /\ ~PhaseDelete /\ ~RepoDelete
      BY <1>5 DEF Create, PhaseCreate, PhaseDelete, RepoDelete
    <2>7. QED
      BY <1>1, <2>2, <2>3, <2>4, <2>5, <2>6, EveryAction DEF Creates, Deletes
  <1>6. CASE pc # "delete"
    <2>1. k' = 1
      <3>1. Raise => k' = 1
        BY <1>1, RaiseSteps
      <3>2. CASE OnHost
        BY <1>6, <3>1, <3>2 DEF OnHost, SecretPrepare, SecretUpload, SecretConsume, SecretClean, FinRegistry, FinHost,
           DrillSteps, DrillStep,
           AnySample, Sample, HostStep, AfterSecret, Goto
      <3>3. CASE Apart
        BY <1>6, <3>1, <3>3 DEF Apart, LoadPlan, Preflight, Await, AwaitBoot, Warm, Policy, PhaseWork, PhaseAbsent,
           CleanupVerify, RepoCheck,
           Protected, WriteReport, Crash, InterruptCleanup, Goto
      <3>4. CASE Creates
        BY <1>1, <1>6, <3>1, <3>4 DEF Creates, Create, PhaseCreate, Goto
      <3>5. CASE Deletes
        BY <1>6, <3>5 DEF Deletes, PhaseDelete, CleanupDelete, RepoDelete, Expire, Goto
      <3>6. QED
        BY <3>2, <3>3, <3>4, <3>5, EveryAction
    <2>2. ASSUME work = "fleet" PROVE Instances' = {}
      <3>1. CASE Create
        BY <2>2, <3>1, CreateNoHost
      <3>2. CASE PhaseAbsent
        <4>1. PhaseHost \notin cloud /\ cloud' = cloud
          BY <1>1, <3>2 DEF PhaseAbsent, CalmFits, provider
        <4>2. QED
          BY <1>1, <2>2, <4>1 DEF HostsFit, Instances
      <3>3. ~OnHost
        BY <2>2, OnHostEffect
      <3>4. ~Await /\ ~Warm /\ ~Policy
        BY <1>1, <2>2 DEF Await, Warm, Policy, Control, CacheStages
      <3>5. ~CleanupVerify
        BY <1>6, <2>2 DEF CleanupVerify, Goto, AfterVerify
      <3>6. Apart => PhaseAbsent
        BY <1>6, <3>4, <3>5 DEF Apart, LoadPlan, Preflight, AwaitBoot, PhaseWork, RepoCheck,
             Protected, WriteReport, Crash, InterruptCleanup, Goto
      <3>7. ~PhaseCreate /\ ~Deletes
        BY <1>6 DEF PhaseCreate, Deletes, PhaseDelete, CleanupDelete, RepoDelete, Expire, Goto
      <3>8. QED
        BY <1>1, <3>1, <3>2, <3>3, <3>6, <3>7, EveryAction DEF Creates
    <2>3. QED
      BY <1>4, <2>1, <2>2
  <1>7. QED
    BY <1>5, <1>6

\* A check that nothing disturbs finds nothing.
LEMMA CheckCalm ==
  ASSUME CloudInv, CleanupVerify, Calm, NoFault, ~Fault
  PROVE  /\ pc = "verify" /\ Deleted(Len(CleanupList)) /\ cloud' = cloud
         /\ absent' = absent \cup {k} /\ 1..(k - 1) \subseteq absent
         /\ k \in 1..Len(VerifyList)
  <1>1. Plans /\ Control /\ Things /\ CalmFits /\ pc = "verify"
    BY PlansHold DEF CloudInv, CleanupVerify
  <1>2. Deleted(Len(CleanupList)) /\ 1..(k - 1) \subseteq absent
    BY <1>1 DEF CalmFits
  <1>3. PICK n : n = Len(VerifyList)
    OBVIOUS
  <1>4. k \in 1..n
    <2>1. n \in 1..16
      BY <1>1, <1>3, PlanVerifies
    <2>2. QED
      BY <1>1, <1>3, <2>1 DEF Control
  <1>5. VerifyList[k] \notin cloud
    BY <1>1, <1>2, <1>3, <1>4, NothingLeft
  <1>6. QED
    BY <1>1, <1>2, <1>3, <1>4, <1>5 DEF CleanupVerify, provider

\* The last of them completes the list.
LEMMA LastCheck ==
  ASSUME CloudInv, CleanupVerify, Calm, NoFault, ~Fault, k >= Len(VerifyList)
  PROVE  absent' = 1..Len(VerifyList)
  <1>1. /\ absent' = absent \cup {k} /\ 1..(k - 1) \subseteq absent
    BY CheckCalm
  <1>2. PICK n : n = Len(VerifyList)
    OBVIOUS
  <1>3. Plans /\ absent \subseteq 1..n
    BY <1>2, PlansHold DEF CloudInv, Tally
  <1>4. n \in 1..16
    BY <1>2, <1>3, PlanVerifies
  <1>5. k \in 1..n
    BY <1>2, CheckCalm
  <1>6. k = n
    BY <1>2, <1>4, <1>5
  <1>7. 1..n = (1..(n - 1)) \cup {n}
    BY <1>4
  <1>8. QED
    BY <1>1, <1>2, <1>3, <1>6, <1>7

\* The checks come after all the deletes, and each of them finds nothing.
LEMMA VerifyCalm ==
  ASSUME CloudInv, CloudNext, Calm', pc' = "verify"
  PROVE  Deleted(Len(CleanupList))' /\ 1..(k' - 1) \subseteq absent'
  <1>1. /\ Calm /\ ~(\E r \in inflight : Land(r)) /\ (pc \in Finally => NoFault /\ ~Fault)
        /\ Plans /\ Control /\ CalmFits
    BY CalmBack, PlansHold DEF CloudInv
  <1>2. work' = work /\ CleanupList' = CleanupList
    BY SamePlan
  <1>3. ~Raise
    BY <1>1, RaiseSteps
  <1>4. CASE CleanupDelete
    <2>1. pc = "delete" /\ Deleted(k - 1) /\ NoFault /\ absent' = absent
      BY <1>1, <1>4 DEF CleanupDelete, CalmFits, Finally, evidence
    <2>2. PICK n : n = Len(CleanupList)
      OBVIOUS
    <2>3. k' = 1 /\ ~(k < n)
      BY <1>4, <2>1, <2>2 DEF CleanupDelete, Goto
    <2>4. n \in 1..16 /\ k \in 1..16 /\ k <= n
      <3>1. n \in 1..16
        BY <1>1, <2>2, PlanCleans
      <3>2. QED
        BY <1>1, <2>1, <2>2, <3>1 DEF Control
    <2>5. k = n /\ 1..(k' - 1) = {}
      BY <2>3, <2>4
    <2>6. /\ \A i \in 1..k : CleanupList[i] \notin cloud'
          /\ work = "fleet" => Instances' = {}
      BY <1>4, <2>1, DeletesNext
    <2>7. QED
      BY <1>2, <2>2, <2>5, <2>6 DEF Deleted
  <1>5. CASE CleanupVerify
    <2>1. NoFault /\ ~Fault
      BY <1>1, <1>5 DEF CleanupVerify, Finally
    <2>2. /\ pc = "verify" /\ Deleted(Len(CleanupList)) /\ cloud' = cloud
          /\ absent' = absent \cup {k} /\ 1..(k - 1) \subseteq absent
      BY <1>1, <1>5, <2>1, CheckCalm
    <2>3. k' = k + 1
      BY <1>5, <2>2 DEF CleanupVerify, Goto, AfterVerify
    <2>4. 1..(k' - 1) = (1..(k - 1)) \cup {k}
      <3>1. k \in 1..16
        BY <1>1 DEF Control
      <3>2. QED
        BY <2>3, <3>1
    <2>5. QED
      BY <1>2, <2>2, <2>4 DEF Deleted, Instances
  <1>6. CASE \E r \in Instances : Expire(r)
    <2>1. UNCHANGED <<pc, k, absent>> /\ cloud' \subseteq cloud
      BY <1>6 DEF Expire, evidence
    <2>2. Deleted(Len(CleanupList)) /\ 1..(k - 1) \subseteq absent
      BY <1>1, <2>1 DEF CalmFits
    <2>3. QED
      BY <1>2, <2>1, <2>2 DEF Deleted, Instances
  <1>7. ~OnHost
    <2>1. SUFFICES ASSUME OnHost PROVE FALSE
      OBVIOUS
    <2>2. pc \in DrillNames \cup SecretStages \cup HostFinally
      BY <2>1, OnHostEffect
    <2>3. \A stage \in DrillNames \ {"monitor"} : NextInDrill(stage) # "verify"
      BY DrillGoes DEF DrillNames
    <2>4. QED
      BY <1>3, <2>1, <2>2, <2>3 DEF OnHost, SecretPrepare, SecretUpload, SecretConsume, SecretClean, FinRegistry, FinHost,
         DrillSteps,
         DrillStep, AnySample, Sample, HostStep, AfterSecret, Goto, DrillNames, SecretStages, HostFinally
  <1>8. Apart => CleanupVerify
    BY <1>3 DEF Apart, LoadPlan, Preflight, Await, AwaitBoot, Warm, Policy, PhaseWork, PhaseAbsent, RepoCheck,
         Protected, WriteReport, Crash, InterruptCleanup, Goto
  <1>9. ~Create /\ ~PhaseCreate /\ ~PhaseDelete /\ ~RepoDelete
    BY <1>3 DEF Create, PhaseCreate, PhaseDelete, RepoDelete, Goto
  <1>10. QED
    BY <1>1, <1>4, <1>5, <1>6, <1>7, <1>8, <1>9, EveryAction DEF Creates, Deletes

\* Only the preflight decides that the run begins to create.
LEMMA CreatedSame ==
  ASSUME CloudInv, CloudNext, ~Preflight
  PROVE  fl'.created = fl.created
  <1>1. fl \in Locals
    BY DEF CloudInv, Tally
  <1>2. CASE Apart
    <2>1. CASE LoadPlan \/ Await \/ AwaitBoot \/ PhaseWork \/ PhaseAbsent \/ WriteReport \/ Crash \/ InterruptCleanup
      BY <1>1, <2>1 DEF LoadPlan, Await, AwaitBoot, PhaseWork, PhaseAbsent, WriteReport, Crash, InterruptCleanup, Locals
    <2>2. CASE Warm \/ Policy
      BY <1>1, <2>2 DEF Warm, Policy, Locals
    <2>3. CASE CleanupVerify
      BY <1>1, <2>3 DEF CleanupVerify, Locals
    <2>4. CASE RepoCheck \/ (\E running \in BOOLEAN : Protected(running))
      BY <1>1, <2>4 DEF RepoCheck, Protected, Locals
    <2>5. QED
      BY <1>2, <2>1, <2>2, <2>3, <2>4 DEF Apart
  <1>3. CASE OnHost
    <2>1. CASE SecretPrepare \/ SecretUpload \/ SecretConsume
      BY <1>1, <2>1 DEF SecretPrepare, SecretUpload, SecretConsume, HostStep, Locals
    <2>2. CASE SecretClean
      BY <1>1, <2>2 DEF SecretClean, HostStep, AfterSecret, Locals
    <2>3. CASE FinRegistry
      BY <1>1, <2>3 DEF FinRegistry, HostStep, Locals
    <2>4. CASE FinHost("fin_stop", "fin_cleanup") \/ FinHost("fin_cleanup", "delete") \/ DrillSteps
      BY <2>4 DEF FinHost, DrillSteps, DrillStep
    <2>5. CASE AnySample
      BY <1>1, <2>5 DEF AnySample, Sample, Locals
    <2>6. QED
      BY <1>3, <2>1, <2>2, <2>3, <2>4, <2>5 DEF OnHost
  <1>4. CASE Creates
    BY <1>1, <1>4 DEF Creates, Create, PhaseCreate, Land, Locals
  <1>5. CASE Deletes
    BY <1>5 DEF Deletes, PhaseDelete, CleanupDelete, RepoDelete, Expire
  <1>6. QED
    BY <1>2, <1>3, <1>4, <1>5, EveryAction

Ended == {"policy", "repo_delete", "repo_check", "protected", "report", "cut"}

\* What comes after the checks comes after checks that all found nothing.
LEMMA EndCalm ==
  ASSUME CloudInv, CloudNext, Calm', pc' \in Ended, fl'.created
  PROVE  AllAbsent'
  <1>1. /\ Calm /\ ~(\E r \in inflight : Land(r)) /\ (pc \in Finally => NoFault /\ ~Fault)
        /\ Plans /\ Control /\ CalmFits /\ fl \in Locals /\ ~InterruptCleanup
    BY CalmBack, PlansHold DEF CloudInv, Tally
  <1>2. work' = work /\ VerifyList' = VerifyList
    BY SamePlan
  <1>3. ASSUME AllAbsent, absent' = absent PROVE AllAbsent'
    BY <1>2, <1>3 DEF AllAbsent
  <1>4. pc \in Ended /\ fl.created => AllAbsent
    BY <1>1 DEF CalmFits, Ended
  <1>5. CASE Raise /\ ~Preflight
    BY <1>1, <1>3, <1>5, CreatedSame, RaiseSteps DEF Ended
  <1>6. CASE Preflight
    <2>1. PICK ok \in BOOLEAN : /\ fl' = [fl EXCEPT !.created = ok, !.preflight = ok, !.failed = ~ok]
                                /\ Goto(IF ok THEN "create" ELSE IF work = "fleet" THEN "done" ELSE "protected")
      <3>1. PICK e \in Environments :
              LET ok == RoutePreflight(e) \/ CachePreflight(e) \/ FleetPreflight(e)
              IN  /\ fl' = [fl EXCEPT !.created = ok, !.preflight = ok, !.failed = ~ok]
                  /\ Goto(IF ok THEN "create" ELSE IF work = "fleet" THEN "done" ELSE "protected")
        BY <1>6 DEF Preflight
      <3>2. (RoutePreflight(e) \/ CachePreflight(e) \/ FleetPreflight(e)) \in BOOLEAN
        OBVIOUS
      <3>3. QED
        BY <3>1, <3>2
    <2>2. fl'.created = ok
      BY <1>1, <2>1 DEF Locals
    <2>3. QED
      BY <2>1, <2>2 DEF Goto, Ended
  <1>7. CASE CleanupVerify
    <2>1. NoFault /\ ~Fault
      BY <1>1, <1>7 DEF CleanupVerify, Finally
    <2>2. ~(k < Len(VerifyList)) /\ k \in 1..Len(VerifyList)
      <3>1. pc = "verify" /\ k \in 1..Len(VerifyList)
        BY <1>1, <1>7, <2>1, CheckCalm
      <3>2. QED
        BY <1>7, <3>1 DEF CleanupVerify, Ended
    <2>3. k >= Len(VerifyList)
      <3>1. PICK n : n = Len(VerifyList)
        OBVIOUS
      <3>2. k \in 1..n /\ ~(k < n) /\ n \in 1..16
        BY <1>1, <2>2, <3>1, PlanVerifies
      <3>3. k >= n
        BY <3>2
      <3>4. QED
        BY <3>1, <3>3
    <2>4. QED
      BY <1>1, <1>2, <1>7, <2>1, <2>3, LastCheck DEF AllAbsent
  <1>8. CASE ~CleanupVerify /\ ~Raise /\ ~Preflight
    <2>1. ~OnHost
      <3>1. SUFFICES ASSUME OnHost PROVE FALSE
        OBVIOUS
      <3>2. pc \in DrillNames \cup SecretStages \cup HostFinally
        BY <3>1, OnHostEffect
      <3>3. \A stage \in DrillNames \ {"monitor"} : NextInDrill(stage) \notin Ended
        BY DrillGoes DEF DrillNames, Ended
      <3>4. QED
        BY <1>8, <3>1, <3>2, <3>3 DEF OnHost, SecretPrepare, SecretUpload, SecretConsume, SecretClean, FinRegistry,
           FinHost, DrillSteps,
           DrillStep, AnySample, Sample, HostStep, AfterSecret, Goto, DrillNames, SecretStages, HostFinally, Ended
    <2>2. Apart => pc \in Ended /\ absent' = absent /\ fl'.created = fl.created
      <3>1. ~LoadPlan /\ ~PhaseWork /\ ~PhaseAbsent /\ ~WriteReport /\ ~Crash
        BY DEF LoadPlan, PhaseWork, PhaseAbsent, WriteReport, Crash, Goto, Ended
      <3>2. ~Await /\ ~AwaitBoot /\ ~Warm
        BY <1>8 DEF Await, AwaitBoot, Warm, Goto, Ended
      <3>3. CASE Policy
        BY <1>1, <1>8, <3>3 DEF Policy, Ended, Locals
      <3>4. CASE RepoCheck
        BY <1>1, <3>4 DEF RepoCheck, Ended, Locals, evidence
      <3>5. CASE \E running \in BOOLEAN : Protected(running)
        BY <1>1, <3>5 DEF Protected, Ended, Locals, evidence
      <3>6. QED
        BY <1>1, <1>8, <3>1, <3>2, <3>3, <3>4, <3>5 DEF Apart
    <2>3. ~Create /\ ~PhaseCreate /\ ~PhaseDelete /\ ~CleanupDelete
      BY <1>8 DEF Create, PhaseCreate, PhaseDelete, CleanupDelete, Goto, Ended
    <2>4. RepoDelete \/ (\E r \in Instances : Expire(r)) => pc \in Ended /\ absent' = absent /\ fl' = fl
      BY DEF RepoDelete, Expire, Ended, evidence
    <2>5. pc \in Ended /\ absent' = absent /\ fl'.created = fl.created
      BY <1>1, <2>1, <2>2, <2>3, <2>4, EveryAction DEF Creates, Deletes
    <2>6. QED
      BY <1>3, <1>4, <2>5
  <1>9. QED
    BY <1>5, <1>6, <1>7, <1>8

-----------------------------------------------------------------------------
\* The invariant and what follows from it.

\* Every step keeps what an undisturbed cleanup promises.
LEMMA CalmStep ==
  ASSUME CloudInv, CloudNext
  PROVE  CalmFits'
  <1>1. SUFFICES ASSUME Calm' PROVE CalmFits'
    BY DEF CalmFits
  <1>2. pc' = "phase_verify" => PhaseHost' \notin cloud'
    BY <1>1, PhaseCalm
  <1>3. pc' = "delete" => Deleted(k - 1)'
    BY <1>1, DeleteCalm
  <1>4. pc' = "verify" => Deleted(Len(CleanupList))' /\ 1..(k' - 1) \subseteq absent'
    BY <1>1, VerifyCalm
  <1>5. pc' \in Ended /\ fl'.created => AllAbsent'
    BY <1>1, EndCalm
  <1>6. report' # NoReport /\ fl'.created => AllAbsent'
    <2>1. SUFFICES ASSUME report' # NoReport, fl'.created PROVE AllAbsent'
      OBVIOUS
    <2>2. VerifyList' = VerifyList /\ Calm /\ CalmFits
      BY <1>1, SamePlan, CalmBack DEF CloudInv
    <2>3. CASE WriteReport
      <3>1. pc \in {"report", "cut"} /\ UNCHANGED <<fl, absent>>
        BY <2>3 DEF WriteReport
      <3>2. AllAbsent
        BY <2>1, <2>2, <3>1 DEF CalmFits
      <3>3. QED
        BY <2>2, <3>1, <3>2 DEF AllAbsent
    <2>4. CASE report # NoReport /\ UNCHANGED <<report, absent, fl>>
      BY <2>1, <2>2, <2>4 DEF CalmFits, AllAbsent
    <2>5. QED
      BY <2>1, <2>3, <2>4, ReportStep
  <1>7. QED
    BY <1>2, <1>3, <1>4, <1>5, <1>6 DEF CalmFits, Ended

\* Every step of the paid runs keeps the invariant.
LEMMA CloudInvStep ==
  ASSUME CloudInv, CloudNext
  PROVE  CloudInv'
  <1>1. Control' /\ Things' /\ Seen' /\ HostsFit' /\ MachineFits' /\ CalmFits' /\ PassFits' /\ host' \in HostStates
    BY ControlStep, ThingsStep, SeenStep, HostsStep, MachineStep, CalmStep, PassStep
  <1>2. VerifyList' = VerifyList
    BY SamePlan
  <1>3. Tally' /\ FlowFits'
    BY <1>1, <1>2, FlowStep, CountStep DEF Flow, Tally
  <1>4. WorkClean'
    BY CleanStep, BegunStep DEF WorkClean
  <1>5. QED
    BY <1>1, <1>3, <1>4 DEF CloudInv

\* A step of another tool keeps it too.
LEMMA CloudInvStutters ==
  ASSUME CloudInv, UNCHANGED cloudVars
  PROVE  CloudInv'
  <1>1. UNCHANGED <<work, pc, k, phase, cloud, inflight, late, host, secret, fl, absent, faults, calm, report>>
    BY DEF cloudVars
  <1>2. /\ CreateList' = CreateList /\ CleanupList' = CleanupList /\ VerifyList' = VerifyList /\ Everything' = Everything
        /\ Instances' = Instances /\ PhaseHost' = PhaseHost
    BY <1>1 DEF CreateList, CleanupList, VerifyList, Everything, Instances, PhaseHost
  <1>3. Control' /\ Tally'
    BY <1>1, <1>2 DEF CloudInv, Control, Tally
  <1>4. Things' /\ WorkClean'
    BY <1>1, <1>2 DEF CloudInv, Things, WorkClean, Working
  <1>5. FlowFits' /\ Seen' /\ HostsFit' /\ MachineFits'
    BY <1>1, <1>2 DEF CloudInv, FlowFits, Working, Seen, HostsFit, MachineFits
  <1>6. CalmFits' /\ PassFits'
    BY <1>1, <1>2 DEF CloudInv, CalmFits, Calm, Deleted, PassFits, AllAbsent
  <1>7. QED
    BY <1>3, <1>4, <1>5, <1>6 DEF CloudInv

\* It holds before the run.
LEMMA CloudInvInit ==
  ASSUME CloudInit
  PROVE  CloudInv
  <1> USE DEF CloudInit
  <1>1. work \in {"route", "cache", "fleet"} /\ work \in Workloads
    BY WorkloadsAssumption
  <1>2. fl \in Locals /\ ~fl.warmed /\ ~fl.pass /\ ~fl.failed /\ fl.err = "none" /\ ~fl.created
    BY DEF Locals
  <1>3. Control
    BY <1>1 DEF Control, Common, DrillNames, SecretStages, HostFinally, CacheStages, PhaseStages
  <1>4. Tally
    BY <1>2, FaultsAssumption, FreshTyped DEF Tally
  <1>5. Things
    BY DEF Things
  <1>6. WorkClean
    BY <1>2 DEF WorkClean
  <1>7. FlowFits
    BY <1>2 DEF FlowFits, DrillNames, SecretStages, HostFinally, CacheStages, PhaseStages, Closing
  <1>8. Seen /\ HostsFit /\ MachineFits
    BY DEF Seen, HostsFit, Instances, MachineFits
  <1>9. CalmFits /\ PassFits
    BY <1>2 DEF CalmFits, PassFits
  <1>10. QED
    BY <1>3, <1>4, <1>5, <1>6, <1>7, <1>8, <1>9 DEF CloudInv

\* The paid run has its types.
LEMMA CloudTyped == CloudInv => CloudTypeOK
  <1>1. ASSUME CloudInv PROVE CloudTypeOK
    <2>1. pc \in Stages
      <3>1. DrillNames \subseteq {Drill[i] : i \in 1..Len(Drill)}
        BY DEF DrillNames, Drill
      <3>2. QED
        BY <1>1, <3>1 DEF CloudInv, Control, Stages, Common, SecretStages, HostFinally, CacheStages, PhaseStages
    <2>2. k \in 1..40 /\ phase \in 1..Len(Profiles) /\ work \in Workloads
      BY <1>1 DEF CloudInv, Control, Profiles
    <2>3. QED
      BY <1>1, <2>1, <2>2 DEF CloudInv, Tally, CloudTypeOK
  <1>2. QED
    BY <1>1

\* When every check came back empty, what exists is retained or came late.
LEMMA OnlyRetained ==
  ASSUME CloudInv, AllAbsent, NEW r \in cloud \ late
  PROVE  work = "cache" /\ r \in Retained
  <1>1. Plans /\ r \in Everything /\ Things
    BY PlansHold DEF CloudInv, Things
  <1>2. \A j \in 1..Len(VerifyList) : VerifyList[j] \in cloud => VerifyList[j] \in late
    BY DEF CloudInv, Seen, AllAbsent
  <1>3. ASSUME NEW g \in RegionSet, r = In("nat", g), \E j \in 1..Len(VerifyList) : VerifyList[j] = In("router", g)
        PROVE  FALSE
    BY <1>1, <1>2, <1>3 DEF Things
  <1>4. QED
    BY <1>1, <1>2, <1>3, PlanVerifies

\* What the report says.
LEMMA ReportFits ==
  ASSUME CloudInv, report # NoReport
  PROVE  /\ report.allAbsent <=> AllAbsent
         /\ report.result = "passed" => AllAbsent /\ (work # "fleet" => fl.pass)
  BY DEF CloudInv, PassFits

\* What the report calls absent is gone, or came after its check.
LEMMA VerifiedGone == CloudInv => VerifiedMeansGone
  BY OnlyRetained, ReportFits DEF VerifiedMeansGone

\* A run that passed has left no credential, and nothing but the repository of the cache run.
LEMMA PassedClean == CloudInv => PassedIsClean
  <1>1. SUFFICES ASSUME CloudInv, report.result = "passed"
                 PROVE  /\ secret = "absent" /\ host.upload # "token" /\ ~host.config
                        /\ cloud \ late \subseteq (IF work = "cache" THEN {Res("repository")} ELSE {})
                        /\ work = "cache" => Res("repository") \in cloud
    BY DEF PassedIsClean
  <1>2. report # NoReport
    BY <1>1 DEF NoReport
  <1>3. AllAbsent /\ (work # "fleet" => fl.pass) /\ Plans
    BY <1>1, <1>2, ReportFits, PlansHold DEF CloudInv
  <1>4. secret = "absent"
    BY <1>1, <1>3 DEF CloudInv, FlowFits
  <1>5. host = FreshHost
    <2>1. CASE work = "route"
      <3>1. late = {}
        BY <1>1, <1>3, <2>1 DEF CloudInv, WorkClean
      <3>2. Res("instance") \notin cloud
        BY <1>1, <1>3, <2>1, <3>1, OnlyRetained
      <3>3. QED
        BY <1>1, <3>2 DEF CloudInv, MachineFits
    <2>2. CASE work # "route"
      BY <1>1, <2>2 DEF CloudInv, MachineFits
    <2>3. QED
      BY <2>1, <2>2
  <1>6. host.upload # "token" /\ ~host.config
    BY <1>5 DEF FreshHost
  <1>7. work = "cache" => Res("reader") \notin cloud /\ Res("repository") \in cloud
    BY <1>1, <1>3 DEF CloudInv, PassFits
  <1>8. cloud \ late \subseteq (IF work = "cache" THEN {Res("repository")} ELSE {})
    BY <1>1, <1>3, <1>7, OnlyRetained DEF Retained
  <1>9. QED
    BY <1>4, <1>6, <1>7, <1>8

\* A cleanup that nothing disturbs finds everything absent.
LEMMA CalmSuffices == CloudInv => CleanupSuffices
  BY ReportFits DEF CloudInv, CalmFits, Calm, CleanupSuffices

\* The fleet has one host at a time.
LEMMA OneHost == CloudInv => OneHostAtATime
  <1>1. SUFFICES ASSUME CloudInv, work = "fleet" PROVE Cardinality(Instances \ late) <= 1
    BY DEF OneHostAtATime
  <1>2. \A r \in Instances : r = PhaseHost
    BY <1>1 DEF CloudInv, HostsFit, Instances
  <1>3. Instances \ late = {} \/ Instances \ late = {PhaseHost}
    BY <1>2
  <1>4. Cardinality({}) = 0 /\ \A x : Cardinality({x}) = 1
    BY FS_EmptySet, FS_Singleton
  <1>5. PICK S, n : S = Instances \ late /\ n = Cardinality(S)
    OBVIOUS
  <1>6. S = {} \/ S = {PhaseHost}
    BY <1>3, <1>5
  <1>7. n = 0 \/ n = 1
    BY <1>4, <1>5, <1>6
  <1>8. n <= 1
    BY <1>7
  <1>9. QED
    BY <1>5, <1>8

\* What the runs check of the paid hosts.
LEMMA CloudConclusions ==
  ASSUME CloudInv
  PROVE  CloudTypeOK /\ CleanupSuffices /\ OneHostAtATime /\ CloudClean
  BY CloudTyped, VerifiedGone, PassedClean, CalmSuffices, OneHost DEF CloudClean

-----------------------------------------------------------------------------
(***************************************************************************)
(* The instance that TLC explores, for any values of its constants.        *)
(***************************************************************************)
\* A step of one tool leaves the variables of the others.
LEMMA ToolsApart ==
  [QualNext]_qualVars => /\ [CloudNext]_cloudVars /\ [FlyNext]_flyVars /\ [PkNext]_pkVars
                         /\ [LedgerNext]_ledgerVars /\ [DocumentNext]_ldVars /\ [DownloadNext]_pdVars
  BY DEF QualNext, qualVars, packageVars

\* The Fly gate passes only over a route that has replaced the machine it killed,
\* and says "cleaned" only when every machine is destroyed, whatever machines stop,
\* creates land late and commands are killed (fly_qualification_adapter.py's gate and
\* cleanup).
THEOREM FlyAlwaysRecovers == QualSpec => []FlyRecovers
  <1>1. QualInit => FlyInv
    BY FlyStartsSound DEF QualInit
  <1>2. FlyInv /\ [QualNext]_qualVars => FlyInv'
    BY ToolsApart, FlyStaysSound
  <1>3. FlyInv => FlyRecovers
    BY FlyInvRecovers DEF FlyRecovers
  <1>4. QED
    BY <1>1, <1>2, <1>3, PTL DEF QualSpec

\* Whatever operation of the packaged run fails and whatever the person at the window
\* does, a document is only printed from a clean host, a run that does not say its
\* cleanup was unproved left nothing it knew of, and nothing of the product is alive
\* while it is replaced or removed (gate13_linux_packaged_lifecycle.py's
\* run_from_config).
THEOREM HostIsLeftClean == QualSpec => []HostLeftClean
  <1>1. QualInit => PkInv
    BY PackageStartsSound DEF QualInit
  <1>2. PkInv /\ [QualNext]_qualVars => PkInv'
    BY ToolsApart, PackageStaysSound
  <1>3. PkInv => HostLeftClean
    BY PkInvLeavesClean DEF HostLeftClean
  <1>4. QED
    BY <1>1, <1>2, <1>3, PTL DEF QualSpec

\* With at most one disturbance of the host, a document that passed tells a run that
\* kept what it had to keep and left nothing, and it is accepted again when read back;
\* with at most two invocations, there is nothing or the exact archive under a
\* package's name, and who says that it passed has left it there
\* (LifecycleController.accept and finalize; gate13_download_artifact.py's download).
THEOREM EvidenceIsExact ==
  ASSUME MaxDisturbances <= 1, AtMostTwo
  PROVE  QualSpec => []EvidenceExact
  <1> DEFINE Inv == DocumentInv /\ DownloadInv
  <1>1. QualInit => Inv
    BY DocumentStartsSound, DownloadStartsSound DEF QualInit
  <1>2. Inv /\ [QualNext]_qualVars => Inv'
    BY ToolsApart, DocumentStaysSound, DownloadStaysSound
  <1>3. Inv => EvidenceExact
    BY DocumentInvProves, DownloadInvExact DEF EvidenceExact
  <1> HIDE DEF Inv
  <1>4. QED
    BY <1>1, <1>2, <1>3, PTL DEF QualSpec

\* Whatever creates time out and land late, whatever instances expire, and wherever the
\* tool fails or is interrupted: what the evidence of a paid run calls absent is gone, or
\* came after its check, and a run that passed has left no credential and nothing but
\* what it retains (the evidence of gcp_public_route_lifecycle.py and of the cache lifecycle).
THEOREM PaidRunsClean == QualSpec => []CloudClean
  <1>1. QualInit => CloudInv
    BY CloudInvInit DEF QualInit
  <1>2. CloudInv /\ [QualNext]_qualVars => CloudInv'
    BY ToolsApart, CloudInvStep, CloudInvStutters
  <1>3. CloudInv => CloudClean
    BY CloudConclusions
  <1>4. QED
    BY <1>1, <1>2, <1>3, PTL DEF QualSpec

\* Every tool has its types; an undisturbed cleanup, from any prefix of the creates,
\* leaves nothing its checks look for; a fleet never has two hosts that it knows of; and
\* the runs of an epoch stay below the ceiling (gcp_public_route_lifecycle.py's plans, the
\* phases of the fleet, qualification_cost_guard.py's build_authorization).
THEOREM QualAlwaysSound == QualSpec => [](QualSound /\ SpendBounded)
  <1> DEFINE Inv == CloudInv /\ LedgerInv /\ FlyInv /\ PkInv /\ PkShape
  <1>1. QualInit => Inv
    BY CloudInvInit, LedgerStartsSound, FlyStartsSound, PackageStartsSound, ShapeStarts DEF QualInit
  <1>2. Inv /\ [QualNext]_qualVars => Inv'
    BY ToolsApart, CloudInvStep, CloudInvStutters, LedgerStaysSound, FlyStaysSound, PackageStaysSound, ShapeKept
  <1>3. Inv => QualSound /\ SpendBounded
    BY CloudConclusions, LedgerTyped, FlyInvRecovers, PkTyped DEF QualSound, QualTypeOK, LedgerInv
  <1> HIDE DEF Inv
  <1>4. QED
    BY <1>1, <1>2, <1>3, PTL DEF QualSpec
=============================================================================
