SPECIFICATION QualSpec
CONSTANTS
  Tools = {"cloud", "ledger", "fly", "package", "document", "download"}
  Workloads = {"route", "cache", "fleet"}
  FleetRegions <- MCFleetRegions
  MaxFaults = 2
  Runs = {"a", "b", "c"}
  Proposal <- MCProposal
  MaxFlyFaults = 2
  MaxPkFaults = 2
  MaxGuiActs = 2
  MaxDisturbances = 1
  Invocations = {"i", "j"}
  MaxTransfers = 1
INVARIANTS QualSound CloudClean SpendBounded FlyRecovers HostLeftClean EvidenceExact
PROPERTY RunsEnd
CHECK_DEADLOCK FALSE
