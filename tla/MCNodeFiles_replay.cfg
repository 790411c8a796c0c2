SPECIFICATION FilesSpec
CONSTANTS
  Stores = {"a", "b"}
  Policies = {"p", "q"}
  MaxEdits = 2
  MaxIoFaults = 1
  Keys = {"k1", "k2"}
  Rotations <- MCRotations
  Revocations <- MCRevocations
  MaxTtl <- MCMaxTtl
  Skew = 1
  MaxClock = 3
  MaxRestarts = 1
  MaxActive = 3
  Installers = {"i", "j"}
  TrustedKeys = {"r1", "r2"}
  Threshold = 2
  Ladders <- MCLadders
  MaxSeq = 2
  MaxMirrors = 2
  MaxInstallFaults = 2
  Secrets = {"b", "k1", "k2"}
  Bootstrap = "b"
  MaxKeyFaults = 2
  Releases <- MCReleases
  MaxBundleFaults = 2
INVARIANT AnnouncementsOrdered
CHECK_DEADLOCK FALSE
