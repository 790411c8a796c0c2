SPECIFICATION PartsSpec
CONSTANTS
  Parts = {"paged", "admission"}
  Sessions = {s1, s2}
  ProcOf <- OneProcess
  MaxSize = 2
  Sizes = {1, 2}
  Timeouts = {"zero", "finite"}
  MaxAllocs = 3
  NoSession = NoSession
  NumPages = 4
  PageSize = 2
  Slots = {a, b}
  Batch = 2
  MaxRow = 3
  Versions = {0, 1}
  NoSlot = NoSlot
  MaxSteps = 3
  Streams = {t1, t2, t3}
  Peers = {p1, p2}
  SessionNames = {n1}
  NoName = NoName
  MaxActive = 1
  MaxPerPeer = 1
  MaxTracked = 1
  PeerTtl = 2
  Unit = 2
  GlobalRate = 2
  GlobalBurst = 3
  PeerRate = 1
  PeerBurst = 1
  MaxClock = 3
  MaxStall = 1
  MaxLockFaults = 1
  Handlers = {h1, h2}
  PushNames = {n1}
  NoPush = NoPush
  MaxPending = 2
  MaxGens = 4
  MaxPushes = 5
  MaxPushFaults = 1
  va = va
  vb = vb
  vc = vc
  vd = vd
  NumBlocks = 4
  Servers = {va, vb, vc, vd}
  Serves <- Overlapping
  MaxLength = 4
  MaxStep = 2
  MaxTokens = 5
  ReplayChunk = 2
  MaxRetries = 3
  MaxFailures = 4
  GoesOn = TRUE
CHECK_DEADLOCK FALSE
INVARIANTS SessionsTypeOK PagesExact AdmissionExact
PROPERTY FailsClosed
