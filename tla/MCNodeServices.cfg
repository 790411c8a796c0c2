SPECIFICATION NodeSpec
CONSTANTS
  Services = {"desktop", "window", "placement", "gateway", "discovery", "measurement", "store", "capacity"}
  Shares = {"w1", "w2"}
  ClientKeys = {"k1", "k2"}
  FirstKey = "k1"
  Slots = {1, 2}
  MaxClicks = 2
  MaxOthers = 1
  MaxLostRequests = 1
  Desktops = {"d1", "d2"}
  Headless = "headless"
  NoDesktop = "nobody"
  MaxDesktopFaults = 1
  Offers = {"a", "b"}
  StaticScore <- MCStaticScore
  MaxObservations = 2
  MaxRequests = 2
  MaxLost = 1
  Requests = {"r1", "r2", "r3"}
  Streams = {"r1"}
  Wants <- MCWants
  Threads = 3
  MaxConcurrent = 1
  MinimumAttempts = 2
  MaxDrops = 1
  MaxWindow = 2
  Groups = {"g"}
  GroupOf <- MCGroupOf
  MaxDhts = 2
  MaxDhtFaults = 1
  Spawned = {"dht", "p2pd"}
  MaxMeasureFaults = 2
  Workers = {"w", "x"}
  Acquirers = {"q"}
  Files = {"f", "g"}
  Size = 2
  HubFiles = {"f"}
  Ceiling = 2
  Disk = 2
  MaxResumptions = 1
  MaxStoreFaults = 2
  NumLayers = 3
  Starts <- MCStarts
INVARIANTS ServicesSound ServesAnnounced RuntimeHeld ReadersKeepFiles
PROPERTIES  ServicesEnd
CHECK_DEADLOCK FALSE
