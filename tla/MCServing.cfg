SPECIFICATION ServingSpec
CONSTANTS
  Servers = {"a", "b", "c"}
  NumBlocks = 5
  SpanLen <- MCSpanLen
  Rps <- MCRps
  Quality = 750
  MaxMoves = 1
  Handlers = {"h"}
  SpanChoices <- MCSpanChoices
  MaxContainers = 2
  MaxServerFaults = 1
  Tasks = {"a", "b", "c", "d"}
  PoolOf <- MCPoolOf
  Urgency <- MCUrgency
  Oversize = {"d"}
  MaxDeaths = 1
  Peers = {"p", "q"}
  Layers = 2
  Callers = {"c"}
  Allowed = {"p", "q"}
  MaxChurn = 1
  MaxRouteFaults = 1
  RpcRetries = 2
  Depth = 4
  TrainRetries = 3
  MaxTrainFaults = 5
  Chain <- MCChain
  LongSteps = FALSE
  MaxKvSteps = 2
  MaxKvFaults = 2
INVARIANTS ServerSound RoutesTile GradientExact ConsumersFed
PROPERTY ServingEnds
CHECK_DEADLOCK FALSE
