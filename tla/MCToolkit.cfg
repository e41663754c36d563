SPECIFICATION ToolkitSpec
CONSTANTS
  None = None
  Call = {c1, c2, c3}
  Account = {a, b}
  FailureThreshold = 2
  SuccessThreshold = 2
  MaxCount = 4
  ClientCall = {x, y}
  Network = {testnet, mainnet}
  CacheKey = {k}
  MaxTries = 2
  MaxHandlers = 2
  Retries = 2
  MaxNesting = 4
  Words <- MCWords
  Types <- MCTypes
  Values <- MCValues
  Commitment = {s1, s2, s3}
  MaxStoredSalts = 2
  SaltTtl = 2
  MaxClock = 3
  RawEvents <- MCRawEvents
  TopicValue = {"x", "y"}
  MaxFilters = 2
  MaxIntervals = 2
  Poll = {p1, p2}
  MaxEmitted = 2
  Gateway = {g1, g2}
  MaxGateways = 2
  Failures <- MCFailures
  RetryPolicy <- MCRetryPolicy
  Instance = {i1, i2}
  MaxAgents = 4
  Fee = {0, 1, 100}
  Multiplier = {90000, 100004, 100005}
  MaxBumps = 2
  BaseDelay = 3
  MaxDelay = 8
  Endpoints = 2
  Turns = 2
  MaxInFlight = 2
  MaxReports = 1
  MaxOutages = 1
  HistoryLength = 3
  HistoryPage = 2
  Places <- MCPlaces
INVARIANTS ServicesTypeOK HooksAgree CallersAreServed SwitchIsClean RetriesAreSafe CodecHolds
PROPERTIES BreakerMoves WatchersKeepUp
CHECK_DEADLOCK FALSE
