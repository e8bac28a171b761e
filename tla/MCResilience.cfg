SPECIFICATION MCSpec
CONSTANTS
  Peers = {p1, p2}
  TrustsAll = FALSE
  TrustProxy = 1
  Window = 2
  MaxPerWindow = 2
  MaxBuckets = 1
  PruneSlack = 1
  LimitTicks = 3
  LimitRequests = 5
  MaxTries = 3
  Backoff = 1
  Jitter = 1
  Budget = 4
  Retryable = {"fault", "outage"}
  Fatal = {"refused"}
  RetryTicks = 6
  Probes = {h1, h2}
  Dependencies = {db, queue}
  CacheFor = 2
  CheckTimeout = 1
  ProbeTicks = 5
  LagWindow = 3
  MaxLag = 2
  MaxHeap = 1
  Lags = {0, 2, 3}
  Heaps = {1, 2}
  Focused = {"bulkhead", "breaker", "limit", "retry", "health", "pressure"}
  Requests = {q1, q2, q3, q4}
  MaxConcurrent = 1
  MaxQueue = 2
  Callers = {c1, c2, c3}
  FailureThreshold = 2
  ResetTimeout = 2
  HalfOpenMaxCalls = 2
  Calm = {TRUE, FALSE}
  ListenerThrows = TRUE
CHECK_DEADLOCK FALSE
INVARIANTS
  SlotsSafe BreakerBounded BudgetKept RetriesInBudget ReportsRecent
PROPERTIES
  ImplementsGate RefusalsEnd
