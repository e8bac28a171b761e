SPECIFICATION MCSpec
CONSTANTS
  v1 = v1 v2 = v2 v3 = v3 b1 = b1 b2 = b2
  d1 = d1 d2 = d2 p1 = p1 p2 = p2
  Focused = {"session", "rotation", "ports", "keys", "poll"}
  KeptRetired = 2
  MaxMinted = 6
  Origins <- MCOrigins
  Readers = {d1, d2}
  OriginOf <- MCOriginOf
  Negative = {d2}
  Ttl = 1
  CacheCap = 1
  Versions = 2
  CacheTicks = 2
  Verifiers = {v1, v2, v3}
  Providers = {p1, p2}
  KeysFor = 2
  FetchTakes = 1
  PollEvery = 1
  SlowDown = 1
  PollBudget = 4
  KeyTicks = 5
  Visits = {v1, v2, v3}
  Browsers = {b1, b2}
  Callings <- MCCallings
  Contents = {"empty", "cart"}
  TooLarge = {"cart"}
  StoreFails = TRUE
  MaxAge = 1
  MaxRecords = 2
  SessionTicks = 1
  MaxIds = 2
CHECK_DEADLOCK FALSE
INVARIANTS
  NoOrphans
PROPERTIES
  SequentialSession StaleOnlyIfOvertaken ReuseCloses ProviderAsked
