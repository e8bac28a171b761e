SPECIFICATION MCSpec
CONSTANTS
  t1 = t1 t2 = t2 t3 = t3 w1 = w1 w2 = w2
  h1 = h1 h2 = h2 h3 = h3 p1 = p1 p2 = p2
  x1 = x1 x2 = x2 x3 = x3 r1 = r1 r2 = r2
  NoTask = NoTask
  Focused = {"jobs", "bus", "outbox"}
  Tasks = {t1, t2, t3}
  Workers = {w1, w2}
  Unregistered = {t3}
  MaxAttempts <- MCMaxAttempts
  Backoff = 1
  Delays = {0, 1}
  AuditRejects = {TRUE, FALSE}
  Handlers = {h1, h2}
  Publications = {p1, p2}
  MaxDeliveries = 2
  MaxArrays = 2
  MaxSubscribed = 2
  Records = {x1, x2, x3}
  Relays = {r1, r2}
  Limits = {0, 2}
  MaxNacks = 1
CHECK_DEADLOCK FALSE
INVARIANTS
  JobsKept Delivered RecordsKept
PROPERTIES
  JobsAccounted ImplementsLifecycle EverythingEnds
