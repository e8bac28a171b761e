CONSTANTS
  ctl = ctl
  svc = svc
  ctx = ctx
  job = job
  port = port
  gone = gone
  root = root
  q1 = q1
  q2 = q2
  c1 = c1
  c2 = c2
  c3 = c3
  c4 = c4
  c5 = c5
  x1 = x1
  x2 = x2
  p1 = p1
  p2 = p2
  l1 = l1
  l2 = l2
  l3 = l3
  l4 = l4
  Tokens = {ctl, svc, ctx, job, port}
  ScopeOf <- MCScopeOf
  DepsOf <- MCDepsOf
  Missing = gone
  Root = root
  Requests = {q1, q2}
  Routed = {q2}
  Calls = {c1, c2, c3, c4, c5}
  Wanted <- MCWanted
  Home <- MCHome
  SyncCalls = {c3, c5}
  AsyncTokens = {ctl}
  Throwing = {ctx}
  Closes = {x1, x2}
  Closed <- MCClosed
  Replaceable = {svc}
  MaxClears = 1
  None = None
  Providers = {p1, p2}
  Order <- MCOrder
  Rejecting = {p2}
  LifeCalls = {l1, l2, l3, l4}
  IsStart <- MCIsStart
  Principals <- MCPrincipals
  Routes <- MCRoutes
  Statuses = {200, 409}
  Errors = {0, 403}
  MaxRuns = 3
  Focused = {"closing", "sharing", "cycles", "life", "route"}
SPECIFICATION MCSpec
CHECK_DEADLOCK FALSE
INVARIANTS
  ScopesIsolated InstancesKept LifecycleKept RequestsAccounted
PROPERTIES
  EveryGetSettles
