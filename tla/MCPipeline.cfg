SPECIFICATION MCSpec
CONSTANTS
  Chain = 3
  HasTimeout = TRUE
  None = None
  Literals = {"a"}
  Other = "x"
  BadEscape = "%"
  TooLong = "long"
  Depth = 2
  MaxAdds = 3
  MaxUses = 1
  CacheCap = 2
  MaxRoutes = 2
  Focused = {"chain", "routing", "caching"}
CHECK_DEADLOCK FALSE
INVARIANTS
  ChainDecided RoutingAgrees PipelinesFresh
