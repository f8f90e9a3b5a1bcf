SPECIFICATION Spec
CONSTANTS
  Requests = {r1, r2}
  Refreshes = {f1}
  Inputs <- MCInputs
  health_cache_ttl = 1
  CHECK_TIMEOUT = 1
  Faults = {"sick"}
  MAX_TIME = 3
  MAX_CHANGES = 2
INVARIANT IInv
PROPERTIES RoutedToLiving AnsweredByLiving
CHECK_DEADLOCK FALSE
SYMMETRY Symmetry
