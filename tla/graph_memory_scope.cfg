SPECIFICATION Spec
CONSTANTS
  r1 = r1
  r2 = r2
  Requests = {r1, r2}
  Inputs <- FewInputs
  Answers = {"good", "too_short"}
  MAX_RETRIES = 2
  RETRY_LIMIT = 2
  SEARCH_LIMIT = 2
INVARIANTS
  MemoryOnlyForComplex
CHECK_DEADLOCK FALSE
