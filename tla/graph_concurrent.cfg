SPECIFICATION Spec
CONSTANTS
  r1 = r1
  r2 = r2
  r3 = r3
  Requests = {r1, r2, r3}
  Inputs <- FewInputs
  Answers = {"good", "too_short"}
  MAX_RETRIES = 2
  RETRY_LIMIT = 2
  SEARCH_LIMIT = 1
SYMMETRY Symmetry
INVARIANTS
  TypeOK
  IInv
  RetryBound
  MemoryProvenance
  ContextFromOthers
CHECK_DEADLOCK FALSE
