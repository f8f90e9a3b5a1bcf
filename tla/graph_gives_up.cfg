SPECIFICATION Spec
CONSTANTS
  r1 = r1
  Requests = {r1}
  Inputs <- FewInputs
  Answers = {"good", "too_short"}
  MAX_RETRIES = 2
  RETRY_LIMIT = 2
  SEARCH_LIMIT = 2
INVARIANTS
  GivesUpAfterMaxRetries
CHECK_DEADLOCK FALSE
