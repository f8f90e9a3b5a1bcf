SPECIFICATION Spec
CONSTANTS
  r1 = r1
  r2 = r2
  Requests = {r1, r2}
  Inputs <- MoreInputs
  Answers = {"good", "too_short"}
  MAX_RETRIES = 2
  RETRY_LIMIT = 2
  SEARCH_LIMIT = 2
PROPERTIES
  ImplementsChatService
  FailureEndsTheRun
  EveryRequestAnswered
INVARIANTS
  DeliveredAnswerIsJudged
  AnswerAttributed
CHECK_DEADLOCK FALSE
