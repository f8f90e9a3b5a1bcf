SPECIFICATION Spec
CONSTANTS
  Checks = {c1, c2}
  Chats = {x1}
  Conditions <- FewFaults
  PoolSizes = {2, 4}
INVARIANTS TypeOK HealthyIsReported SicknessIsReported
PROPERTIES EveryCheckAnswers EveryChatAnswers
CHECK_DEADLOCK FALSE
