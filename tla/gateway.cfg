SPECIFICATION Spec
CONSTANTS
  Tools <- MCTools
  Methods <- MCMethods
  Configs <- MCConfigs
  Seconds <- MCSeconds
  Settings = {1, 3}
  MAX_TIME = 3
  MAX_SETTINGS = 1
  MAX_REQUESTS = 3
  MAX_RESTARTS = 1
INVARIANTS TypeOK IInv WindowBound RejectionJustified AuditTrail
CHECK_DEADLOCK FALSE
