SPECIFICATION Spec
CONSTANTS
  Requests = {r1, r2, r3}
  Jobs <- MCJobs
SYMMETRY Symmetry
INVARIANT ClientOpenInBlock
CHECK_DEADLOCK FALSE
