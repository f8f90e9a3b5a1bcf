SPECIFICATION Spec
CONSTANTS
  Requests = {r1, r2, r3}
  Jobs <- MCJobs
SYMMETRY Symmetry
INVARIANTS TypeOK SequentialIsExact OutageFailsClosed InterferenceIsConfined
CHECK_DEADLOCK FALSE
