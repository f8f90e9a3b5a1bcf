SPECIFICATION Spec
CONSTANTS
  Models <- MCModels
  Cycles = {c1, c2}
  Scores <- MCScores
  SAMPLE_SIZE = 1
  FRONTIER_SIZE = 2
  MAX_VARIANTS = 1
  MAX_RECORDS = 3
  MAX_SECONDS = 1
  MAX_STARTS = 2
SYMMETRY Symmetry
INVARIANTS TypeOK FrontierIsAntichain BestSurvives
PROPERTIES EvictionJustified
CHECK_DEADLOCK FALSE
