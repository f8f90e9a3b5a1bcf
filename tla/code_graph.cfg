SPECIFICATION Spec
CONSTANTS
  Files <- MCFiles
  Targets <- MCTargets
  Texts <- MCTexts
  Runs = {r1, r2}
  MAX_EDITS = 1
INVARIANTS TypeOK Anchored IndexedIsPresent AloneIsCurrent OwnSymbols
CHECK_DEADLOCK FALSE
SYMMETRY Symmetry
