SPECIFICATION Spec
CONSTANTS
  Objectives <- MCObjectives
  Offers <- MCOffers
  Weights <- MCWeights
  MaxSizes = {1, 2, 4}
INVARIANTS TypeOK BestIsKept CompromiseIsBest
PROPERTY ImplementsParetoSet
