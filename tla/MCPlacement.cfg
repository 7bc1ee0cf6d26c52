SPECIFICATION Spec
CONSTANTS
  Names = {1, 2, 3}
  MaxPods = 3
  Capacities = {0, 1, 2}
  Scores <- MCScores
INVARIANTS
  TypeOK
  CapacityRespected
  AssignedOnce
  UnassignedIsOverflow
  MovesOnlyOverflow
  Reproducible
