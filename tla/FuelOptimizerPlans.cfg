CONSTANTS
  Stations = {1, 2, 3}
  Contexts <- MCContexts
  Quantum = 2
  None = None
SPECIFICATION MCSpec
CHECK_DEADLOCK FALSE
INVARIANTS ReserveKept PurchasesWithinLimits FailureHasTarget InfeasibleOnlyAtGap OptimalWithoutDetours ShownIsSnapshot ComparisonIsFair
PROPERTY Terminates
