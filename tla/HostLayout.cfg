CONSTANTS
  Options <- Budgets
  AutoDivisor = 6
  MaxAutoBytes = 96
  MaxInt = 30
SPECIFICATION Spec
INVARIANTS LTypeOK SlicesFit CacheBehindTable BudgetUsed AbortsOnlyForCause
CHECK_DEADLOCK FALSE
