SPECIFICATION Spec
CONSTANTS
  None = None
  Run = {r1}
  Limits <- Budgets
  MaxOperator = 2
  MaxRestart = 1
  Faults = {"http", "model", "budget", "interrupt"}
INVARIANTS EffectsCharged SavedIsHonest CleanupProven
PROPERTIES NoModelAfterCancel RunEnds
CHECK_DEADLOCK FALSE
