SPECIFICATION Spec
CONSTANTS
  w1 = w1
  w2 = w2
  None = None
  Worker <- TwoWorkers
  MaxCrash = 3
  MaxOperator = 2
  MaxRestart = 1
SYMMETRY Symmetric
INVARIANTS LedgerBacksState EffectOnce PassIsEarned OneVerdict
CHECK_DEADLOCK FALSE
