SPECIFICATION Spec
CONSTANTS
  None = None
  MaxOthers = 1
INVARIANTS GoEarned UsageCounted WayOut
VIEW Remembered
CHECK_DEADLOCK FALSE
