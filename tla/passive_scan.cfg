SPECIFICATION Spec
CONSTANTS
  Scans = 2
  Offer <- AnyThenPatched
  MaxAsk = 2
  MaxOpen = 1
  MaxFault = 1
INVARIANTS VerdictEarned TrafficIsOwn
VIEW Remembered
CHECK_DEADLOCK FALSE
