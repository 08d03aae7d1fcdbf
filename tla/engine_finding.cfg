SPECIFICATION Spec
CONSTANTS
  s1 = s1
  s2 = s2
  m1 = m1
  m2 = m2
  None = None
  Scan <- TwoScans
  Console <- TwoScans
  Model = {m1, m2}
  DefaultModel = m1
  Answers <- Findings
  MaxDispatch = 1
  MaxIteration = 1
  MaxSelect = 0
  MaxCrash = 1
  Faults = {}
PROPERTY EngineFindingKept
CHECK_DEADLOCK FALSE
