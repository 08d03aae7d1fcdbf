SPECIFICATION FairSpec
CONSTANTS
  k1 = k1
  t1 = t1
  t2 = t2
  MaxSession = 1
  Stop <- OneStop
  Scenario <- OneScenario
  Worlds <- StopAndLoss
INVARIANTS StopSilences
PROPERTIES AllSettle
CHECK_DEADLOCK FALSE
