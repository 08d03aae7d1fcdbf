SPECIFICATION Spec
CONSTANTS
  k1 = k1
  t1 = t1
  t2 = t2
  MaxSession = 2
  Stop <- OneStop
  Scenario <- TwoScenarios
  Worlds <- StopOrLoss
INVARIANTS OneEngine LeaseRunsOnce TrafficIsOwn
PROPERTIES StopNotOvertaken
SYMMETRY Symmetric
VIEW Relevant
CHECK_DEADLOCK FALSE
