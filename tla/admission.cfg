SPECIFICATION RegistrySpec
CONSTANTS
  l1 = l1
  l2 = l2
  c1 = c1
  c2 = c2
  None = None
  Lease <- TwoLeases
  Thread <- TwoThreads
  NotBefore <- FromStart
  Expires <- Staggered
  Skew = 1
  NonceMemory = 2
  Faults = {"bad"}
  MaxTime = 2
  MaxLog = 2
SYMMETRY Threads
VIEW Relevant
INVARIANTS ConsumedInTime SingleUse
PROPERTIES GrantOnlyWhileArmed Implements
CHECK_DEADLOCK FALSE
