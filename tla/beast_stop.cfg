SPECIFICATION FairSpec
CONSTANTS
  MaxRun = 2
  Target = {t}
  Stop = {s}
  Request = {}
  MaxCommands = 1
  MaxConnections = 2
  MaxConcurrency = 1
  Faults = {"rpc"}
INVARIANT OneActive
PROPERTIES StopStands StopSettles
CHECK_DEADLOCK FALSE
