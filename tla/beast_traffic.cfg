SPECIFICATION Spec
CONSTANTS
  MaxRun = 2
  Target = {t}
  Stop = {s}
  Request = {q1, q2}
  MaxCommands = 2
  MaxConnections = 2
  MaxConcurrency = 1
  Faults = {"rpc", "gateway", "detached", "drain"}
CONSTRAINT StopOrRequests
VIEW Relevant
INVARIANTS VerdictEarned ConcurrencyBound
CHECK_DEADLOCK FALSE
