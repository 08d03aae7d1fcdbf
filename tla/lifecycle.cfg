SPECIFICATION Spec
CONSTANTS
  UNKNOWN = UNKNOWN
  Outcomes <- AllOutcomes
  Calls <- AllCalls
  Internal <- LoopInternal
  External <- LoopExternal
  RequiredStages <- Required
  PerStageBudget = 2
  CumulativeBudget = 3
  Obligations = {"tokens", "jobs"}
  MaxAttempts = 2
CONSTRAINT ReissuesEarly
VIEW Relevant
INVARIANTS WriteAhead DoneBacked BudgetRespected ReportAfterRetest
PROPERTIES GivenUpExplicitly CompletedEarned
CHECK_DEADLOCK FALSE
