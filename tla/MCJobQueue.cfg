SPECIFICATION QueueSpec
CONSTANTS
  Job = {j1, j2}
  Runner = {r1, r2}
  MaxAttempts = 2
  MaxTries = 4
  MaxMishaps = 2
  None = None
INVARIANTS QueueTypeOK LoopSurvives
PROPERTIES OutcomeByItsClaimer HistoryImmutable EveryJobSettles
CHECK_DEADLOCK FALSE
