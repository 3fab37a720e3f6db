SPECIFICATION JobSpec
CONSTANTS
  Retries = 3
  RejectOverflow = TRUE
INVARIANT ConclusionWasTrue
INVARIANT SuccessIsComplete
INVARIANT NoSilentSurvivors
INVARIANT BuffersAreQuiet
INVARIANT StartedOnAnswer
PROPERTY StepReturns
CHECK_DEADLOCK FALSE
