SPECIFICATION Spec
CONSTANTS
  d1 = d1
  d2 = d2
  None = None
  Digest <- MCDigest
  ForeignBundles <- MCForeignBundles
  MaxAttempts = 1
  FaultChoices <- NoFaults
  MaxLag = 1
  RequestTicks = 1
  Oversleep = 0
  PollInterval = 1
  RejectedBudget = 2
  PollBudget = 3
  Cancellable = FALSE
INVARIANT ConflictOnNewRunIsForeign
CHECK_DEADLOCK FALSE
