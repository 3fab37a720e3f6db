SPECIFICATION Spec
CONSTANTS
  d1 = d1
  d2 = d2
  None = None
  Digest <- MCDigest
  ForeignBundles <- MCForeignBundles
  MaxAttempts = 2
  FaultChoices <- AllFaults
  MaxLag = 1
  RequestTicks = 1
  Oversleep = 0
  PollInterval = 1
  RejectedBudget = 2
  PollBudget = 3
  Cancellable = TRUE
INVARIANT SuccessIsOwn
INVARIANT NoSecondPublish
INVARIANT DeniedMeansNoWrite
PROPERTY KeepsPromise
CHECK_DEADLOCK FALSE
