SPECIFICATION FairSpec
CONSTANTS
  d1 = d1
  d2 = d2
  None = None
  Digest <- MCDigest
  ForeignBundles <- MCForeignBundles
  MaxAttempts = 2
  FaultChoices <- MixedFaults
  MaxLag = 1
  RequestTicks = 1
  Oversleep = 1
  PollInterval = 1
  RejectedBudget = 3
  PollBudget = 4
  Cancellable = FALSE
INVARIANT DeterminateAbsence
INVARIANT ContradictionSurfaced
INVARIANT ReadbackConverges
INVARIANT RetryConverges
PROPERTY PublishReturns
CHECK_DEADLOCK FALSE
