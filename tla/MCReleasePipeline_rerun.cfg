SPECIFICATION Spec
CONSTANTS
  r1 = r1
  r2 = r2
  refA = refA
  refB = refB
  Runs <- MCRuns
  Refs <- MCRefs
  Groupings <- MCGroupings
  MaxAttempts <- MCAttempts
INVARIANT RerunFindsHandoff
CHECK_DEADLOCK FALSE
