SPECIFICATION RelaySpec
CONSTANTS
  Symbols = {"a", "b", "#", "[", "nl", "ctl"}
  Dropped = {"ctl"}
  Secrets <- MCSecrets
  Marker <- MCMarker
  MaxBytes = 5
  MaxLines = 2
  MaxInput = 6
INVARIANT BoundedAndInert
INVARIANT StreamsLikeBatch
CHECK_DEADLOCK FALSE
