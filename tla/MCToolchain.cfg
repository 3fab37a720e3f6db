SPECIFICATION FairSpec
CONSTANTS
  Bodies <- MCBodies
  Nothing = Nothing
  Pins <- MCPins
  Versions = {"v1", "v2"}
  VersionOf <- MCVersionOf
  Safe = {"good", "other"}
  LaidOut = {"good", "unsafe"}
  Entries = 3
  Releases = {"v1", "v2"}
  ReleaseOf <- MCVersionOf
INVARIANT PinnedToolchainRuns
INVARIANT NothingLeftBehind
INVARIANT EvidenceBindsExecution
PROPERTY ToolchainSettles
CHECK_DEADLOCK FALSE
