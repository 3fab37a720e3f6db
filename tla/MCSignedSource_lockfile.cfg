SPECIFICATION ReleaseSpec
CONSTANTS
  MaxComponent = 3
  Path <- MCPath
  Metadata <- MCMetadata
  Descriptors <- MCDescriptors
  Ranges <- MCRanges
  Observed <- MCObserved
  Version = {"v1", "v2"}
  Revision = {"r1", "r2"}
  ManifestVersion <- MCManifestVersion
  InputRefs <- MCInputRefs
  InvocationRefs <- MCInvocationRefs
  Alterations = 0
INVARIANT LockfileSelectionIsRecorded
CHECK_DEADLOCK FALSE
