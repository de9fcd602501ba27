SPECIFICATION Spec
CONSTANTS
  Elements = 2
  Instances = 3
  MaxChildren = 2
  MaxUnbinds = 1
INVARIANTS
  UnloadComplete
  FailedInitIsInert
  OpenFilesServed
  StrayCallsExplained
CHECK_DEADLOCK FALSE
