SPECIFICATION Spec
CONSTANTS
  Elements = 2
  Instances = 3
  MaxChildren = 2
  MaxUnbinds = 1
INVARIANTS
  UnloadedMeansGone
CHECK_DEADLOCK FALSE
