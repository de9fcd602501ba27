SPECIFICATION FairSpec
CONSTANT
  MaxTimeouts = 4
INVARIANTS
  KicksAreReal
  NoCodeAfterUnload
PROPERTIES
  KickDelivered
  ExitCompletes
CHECK_DEADLOCK FALSE
