SPECIFICATION FairSpec
CONSTANTS
  NumMsg = 5
  MaxSignals = 0
  Timings = {FALSE}
  ChildDies = FALSE
PROPERTY
  ExitHeeded
CHECK_DEADLOCK FALSE
