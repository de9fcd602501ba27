SPECIFICATION Spec
CONSTANTS
  a = a
  b = b
  c = c
  NumMsg = 5
  Timings = {TRUE, FALSE}
  ChildDies = TRUE
  Pollers = {c}
  MaxInterrupts = 6
  Procs = {1, 2}
  Junk = Junk
  Size = 3
  MaxText = 3
  Vals = {5, 42}
  Config <- Digits
  TempSize = 3
  Stray = {7}
  MaxCount = 5
  MaxOff = 5
  Periods = {0, 100, 199}
  MaxGap = 2
  Signals = {a, b}
  MaxSignals = 3
  MaxFd = 4
  Nap = 2
  NbrBlocks = 4
  Limit = 3
  Lines <- TwoLines
  Space = c
  Rows = 3
  RowChars = 3
  CharWidth = 2
  Nibble = 4
  MaxFailures = 2
  Claimed = {"led", "k1"}
  Leftover = {"led", "k1"}
  MaxRuns = 2
INVARIANTS
  TypeOK
  InOrder
  NoPhantom
  ShowStops
  WholeText
  Detaches
  CountExact
  GroupsApart
  FreedAll
  DamageContained
  CleanLife
PROPERTIES
  ParentEnds
  AllCounted
  StoreTakesEffect
  ShowTellsTruth
  PhaseLength
  LedBlinks
  DaemonEnds
CHECK_DEADLOCK FALSE
