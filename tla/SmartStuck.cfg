SPECIFICATION Spec
CONSTANTS
  PressFactor = 120
  DutyPercent = 50
  LongMax = 32767
  MaxPeriod = 4
  MinPhase = 1
  InitPeriod = 2
  PressTime = 1
  MaxEvents = 2
  Buttons = {"k1"}
  Hands = 1
  MayFail = FALSE
INVARIANT
  PressReadReturns
CHECK_DEADLOCK FALSE
