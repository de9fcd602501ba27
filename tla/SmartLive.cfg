SPECIFICATION FairSpec
CONSTANTS
  PressFactor = 120
  DutyPercent = 50
  LongMax = 32767
  MaxPeriod = 4
  MinPhase = 1
  InitPeriod = 4
  PressTime = 2
  MaxEvents = 2
  Buttons = {"k1", "k2"}
  Hands = 1
  MayFail = TRUE
PROPERTIES
  ButtonServed
  RepeatStops
  LedRecovers
