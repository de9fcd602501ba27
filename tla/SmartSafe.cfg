SPECIFICATION Spec
CONSTANTS
  PressFactor = 120
  DutyPercent = 50
  LongMax = 32767
  MaxPeriod = 4
  MinPhase = 1
  InitPeriod = 4
  PressTime = 1
  MaxEvents = 2
  Buttons = {"k1", "k3"}
  Hands = 2
  MayFail = TRUE
INVARIANTS
  TypeOK
  RepeatHasOwner
PROPERTY
  ImplementsWave
