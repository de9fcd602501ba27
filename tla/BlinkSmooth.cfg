SPECIFICATION Spec
CONSTANTS
  PressFactor = 120
  DutyPercent = 50
  LongMax = 32767
  InitPeriods <- StartPeriods
  MaxPeriod = 14
  MinPhase = 1
  MaxLag = 0
  LateExpiry = FALSE
INVARIANT
  TypeOK
PROPERTY
  ImplementsWave
