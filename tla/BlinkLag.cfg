SPECIFICATION Spec
CONSTANTS
  PressFactor = 120
  DutyPercent = 40
  LongMax = 1023
  InitPeriods <- AnyPeriods
  MaxPeriod = 1023
  MinPhase = 0
  MaxLag = 2
  LateExpiry = TRUE
INVARIANTS
  BlinkArmed
  WaveAccurate
