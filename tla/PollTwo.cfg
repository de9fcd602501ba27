SPECIFICATION Spec
CONSTANTS
  Pollers = {a, b}
  MaxInterrupts = 2
INVARIANTS
  CountIsReal
CHECK_DEADLOCK FALSE
