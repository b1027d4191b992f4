CONSTANTS
  Momentum = 100
  Direction <- MCDirection
SPECIFICATION Spec
INVARIANTS
  EfficiencyIsMet
CHECK_DEADLOCK FALSE
