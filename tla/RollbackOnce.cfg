SPECIFICATION Spec
CONSTANTS
  MaxTick = 4
  MaxMisses = 1
  MaxAgain = 1
  Delay = 1
  Prediction = 1
  Depth = 2
  Runway = 1
  MaxExtends = 0
  Cooldown = 1
  Lockstep = 1
INVARIANT TipSealedOnce
CHECK_DEADLOCK FALSE
