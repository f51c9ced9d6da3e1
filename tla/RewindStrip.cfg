SPECIFICATION Spec
CONSTANTS
  Depth = 4
  Interval = 2
  MaxMoments = 12
  Torn = FALSE
INVARIANT KeepsOneTimeline
