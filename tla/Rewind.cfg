SPECIFICATION Spec
CONSTANTS
  Depth = 4
  Interval = 2
  MaxMoments = 12
  Torn = TRUE
INVARIANTS
  TypeOK
  HolesAreOldest
  CaptionHolds
PROPERTIES
  RemembersTimeline
