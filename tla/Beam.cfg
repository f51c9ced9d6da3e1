\* A line of three dots and a field of three lines, walked a little over twice.
SPECIFICATION Spec
CONSTANTS
  LineClocks = 6
  HBlank = 4
  Lines = 3
  VBlankLine = 2
  Dot = 2
  Byte = 2
  JoyClocks = 5
  Chunk = 5
  CpuCharges = {1, 7}
  MaxClock = 40
INVARIANTS
  TypeOK
  BeamOnClock
  SlotPerLine
  NeverAhead
  JoyNeverOverstays
PROPERTIES
  StopsAtMatch
  WalkEnds
CHECK_DEADLOCK FALSE
