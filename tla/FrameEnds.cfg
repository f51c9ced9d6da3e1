\* One-clock instructions and short handlers: every frame ends.
SPECIFICATION ESpec
CONSTANTS
  LineClocks = 6
  HBlank = 4
  Lines = 3
  VBlankLine = 2
  Dot = 2
  Byte = 2
  JoyClocks = 5
  Chunk = 100
  CpuCharges = {1}
  MaxClock = 40
  ActiveClocks = 3
  MaxSlices = 6
  HandlerMax = 2
  NmitimenWrites <- MCWrites
  TimerBytes = {0}
  MaxWrites = 3
  MaxFrames = 1
PROPERTY FrameEnds
CHECK_DEADLOCK FALSE
