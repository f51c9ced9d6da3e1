\* Two frames of three short lines; the program arms every kind of IRQ.
SPECIFICATION ESpec
CONSTANTS
  LineClocks = 6
  HBlank = 4
  Lines = 3
  VBlankLine = 2
  Dot = 2
  Byte = 2
  JoyClocks = 5
  Chunk = 100
  CpuCharges = {2, 13}
  MaxClock = 50
  ActiveClocks = 3
  MaxSlices = 6
  HandlerMax = 1
  NmitimenWrites <- MCWrites
  TimerBytes = {0}
  MaxWrites = 4
  MaxFrames = 2
INVARIANTS
  ETypeOK
  RenderBetweenSlots
  NothingDeferred
  NeverDies
  NmiAtVblank
CHECK_DEADLOCK FALSE
