\* Save states, loads cut short, run-ahead and resets; the samples themselves do not matter.
SPECIFICATION Spec
CONSTANTS
  Ring = 4
  Width = 8
  Bytes = {2, 4, 8}
  Stamps = 1
  Unit = 4
  Ratios = {3, 4, 5}
  Frames = 2
  Target = 3
  Low = 1
  Fade = 1
  Speculated = 4
  Commands = {"state", "torn", "runahead", "reset"}
INVARIANT TypeOK
INVARIANT FillBounded
INVARIANT PeeksQueued
