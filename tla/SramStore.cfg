\* Two blocks, so that a cut write differs from an absent and a whole one.
SPECIFICATION Spec
CONSTANTS
  Blocks = 2
  Values = {0, 1}
  Fresh = 0
  Absent = 9
  Period = 3
INVARIANT TypeOK
INVARIANT AutosaveBounds
PROPERTY LoadsLastSave
