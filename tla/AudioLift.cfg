\* Run-ahead: the ring is lifted out and put back under two holds of the lock.
SPECIFICATION Spec
CONSTANTS
  Ring = 4
  Width = 16
  Bytes = {16}
  Stamps = 32
  Unit = 4
  Ratios = {4}
  Frames = 2
  Target = 3
  Low = 1
  Fade = 1
  Speculated = 4
  Commands = {"runahead"}
PROPERTY HeardOnce
