\* The host of this repository: it fills the ring and plays it.
SPECIFICATION FairSpec
CONSTANTS
  Ring = 8
  Width = 32
  Bytes = {32}
  Stamps = 24
  Unit = 4
  Ratios = {3, 4, 5}
  Frames = 3
  Target = 5
  Low = 1
  Fade = 2
  Speculated = 0
  Commands = {}
PROPERTY PlaysQueue
PROPERTY PlaybackResumes
