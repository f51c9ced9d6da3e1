\* One channel, its tables direct or indirect in turn; handlers are entered
\* anywhere while they are direct.
SPECIFICATION HSpec
CONSTANTS
  Channels = {0}
  Half = 4
  Memory <- MCMemory
  Unit <- MCUnit
  Interrupted = {"direct"}
  Sources = {2, 32, 62}
  Leftovers = {33}
  VisibleLines = 9
INVARIANT HTypeOK
PROPERTY PlaysTables
