SPECIFICATION FairSpec
CONSTANTS
  MaxTick = 3
  MaxMisses = 2
  MaxAgain = 0
  Delay = 1
  Prediction = 1
  Depth = 2
  Runway = 1
  MaxExtends = 1
  Cooldown = 2
  Lockstep = 2
INVARIANT TypeOK
INVARIANT CommittedExact
INVARIANT SnapshotsCurrent
PROPERTY CommitsTogether
PROPERTY MatchSettles
CHECK_DEADLOCK FALSE
