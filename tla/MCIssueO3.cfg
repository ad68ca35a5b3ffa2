SPECIFICATION FairSpec
CONSTANTS
  SpTagLen = 2
  RobDepth = 4
  CommitLanes = 2
  FeLanes = 2
  O3Size = 3
  TrackWidth = 2
  UnitCnt = 2
  Runs <- AluAndAny
  Uops <- AllUops
INVARIANTS
  TypeOK
  EntriesInOnePlace
  ReadyWhenResultExists
  O3PairsFollowBranches
  OldestGoesFirst
PROPERTY EntriesLeave
