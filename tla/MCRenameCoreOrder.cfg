\* Four rows, two of which may be open branches, one lane wide: branches nest
\* with work between them, rows retire under an open branch and a group lands
\* beside a commit and a writeback.  There are more registers than rows.
CONSTANTS
  SpTagLen = 3
  PhyAmount = 8
  FinPowerUp = {TRUE}
  Arch = {1}
  ConstRegs = {}
  RobDepth = 4
  CommitLanes = 2
  FeLanes = 1
  Uops <- FewKinds
SPECIFICATION TickingSpec
INVARIANTS
  SnapshotsMapTheirPath
  SourcesFollowProgramOrder
PROPERTIES
  RunsInProgramOrder
  HeadRetires
