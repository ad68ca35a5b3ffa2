\* As many registers as rows, which CPUO3_Config accepts.
CONSTANTS
  SpTagLen = 3
  PhyAmount = 2
  FinPowerUp = {TRUE}
  Arch = {1}
  ConstRegs = {}
  RobDepth = 2
  CommitLanes = 2
  FeLanes = 2
  Uops <- FewKinds
SPECIFICATION FairSpec
PROPERTY HeadRetires
