\* Every kind of micro-operation, two rows, values in flight: x0 is hardwired.
CONSTANTS
  SpTagLen = 3
  PhyAmount = 4
  FinPowerUp = {TRUE}
  Arch = {0, 1}
  ConstRegs = {0}
  RobDepth = 2
  CommitLanes = 2
  FeLanes = 2
  Uops <- AllKinds
SPECIFICATION VSpec
INVARIANTS
  TypeOK
  MasterMapsYoungest
  SnapshotsMapTheirPath
  RingsAgree
  FinTracksWriteback
  OperandsFollowProgram
  ArfHoldsRetired
