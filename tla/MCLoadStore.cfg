\* Two nested branches over a four-row ROB and a buffer of two, so that stores
\* fill the buffer and squashes meet stores in every place.
CONSTANTS
  SpTagLen = 3
  RobDepth = 4
  CommitLanes = 2
  FeLanes = 2
  BufDepth = 2
  RsvSize = 2
  Addrs = {0}
  Parts = {"hi", "lo"}
  Bytes = {0, 1}
  Image <- Zeroes
  Uops <- Branching
  OwnAck = FALSE
SPECIFICATION FairSpec
INVARIANTS
  TypeOK
  AccessesInOrder
  BufferIsProgramOrder
  PairsFollowBranches
PROPERTY StageZeroClears
