\* A refused transfer that starts stage 1 all the same.
CONSTANTS
  SpTagLen = 3
  RobDepth = 4
  CommitLanes = 2
  FeLanes = 2
  BufDepth = 2
  RsvSize = 2
  Addrs = {0}
  Parts = {"hi", "lo"}
  Bytes = {0, 1}
  Image <- Zeroes
  Uops <- Branching
  OwnAck = TRUE
SPECIFICATION Spec
INVARIANT FinishedHasExecuted
