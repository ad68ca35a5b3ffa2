\* A buffer deeper than the ROB, two words and a store of half a word: forwarding
\* chooses among several stores on both sides of the wrap.
CONSTANTS
  SpTagLen = 2
  RobDepth = 2
  CommitLanes = 2
  FeLanes = 2
  BufDepth = 4
  RsvSize = 2
  Addrs = {0, 1}
  Parts = {"hi", "lo"}
  Bytes = {0, 1}
  Image <- Zeroes
  Uops <- TwoWords
  OwnAck = FALSE
SPECIFICATION Spec
INVARIANTS
  LoadsSeeProgramOrder
  MemoryKeepsCommits
