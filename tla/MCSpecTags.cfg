\* Three tags: branches nest three deep, a group holds two lanes.  Every row of
\* the Mpft powers up either empty or full.
CONSTANTS
  SpTagLen = 4
  FeLanes = 2
  PowerUp = {{}, {0, 1, 2, 3}}
SPECIFICATION FairSpec
INVARIANTS TypeOK OpenTagsAreTheRing KillsExactlyYounger NoStaleTag
PROPERTY GroupLeavesDispatch
