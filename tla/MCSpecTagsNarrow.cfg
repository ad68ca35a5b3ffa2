\* One tag for two lanes: a configuration CPUO3_Config accepts.
CONSTANTS
  SpTagLen = 2
  FeLanes = 2
  PowerUp = {{}}
SPECIFICATION FairSpec
PROPERTY GroupLeavesDispatch
CHECK_DEADLOCK FALSE
