CONSTANTS
  MAX_PROCS = 2
  NodeFlags <- MCNodes
  FLAGS <- MCFlags
  MaxPid = 3
  MaxEpoch = 1
SPECIFICATION Spec
PROPERTY OnlyRspawnedRestart
