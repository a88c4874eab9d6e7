CONSTANTS
  MAX_PROCS = 2
  NodeFlags <- MCNodes
  FLAGS <- MCFlags
  MaxPid = 3
  MaxEpoch = 1
SPECIFICATION Spec
INVARIANTS
  TypeOK
  ActiveSettled
  PidsUniqueInEpoch
  NullPidNeverRuns
  BudgetSpent
  WeightJustifiesState
  BootFindsSlot
PROPERTIES
  NoSilentWakeUp
  DisturbsOnlyItsOwn
  BootPlacesSurvivors
  BootlegEnds
