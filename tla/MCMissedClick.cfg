CONSTANTS
  BODY <- MCBody
  MaxKeys = 0
  MaxMoves = 2
SPECIFICATION Spec
INVARIANT ReleaseSelects
