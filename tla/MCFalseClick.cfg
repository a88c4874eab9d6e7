CONSTANTS
  BODY <- MCBody
  MaxKeys = 0
  MaxMoves = 3
SPECIFICATION Spec
INVARIANT ClickIsRelease
