CONSTANTS
  BODY <- MCBody
  MaxKeys = 2
  MaxMoves = 2
SPECIFICATION Spec
INVARIANT TypedByKeys
