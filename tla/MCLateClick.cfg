CONSTANTS
  SIZES <- MCSizes
  MOVES <- MCMoves
SPECIFICATION Spec
PROPERTY SelectsWhereReleased
