CONSTANTS
  SIZES <- MCSizes
  MOVES <- MCFarMoves
SPECIFICATION Spec
PROPERTY PointerFollowsMouse
