CONSTANTS
  SIZES <- MCSizes
  MOVES <- MCMoves
SPECIFICATION Spec
INVARIANTS
  SquaresApart
  DetailApart
PROPERTY ClickSelectsSquare
