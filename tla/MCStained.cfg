\* What is printed is bounded, and a screen that is stained is followed no
\* further.
CHECK_DEADLOCK FALSE
CONSTANTS
  VGA_COLS = 2
  VGA_ROWS = 2
  FB_W = 4
  FB_H = 4
  fb_cols = 2
  fb_rows = 3
  HEADER_ROWS = 1
  CHARS = {"a", "b"}
  CLEAR_LINES = 3
  MaxPrinted = 5
  SHAPE <- MCShape
  CUR_H = 2
  CUR_W = 2
  SPOTS <- MCSpots
SPECIFICATION Spec
INVARIANT SavedIsBehind
