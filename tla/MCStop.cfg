\* The bounds on lines and erasures end every behaviour.
CHECK_DEADLOCK FALSE
CONSTANTS
  BUF_LEN = 10
  LINES <- MCLines
  MaxLines = 2
  MaxErased = 1
SPECIFICATION Spec
INVARIANTS
  StopStopsGroove
