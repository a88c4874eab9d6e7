CONSTANTS
  WORDS <- MCWords
  PID = 1
SPECIFICATION ArcSpec
INVARIANTS
  LoopComputesArc
  SettlesEarlyOrSwings
PROPERTY ArcEnds
\* The loop really ends: its last state has no successor.
CHECK_DEADLOCK FALSE
