CONSTANTS
  QSIZE = 4
  TICKS = 4
  UNIT = 150
  TONES <- MCTones
  GROOVE_LEN = 2
  STATES = {"SETTLED"}
  LEVELS = {0, 2}
SPECIFICATION Spec
INVARIANTS
  SpeakerFollowsNote
PROPERTIES
  ImplementsPlayer
  ToneEnds
