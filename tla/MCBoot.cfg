CONSTANTS
  RELOAD = 4
  MaxPulses = 5
  MaxWraps = 3
  PATIENCE = 1
  MaxStray = 1
  Starts <- MCStarts
  BUSES = 2
  DEVS = 2
  FUNCS = 2
  PCI_MAX_DEVS = 4
  TEXT = 2
SPECIFICATION BootSpec
INVARIANTS
  NoTickInvented
  NoTickLostWhenPrompt
  MouseReady
  FindsFramebuffer
  ListsFunctions
PROPERTY ReachesShell
