SPECIFICATION RSpec
CONSTANTS
  Clients = {c1}
  Unix = TRUE
  MaxSignals = 1
  MaxId = 100
  MaxSpawns = 100
INVARIANT FirstCtrlCIsGraceful
CHECK_DEADLOCK FALSE
