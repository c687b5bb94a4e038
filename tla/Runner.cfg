SPECIFICATION RSpec
CONSTANTS
  Clients = {c1, c2, c3}
  Unix = TRUE
  MaxSignals = 2
  MaxId = 100
  MaxSpawns = 100
INVARIANTS
  TypeOK
  AtMostOneLate
  ImmediateIsNotFirst
  CleanExitIsComplete
  EverySessionHasThread
PROPERTIES
  ImplementsShutdown
  StopsUnlessOrphaned
CHECK_DEADLOCK FALSE
