SPECIFICATION MCSpec
CONSTANTS
  t1 = t1
  t2 = t2
  Threads = {t1, t2}
  CallsOf <- MCCallsOf
  MemLen = 10
  IntMax = 7
  MaxIo = 4
  MaxPoll = 2
  NameLens <- MCNameLens
  Windows = FALSE
  MaxStream = 3
  MaxCalls = 3
INVARIANTS TypeOK SoundCallsSucceed NoByteLost
PROPERTY OnlyRequested
CHECK_DEADLOCK FALSE
