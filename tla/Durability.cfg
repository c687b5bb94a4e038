SPECIFICATION MCSpec
CONSTANTS
  Threads = {t1, t2}
  Free = Free
  f1 = f1
  Files = {f1}
  Fds = {1, 2}
  FileOf <- MCFileOf
  Blocks = 2
  Windows = TRUE
  MaxCalls = 3
  MaxCrashes = 1
INVARIANTS
  TypeOK
  ReadIsSnapshot
  SizeWasTrue
  DataSurvives
  CreatedSurvives
PROPERTY EveryCallReturns
CHECK_DEADLOCK FALSE
