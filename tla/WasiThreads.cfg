SPECIFICATION Spec
CONSTANTS
  Threads = {t1, t2, t3}
  MaxId = 3
  U8Max = 3
  Statuses <- SmallStatuses
  MaxSpawns = 18
SYMMETRY ThreadSymmetry
INVARIANTS
  TypeOK
  LiveIdsDistinct
  ExitStatusHonest
CHECK_DEADLOCK FALSE
