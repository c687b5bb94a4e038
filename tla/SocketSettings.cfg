SPECIFICATION MCSpec
CONSTANTS
  Threads = {t1, t2, t3}
  MaxSockets = 2
  Platform = "windows"
  Values <- MCValues
  U32Max = 3500
  I64Max = 1100000
SYMMETRY Symmetry
INVARIANTS FlagsMatchMode OptionsTakeEffect TimeoutKept
PROPERTY RestoreIsExact
CHECK_DEADLOCK FALSE
