CONSTANTS
  Runners = {p1, p2, p3}
  Threads = {t1, t2}
  f1 = f1
  f2 = f2
  c1 = c1
  c2 = c2
  alias = alias
  Files = {f1, f2}
  Paths <- MCPaths
  FileOf <- MCFileOf
  LockName <- MCLockName
  Sessions = {s1, s2}
  NoPath = NoPath
  NoRunner = NoRunner
  GuestFdBase = 20000
  MaxGuestFd = 20002
  OnUnix = TRUE
  Tidy = TRUE
SPECIFICATION MCSpec
SYMMETRY Symmetry
INVARIANT LockTypeOK
INVARIANT LockExclusive
INVARIANT LockNeedsDescriptor
CHECK_DEADLOCK FALSE
