CONSTANTS
  Runners = {p1, p2}
  Threads = {t1}
  f1 = f1
  c1 = c1
  Files = {f1}
  Paths = {c1}
  FileOf <- OnePath
  LockName <- OneName
  Sessions = {s1, s2}
  NoPath = NoPath
  NoRunner = NoRunner
  GuestFdBase = 20000
  MaxGuestFd = 20001
  OnUnix = FALSE
  Tidy = TRUE
SPECIFICATION LockSpec
INVARIANT SecondRunnerFails
CHECK_DEADLOCK FALSE
