SPECIFICATION MCSpec
CONSTANTS
  t1 = t1
  s1 = s1
  s2 = s2
  Hosts = {"unix"}
  Threads <- MCThreads
  Sockets <- MCSockets
  Windows = FALSE
  CloseClobbers = TRUE
  SocketFailures <- PosixSocketFailures
  FileFailures <- PosixFileFailures
  ConnectFailures <- MCConnectFailures
SYMMETRY Symmetric
INVARIANT NoFalseFailure
