---------------------------- MODULE MCSocketErrors ----------------------------
(***************************************************************************)
(* SocketErrors for TLC, on both kinds of host: every error of the tables, *)
(* and some that are in none.  The configuration gives the constants of a  *)
(* Unix host, whose close may change errno; W is the same module on a      *)
(* Windows host, whose successful closesocket leaves the error alone.      *)
(***************************************************************************)
EXTENDS SocketErrors, TLC

CONSTANTS
  t1, s1, s2,
  Hosts         \* the hosts of this instance

VARIABLE host   \* the host of this behaviour

MCThreads == {t1}
MCSockets == {s1, s2}

Posix == (DOMAIN Errno \ {"ENOTCAPABLE"}) \cup {"EWOULDBLOCK", "EOPNOTSUPP", "ENOTTY"}
WinSock == WinSockErrors \cup DOMAIN WinSockAliases \cup {"ENOTEMPTY", "SYSNOTREADY"}

PosixSocketFailures == Posix
PosixFileFailures == {"ENOSPC", "EDQUOT", "no code"}
WinSockFailures == WinSock
WindowsFileFailures == DOMAIN WindowsErrors \cup {"CRC", "no code"}
MCConnectFailures == {"ECONNREFUSED", "EPROTO"}

W == INSTANCE SocketErrors WITH
       Windows <- TRUE, CloseClobbers <- FALSE,
       SocketFailures <- WinSockFailures, FileFailures <- WindowsFileFailures

ASSUME OnWindows == W!FailuresAssumption /\ W!WindowsAssumption

MCInit == Init /\ host \in Hosts

MCNext ==
  /\ \/ host = "unix" /\ Next
     \/ host = "windows" /\ W!Next
  /\ UNCHANGED host

MCSpec == MCInit /\ [][MCNext]_<<vars, host>>

Symmetric == Permutations(MCSockets)
===============================================================================
