----------------------------- MODULE SocketErrors -----------------------------
(***************************************************************************)
(* How the failure of a host call reaches the guest: the host's per-thread *)
(* error, the translation of the bridges, the negative result of an import *)
(* and the guest's errno; and how the guest learns the outcome of a        *)
(* nonblocking connect, for which POSIX uses error numbers as results.     *)
(***************************************************************************)
EXTENDS GuestErrno, Functions

CONSTANTS
  Threads, Sockets,
  Windows,          \* TRUE for the WinSock bridge
  CloseClobbers,    \* whether closing a socket may change the thread's error
  SocketFailures,   \* errors with which a socket call of the host may fail
  FileFailures,     \* errors with which a file call of the host may fail
  ConnectFailures   \* errors with which a connection attempt may end

ASSUME ErrorsAssumption == Windows \in BOOLEAN /\ CloseClobbers \in BOOLEAN

(* external: a call that failed has an error, and a connection attempt     *)
(* that ended is not in progress.                                          *)
ASSUME FailuresAssumption ==
  /\ "none" \notin SocketFailures \cup FileFailures \cup ConnectFailures
  /\ "EINPROGRESS" \notin ConnectFailures

(* external: a closesocket that succeeds leaves WSAGetLastError alone, no  *)
(* error of WinSock is called EAGAIN, and the file calls of Windows fail   *)
(* with Windows' own errors.                                               *)
ASSUME WindowsAssumption ==
  Windows =>
    /\ ~CloseClobbers
    /\ "EAGAIN" \notin SocketFailures \cup ConnectFailures
    /\ FileFailures \cap (Range(WasiErrors) \cup {"EWOULDBLOCK"}) = {}

VARIABLES
  last_error,   \* errno, or WSAGetLastError, of each host thread
  at,           \* where each thread is: in the guest or in a handler
  saved,        \* the handler's local: an errno it is going to return
  cause,        \* history: the error that made the last call fail, or "none"
  ret,          \* what the last call returned to the guest
  guest_errno,  \* the guest's errno, per thread
  nonblocking,  \* the mode of each socket
  link,         \* what has become of each socket's connection
  so_error,     \* the socket's pending error
  guest_link    \* what the guest takes the connection to be

threadVars == <<last_error, at, saved, cause, ret, guest_errno>>
linkVars == <<nonblocking, link, so_error, guest_link>>
vars == <<threadVars, linkVars>>

Init ==
  /\ last_error = [t \in Threads |-> "none"]
  /\ at = [t \in Threads |-> "guest"]
  /\ saved = [t \in Threads |-> 0]
  /\ cause = [t \in Threads |-> "none"]
  /\ ret = [t \in Threads |-> 0]
  /\ guest_errno = [t \in Threads |-> 0]
  /\ nonblocking \in [Sockets -> BOOLEAN]
  /\ link = [s \in Sockets |-> "new"]
  /\ so_error = [s \in Sockets |-> "none"]
  /\ guest_link = [s \in Sockets |-> "new"]

------------------------------------------------------------------------------
(* last_errno on Unix, socket_errno(WSAGetLastError()) on Windows. *)
last_errno(name) == IF Windows THEN socket_errno(name) ELSE from_host_errno(name)

io_errno(name) ==
  IF name = "no code" THEN Errno.EIO
  ELSE IF Windows THEN from_windows_error(name) ELSE from_host_errno(name)

(* decode_i32 of the guest's shims. *)
Decode(t, rc) ==
  /\ ret' = [ret EXCEPT ![t] = IF rc < 0 THEN -1 ELSE rc]
  /\ guest_errno' = IF rc < 0 THEN [guest_errno EXCEPT ![t] = -rc] ELSE guest_errno

InGuest(t) == at[t] = "guest"

FailsWith(t, e) ==
  /\ last_error' = [last_error EXCEPT ![t] = e]
  /\ cause' = [cause EXCEPT ![t] = e]

(* Any socket import whose host call fails: cvt_i32, cvt_ssize,            *)
(* neg_last_errno and their WinSock twins.                                 *)
SocketCallFails(t, e) ==
  /\ InGuest(t)
  /\ FailsWith(t, e)
  /\ Decode(t, -last_errno(e))
  /\ UNCHANGED <<at, saved, linkVars>>

FileCallFails(t, e) ==
  /\ InGuest(t)
  /\ FailsWith(t, e)
  /\ Decode(t, -io_errno(e))
  /\ UNCHANGED <<at, saved, linkVars>>

(* A call that succeeds leaves the thread's error as it is. *)
CallSucceeds(t) ==
  /\ InGuest(t)
  /\ cause' = [cause EXCEPT ![t] = "none"]
  /\ Decode(t, 0)
  /\ UNCHANGED <<last_error, at, saved, linkVars>>

(* socket(): the socket exists and cannot be given its mode.  Unix takes   *)
(* the error down before it closes the socket.                             *)
ConfigureFails(t, e) ==
  /\ InGuest(t)
  /\ FailsWith(t, e)
  /\ saved' = [saved EXCEPT ![t] = IF Windows THEN 0 ELSE last_errno(e)]
  /\ at' = [at EXCEPT ![t] = "cleanup"]
  /\ UNCHANGED <<ret, guest_errno, linkVars>>

(* Mutant: the error is looked up when the socket has been closed. *)
CleanUp_LooksUp(t) ==
  /\ at[t] = "cleanup"
  /\ \E e \in {last_error[t]} \cup (IF CloseClobbers THEN {"none"} ELSE {}) :
       /\ last_error' = [last_error EXCEPT ![t] = e]
       /\ Decode(t, -last_errno(e))
  /\ at' = [at EXCEPT ![t] = "guest"]
  /\ saved' = [saved EXCEPT ![t] = 0]
  /\ UNCHANGED <<cause, linkVars>>

(* It closes the socket and returns; Windows looks the error up only now.  *)
CleanUp(t) ==
  /\ at[t] = "cleanup"
  /\ \E e \in {last_error[t]} \cup (IF CloseClobbers THEN {"none"} ELSE {}) :
       /\ last_error' = [last_error EXCEPT ![t] = e]
       /\ Decode(t, IF Windows THEN -last_errno(e) ELSE -saved[t])
  /\ at' = [at EXCEPT ![t] = "guest"]
  /\ saved' = [saved EXCEPT ![t] = 0]
  /\ UNCHANGED <<cause, linkVars>>

------------------------------------------------------------------------------
(* connect().  external: the guest reads the result as POSIX has it: zero  *)
(* is a connection, EINPROGRESS one being made, anything else a failure.   *)
GuestConcludes(s, rc) ==
  guest_link' = [guest_link EXCEPT ![s] =
    IF rc = 0 THEN "connected"
    ELSE IF rc = -Errno.EINPROGRESS THEN "connecting" ELSE "failed"]

(* external: a connect that has to wait is reported as EINPROGRESS by a    *)
(* POSIX host and as WSAEWOULDBLOCK by WinSock.                            *)
WouldWait == IF Windows THEN "EWOULDBLOCK" ELSE "EINPROGRESS"

ConnectSucceeds(t, s) ==
  /\ InGuest(t) /\ link[s] = "new" /\ guest_link[s] = "new"
  /\ link' = [link EXCEPT ![s] = "connected"]
  /\ cause' = [cause EXCEPT ![t] = "none"]
  /\ Decode(t, 0) /\ GuestConcludes(s, 0)
  /\ UNCHANGED <<last_error, at, saved, nonblocking, so_error>>

ConnectFails(t, s, e) ==
  /\ InGuest(t) /\ link[s] = "new" /\ guest_link[s] = "new"
  /\ link' = [link EXCEPT ![s] = "failed"]
  /\ FailsWith(t, e)
  /\ Decode(t, -last_errno(e)) /\ GuestConcludes(s, -last_errno(e))
  /\ UNCHANGED <<at, saved, nonblocking, so_error>>

ConnectWaits(t, s) ==
  /\ InGuest(t) /\ link[s] = "new" /\ guest_link[s] = "new" /\ nonblocking[s]
  /\ link' = [link EXCEPT ![s] = "connecting"]
  /\ FailsWith(t, WouldWait)
  /\ Decode(t, -last_errno(WouldWait)) /\ GuestConcludes(s, -last_errno(WouldWait))
  /\ UNCHANGED <<at, saved, nonblocking, so_error>>

(* external: the peer answers, or the attempt fails. *)
Established(s) ==
  /\ link[s] = "connecting"
  /\ link' = [link EXCEPT ![s] = "connected"]
  /\ UNCHANGED <<threadVars, nonblocking, so_error, guest_link>>

Refused(s, e) ==
  /\ link[s] = "connecting"
  /\ link' = [link EXCEPT ![s] = "failed"]
  /\ so_error' = [so_error EXCEPT ![s] = e]
  /\ UNCHANGED <<threadVars, nonblocking, guest_link>>

(* Mutant: the value is read after the host has cleared it. *)
GetSoError_Cleared(t, s) ==
  /\ InGuest(t) /\ guest_link[s] = "connecting" /\ link[s] # "connecting"
  /\ so_error' = [so_error EXCEPT ![s] = "none"]
  /\ cause' = [cause EXCEPT ![t] = "none"]
  /\ Decode(t, 0)
  /\ guest_link' = [guest_link EXCEPT ![s] = "connected"]
  /\ UNCHANGED <<last_error, at, saved, nonblocking, link>>

(* getsockopt(SO_ERROR) once poll reports the socket writable: the host    *)
(* clears the error, the bridge translates the value, the guest takes zero *)
(* for a connection.                                                       *)
GetSoError(t, s) ==
  /\ InGuest(t) /\ guest_link[s] = "connecting" /\ link[s] # "connecting"
  /\ so_error' = [so_error EXCEPT ![s] = "none"]
  /\ cause' = [cause EXCEPT ![t] = "none"]
  /\ Decode(t, 0)
  /\ guest_link' = [guest_link EXCEPT ![s] =
                      IF last_errno(so_error[s]) = 0 THEN "connected" ELSE "failed"]
  /\ UNCHANGED <<last_error, at, saved, nonblocking, link>>

(* The guest closes the socket; a new one takes its place. *)
Close(s) ==
  /\ guest_link[s] \in {"connected", "failed"}
  /\ link' = [link EXCEPT ![s] = "new"]
  /\ so_error' = [so_error EXCEPT ![s] = "none"]
  /\ guest_link' = [guest_link EXCEPT ![s] = "new"]
  /\ UNCHANGED <<threadVars, nonblocking>>

Next ==
  \/ \E t \in Threads :
       \/ CallSucceeds(t) \/ CleanUp(t)
       \/ \E e \in SocketFailures : SocketCallFails(t, e) \/ ConfigureFails(t, e)
       \/ \E e \in FileFailures : FileCallFails(t, e)
       \/ \E s \in Sockets :
            \/ ConnectSucceeds(t, s) \/ ConnectWaits(t, s) \/ GetSoError(t, s)
            \/ \E e \in ConnectFailures : ConnectFails(t, s, e)
  \/ \E s \in Sockets :
       \/ Established(s) \/ Close(s)
       \/ \E e \in ConnectFailures : Refused(s, e)

Spec == Init /\ [][Next]_vars

------------------------------------------------------------------------------
(* A host call that failed is never taken for a success: the guest gets -1 *)
(* and an errno of wasi-libc, whichever error it was, whether or not it is *)
(* in a table, and whatever the handler did between the failure and its    *)
(* return.  A zero from the tables would make the import return 0, which   *)
(* socket() would hand to mysqld as a descriptor.                          *)
FailureIsReported ==
  \A t \in Threads : InGuest(t) /\ cause[t] # "none" =>
    ret[t] = -1 /\ guest_errno[t] \in 1..Len(WasiErrors)

(* Errors on which the guest's network code acts rather than gives up. *)
Acted == {"EINTR", "EAGAIN", "EINPROGRESS", "EALREADY", "ETIMEDOUT", "EMFILE"}

(* What the guest reads in wasi-libc's numbering is the error the host     *)
(* had: never another error of the same numbering (EIO stands for one the  *)
(* tables do not know), and exactly it where the guest acts on it.         *)
ErrnoNamesCause ==
  \A t \in Threads : InGuest(t) /\ ret[t] = -1 =>
    LET read == GuestReads(guest_errno[t]) IN
    /\ cause[t] \in Range(WasiErrors) => read \in {cause[t], "EIO"}
    /\ cause[t] \in Acted => read = cause[t]
    /\ cause[t] = "EWOULDBLOCK" => read = "EAGAIN"

(* A guest that believes in a connection has one: no error of connect, and *)
(* no pending error of the socket, reaches it as zero.                     *)
NoFalseConnection ==
  \A s \in Sockets : guest_link[s] = "connected" => link[s] = "connected"

(* docs/status.md: "Host filesystem and socket errors are translated to    *)
(* wasi-libc errno values"; README.md: the bridge works "while preserving  *)
(* the guest's POSIX-like socket and errno ABI".  A guest that goes by     *)
(* POSIX gives up a connection only if it failed.                          *)
NoFalseFailure ==
  \A s \in Sockets : guest_link[s] = "failed" => link[s] = "failed"
===============================================================================
