-------------------------- MODULE SocketErrorsProofs --------------------------
(***************************************************************************)
(* Errors keep their meaning on the way to the guest: for every set of     *)
(* errors a host may fail with, in the tables or not, for any number of    *)
(* threads and sockets, and on Unix and Windows.                           *)
(***************************************************************************)
EXTENDS SocketErrors, TLAPS

(* The numbers of guest_errno.rs are wasi-libc's numbers of the same names.*)
LEMMA TableAgrees ==
  /\ Len(WasiErrors) = 76
  /\ \A name \in DOMAIN Errno :
       Errno[name] \in 1..76 /\ WasiErrors[Errno[name]] = name
<1>1. Len(WasiErrors) = 76
  BY DEF WasiErrors
<1>2. \A name \in DOMAIN Errno : Errno[name] \in 1..76
  BY DEF Errno
<1>3. \A name \in DOMAIN Errno : WasiErrors[Errno[name]] = name
  BY DEF Errno, WasiErrors
<1> QED
  BY <1>1, <1>2, <1>3

(* The names the tables send errors to have numbers. *)
LEMMA TableCovers ==
  /\ Acted \subseteq DOMAIN Errno
  /\ WinSockErrors \subseteq DOMAIN Errno
  /\ {"EIO", "EAGAIN", "ENOTSUP", "EAFNOSUPPORT", "ENOTCONN", "EHOSTUNREACH"}
       \subseteq DOMAIN Errno
  /\ \A name \in DOMAIN WindowsErrors : WindowsErrors[name] \in DOMAIN Errno
<1>1. Acted \subseteq DOMAIN Errno
  BY DEF Acted, Errno
<1>2. WinSockErrors \subseteq DOMAIN Errno
  BY DEF WinSockErrors, Errno
<1>3. {"EIO", "EAGAIN", "ENOTSUP", "EAFNOSUPPORT", "ENOTCONN", "EHOSTUNREACH"}
        \subseteq DOMAIN Errno
  BY DEF Errno
<1>4. \A name \in DOMAIN WindowsErrors : WindowsErrors[name] \in DOMAIN Errno
  BY DEF WindowsErrors, Errno
<1> QED
  BY <1>1, <1>2, <1>3, <1>4

(* The names that stand for another one are not names of wasi-libc. *)
LEMMA AliasesAreForeign ==
  /\ {"EWOULDBLOCK", "EOPNOTSUPP", "ESOCKTNOSUPPORT", "EPFNOSUPPORT", "ESHUTDOWN",
      "EHOSTDOWN"} \cap Range(WasiErrors) = {}
  /\ Acted \subseteq Range(WasiErrors)
  /\ "none" \notin Range(WasiErrors)
<1>1. DOMAIN WasiErrors = 1..76
  BY DEF WasiErrors
<1>2. ASSUME NEW n \in 1..76
      PROVE  WasiErrors[n] \notin {"EWOULDBLOCK", "EOPNOTSUPP", "ESOCKTNOSUPPORT",
               "EPFNOSUPPORT", "ESHUTDOWN", "EHOSTDOWN", "none"}
  BY DEF WasiErrors
<1>3. Acted \subseteq Range(WasiErrors)
  BY <1>1, TableAgrees, TableCovers DEF Range
<1> QED
  BY <1>1, <1>2, <1>3 DEF Range

------------------------------------------------------------------------------
(* A number that tells the guest of an error c of the host. *)
Tells(n, c) ==
  /\ n \in 1..Len(WasiErrors)
  /\ c \in Range(WasiErrors) => GuestReads(n) \in {c, "EIO"}
  /\ c \in Acted => GuestReads(n) = c
  /\ c = "EWOULDBLOCK" => GuestReads(n) = "EAGAIN"

LEMMA NumberTells ==
  ASSUME NEW name \in DOMAIN Errno, NEW c,
         name = c \/ (c \notin Acted /\ name = "EIO") \/ c \notin Range(WasiErrors),
         c = "EWOULDBLOCK" => name = "EAGAIN"
  PROVE  Tells(Errno[name], c) /\ Errno[name] # 0
  BY TableAgrees, TableCovers, AliasesAreForeign DEF Tells, GuestReads

(* from_host_errno is right about every error of the host. *)
LEMMA UnixTells ==
  ASSUME NEW c
  PROVE  Tells(from_host_errno(c), c) /\ from_host_errno(c) # 0
<1>1. CASE c \in DOMAIN HostAliases
  BY <1>1, NumberTells, TableCovers, AliasesAreForeign
     DEF HostAliases, from_host_errno, Known, Acted
<1>2. CASE c \notin DOMAIN HostAliases
  <2>1. c # "EWOULDBLOCK"
    BY <1>2 DEF HostAliases
  <2>2. CASE c \in DOMAIN Errno
    BY <1>2, <2>1, <2>2, NumberTells DEF from_host_errno, Known
  <2>3. CASE c \notin DOMAIN Errno
    BY <1>2, <2>1, <2>3, NumberTells, TableCovers DEF from_host_errno, Known
  <2> QED
    BY <2>2, <2>3
<1> QED
  BY <1>1, <1>2

(* socket_errno is right about every error WinSock has. *)
LEMMA WinSockTells ==
  ASSUME NEW c, c # "none", c # "EAGAIN"
  PROVE  Tells(socket_errno(c), c) /\ socket_errno(c) # 0
<1>1. CASE c \in DOMAIN WinSockAliases
  BY <1>1, NumberTells, TableCovers, AliasesAreForeign
     DEF WinSockAliases, socket_errno
<1>2. CASE c \notin DOMAIN WinSockAliases /\ c \in WinSockErrors
  BY <1>2, NumberTells, TableCovers DEF WinSockAliases, socket_errno
<1>3. CASE c \notin DOMAIN WinSockAliases /\ c \notin WinSockErrors
  <2>1. c \notin Acted /\ c # "EWOULDBLOCK"
    BY <1>3 DEF Acted, WinSockErrors, WinSockAliases
  <2> QED
    BY <1>3, <2>1, NumberTells, TableCovers DEF socket_errno
<1> QED
  BY <1>1, <1>2, <1>3

(* Nothing but EINPROGRESS reaches the guest as EINPROGRESS. *)
LEMMA InProgressOnly ==
  ASSUME NEW c, c # "EINPROGRESS"
  PROVE  last_errno(c) # Errno.EINPROGRESS
<1>1. "EINPROGRESS" \in DOMAIN Errno /\ Errno.EINPROGRESS # 0
  BY DEF Errno
<1>2. \A name \in DOMAIN Errno :
        Errno[name] = Errno["EINPROGRESS"] => name = "EINPROGRESS"
  BY <1>1, TableAgrees
<1>3. from_host_errno(c) # Errno.EINPROGRESS
  <2>1. CASE c \in DOMAIN HostAliases
    BY <1>2, <2>1, TableCovers DEF HostAliases, from_host_errno, Known
  <2>2. CASE c \notin DOMAIN HostAliases
    BY <1>2, <2>2, TableCovers DEF from_host_errno, Known
  <2> QED
    BY <2>1, <2>2
<1>4. socket_errno(c) # Errno.EINPROGRESS
  <2>1. CASE c \in DOMAIN WinSockAliases
    BY <1>1, <1>2, <2>1, TableCovers DEF WinSockAliases, socket_errno
  <2>2. CASE c \notin DOMAIN WinSockAliases
    BY <1>1, <1>2, <2>2, TableCovers DEF socket_errno
  <2> QED
    BY <2>1, <2>2
<1> QED
  BY <1>3, <1>4 DEF last_errno

(* Both bridges are right about every error their calls can have. *)
LEMMA SocketErrorTells ==
  ASSUME NEW c \in SocketFailures \cup ConnectFailures \cup {WouldWait}
  PROVE  Tells(last_errno(c), c)
<1>1. CASE ~Windows
  BY <1>1, UnixTells DEF last_errno
<1>2. CASE Windows
  BY <1>2, WinSockTells, FailuresAssumption, WindowsAssumption DEF last_errno, WouldWait
<1> QED
  BY <1>1, <1>2

LEMMA FileErrorTells ==
  ASSUME NEW c \in FileFailures
  PROVE  Tells(io_errno(c), c)
<1>1. CASE c = "no code"
  BY <1>1, NumberTells, TableCovers DEF io_errno, Acted
<1>2. CASE c # "no code" /\ ~Windows
  BY <1>2, UnixTells DEF io_errno
<1>3. CASE c # "no code" /\ Windows
  <2>1. c \notin Range(WasiErrors) /\ c # "EWOULDBLOCK"
    BY <1>3, WindowsAssumption
  <2>2. PICK name \in DOMAIN Errno : from_windows_error(c) = Errno[name]
    BY TableCovers DEF from_windows_error
  <2> QED
    BY <1>3, <2>1, <2>2, NumberTells DEF io_errno
<1> QED
  BY <1>1, <1>2, <1>3

------------------------------------------------------------------------------
Errors == {"none", WouldWait} \cup SocketFailures \cup FileFailures \cup ConnectFailures

(* A thread with last_error le, place a, saved errno sv, cause c, result r *)
(* and guest errno ge.  In the guest the result tells of the cause; in the *)
(* clean-up either the saved errno does, or, on Windows, WinSock still has *)
(* the error.                                                              *)
ThreadState(le, a, sv, c, r, ge) ==
  /\ a = "guest" => IF c = "none" THEN r = 0 ELSE r = -1 /\ Tells(ge, c)
  /\ a = "cleanup" => /\ c \in SocketFailures
                      /\ IF Windows THEN le = c ELSE Tells(sv, c)

ThreadInv ==
  /\ last_error \in [Threads -> Errors] /\ cause \in [Threads -> Errors]
  /\ at \in [Threads -> {"guest", "cleanup"}]
  /\ saved \in [Threads -> Nat] /\ guest_errno \in [Threads -> Nat]
  /\ ret \in [Threads -> {-1, 0}]
  /\ \A t \in Threads : ThreadState(last_error[t], at[t], saved[t], cause[t],
                                    ret[t], guest_errno[t])

(* A step of one thread leaves the others as they were. *)
LEMMA ThreadMoves ==
  ASSUME ThreadInv, NEW t \in Threads, NEW le \in Errors, NEW c \in Errors,
         NEW a \in {"guest", "cleanup"}, NEW sv \in Nat, NEW ge \in Nat,
         NEW r \in {-1, 0},
         last_error' = [last_error EXCEPT ![t] = le],
         at' = [at EXCEPT ![t] = a],
         saved' = [saved EXCEPT ![t] = sv],
         cause' = [cause EXCEPT ![t] = c],
         ret' = [ret EXCEPT ![t] = r],
         guest_errno' = [guest_errno EXCEPT ![t] = ge],
         ThreadState(le, a, sv, c, r, ge)
  PROVE  ThreadInv'
<1>1. /\ last_error' \in [Threads -> Errors] /\ cause' \in [Threads -> Errors]
      /\ at' \in [Threads -> {"guest", "cleanup"}]
      /\ saved' \in [Threads -> Nat] /\ guest_errno' \in [Threads -> Nat]
      /\ ret' \in [Threads -> {-1, 0}]
  BY DEF ThreadInv
<1>2. ASSUME NEW u \in Threads
      PROVE  ThreadState(last_error'[u], at'[u], saved'[u], cause'[u], ret'[u],
                         guest_errno'[u])
  <2>1. CASE u = t
    BY <2>1 DEF ThreadInv
  <2>2. CASE u # t
    BY <2>2 DEF ThreadInv
  <2> QED
    BY <2>1, <2>2
<1>3. \A u \in Threads : ThreadState(last_error[u], at[u], saved[u], cause[u], ret[u],
                                    guest_errno[u])'
  BY <1>2 DEF ThreadState, Tells, GuestReads, Range
<1> QED
  BY <1>1, <1>3 DEF ThreadInv

(* decode_i32 turns a negative result into -1 and errno, and keeps a zero. *)
LEMMA DecodeError ==
  ASSUME NEW t \in Threads, NEW n \in 1..Len(WasiErrors), Decode(t, -n)
  PROVE  /\ ret' = [ret EXCEPT ![t] = -1]
         /\ guest_errno' = [guest_errno EXCEPT ![t] = n]
<1>1. -n < 0 /\ -(-n) = n
  BY TableAgrees
<1> QED
  BY <1>1, Zenon DEF Decode

LEMMA DecodeZero ==
  ASSUME NEW t \in Threads, Decode(t, 0), ThreadInv
  PROVE  /\ ret' = [ret EXCEPT ![t] = 0]
         /\ guest_errno' = [guest_errno EXCEPT ![t] = guest_errno[t]]
  BY DEF Decode, ThreadInv

(* A call that fails and returns at once. *)
LEMMA CallFails ==
  ASSUME ThreadInv, NEW t \in Threads, NEW e \in Errors, e # "none", NEW n,
         Tells(n, e), InGuest(t), FailsWith(t, e), Decode(t, -n),
         UNCHANGED <<at, saved>>
  PROVE  ThreadInv'
<1>1. n \in 1..Len(WasiErrors) /\ n \in Nat
  BY TableAgrees DEF Tells
<1>2. ret' = [ret EXCEPT ![t] = -1] /\ guest_errno' = [guest_errno EXCEPT ![t] = n]
  BY <1>1, DecodeError
<1>3. /\ at' = [at EXCEPT ![t] = "guest"]
      /\ saved' = [saved EXCEPT ![t] = saved[t]] /\ saved[t] \in Nat
  BY DEF InGuest, ThreadInv
<1>4. ThreadState(e, "guest", saved[t], e, -1, n)
  BY DEF ThreadState
<1> QED
  BY <1>1, <1>2, <1>3, <1>4, ThreadMoves DEF FailsWith

(* A call that succeeds and returns at once. *)
LEMMA CallReturns ==
  ASSUME ThreadInv, NEW t \in Threads, InGuest(t), Decode(t, 0),
         cause' = [cause EXCEPT ![t] = "none"], UNCHANGED <<last_error, at, saved>>
  PROVE  ThreadInv'
<1>1. /\ at' = [at EXCEPT ![t] = "guest"]
      /\ saved' = [saved EXCEPT ![t] = saved[t]] /\ saved[t] \in Nat
      /\ last_error' = [last_error EXCEPT ![t] = last_error[t]]
      /\ last_error[t] \in Errors /\ guest_errno[t] \in Nat /\ "none" \in Errors
  BY DEF InGuest, ThreadInv, Errors
<1>2. ThreadState(last_error[t], "guest", saved[t], "none", 0, guest_errno[t])
  BY DEF ThreadState
<1>3. /\ ret' = [ret EXCEPT ![t] = 0]
      /\ guest_errno' = [guest_errno EXCEPT ![t] = guest_errno[t]]
  BY DecodeZero
<1> QED
  BY <1>1, <1>2, <1>3, ThreadMoves

(* socket() takes the error down before close may change it (Unix), or     *)
(* finds it unchanged afterwards (Windows).                                *)
LEMMA ConfigureKeeps ==
  ASSUME ThreadInv, NEW t \in Threads, NEW e \in SocketFailures, ConfigureFails(t, e)
  PROVE  ThreadInv'
<1> DEFINE sv == IF Windows THEN 0 ELSE last_errno(e)
<1>1. e \in Errors /\ Tells(last_errno(e), e)
  BY SocketErrorTells DEF Errors
<1>2. sv \in Nat
  BY <1>1, TableAgrees DEF Tells
<1>3. /\ ret' = [ret EXCEPT ![t] = ret[t]] /\ ret[t] \in {-1, 0}
      /\ guest_errno' = [guest_errno EXCEPT ![t] = guest_errno[t]]
      /\ guest_errno[t] \in Nat
  BY DEF ConfigureFails, ThreadInv
<1>4. ThreadState(e, "cleanup", sv, e, ret[t], guest_errno[t])
  BY <1>1 DEF ThreadState
<1>5. /\ saved' = [saved EXCEPT ![t] = sv] /\ at' = [at EXCEPT ![t] = "cleanup"]
      /\ last_error' = [last_error EXCEPT ![t] = e]
      /\ cause' = [cause EXCEPT ![t] = e]
  BY DEF ConfigureFails, FailsWith
<1> HIDE DEF sv
<1> QED
  BY <1>1, <1>2, <1>3, <1>4, <1>5, ThreadMoves

LEMMA CleanUpKeeps ==
  ASSUME ThreadInv, NEW t \in Threads, CleanUp(t)
  PROVE  ThreadInv'
<1>1. PICK e \in {last_error[t]} \cup (IF CloseClobbers THEN {"none"} ELSE {}) :
        /\ last_error' = [last_error EXCEPT ![t] = e]
        /\ Decode(t, IF Windows THEN -last_errno(e) ELSE -saved[t])
  BY DEF CleanUp
<1> DEFINE n == IF Windows THEN last_errno(e) ELSE saved[t]
<1>2. ThreadState(last_error[t], at[t], saved[t], cause[t], ret[t], guest_errno[t])
  BY DEF ThreadInv
<1>3. cause[t] \in SocketFailures /\ IF Windows THEN e = cause[t] ELSE Tells(saved[t], cause[t])
  BY <1>1, <1>2, WindowsAssumption DEF CleanUp, ThreadState
<1>4. Tells(n, cause[t])
  BY <1>3, SocketErrorTells
<1>5. Decode(t, -n)
  BY <1>1
<1>6. e \in Errors /\ cause[t] \in Errors /\ cause[t] # "none"
  BY <1>1, <1>3, FailuresAssumption DEF Errors, ThreadInv
<1> HIDE DEF n
<1>7. n \in 1..Len(WasiErrors) /\ n \in Nat
  BY <1>4, TableAgrees DEF Tells
<1>8. ThreadState(e, "guest", 0, cause[t], -1, n)
  BY <1>4, <1>6 DEF ThreadState
<1>9. /\ cause' = [cause EXCEPT ![t] = cause[t]]
      /\ at' = [at EXCEPT ![t] = "guest"] /\ saved' = [saved EXCEPT ![t] = 0]
  BY DEF CleanUp, ThreadInv
<1>10. /\ ret' = [ret EXCEPT ![t] = -1]
       /\ guest_errno' = [guest_errno EXCEPT ![t] = n]
  BY <1>5, <1>7, DecodeError
<1> QED
  BY <1>1, <1>6, <1>7, <1>8, <1>9, <1>10, ThreadMoves

(* Every step of a thread keeps what is known of its errors. *)
LEMMA ThreadSteps == ASSUME ThreadInv, [Next]_vars PROVE ThreadInv'
<1>1. ASSUME NEW t \in Threads, NEW e \in SocketFailures, SocketCallFails(t, e)
      PROVE  ThreadInv'
  BY <1>1, CallFails, SocketErrorTells, FailuresAssumption DEF SocketCallFails, Errors
<1>2. ASSUME NEW t \in Threads, NEW e \in FileFailures, FileCallFails(t, e)
      PROVE  ThreadInv'
  BY <1>2, CallFails, FileErrorTells, FailuresAssumption DEF FileCallFails, Errors
<1>3. ASSUME NEW t \in Threads, NEW s \in Sockets, NEW e \in ConnectFailures,
             ConnectFails(t, s, e)
      PROVE  ThreadInv'
  BY <1>3, CallFails, SocketErrorTells, FailuresAssumption DEF ConnectFails, Errors
<1>4. ASSUME NEW t \in Threads, NEW s \in Sockets, ConnectWaits(t, s)
      PROVE  ThreadInv'
  <2>1. WouldWait # "none" /\ WouldWait \in Errors
    BY DEF WouldWait, Errors
  <2> QED
    BY <1>4, <2>1, CallFails, SocketErrorTells DEF ConnectWaits
<1>5. ASSUME NEW t \in Threads, CallSucceeds(t) PROVE ThreadInv'
  BY <1>5, CallReturns DEF CallSucceeds
<1>6. ASSUME NEW t \in Threads, NEW s \in Sockets,
             ConnectSucceeds(t, s) \/ GetSoError(t, s)
      PROVE  ThreadInv'
  BY <1>6, CallReturns DEF ConnectSucceeds, GetSoError
<1>7. ASSUME UNCHANGED threadVars PROVE ThreadInv'
  BY <1>7 DEF threadVars, ThreadInv, ThreadState, Tells, GuestReads, Range
<1>8. ASSUME NEW s \in Sockets,
             Established(s) \/ Close(s) \/ \E e \in ConnectFailures : Refused(s, e)
      PROVE  ThreadInv'
  BY <1>7, <1>8 DEF Established, Close, Refused
<1> QED
  BY <1>1, <1>2, <1>3, <1>4, <1>5, <1>6, <1>7, <1>8, ConfigureKeeps, CleanUpKeeps, Zenon
     DEF Next, vars

------------------------------------------------------------------------------
(* A socket with link l, pending error e, and a guest that takes it for g: *)
(* an attempt that failed while the guest waits has left an error.         *)
LinkState(l, e, g) ==
  /\ g = "connected" => l = "connected"
  /\ g = "connecting" => l # "new" /\ (l = "failed" => e # "none")

LinkInv ==
  /\ link \in [Sockets -> {"new", "connecting", "connected", "failed"}]
  /\ so_error \in [Sockets -> {"none"} \cup ConnectFailures]
  /\ guest_link \in [Sockets -> {"new", "connecting", "connected", "failed"}]
  /\ \A s \in Sockets : LinkState(link[s], so_error[s], guest_link[s])

LEMMA LinkMoves ==
  ASSUME LinkInv, NEW s \in Sockets, NEW e \in {"none"} \cup ConnectFailures,
         NEW l \in {"new", "connecting", "connected", "failed"},
         NEW g \in {"new", "connecting", "connected", "failed"},
         link' = [link EXCEPT ![s] = l],
         so_error' = [so_error EXCEPT ![s] = e],
         guest_link' = [guest_link EXCEPT ![s] = g],
         LinkState(l, e, g)
  PROVE  LinkInv'
  BY DEF LinkInv, LinkState

(* The host's part of a socket, the guest's part, and the two together. *)
LEMMA LinkSteps == ASSUME LinkInv, [Next]_vars PROVE LinkInv'
<1>1. ASSUME UNCHANGED linkVars PROVE LinkInv'
  BY <1>1 DEF linkVars, LinkInv, LinkState
<1>2. ASSUME NEW t \in Threads,
             \/ CallSucceeds(t) \/ CleanUp(t)
             \/ \E e \in SocketFailures : SocketCallFails(t, e) \/ ConfigureFails(t, e)
             \/ \E e \in FileFailures : FileCallFails(t, e)
      PROVE  LinkInv'
  BY <1>1, <1>2 DEF CallSucceeds, CleanUp, SocketCallFails, ConfigureFails, FileCallFails
<1>3. ASSUME NEW s \in Sockets
      PROVE  /\ link = [link EXCEPT ![s] = link[s]]
             /\ so_error = [so_error EXCEPT ![s] = so_error[s]]
             /\ guest_link = [guest_link EXCEPT ![s] = guest_link[s]]
             /\ so_error[s] \in {"none"} \cup ConnectFailures
             /\ guest_link[s] \in {"new", "connecting", "connected", "failed"}
             /\ link[s] \in {"new", "connecting", "connected", "failed"}
             /\ LinkState(link[s], so_error[s], guest_link[s])
  BY DEF LinkInv
<1>4. ASSUME NEW t \in Threads, NEW s \in Sockets, ConnectSucceeds(t, s)
      PROVE  LinkInv'
  <2>1. /\ link' = [link EXCEPT ![s] = "connected"]
        /\ guest_link' = [guest_link EXCEPT ![s] = "connected"]
        /\ so_error' = [so_error EXCEPT ![s] = so_error[s]]
    BY <1>3, <1>4 DEF ConnectSucceeds, GuestConcludes
  <2>2. LinkState("connected", so_error[s], "connected")
    BY DEF LinkState
  <2> QED
    BY <1>3, <2>1, <2>2, LinkMoves
<1>5. ASSUME NEW t \in Threads, NEW s \in Sockets, NEW e \in ConnectFailures,
             ConnectFails(t, s, e)
      PROVE  LinkInv'
  <2>1. last_errno(e) \in Int /\ last_errno(e) # 0 /\ Errno.EINPROGRESS \in Int
    BY SocketErrorTells, TableAgrees DEF Tells, Errno
  <2>2. -last_errno(e) # 0 /\ -last_errno(e) # -Errno.EINPROGRESS
    BY <2>1, InProgressOnly, FailuresAssumption
  <2>3. /\ link' = [link EXCEPT ![s] = "failed"]
        /\ guest_link' = [guest_link EXCEPT ![s] = "failed"]
        /\ so_error' = [so_error EXCEPT ![s] = so_error[s]]
    BY <1>3, <1>5, <2>2 DEF ConnectFails, GuestConcludes
  <2>4. LinkState("failed", so_error[s], "failed")
    BY DEF LinkState
  <2> QED
    BY <1>3, <2>3, <2>4, LinkMoves
<1>6. ASSUME NEW t \in Threads, NEW s \in Sockets, ConnectWaits(t, s)
      PROVE  LinkInv'
  <2>1. last_errno(WouldWait) \in Int /\ -last_errno(WouldWait) # 0
    BY SocketErrorTells, TableAgrees DEF Tells
  <2>2. PICK g \in {"connecting", "failed"} : guest_link' = [guest_link EXCEPT ![s] = g]
    BY <1>6, <2>1 DEF ConnectWaits, GuestConcludes
  <2>3. /\ link' = [link EXCEPT ![s] = "connecting"]
        /\ so_error' = [so_error EXCEPT ![s] = so_error[s]]
    BY <1>3, <1>6 DEF ConnectWaits
  <2>4. LinkState("connecting", so_error[s], g)
    BY <2>2 DEF LinkState
  <2>5. /\ so_error[s] \in {"none"} \cup ConnectFailures
        /\ guest_link[s] \in {"new", "connecting", "connected", "failed"}
        /\ link[s] \in {"new", "connecting", "connected", "failed"}
    BY DEF LinkInv
  <2> QED
    BY <2>2, <2>3, <2>4, <2>5, LinkMoves
<1>7. ASSUME NEW s \in Sockets, Established(s) PROVE LinkInv'
  <2>1. LinkState("connected", so_error[s], guest_link[s])
    BY <1>3 DEF LinkState
  <2>2. /\ link' = [link EXCEPT ![s] = "connected"]
        /\ so_error' = [so_error EXCEPT ![s] = so_error[s]]
        /\ guest_link' = [guest_link EXCEPT ![s] = guest_link[s]]
    BY <1>3, <1>7 DEF Established
  <2>3. /\ so_error[s] \in {"none"} \cup ConnectFailures
        /\ guest_link[s] \in {"new", "connecting", "connected", "failed"}
        /\ link[s] \in {"new", "connecting", "connected", "failed"}
    BY DEF LinkInv
  <2> QED
    BY <2>1, <2>2, <2>3, LinkMoves
<1>8. ASSUME NEW s \in Sockets, NEW e \in ConnectFailures, Refused(s, e) PROVE LinkInv'
  <2>1. LinkState("failed", e, guest_link[s])
    BY <1>3, <1>8, FailuresAssumption DEF LinkState, Refused
  <2>2. /\ link' = [link EXCEPT ![s] = "failed"]
        /\ so_error' = [so_error EXCEPT ![s] = e]
        /\ guest_link' = [guest_link EXCEPT ![s] = guest_link[s]]
    BY <1>3, <1>8 DEF Refused
  <2>3. /\ so_error[s] \in {"none"} \cup ConnectFailures
        /\ guest_link[s] \in {"new", "connecting", "connected", "failed"}
        /\ link[s] \in {"new", "connecting", "connected", "failed"}
    BY DEF LinkInv
  <2> QED
    BY <2>1, <2>2, <2>3, LinkMoves
<1>9. ASSUME NEW s \in Sockets, Close(s) PROVE LinkInv'
  <2>1. LinkState("new", "none", "new")
    BY DEF LinkState
  <2>2. /\ link' = [link EXCEPT ![s] = "new"]
        /\ so_error' = [so_error EXCEPT ![s] = "none"]
        /\ guest_link' = [guest_link EXCEPT ![s] = "new"]
    BY <1>9 DEF Close
  <2> QED
    BY <2>1, <2>2, LinkMoves
<1>10. ASSUME NEW t \in Threads, NEW s \in Sockets, GetSoError(t, s) PROVE LinkInv'
  <2> DEFINE g == IF last_errno(so_error[s]) = 0 THEN "connected" ELSE "failed"
  <2>1. so_error[s] \in ConnectFailures => g = "failed"
    BY SocketErrorTells, TableAgrees DEF Tells
  <2>2. link[s] = "failed" => so_error[s] \in ConnectFailures
    BY <1>3, <1>10 DEF GetSoError, LinkState
  <2>3. link[s] \in {"connected", "failed"}
    BY <1>3, <1>10 DEF GetSoError, LinkState
  <2>4. LinkState(link[s], "none", g) /\ g \in {"connected", "failed"}
    BY <2>1, <2>2, <2>3 DEF LinkState
  <2>5. /\ link' = [link EXCEPT ![s] = link[s]]
        /\ so_error' = [so_error EXCEPT ![s] = "none"]
        /\ guest_link' = [guest_link EXCEPT ![s] = g]
    BY <1>3, <1>10 DEF GetSoError
  <2> HIDE DEF g
  <2>6. /\ so_error[s] \in {"none"} \cup ConnectFailures
        /\ guest_link[s] \in {"new", "connecting", "connected", "failed"}
        /\ link[s] \in {"new", "connecting", "connected", "failed"}
    BY DEF LinkInv
  <2> QED
    BY <2>4, <2>5, <2>6, LinkMoves
<1> QED
  BY <1>1, <1>2, <1>4, <1>5, <1>6, <1>7, <1>8, <1>9, <1>10, Zenon DEF Next, vars

(* The initial state: no thread has failed, no socket is connected. *)
LEMMA InitInv == Init => ThreadInv /\ LinkInv
<1> SUFFICES ASSUME Init PROVE ThreadInv /\ LinkInv
  OBVIOUS
<1>1. ThreadInv
  BY DEF Init, ThreadInv, ThreadState, Errors
<1>2. LinkInv
  BY DEF Init, LinkInv, LinkState
<1> QED
  BY <1>1, <1>2

LEMMA AlwaysInv == Spec => [](ThreadInv /\ LinkInv)
<1>1. ThreadInv /\ LinkInv /\ [Next]_vars => ThreadInv' /\ LinkInv'
  BY ThreadSteps, LinkSteps
<1> QED
  BY InitInv, <1>1, PTL DEF Spec

(* No failure of a host call, with whatever error, is taken for a success, *)
(* and the errno the guest then has is one of wasi-libc's.                 *)
THEOREM FailuresAreReported == Spec => []FailureIsReported
<1>1. ThreadInv => FailureIsReported
  BY DEF ThreadInv, ThreadState, Tells, FailureIsReported, InGuest
<1> QED
  BY AlwaysInv, <1>1, PTL

(* What the guest reads is the error the host had, or EIO for one that the *)
(* tables of guest_errno.rs and socket_errno do not know; and exactly it   *)
(* for the errors the guest acts on.                                       *)
THEOREM ErrnosNameCauses == Spec => []ErrnoNamesCause
<1>1. ASSUME ThreadInv PROVE ErrnoNamesCause
  <2> SUFFICES ASSUME NEW t \in Threads, InGuest(t), ret[t] = -1
               PROVE  /\ cause[t] \in Range(WasiErrors) =>
                           GuestReads(guest_errno[t]) \in {cause[t], "EIO"}
                      /\ cause[t] \in Acted => GuestReads(guest_errno[t]) = cause[t]
                      /\ cause[t] = "EWOULDBLOCK" => GuestReads(guest_errno[t]) = "EAGAIN"
    BY DEF ErrnoNamesCause
  <2>1. /\ at[t] = "guest" /\ ret[t] # 0
        /\ ThreadState(last_error[t], at[t], saved[t], cause[t], ret[t], guest_errno[t])
    BY <1>1 DEF ThreadInv, InGuest
  <2>2. Tells(guest_errno[t], cause[t])
    BY <2>1, Zenon DEF ThreadState
  <2> QED
    BY <2>2 DEF Tells
<1> QED
  BY AlwaysInv, <1>1, PTL

(* No error of connect, and none that a socket holds for SO_ERROR, reaches *)
(* the guest as zero: a connection the guest believes in exists.           *)
THEOREM ConnectionsAreReal == Spec => []NoFalseConnection
<1>1. LinkInv => NoFalseConnection
  BY DEF LinkInv, LinkState, NoFalseConnection
<1> QED
  BY AlwaysInv, <1>1, PTL
===============================================================================
