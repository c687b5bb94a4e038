----------------------------- MODULE Marshalling ------------------------------
(***************************************************************************)
(* Guest memory seen from the host imports of both socket bridges: lengths *)
(* and ranges are checked in i32 and usize, the kernel is called on a      *)
(* buffer of the host's, then the answers are copied to the guest one      *)
(* after the other.  Numbers are scaled down: a memory of MemLen cells,    *)
(* i32 from -(IntMax + 1) to IntMax, one cell for a length or for revents. *)
(* The file bridge has the same checks and copies.                         *)
(***************************************************************************)
EXTENDS Integers, FiniteSets

CONSTANTS
  Threads,
  CallsOf,     \* the calls each guest thread may make
  MemLen,      \* the size of guest memory
  IntMax,      \* i32::MAX
  MaxIo,       \* MAX_IO_LEN
  MaxPoll,     \* MAX_POLL_FDS
  NameLens,    \* lengths of the addresses the kernel reports
  Windows,     \* TRUE for the WinSock bridge
  MaxStream,   \* bound: bytes the peer sends
  MaxCalls     \* bound: calls the guest makes

i32 == -(IntMax + 1) .. IntMax
u32 == 0 .. 2 * IntMax + 1
Addresses == 0 .. MemLen - 1

(* A poll entry is an fd, its events and its revents; sizes in cells. *)
Word == 1
PollFd == 2

(* recv; recvfrom; accept and the socket's names; getsockopt; the calls    *)
(* that only read guest memory, sendto being the one that reads an address *)
(* too; poll.  addr is the second buffer and alen its length, which the    *)
(* guest keeps at lptr where it is an answer as well.                      *)
Ops == {"recv", "recvfrom", "name", "option", "send", "poll"}
Calls == [op : Ops, ptr : i32, len : i32, addr : i32, alen : u32, lptr : i32]

ASSUME MarshallingAssumption ==
  /\ CallsOf \in [Threads -> SUBSET Calls]
  /\ {MemLen, IntMax, MaxIo, MaxPoll, MaxStream, MaxCalls} \subseteq Nat
  /\ Word <= MaxIo /\ MaxIo < IntMax /\ MaxPoll * PollFd <= MaxIo
  /\ NameLens \subseteq 0 .. MaxIo
  /\ Windows \in BOOLEAN

VARIABLES
  memory,    \* the guest's memory
  at,        \* where each thread is
  call,      \* the call it makes
  n,         \* bytes received; entries answered by poll
  first,     \* the place in the stream of the first byte received
  nlen,      \* the length the kernel gave for the second buffer
  outcome,   \* how the last call ended
  taken,     \* bytes the kernel handed out
  returned,  \* history: the bytes the guest found in its buffers
  lost,      \* history: the bytes that calls lost which broke the rules
  apart,     \* history: no buffers overlapped so far
  calls      \* number of calls so far

vars == <<memory, at, call, n, first, nlen, outcome, taken, returned, lost, apart, calls>>

NoCall == [op |-> "send", ptr |-> 0, len |-> 0, addr |-> 0, alen |-> 0, lptr |-> 0]

(* What the host writes besides the bytes of the stream, numbered from 1.  *)
Name == -1
Length == -2
Revents == -3

Init ==
  /\ memory = [a \in Addresses |-> 0]
  /\ at = [t \in Threads |-> "guest"]
  /\ call = [t \in Threads |-> NoCall]
  /\ n = [t \in Threads |-> 0]
  /\ first = [t \in Threads |-> 1]
  /\ nlen = [t \in Threads |-> 0]
  /\ outcome = [t \in Threads |-> "ok"]
  /\ taken = 0
  /\ returned = {}
  /\ lost = {}
  /\ apart = TRUE
  /\ calls = 0

(* The cells a call asks the host to write. *)
Span(base, k) == base .. base + k - 1
Requested(c) ==
  CASE c.op = "recv" -> Span(c.ptr, c.len)
    [] c.op = "recvfrom" -> Span(c.ptr, c.len) \cup Span(c.addr, c.alen) \cup Span(c.lptr, Word)
    [] c.op \in {"name", "option"} -> Span(c.addr, c.alen) \cup Span(c.lptr, Word)
    [] c.op = "send" -> {}
    [] c.op = "poll" -> {c.ptr + i * PollFd + (PollFd - 1) : i \in 0 .. c.len - 1}

(* The rules of the socket API: every buffer lies in memory, lengths are   *)
(* within the bridge's limits, poll entries are at i32 addresses, and an   *)
(* address buffer has room for any address (in mysqld it is a              *)
(* sockaddr_storage).  Buffers are separate if none of them overlap, in one*)
(* call or in two that are in progress together.                           *)
InMemory(base, k) == base >= 0 /\ k >= 0 /\ base + k <= MemLen
Roomy(c) == c.alen <= MaxIo /\ \A l \in NameLens : l <= c.alen
Keeps(c) ==
  /\ c.op \in {"recv", "recvfrom", "send"} => c.len <= MaxIo /\ InMemory(c.ptr, c.len)
  /\ c.op \in {"recvfrom", "name", "option"} =>
       InMemory(c.addr, c.alen) /\ InMemory(c.lptr, Word) /\ Roomy(c)
  /\ c.op = "send" => c.alen <= MaxIo /\ InMemory(c.addr, c.alen)
  /\ c.op = "poll" => /\ c.len \in 0 .. MaxPoll /\ InMemory(c.ptr, c.len * PollFd)
                      /\ c.ptr + c.len * PollFd <= IntMax + 1
Separate(t, c) ==
  /\ c.op = "recvfrom" =>
       Span(c.ptr, c.len) \cap (Span(c.addr, c.alen) \cup Span(c.lptr, Word)) = {}
  /\ \A u \in Threads \ {t} : at[u] # "guest" => Requested(c) \cap Requested(call[u]) = {}

------------------------------------------------------------------------------
(* Mutant: the greatest length is refused. *)
checked_len_Strict(len) == IF len < 0 \/ len >= MaxIo THEN "EINVAL" ELSE "ok"

checked_len(len) == IF len < 0 \/ len > MaxIo THEN "EINVAL" ELSE "ok"

(* Mutant: a range may not reach the end of memory. *)
checked_range_Short(ptr, len) ==
  IF ptr < 0 THEN "EFAULT"
  ELSE IF checked_len(len) # "ok" THEN checked_len(len)
  ELSE IF ptr + len >= MemLen THEN "EFAULT" ELSE "ok"

checked_range(ptr, len) ==
  IF ptr < 0 THEN "EFAULT"
  ELSE IF checked_len(len) # "ok" THEN checked_len(len)
  ELSE IF ptr + len > MemLen THEN "EFAULT" ELSE "ok"

checked_poll_count(nfds) == IF nfds < 0 \/ nfds > MaxPoll THEN "EINVAL" ELSE "ok"

(* Only the WinSock bridge checks the length the guest gives. *)
checked_sockaddr_len(len) ==
  IF Windows /\ (len > IntMax \/ checked_len(len) # "ok") THEN "EINVAL" ELSE "ok"

Then(e, f) == IF e # "ok" THEN e ELSE f

(* What a handler checks before it calls the kernel, in its order. *)
Checks(c) ==
  CASE c.op = "recv" -> checked_len(c.len)
    [] c.op = "recvfrom" -> Then(checked_len(c.len),
         Then(checked_range(c.lptr, Word), checked_sockaddr_len(c.alen)))
    [] c.op \in {"name", "option"} ->
         Then(checked_range(c.lptr, Word), checked_sockaddr_len(c.alen))
    [] c.op = "send" -> Then(checked_range(c.ptr, c.len), checked_range(c.addr, c.alen))
    [] c.op = "poll" -> Then(checked_poll_count(c.len),
                             checked_range(c.ptr, c.len * PollFd))

Ends(t, how) ==
  /\ at' = [at EXCEPT ![t] = "guest"]
  /\ outcome' = [outcome EXCEPT ![t] = how]

Goes(t, place) == at' = [at EXCEPT ![t] = place] /\ UNCHANGED outcome

(* Bytes the kernel has handed out that are on their way to a buffer. *)
OnTheirWay(t) ==
  IF at[t] \in {"copy", "name", "length"} /\ call[t].op \in {"recv", "recvfrom"}
  THEN first[t] .. first[t] + n[t] - 1 ELSE {}

(* The call fails with bytes in hand: excused if it broke the rules. *)
Forfeits(t, bytes) == lost' = lost \cup (IF Keeps(call[t]) THEN {} ELSE bytes)

Enter(t, c) ==
  /\ at[t] = "guest" /\ calls < MaxCalls
  /\ calls' = calls + 1
  /\ call' = [call EXCEPT ![t] = c]
  /\ IF Checks(c) = "ok" THEN Goes(t, "kernel") ELSE Ends(t, Checks(c))
  /\ apart' = (apart /\ Separate(t, c))
  /\ UNCHANGED <<memory, n, first, nlen, taken, returned, lost>>

(* Mutant: the result -1 of recv is taken for a count. *)
KernelFails_Ignored(t) ==
  /\ at[t] = "kernel"
  /\ n' = [n EXCEPT ![t] = -1]
  /\ Goes(t, "copy")
  /\ UNCHANGED <<memory, call, first, nlen, taken, returned, lost, apart, calls>>

(* The host's call fails, cvt_i32 and its like. *)
KernelFails(t) ==
  /\ at[t] = "kernel"
  /\ Ends(t, "host")
  /\ UNCHANGED <<memory, call, n, first, nlen, taken, returned, lost, apart, calls>>

(* recv and recvfrom take bytes from the stream.  WinSock's answer for the *)
(* address is checked before anything is copied.                           *)
Receives(t) ==
  /\ at[t] = "kernel" /\ call[t].op \in {"recv", "recvfrom"}
  /\ \E k \in 0 .. call[t].len, l \in NameLens :
       /\ taken + k <= MaxStream
       /\ taken' = taken + k
       /\ n' = [n EXCEPT ![t] = k]
       /\ nlen' = [nlen EXCEPT ![t] = l]
       /\ IF Windows /\ call[t].op = "recvfrom" /\ l > call[t].alen
          THEN Ends(t, "EIO") /\ Forfeits(t, taken + 1 .. taken + k)
          ELSE Goes(t, "copy") /\ UNCHANGED lost
  /\ first' = [first EXCEPT ![t] = taken + 1]
  /\ UNCHANGED <<memory, call, returned, apart, calls>>

(* The kernel reports the address's own length, also when the buffer was   *)
(* shorter; an option's value never exceeds the buffer.                    *)
Answers(t) ==
  /\ at[t] = "kernel" /\ call[t].op \in {"name", "option"}
  /\ \E l \in NameLens :
       /\ call[t].op = "option" => l <= call[t].alen
       /\ nlen' = [nlen EXCEPT ![t] = l]
       /\ IF Windows /\ l > call[t].alen THEN Ends(t, "EIO") ELSE Goes(t, "name")
  /\ UNCHANGED <<memory, call, n, first, taken, returned, lost, apart, calls>>

Sends(t) ==
  /\ at[t] = "kernel" /\ call[t].op = "send"
  /\ Ends(t, "ok")
  /\ UNCHANGED <<memory, call, n, first, nlen, taken, returned, lost, apart, calls>>

Polls(t) ==
  /\ at[t] = "kernel" /\ call[t].op = "poll"
  /\ n' = [n EXCEPT ![t] = 0]
  /\ Goes(t, "poll")
  /\ UNCHANGED <<memory, call, first, nlen, taken, returned, lost, apart, calls>>

------------------------------------------------------------------------------
(* write_guest: all of the bytes or none. *)
write_guest(ptr, k, mark) ==
  memory' = IF checked_range(ptr, k) # "ok" THEN memory
            ELSE [a \in Addresses |-> IF a \in ptr .. ptr + k - 1 THEN mark ELSE memory[a]]

write_stream(t) ==
  memory' = IF checked_range(call[t].ptr, n[t]) # "ok" THEN memory
            ELSE [a \in Addresses |-> IF a \in call[t].ptr .. call[t].ptr + n[t] - 1
                                      THEN first[t] + (a - call[t].ptr) ELSE memory[a]]

(* The guest looks at its buffer when the call returned a count. *)
GuestReads(t) ==
  returned' = returned \cup {memory'[a] : a \in call[t].ptr .. call[t].ptr + n[t] - 1}

(* recv and recvfrom: write_guest of the bytes received. *)
CopyFails(t) ==
  /\ at[t] = "copy" /\ checked_range(call[t].ptr, n[t]) # "ok"
  /\ Ends(t, checked_range(call[t].ptr, n[t])) /\ Forfeits(t, OnTheirWay(t))
  /\ UNCHANGED <<memory, call, n, first, nlen, taken, returned, apart, calls>>

Copy(t) ==
  /\ at[t] = "copy" /\ checked_range(call[t].ptr, n[t]) = "ok"
  /\ write_stream(t)
  /\ \/ call[t].op = "recv" /\ Ends(t, "ok") /\ GuestReads(t)
     \/ call[t].op = "recvfrom" /\ Goes(t, "name") /\ UNCHANGED returned
  /\ UNCHANGED <<call, n, first, nlen, taken, lost, apart, calls>>

(* Mutant: the host's buffer has room for any address, and all of the      *)
(* address is copied.                                                      *)
CopyName_Whole(t) ==
  /\ at[t] = "name"
  /\ write_guest(call[t].addr, nlen[t], Name)
  /\ IF checked_range(call[t].addr, nlen[t]) = "ok" THEN Goes(t, "length") /\ UNCHANGED lost
     ELSE Ends(t, checked_range(call[t].addr, nlen[t])) /\ Forfeits(t, OnTheirWay(t))
  /\ UNCHANGED <<call, n, first, nlen, taken, returned, apart, calls>>

(* addr[..addr_len] of a buffer that the guest's length was the size of.   *)
CopyName(t) ==
  /\ at[t] = "name" /\ nlen[t] <= call[t].alen
  /\ write_guest(call[t].addr, nlen[t], Name)
  /\ IF checked_range(call[t].addr, nlen[t]) = "ok" THEN Goes(t, "length") /\ UNCHANGED lost
     ELSE Ends(t, checked_range(call[t].addr, nlen[t])) /\ Forfeits(t, OnTheirWay(t))
  /\ UNCHANGED <<call, n, first, nlen, taken, returned, apart, calls>>

SlicePanics(t) ==
  /\ at[t] = "name" /\ nlen[t] > call[t].alen
  /\ at' = [at EXCEPT ![t] = "panicked"]
  /\ outcome' = [outcome EXCEPT ![t] = "panic"]
  /\ Forfeits(t, OnTheirWay(t))
  /\ UNCHANGED <<memory, call, n, first, nlen, taken, returned, apart, calls>>

(* write_u32, then the handler's result. *)
CopyLength(t) ==
  /\ at[t] = "length"
  /\ write_guest(call[t].lptr, Word, Length)
  /\ Ends(t, checked_range(call[t].lptr, Word))
  /\ \/ /\ call[t].op = "recvfrom" /\ checked_range(call[t].lptr, Word) = "ok"
        /\ GuestReads(t) /\ UNCHANGED lost
     \/ /\ call[t].op # "recvfrom" \/ checked_range(call[t].lptr, Word) # "ok"
        /\ Forfeits(t, OnTheirWay(t)) /\ UNCHANGED returned
  /\ UNCHANGED <<call, n, first, nlen, taken, apart, calls>>

(* poll: revents of one entry after the other, at an i32 address. *)
ReventsPtr(t) == call[t].ptr + n[t] * PollFd + (PollFd - 1)

PollAnswer(t) ==
  /\ at[t] = "poll" /\ n[t] < call[t].len /\ ReventsPtr(t) <= IntMax
  /\ write_guest(ReventsPtr(t), 1, Revents)
  /\ IF checked_range(ReventsPtr(t), 1) = "ok"
     THEN n' = [n EXCEPT ![t] = n[t] + 1] /\ UNCHANGED <<at, outcome>>
     ELSE Ends(t, checked_range(ReventsPtr(t), 1)) /\ UNCHANGED n
  /\ UNCHANGED <<call, first, nlen, taken, returned, lost, apart, calls>>

(* The address overflows: a panic where overflow is checked, as it is in a *)
(* debug build; elsewhere it wraps to a negative number, which is EFAULT.  *)
PollOverflows(t) ==
  /\ at[t] = "poll" /\ n[t] < call[t].len /\ ReventsPtr(t) > IntMax
  /\ \/ Ends(t, "EFAULT")
     \/ /\ at' = [at EXCEPT ![t] = "panicked"]
        /\ outcome' = [outcome EXCEPT ![t] = "panic"]
  /\ UNCHANGED <<memory, call, n, first, nlen, taken, returned, lost, apart, calls>>

PollEnds(t) ==
  /\ at[t] = "poll" /\ n[t] >= call[t].len
  /\ Ends(t, "ok")
  /\ UNCHANGED <<memory, call, n, first, nlen, taken, returned, lost, apart, calls>>

Next ==
  \E t \in Threads :
    \/ \E c \in CallsOf[t] : Enter(t, c)
    \/ KernelFails(t) \/ Receives(t) \/ Answers(t) \/ Sends(t) \/ Polls(t)
    \/ CopyFails(t) \/ Copy(t) \/ CopyName(t) \/ SlicePanics(t) \/ CopyLength(t)
    \/ PollAnswer(t) \/ PollOverflows(t) \/ PollEnds(t)

Spec == Init /\ [][Next]_vars

------------------------------------------------------------------------------
(* Type invariant. *)
TypeOK ==
  /\ memory \in [Addresses -> Int]
  /\ at \in [Threads -> {"guest", "kernel", "copy", "name", "length", "poll", "panicked"}]
  /\ call \in [Threads -> Calls]
  /\ n \in [Threads -> Nat]
  /\ first \in [Threads -> Nat]
  /\ nlen \in [Threads -> Nat]
  /\ outcome \in [Threads -> {"ok", "host", "EFAULT", "EINVAL", "EIO", "panic"}]
  /\ taken \in Nat
  /\ returned \subseteq Int
  /\ lost \subseteq Int
  /\ apart \in BOOLEAN
  /\ calls \in Nat

(* Whatever pointers and lengths the guest passes, and whatever lengths    *)
(* the kernel answers, an import changes no cell of guest memory that its  *)
(* arguments did not name: not past a buffer shorter than the kernel's     *)
(* answer, not an fd or events of a poll entry, and not where an address   *)
(* that overflowed would wrap to.                                          *)
OnlyRequested ==
  [][\A a \in Addresses : memory'[a] # memory[a] =>
       \E t \in Threads : at[t] # "guest" /\ a \in Requested(call[t])]_vars

(* A call that keeps the rules fails only if the kernel's call does: no    *)
(* check is too strict at a limit or at the end of memory, no copy fails   *)
(* after the kernel has acted, and no slice or address panics.             *)
SoundCallsSucceed ==
  \A t \in Threads :
    at[t] \in {"guest", "panicked"} /\ Keeps(call[t]) => outcome[t] \in {"ok", "host"}

(* No byte of a connection is lost or made up between the kernel and the   *)
(* guest: what the kernel handed out is what the guest found in the        *)
(* buffers of its successful calls, what is still on its way, and what     *)
(* calls that broke the rules lost, which is no byte of any other call.    *)
(* Threads may receive from one socket at the same time into buffers of    *)
(* their own.                                                              *)
NoByteLost ==
  apart => 1 .. taken = returned \cup lost \cup UNION {OnTheirWay(t) : t \in Threads}
===============================================================================
