----------------------------- MODULE HostSockets -----------------------------
(***************************************************************************)
(* The socket bridge of src/src/host_sockets.rs on Unix: the table from    *)
(* guest descriptors to raw host descriptors, shared by every guest        *)
(* thread, and the host calls that create, use and close its entries.      *)
(*                                                                         *)
(* The table's mutex covers one insert, get or remove.  Every handler      *)
(* therefore runs in pieces, and the pieces are the actions below: a raw   *)
(* descriptor is created before it is inserted, copied out before it is    *)
(* used, and removed before it is closed, with other threads in between.   *)
(* A return with an error before anything changed is a stuttering step and *)
(* has no action of its own.                                               *)
(***************************************************************************)
EXTENDS Integers

CONSTANTS
  Threads,         \* host threads running guest code
  Main,            \* the thread of run(), whose return drops the table
  RawFds,          \* descriptor numbers of the host kernel
  NoRaw,           \* no descriptor
  GuestDomains,    \* address families the guest passes to socket()
  GuestFdBase,     \* GUEST_FD_BASE
  MaxGuestFd,      \* i32::MAX, where next_fd saturates
  MaxOpens,        \* bound: sockets the kernel creates in a behaviour
  NetworkAllowed   \* FALSE under --no-network

ASSUME ThreadsAssumption == Main \in Threads
ASSUME FdsAssumption ==
  /\ NoRaw \notin RawFds
  /\ GuestFdBase \in Nat /\ MaxGuestFd \in Nat /\ GuestFdBase <= MaxGuestFd
  /\ MaxOpens \in Nat
ASSUME SwitchAssumption == NetworkAllowed \in BOOLEAN
ASSUME DomainsAssumption == GuestDomains \subseteq Int

VARIABLES
  next_fd,   \* HostSocketsInner.next_fd
  sockets,   \* HostSocketsInner.sockets: guest fd -> HostSocket
  kernel,    \* external: the socket behind each raw descriptor
  born,      \* external: number of sockets created, names the next one
  pc,        \* where each thread is inside a handler
  socket,    \* the handler's local HostSocket
  borrowed,  \* <<guest fd, raw fd, socket>> triples copied out by get
  fds,       \* poll: the guest descriptors still to be translated
  lost,      \* history: connections that accept gave up when it panicked
  strays     \* history: connections accepted on another socket than the listener

history == <<lost, strays>>
vars == <<next_fd, sockets, kernel, born, pc, socket, borrowed, fds, history>>

GuestFds == GuestFdBase..MaxGuestFd
SocketIds == 1..MaxOpens
HostSocket == [raw_fd : RawFds, guest_domain : Int, host_domain : Int]
NoSocket == [raw_fd |-> NoRaw, guest_domain |-> 0, host_domain |-> 0]
KernelSocket == [id : 0..MaxOpens, domain : Int]

(* A raw descriptor number nobody has open. *)
Closed == [id |-> 0, domain |-> 0]
IsOpen(r) == kernel[r].id # 0

(* The guest is compiled with a second number for AF_INET (1), next to the *)
(* host's 2; every other family goes to the host as it is.                 *)
WASI_ALT_AF_INET == 1
AF_INET == 2
normalize_socket_domain(d) == IF d = WASI_ALT_AF_INET THEN AF_INET ELSE d

------------------------------------------------------------------------------
(* The table's own operations, each under the mutex. *)

(* Mutant: the counter runs on past i32::MAX. *)
saturating_succ_Runs(n) == n + 1

(* next_fd.saturating_add(1) *)
saturating_succ(n) == IF n = MaxGuestFd THEN n ELSE n + 1

insert(s) ==
  /\ sockets' = [g \in DOMAIN sockets \union {next_fd} |->
                   IF g = next_fd THEN s ELSE sockets[g]]
  /\ next_fd' = saturating_succ(next_fd)

(* Mutant: the entry is only looked up. *)
remove_Get(g) == g \in DOMAIN sockets /\ UNCHANGED <<sockets, next_fd>>

(* Mutant: a descriptor that was removed is handed out next. *)
remove_Reuse(g) ==
  /\ sockets' = [h \in DOMAIN sockets \ {g} |-> sockets[h]]
  /\ next_fd' = g

remove(g) ==
  /\ sockets' = [h \in DOMAIN sockets \ {g} |-> sockets[h]]
  /\ UNCHANGED next_fd

(* The copy get(g) hands out, with the socket its raw descriptor names now. *)
copied(g) == <<g, sockets[g].raw_fd, kernel[sockets[g].raw_fd].id>>

------------------------------------------------------------------------------
(* The host kernel: any free number may be used for a new socket. *)

KernelOpens(r, domain) ==
  /\ born < MaxOpens
  /\ ~IsOpen(r)
  /\ born' = born + 1
  /\ kernel' = [kernel EXCEPT ![r] = [id |-> born + 1, domain |-> domain]]

KernelCloses(r) ==
  /\ kernel' = [kernel EXCEPT ![r] = Closed]
  /\ UNCHANGED born

Goto(t, from, to) == pc[t] = from /\ pc' = [pc EXCEPT ![t] = to]

------------------------------------------------------------------------------
Init ==
  /\ next_fd = GuestFdBase
  /\ sockets = [g \in {} |-> g]
  /\ kernel = [r \in RawFds |-> Closed]
  /\ born = 0
  /\ pc = [t \in Threads |-> "guest"]
  /\ socket = [t \in Threads |-> NoSocket]
  /\ borrowed = [t \in Threads |-> {}]
  /\ fds = [t \in Threads |-> {}]
  /\ lost = {} /\ strays = {}

------------------------------------------------------------------------------
(* socket(domain, ty, protocol): refused without a network or for a type   *)
(* that is neither stream nor datagram; otherwise the host creates it.     *)
Socket(t, d) ==
  /\ NetworkAllowed
  /\ Goto(t, "guest", "configuring")
  /\ \E r \in RawFds :
       /\ KernelOpens(r, normalize_socket_domain(d))
       /\ socket' = [socket EXCEPT ![t] =
            [raw_fd |-> r, guest_domain |-> d,
             host_domain |-> normalize_socket_domain(d)]]
  /\ UNCHANGED <<next_fd, sockets, borrowed, fds>>

(* Mutant: the raw descriptor is forgotten. *)
ConfigureFails_Leaks(t) ==
  /\ Goto(t, "configuring", "guest")
  /\ socket' = [socket EXCEPT ![t] = NoSocket]
  /\ UNCHANGED <<next_fd, sockets, kernel, born, borrowed, fds>>

(* configure_socket_type_flags failed: the new descriptor is given back. *)
ConfigureFails(t) ==
  /\ Goto(t, "configuring", "guest")
  /\ KernelCloses(socket[t].raw_fd)
  /\ socket' = [socket EXCEPT ![t] = NoSocket]
  /\ UNCHANGED <<next_fd, sockets, borrowed, fds>>

SocketInsert(t) ==
  /\ Goto(t, "configuring", "guest")
  /\ insert(socket[t])
  /\ socket' = [socket EXCEPT ![t] = NoSocket]
  /\ UNCHANGED <<kernel, born, borrowed, fds>>

------------------------------------------------------------------------------
(* accept: copy the listener out, accept on its raw descriptor, copy the   *)
(* peer address to the guest, insert with the listener's families.         *)
AcceptGet(t, g) ==
  /\ g \in DOMAIN sockets
  /\ Goto(t, "guest", "accepting")
  /\ socket' = [socket EXCEPT ![t] = sockets[g]]
  /\ borrowed' = [borrowed EXCEPT ![t] = {copied(g)}]
  /\ UNCHANGED <<next_fd, sockets, kernel, born, fds>>

(* Mutant: the guest's family is stored as the host's. *)
AcceptSucceeds_GuestFamily(t) ==
  /\ Goto(t, "accepting", "accepted")
  /\ IsOpen(socket[t].raw_fd)
  /\ \E r \in RawFds :
       /\ KernelOpens(r, kernel[socket[t].raw_fd].domain)
       /\ socket' = [socket EXCEPT ![t] =
            [raw_fd |-> r, guest_domain |-> socket[t].guest_domain,
             host_domain |-> socket[t].guest_domain]]
  /\ borrowed' = [borrowed EXCEPT ![t] = {}]
  /\ UNCHANGED <<next_fd, sockets, fds, history>>

(* The raw descriptor no longer names the socket that get found, or the    *)
(* listener is itself a stray.                                             *)
Misled(t) == \E b \in borrowed[t] : kernel[b[2]].id # b[3] \/ b[3] \in strays

(* The kernel accepts on whatever the raw descriptor names by now; the new *)
(* socket has that one's family.                                           *)
AcceptSucceeds(t) ==
  /\ Goto(t, "accepting", "accepted")
  /\ IsOpen(socket[t].raw_fd)
  /\ \E r \in RawFds :
       /\ KernelOpens(r, kernel[socket[t].raw_fd].domain)
       /\ socket' = [socket EXCEPT ![t] =
            [raw_fd |-> r, guest_domain |-> socket[t].guest_domain,
             host_domain |-> socket[t].host_domain]]
  /\ strays' = IF Misled(t) THEN strays \union {born + 1} ELSE strays
  /\ borrowed' = [borrowed EXCEPT ![t] = {}]
  /\ UNCHANGED <<next_fd, sockets, fds, lost>>

(* Mutant: the error path closes, and what it closes is the listener. *)
AcceptFails_Closes(t) ==
  /\ Goto(t, "accepting", "guest")
  /\ KernelCloses(socket[t].raw_fd)
  /\ socket' = [socket EXCEPT ![t] = NoSocket]
  /\ borrowed' = [borrowed EXCEPT ![t] = {}]
  /\ UNCHANGED <<next_fd, sockets, fds>>

AcceptFails(t) ==
  /\ Goto(t, "accepting", "guest")
  /\ socket' = [socket EXCEPT ![t] = NoSocket]
  /\ borrowed' = [borrowed EXCEPT ![t] = {}]
  /\ UNCHANGED <<next_fd, sockets, kernel, born, fds>>

(* Mutant: the accepted descriptor is forgotten. *)
AcceptCopyFails_Leaks(t) ==
  /\ Goto(t, "accepted", "guest")
  /\ socket' = [socket EXCEPT ![t] = NoSocket]
  /\ UNCHANGED <<next_fd, sockets, kernel, born, borrowed, fds>>

(* The peer address or its length does not fit the guest's memory. *)
AcceptCopyFails(t) ==
  /\ Goto(t, "accepted", "guest")
  /\ KernelCloses(socket[t].raw_fd)
  /\ socket' = [socket EXCEPT ![t] = NoSocket]
  /\ UNCHANGED <<next_fd, sockets, borrowed, fds>>

(* The address is longer than the guest's buffer, and addr[..addr_len]     *)
(* panics: the connection is neither closed nor inserted.                  *)
AcceptPanics(t) ==
  /\ Goto(t, "accepted", "unwinding")
  /\ lost' = lost \union {kernel[socket[t].raw_fd].id}
  /\ socket' = [socket EXCEPT ![t] = NoSocket]
  /\ UNCHANGED <<next_fd, sockets, kernel, born, borrowed, fds, strays>>

AcceptInsert(t) ==
  /\ Goto(t, "accepted", "guest")
  /\ insert(socket[t])
  /\ socket' = [socket EXCEPT ![t] = NoSocket]
  /\ UNCHANGED <<kernel, born, borrowed, fds>>

------------------------------------------------------------------------------
(* bind, listen, connect, getsockname, getpeername, setsockopt, getsockopt,*)
(* send, recv, sendto, recvfrom, shutdown and fcntl have one shape: copy   *)
(* the entry out, use its raw descriptor, return.                          *)
CallGet(t, g) ==
  /\ g \in DOMAIN sockets
  /\ Goto(t, "guest", "calling")
  /\ borrowed' = [borrowed EXCEPT ![t] = {copied(g)}]
  /\ UNCHANGED <<next_fd, sockets, kernel, born, socket, fds>>

CallReturns(t) ==
  /\ Goto(t, "calling", "guest")
  /\ borrowed' = [borrowed EXCEPT ![t] = {}]
  /\ UNCHANGED <<next_fd, sockets, kernel, born, socket, fds>>

(* poll translates its descriptors one get at a time and stops at the      *)
(* first one that is not in the table.                                     *)
PollStart(t, G) ==
  /\ Goto(t, "guest", "polling")
  /\ fds' = [fds EXCEPT ![t] = G]
  /\ UNCHANGED <<next_fd, sockets, kernel, born, socket, borrowed>>

PollGet(t, g) ==
  /\ pc[t] = "polling"
  /\ g \in fds[t] \intersect DOMAIN sockets
  /\ fds' = [fds EXCEPT ![t] = @ \ {g}]
  /\ borrowed' = [borrowed EXCEPT ![t] = @ \union {copied(g)}]
  /\ UNCHANGED <<next_fd, sockets, kernel, born, pc, socket>>

(* Either every descriptor was translated and the host's poll answered, or *)
(* one was missing and poll returned EBADF.                                *)
PollReturns(t) ==
  /\ fds[t] = {} \/ \E g \in fds[t] : g \notin DOMAIN sockets
  /\ Goto(t, "polling", "guest")
  /\ fds' = [fds EXCEPT ![t] = {}]
  /\ borrowed' = [borrowed EXCEPT ![t] = {}]
  /\ UNCHANGED <<next_fd, sockets, kernel, born, socket>>

(* A slice of an answer, or in a debug build the address of an entry of    *)
(* poll, panics (see Marshalling).  No handler holds the mutex then, so    *)
(* the table stays usable for the other threads.                           *)
CallPanics(t) ==
  /\ pc[t] \in {"calling", "polling"} /\ fds[t] = {}
  /\ pc' = [pc EXCEPT ![t] = "unwinding"]
  /\ borrowed' = [borrowed EXCEPT ![t] = {}]
  /\ UNCHANGED <<next_fd, sockets, kernel, born, socket, fds>>

------------------------------------------------------------------------------
(* close: the entry leaves the table first, then the host closes it. *)
CloseRemove(t, g) ==
  /\ g \in DOMAIN sockets
  /\ Goto(t, "guest", "closing")
  /\ remove(g)
  /\ socket' = [socket EXCEPT ![t] = sockets[g]]
  /\ UNCHANGED <<kernel, born, borrowed, fds>>

CloseRaw(t) ==
  /\ Goto(t, "closing", "guest")
  /\ KernelCloses(socket[t].raw_fd)
  /\ socket' = [socket EXCEPT ![t] = NoSocket]
  /\ UNCHANGED <<next_fd, sockets, borrowed, fds>>

------------------------------------------------------------------------------
(* A guest thread ends, or its panic has reached the top of its stack: its *)
(* clone of the table goes.                                                *)
Exits(t) == pc[t] \in {"guest", "unwinding"} /\ pc' = [pc EXCEPT ![t] = "exited"]

ThreadExit(t) ==
  /\ t # Main
  /\ Exits(t)
  /\ UNCHANGED <<next_fd, sockets, kernel, born, socket, borrowed, fds>>

(* run() returns or unwinds with no guest thread left: the last clone      *)
(* goes, and HostSocketsInner::drop closes what is still in the table.     *)
Drop ==
  /\ \A t \in Threads \ {Main} : pc[t] = "exited"
  /\ Exits(Main)
  /\ sockets' = [g \in {} |-> g]
  /\ kernel' = [r \in RawFds |->
                  IF \E g \in DOMAIN sockets : sockets[g].raw_fd = r
                  THEN Closed ELSE kernel[r]]
  /\ UNCHANGED <<next_fd, born, socket, borrowed, fds>>

Handler(t) ==
  \/ \E d \in GuestDomains : Socket(t, d)
  \/ ConfigureFails(t)
  \/ SocketInsert(t)
  \/ \E g \in DOMAIN sockets : AcceptGet(t, g)
  \/ AcceptFails(t)
  \/ AcceptCopyFails(t)
  \/ AcceptInsert(t)
  \/ \E g \in DOMAIN sockets : CallGet(t, g)
  \/ CallReturns(t)
  \/ \E G \in SUBSET DOMAIN sockets : PollStart(t, G)
  \/ \E g \in DOMAIN sockets : PollGet(t, g)
  \/ PollReturns(t)
  \/ CallPanics(t)
  \/ \E g \in DOMAIN sockets : CloseRemove(t, g)
  \/ CloseRaw(t)
  \/ ThreadExit(t)

Next ==
  \/ UNCHANGED history /\ (Drop \/ \E t \in Threads : Handler(t))
  \/ \E t \in Threads : AcceptSucceeds(t) \/ AcceptPanics(t)

Spec == Init /\ [][Next]_vars

------------------------------------------------------------------------------
(* The handlers between creating a raw descriptor and inserting it, or     *)
(* between removing one and closing it: the descriptor is theirs.          *)
Holding(t) == pc[t] \in {"configuring", "accepted", "closing"}

(* next_fd has reached i32::MAX, so an insert may overwrite an entry. *)
Saturated == next_fd = MaxGuestFd

(* Type invariant of the table, the kernel and the handlers' locals. *)
TypeOK ==
  /\ next_fd \in GuestFds
  /\ DOMAIN sockets \subseteq GuestFds
  /\ sockets \in [DOMAIN sockets -> HostSocket]
  /\ kernel \in [RawFds -> KernelSocket]
  /\ born \in 0..MaxOpens
  /\ pc \in [Threads -> {"guest", "configuring", "accepting", "accepted",
                         "calling", "polling", "closing", "unwinding", "exited"}]
  /\ socket \in [Threads -> HostSocket \union {NoSocket}]
  /\ borrowed \in [Threads -> SUBSET (GuestFds \X RawFds \X SocketIds)]
  /\ fds \in [Threads -> SUBSET GuestFds]
  /\ lost \subseteq SocketIds /\ strays \subseteq SocketIds

(* No raw descriptor has two owners, and an owned one is open.  The owners *)
(* are the entries of the table (insert, remove) and the handlers between  *)
(* the host's answer and the table.  So libc::close is never called twice  *)
(* for one socket, nor on a number that was reused for another one.        *)
OwnedOnce ==
  /\ \A g \in DOMAIN sockets :
       /\ IsOpen(sockets[g].raw_fd)
       /\ \A h \in DOMAIN sockets \ {g} : sockets[h].raw_fd # sockets[g].raw_fd
  /\ \A t \in Threads : Holding(t) =>
       /\ socket[t].raw_fd \in RawFds
       /\ IsOpen(socket[t].raw_fd)
       /\ \A g \in DOMAIN sockets : sockets[g].raw_fd # socket[t].raw_fd
       /\ \A u \in Threads \ {t} :
            Holding(u) => socket[u].raw_fd # socket[t].raw_fd

(* No socket is leaked: on every path through socket, accept and close,    *)
(* error paths included, an open raw descriptor stays in the table or with *)
(* the handler that will insert or close it.  There are two exceptions:    *)
(* the saturated counter of insert, which overwrites the entry of i32::MAX,*)
(* and a connection whose accept panicked over the length of its address.  *)
NoLeak ==
  \A r \in RawFds : IsOpen(r) =>
    \/ \E g \in DOMAIN sockets : sockets[g].raw_fd = r
    \/ \E t \in Threads : Holding(t) /\ socket[t].raw_fd = r
    \/ Saturated
    \/ kernel[r].id \in lost

(* HostSocketsInner::drop closes everything the process opened: after the  *)
(* last owner of the table is gone, by a return or by a panic, the only    *)
(* sockets still open are those that a panic in accept lost.               *)
DropClosesAll ==
  (\A t \in Threads : pc[t] = "exited") /\ ~Saturated
     => \A r \in RawFds : IsOpen(r) => kernel[r].id \in lost

(* A host call on a descriptor reaches the socket that the descriptor named*)
(* when get copied its raw number out, although the mutex is released      *)
(* before the call and the kernel reuses numbers.  Only a close of that    *)
(* same descriptor during the call can misdirect it; no other thread's     *)
(* socket, accept or close of other descriptors can.  i32::MAX is left     *)
(* out, the one number that insert issues twice.                           *)
CallHitsItsSocket ==
  \A t \in Threads : \A b \in borrowed[t] :
    b[1] \in DOMAIN sockets \ {MaxGuestFd} => kernel[b[2]].id = b[3]

(* The families stored with an entry are the ones of the socket behind it: *)
(* addresses are rewritten with host_domain on the way in and guest_domain *)
(* on the way out, also for connections that accept produced.  The host's  *)
(* is always the guest's normalised; it is the socket's unless accept was  *)
(* misled by a close of the listener during the call.                      *)
DomainsAgree ==
  \A g \in DOMAIN sockets :
    /\ sockets[g].host_domain = normalize_socket_domain(sockets[g].guest_domain)
    /\ \/ sockets[g].host_domain = kernel[sockets[g].raw_fd].domain
       \/ kernel[sockets[g].raw_fd].id \in strays

(* What the guest sees of the table, as an instance of the abstract one:   *)
(* an open descriptor names one kernel socket for as long as it is open,   *)
(* two never name the same, and none but i32::MAX is issued twice.         *)
Table == INSTANCE FdTable
  WITH Descriptors <- GuestFds,
       Objects <- SocketIds,
       Last <- MaxGuestFd,
       live <- [g \in DOMAIN sockets |-> kernel[sockets[g].raw_fd].id],
       issued <- GuestFdBase..(next_fd - 1)

(* Every behaviour of the bridge is a behaviour of the abstract table. *)
ImplementsFdTable == Table!Spec
==============================================================================
