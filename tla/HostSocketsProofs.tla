-------------------------- MODULE HostSocketsProofs --------------------------
(***************************************************************************)
(* The socket bridge keeps its promises for any number of threads, raw     *)
(* descriptors and sockets.  OwnedOnce and NoLeak are not inductive alone: *)
(* a handler's local HostSocket must be a real one while it is needed,     *)
(* entries lie below the counter, and a finished Main has left an empty    *)
(* table.  IInv adds these facts.                                          *)
(***************************************************************************)
EXTENDS HostSockets, TLAPS

(* The handlers that keep a HostSocket in a local variable. *)
Local(t) == Holding(t) \/ pc[t] = "accepting"

Locals == \A t \in Threads : Local(t) => socket[t] \in HostSocket

BelowCounter == \A g \in DOMAIN sockets : g < next_fd \/ Saturated

Finished == pc[Main] = "exited" =>
  /\ DOMAIN sockets = {}
  /\ \A t \in Threads : pc[t] = "exited"

IInv == TypeOK /\ OwnedOnce /\ NoLeak /\ Locals /\ BelowCounter /\ Finished

LEMMA InitIInv == Init => IInv
  BY FdsAssumption, ThreadsAssumption
  DEF Init, IInv, TypeOK, OwnedOnce, NoLeak, Locals, BelowCounter, Finished,
      Local, Holding, IsOpen, Closed, GuestFds, KernelSocket, Saturated

LEMMA StepIInv == IInv /\ [Next]_vars => IInv'
<1> SUFFICES ASSUME IInv, [Next]_vars PROVE IInv'
  OBVIOUS
<1> USE FdsAssumption, ThreadsAssumption, DomainsAssumption DEF IInv
<1> USE DEF Goto, history
<1>1. ASSUME NEW t \in Threads, NEW d \in GuestDomains, Socket(t, d), UNCHANGED history
      PROVE  IInv'
  <2> USE <1>1 DEF Socket, KernelOpens
  <2>1. PICK r \in RawFds : 
       /\ KernelOpens(r, normalize_socket_domain(d))
       /\ socket' = [socket EXCEPT ![t] =
            [raw_fd |-> r, guest_domain |-> d,
             host_domain |-> normalize_socket_domain(d)]]
    OBVIOUS
  <2>2. TypeOK'
    BY <2>1 DEF TypeOK, GuestFds, KernelSocket, HostSocket, SocketIds, normalize_socket_domain, AF_INET
  <2>3. OwnedOnce'
    BY <2>1 DEF TypeOK, OwnedOnce, Holding, IsOpen, KernelSocket, HostSocket
  <2>4. NoLeak'
    BY <2>1 DEF TypeOK, NoLeak, Holding, IsOpen, KernelSocket, HostSocket, Saturated
  <2>5. Locals' /\ BelowCounter' /\ Finished'
    BY <2>1 DEF TypeOK, Locals, Local, BelowCounter, Finished, Holding, HostSocket, Saturated, normalize_socket_domain, AF_INET
  <2> QED BY <2>2, <2>3, <2>4, <2>5
<1>2. ASSUME NEW t \in Threads, ConfigureFails(t) \/ AcceptCopyFails(t) \/ CloseRaw(t),
             UNCHANGED history
      PROVE  IInv'
  <2>1. Closed \in KernelSocket
    BY DEF Closed, KernelSocket
  <2>0. /\ Holding(t) /\ pc' = [pc EXCEPT ![t] = "guest"]
        /\ kernel' = [kernel EXCEPT ![socket[t].raw_fd] = Closed]
        /\ socket' = [socket EXCEPT ![t] = NoSocket]
        /\ UNCHANGED <<next_fd, sockets, born, borrowed, fds, lost, strays>>
    BY <1>2 DEF ConfigureFails, AcceptCopyFails, CloseRaw, KernelCloses, Holding
  <2> USE <2>0
  <2>2. TypeOK'
    BY <2>1 DEF TypeOK
  <2>3. OwnedOnce'
    BY DEF TypeOK, OwnedOnce, Holding, IsOpen, KernelSocket, HostSocket, Closed
  <2>4. NoLeak'
    BY DEF TypeOK, NoLeak, Holding, IsOpen, KernelSocket, HostSocket, Saturated, Closed
  <2>5. Locals' /\ BelowCounter' /\ Finished'
    BY DEF TypeOK, Locals, Local, BelowCounter, Finished, Holding, HostSocket, Saturated
  <2> QED BY <2>2, <2>3, <2>4, <2>5
<1>3. ASSUME NEW t \in Threads, SocketInsert(t) \/ AcceptInsert(t), UNCHANGED history
      PROVE  IInv'
  <2> USE <1>3 DEF SocketInsert, AcceptInsert, insert, saturating_succ
  <2>1. socket[t] \in HostSocket /\ Holding(t)
    BY DEF Locals, Local, Holding
  <2>2. TypeOK'
    BY <2>1 DEF TypeOK, GuestFds, KernelSocket
  <2>3. OwnedOnce'
    BY <2>1 DEF TypeOK, OwnedOnce, Holding, IsOpen
  <2>4. NoLeak'
    <3>1. CASE Saturated'
      BY <3>1 DEF NoLeak
    <3>2. CASE ~Saturated'
      <4>1. ~Saturated /\ next_fd \notin DOMAIN sockets
        BY <3>2 DEF TypeOK, Saturated, BelowCounter, GuestFds
      <4>2. SUFFICES ASSUME NEW r \in RawFds, IsOpen(r)'
                     PROVE \/ \E g \in DOMAIN sockets' : sockets'[g].raw_fd = r
                           \/ \E u \in Threads : Holding(u)' /\ socket'[u].raw_fd = r
                           \/ kernel'[r].id \in lost'
        BY DEF NoLeak
      <4>3. CASE \E g \in DOMAIN sockets : sockets[g].raw_fd = r
        BY <4>1, <4>3
      <4>4. CASE \E u \in Threads : Holding(u) /\ socket[u].raw_fd = r
        <5>1. PICK u \in Threads : Holding(u) /\ socket[u].raw_fd = r
          BY <4>4
        <5>2. CASE u = t
          <6>1. next_fd \in DOMAIN sockets' /\ sockets'[next_fd] = socket[t]
            OBVIOUS
          <6> QED BY <5>1, <5>2, <6>1
        <5>3. CASE u # t
          BY <5>1, <5>3 DEF Holding, TypeOK
        <5> QED BY <5>2, <5>3
      <4> QED BY <4>1, <4>2, <4>3, <4>4 DEF NoLeak, IsOpen
    <3> QED BY <3>1, <3>2
  <2>5. Locals' /\ Finished'
    BY <2>1, ZenonT(30) DEF TypeOK, Locals, Local, Finished, Holding, HostSocket
  <2>6. BelowCounter'
    BY DEF TypeOK, BelowCounter, Saturated, GuestFds
  <2> QED BY <2>2, <2>3, <2>4, <2>5, <2>6
<1>4. ASSUME NEW t \in Threads, AcceptSucceeds(t)
      PROVE  IInv'
  <2> USE <1>4 DEF AcceptSucceeds, KernelOpens
  <2>1. PICK r \in RawFds : 
       /\ KernelOpens(r, kernel[socket[t].raw_fd].domain)
       /\ socket' = [socket EXCEPT ![t] =
            [raw_fd |-> r, guest_domain |-> socket[t].guest_domain,
             host_domain |-> socket[t].host_domain]]
    OBVIOUS
  <2>0. socket[t] \in HostSocket
    BY DEF Locals, Local, Holding
  <2>2. TypeOK'
    BY <2>0, <2>1 DEF TypeOK, GuestFds, KernelSocket, HostSocket, SocketIds
  <2>3. OwnedOnce'
    BY <2>0, <2>1 DEF TypeOK, OwnedOnce, Holding, IsOpen, KernelSocket, HostSocket
  <2>4. NoLeak'
    BY <2>0, <2>1 DEF TypeOK, NoLeak, Holding, IsOpen, KernelSocket, HostSocket, Saturated
  <2>5. Locals' /\ BelowCounter' /\ Finished'
    BY <2>0, <2>1 DEF TypeOK, Locals, Local, BelowCounter, Finished, Holding, HostSocket, Saturated
  <2> QED BY <2>2, <2>3, <2>4, <2>5
<1>5. ASSUME NEW t \in Threads, NEW g \in DOMAIN sockets,
             AcceptGet(t, g) \/ CallGet(t, g) \/ PollGet(t, g), UNCHANGED history
      PROVE  IInv'
  <2> USE <1>5 DEF AcceptGet, CallGet, PollGet
  <2>1. copied(g) \in GuestFds \X RawFds \X SocketIds
    BY DEF TypeOK, copied, OwnedOnce, IsOpen, KernelSocket, HostSocket, SocketIds
  <2>2. TypeOK'
    BY <2>1 DEF TypeOK
  <2>3. OwnedOnce'
    BY DEF TypeOK, OwnedOnce, Holding, IsOpen
  <2>4. NoLeak'
    BY DEF TypeOK, NoLeak, Holding, IsOpen, Saturated
  <2>5. Locals' /\ BelowCounter' /\ Finished'
    BY DEF TypeOK, Locals, Local, BelowCounter, Finished, Holding, Saturated
  <2> QED BY <2>2, <2>3, <2>4, <2>5
<1>6. ASSUME NEW t \in Threads, UNCHANGED history,
             \/ AcceptFails(t) \/ CallReturns(t) \/ PollReturns(t)
             \/ CallPanics(t) \/ ThreadExit(t)
      PROVE  IInv'
  <2> USE <1>6 DEF AcceptFails, CallReturns, PollReturns, CallPanics, ThreadExit, Exits
  <2>2. TypeOK'
    BY DEF TypeOK
  <2>3. OwnedOnce'
    BY DEF TypeOK, OwnedOnce, Holding, IsOpen
  <2>4. NoLeak'
    BY DEF TypeOK, NoLeak, Holding, IsOpen, Saturated
  <2>5. Locals' /\ BelowCounter' /\ Finished'
    BY DEF TypeOK, Locals, Local, BelowCounter, Finished, Holding, Saturated
  <2> QED BY <2>2, <2>3, <2>4, <2>5
<1>7. ASSUME NEW t \in Threads, NEW G \in SUBSET DOMAIN sockets, PollStart(t, G),
             UNCHANGED history
      PROVE  IInv'
  <2> USE <1>7 DEF PollStart
  <2>2. TypeOK'
    BY DEF TypeOK
  <2>3. OwnedOnce'
    BY DEF TypeOK, OwnedOnce, Holding, IsOpen
  <2>4. NoLeak'
    BY DEF TypeOK, NoLeak, Holding, IsOpen, Saturated
  <2>5. Locals' /\ BelowCounter' /\ Finished'
    BY DEF TypeOK, Locals, Local, BelowCounter, Finished, Holding, Saturated
  <2> QED BY <2>2, <2>3, <2>4, <2>5
<1>8. ASSUME NEW t \in Threads, NEW g \in DOMAIN sockets, CloseRemove(t, g),
             UNCHANGED history
      PROVE  IInv'
  <2> USE <1>8 DEF CloseRemove, remove
  <2>2. TypeOK'
    BY DEF TypeOK
  <2>3. OwnedOnce'
    BY DEF TypeOK, OwnedOnce, Holding, IsOpen, HostSocket
  <2>4. NoLeak'
    BY DEF TypeOK, NoLeak, Holding, IsOpen, Saturated
  <2>5. Locals' /\ BelowCounter' /\ Finished'
    BY DEF TypeOK, Locals, Local, BelowCounter, Finished, Holding, Saturated
  <2> QED BY <2>2, <2>3, <2>4, <2>5
<1>9. ASSUME Drop, UNCHANGED history PROVE IInv'
  <2> USE <1>9 DEF Drop, Exits
  <2>2. TypeOK'
    BY DEF TypeOK, KernelSocket, Closed
  <2>3. OwnedOnce'
    BY DEF TypeOK, OwnedOnce, Holding, IsOpen, Closed
  <2>4. NoLeak'
    BY DEF TypeOK, NoLeak, Holding, IsOpen, Saturated, Closed
  <2>5. Locals' /\ BelowCounter' /\ Finished'
    BY DEF TypeOK, Locals, Local, BelowCounter, Finished, Holding, Saturated
  <2> QED BY <2>2, <2>3, <2>4, <2>5
<1>10. CASE UNCHANGED vars
  BY <1>10 DEF vars, TypeOK, OwnedOnce, NoLeak, Locals, Local, BelowCounter, Finished, Holding, IsOpen, Saturated
<1>11. ASSUME NEW t \in Threads, AcceptPanics(t)
       PROVE  IInv'
  <2> USE <1>11 DEF AcceptPanics
  <2>1. Holding(t) /\ kernel[socket[t].raw_fd].id \in SocketIds
    BY DEF Holding, TypeOK, OwnedOnce, IsOpen, KernelSocket, SocketIds
  <2>2. TypeOK'
    BY <2>1 DEF TypeOK
  <2>3. OwnedOnce'
    BY DEF TypeOK, OwnedOnce, Holding, IsOpen
  <2>4. NoLeak'
    BY DEF TypeOK, NoLeak, Holding, IsOpen, Saturated
  <2>5. Locals' /\ BelowCounter' /\ Finished'
    BY DEF TypeOK, Locals, Local, BelowCounter, Finished, Holding, Saturated
  <2> QED BY <2>2, <2>3, <2>4, <2>5
<1> QED
  BY <1>1, <1>2, <1>3, <1>4, <1>5, <1>6, <1>7, <1>8, <1>9, <1>10, <1>11 DEF Next, Handler

LEMMA AlwaysIInv == Spec => []IInv
  BY InitIInv, StepIInv, PTL DEF Spec

(* The table, the kernel and the handlers' locals keep their types. *)
THEOREM TypeCorrect == Spec => []TypeOK
  <1>1. IInv => TypeOK
    BY DEF IInv
  <1> QED BY <1>1, AlwaysIInv, PTL

(* Whatever the interleaving of socket, accept and close, and even when    *)
(* the guest closes descriptors that other threads use, no raw descriptor  *)
(* is closed twice or owned twice.                                         *)
THEOREM OwnershipExclusive == Spec => []OwnedOnce
  <1>1. IInv => OwnedOnce
    BY DEF IInv
  <1> QED BY <1>1, AlwaysIInv, PTL

(* No path through the handlers loses a raw descriptor, but for a panic in *)
(* accept and for the counter of insert when it saturates.                 *)
THEOREM NothingLeaks == Spec => []NoLeak
  <1>1. IInv => NoLeak
    BY DEF IInv
  <1> QED BY <1>1, AlwaysIInv, PTL

(* The drop of the table leaves no socket of the process open but those    *)
(* that a panic in accept lost.                                            *)
THEOREM DropIsComplete == Spec => []DropClosesAll
  <1>1. IInv => DropClosesAll
    BY ThreadsAssumption
    DEF IInv, DropClosesAll, NoLeak, Finished, Holding
  <1> QED BY <1>1, AlwaysIInv, PTL

------------------------------------------------------------------------------
(* The kernel's sockets can be told apart. *)
KernelIds ==
  /\ \A r \in RawFds : kernel[r].id <= born
  /\ \A r, s \in RawFds : r # s /\ IsOpen(r) => kernel[r].id # kernel[s].id

LEMMA StepKernelIds ==
  ASSUME IInv, KernelIds, [Next]_vars
  PROVE  KernelIds'
<1> USE FdsAssumption DEF KernelIds, IInv, TypeOK, KernelSocket, IsOpen
<1>1. ASSUME NEW r \in RawFds, NEW d, KernelOpens(r, d)
      PROVE  KernelIds'
  <2>1. kernel'[r].id = born + 1 /\ \A s \in RawFds \ {r} : kernel'[s] = kernel[s]
    BY <1>1 DEF KernelOpens
  <2> QED BY <1>1, <2>1 DEF KernelOpens
<1>2. ASSUME UNCHANGED born, \A r \in RawFds : kernel'[r] \in {kernel[r], Closed}
      PROVE  KernelIds'
  BY <1>2 DEF Closed
<1>3. ASSUME NEW t \in Threads, Handler(t) \/ AcceptSucceeds(t) \/ AcceptPanics(t)
      PROVE  KernelIds'
  <2>1. CASE ConfigureFails(t) \/ AcceptCopyFails(t) \/ CloseRaw(t)
    BY <1>2, <2>1 DEF ConfigureFails, AcceptCopyFails, CloseRaw, KernelCloses
  <2>2. CASE UNCHANGED <<kernel, born>>
    BY <1>2, <2>2
  <2> QED
    BY <1>1, <1>3, <2>1, <2>2 DEF Handler, Socket, SocketInsert, AcceptGet,
       AcceptSucceeds, AcceptFails, AcceptPanics, AcceptInsert, CallGet, CallReturns, PollStart,
       PollGet, PollReturns, CallPanics, CloseRemove, ThreadExit
<1>4. CASE Drop
  BY <1>2, <1>4 DEF Drop
<1>5. CASE UNCHANGED vars
  BY <1>2, <1>5 DEF vars
<1> QED BY <1>3, <1>4, <1>5 DEF Next

LEMMA AlwaysKernelIds == Spec => []KernelIds
<1>1. Init => KernelIds
  BY FdsAssumption DEF Init, KernelIds, IsOpen, Closed
<1>2. IInv /\ KernelIds /\ [Next]_vars => KernelIds'
  BY StepKernelIds
<1> QED BY <1>1, <1>2, AlwaysIInv, PTL DEF Spec

------------------------------------------------------------------------------
(***************************************************************************)
(* Why a call reaches its socket: the descriptor it was made on was issued *)
(* before, so insert does not give it away again, and while it is in the   *)
(* table its entry keeps the raw number, which is open (OwnedOnce).        *)
(***************************************************************************)
Borrowed(b) ==
  /\ b[1] < next_fd \/ b[1] = MaxGuestFd
  /\ b[1] \in DOMAIN sockets \ {MaxGuestFd} =>
       sockets[b[1]].raw_fd = b[2] /\ kernel[b[2]].id = b[3]

BorrowInv == \A t \in Threads : \A b \in borrowed[t] : Borrowed(b)

(* A step that copies nothing out and leaves alone what is behind entries. *)
LEMMA BorrowedStays ==
  ASSUME IInv, BorrowInv,
         \A t \in Threads : borrowed'[t] \subseteq borrowed[t],
         next_fd' \in Int, next_fd <= next_fd',
         \A g \in DOMAIN sockets' \ {MaxGuestFd} : g < next_fd =>
           /\ g \in DOMAIN sockets /\ sockets'[g] = sockets[g]
           /\ kernel'[sockets[g].raw_fd].id = kernel[sockets[g].raw_fd].id
  PROVE  BorrowInv'
<1> SUFFICES ASSUME NEW t \in Threads, NEW b \in borrowed'[t]
             PROVE  Borrowed(b)'
  BY DEF BorrowInv
<1>1. b \in borrowed[t] /\ Borrowed(b) /\ b[1] \in Int /\ next_fd \in Int
  BY FdsAssumption DEF BorrowInv, IInv, TypeOK, GuestFds
<1>2. b[1] < next_fd' \/ b[1] = MaxGuestFd
  BY <1>1 DEF Borrowed
<1>3. ASSUME b[1] \in DOMAIN sockets' \ {MaxGuestFd}
      PROVE  sockets'[b[1]].raw_fd = b[2] /\ kernel'[b[2]].id = b[3]
  BY <1>1, <1>3 DEF Borrowed
<1> QED BY <1>2, <1>3 DEF Borrowed

LEMMA StepBorrow ==
  ASSUME IInv, BorrowInv, [Next]_vars
  PROVE  BorrowInv'
<1> USE FdsAssumption DEF Goto
<1>0. next_fd \in Int /\ MaxGuestFd \in Int
  BY DEF IInv, TypeOK, GuestFds
<1>1. ASSUME NEW t \in Threads, NEW d \in GuestDomains, Socket(t, d)
      PROVE  BorrowInv'
  <2>1. \A g \in DOMAIN sockets : kernel'[sockets[g].raw_fd] = kernel[sockets[g].raw_fd]
    BY <1>1 DEF Socket, KernelOpens, IInv, OwnedOnce, TypeOK, HostSocket
  <2> QED BY <1>0, <1>1, <2>1, BorrowedStays DEF Socket
<1>2. ASSUME NEW t \in Threads, ConfigureFails(t) \/ AcceptCopyFails(t) \/ CloseRaw(t)
      PROVE  BorrowInv'
  <2>1. /\ Holding(t) /\ UNCHANGED <<next_fd, sockets, borrowed>>
        /\ kernel' = [kernel EXCEPT ![socket[t].raw_fd] = Closed]
    BY <1>2 DEF ConfigureFails, AcceptCopyFails, CloseRaw, KernelCloses, Holding
  <2>2. \A g \in DOMAIN sockets : kernel'[sockets[g].raw_fd] = kernel[sockets[g].raw_fd]
    BY <2>1 DEF IInv, OwnedOnce, TypeOK, HostSocket
  <2> QED BY <1>0, <2>1, <2>2, BorrowedStays
<1>3. ASSUME NEW t \in Threads, SocketInsert(t) \/ AcceptInsert(t)
      PROVE  BorrowInv'
  <2>1. insert(socket[t]) /\ UNCHANGED <<kernel, borrowed>>
    BY <1>3 DEF SocketInsert, AcceptInsert
  <2>2. next_fd' \in Int /\ next_fd <= next_fd'
    BY <1>0, <2>1 DEF insert, saturating_succ
  <2>3. \A g \in DOMAIN sockets' : g < next_fd => g \in DOMAIN sockets /\ sockets'[g] = sockets[g]
    BY <1>0, <2>1 DEF insert
  <2> QED BY <2>1, <2>2, <2>3, BorrowedStays
<1>4. ASSUME NEW t \in Threads, AcceptSucceeds(t)
      PROVE  BorrowInv'
  <2>1. \A g \in DOMAIN sockets : kernel'[sockets[g].raw_fd] = kernel[sockets[g].raw_fd]
    BY <1>4 DEF AcceptSucceeds, KernelOpens, IInv, OwnedOnce, TypeOK, HostSocket
  <2>2. \A u \in Threads : borrowed'[u] \subseteq borrowed[u]
    BY <1>4 DEF AcceptSucceeds, IInv, TypeOK
  <2> QED BY <1>0, <1>4, <2>1, <2>2, BorrowedStays DEF AcceptSucceeds
<1>5. ASSUME NEW t \in Threads, NEW g \in DOMAIN sockets,
             AcceptGet(t, g) \/ CallGet(t, g) \/ PollGet(t, g)
      PROVE  BorrowInv'
  <2>1. /\ copied(g)[1] = g
        /\ copied(g)[2] = sockets[g].raw_fd
        /\ copied(g)[3] = kernel[sockets[g].raw_fd].id
    BY DEF copied
  <2>2. UNCHANGED <<sockets, kernel, next_fd>>
    BY <1>5 DEF AcceptGet, CallGet, PollGet
  <2>3. \A u \in Threads : \A b \in borrowed'[u] : b \in borrowed[u] \/ b = copied(g)
    BY <1>5 DEF AcceptGet, CallGet, PollGet, IInv, TypeOK
  <2>4. Borrowed(copied(g))
    BY <2>1 DEF Borrowed, IInv, BelowCounter, Saturated, TypeOK, GuestFds
  <2> QED BY <2>2, <2>3, <2>4 DEF BorrowInv, Borrowed
<1>6. ASSUME NEW t \in Threads,
             \/ AcceptFails(t) \/ AcceptPanics(t) \/ CallReturns(t) \/ PollReturns(t)
             \/ CallPanics(t) \/ ThreadExit(t)
      PROVE  BorrowInv'
  <2>1. /\ \A u \in Threads : borrowed'[u] \subseteq borrowed[u]
        /\ UNCHANGED <<next_fd, sockets, kernel>>
    BY <1>6 DEF AcceptFails, AcceptPanics, CallReturns, PollReturns, CallPanics,
       ThreadExit, IInv, TypeOK
  <2> QED BY <1>0, <2>1, BorrowedStays
<1>7. ASSUME NEW t \in Threads, NEW G \in SUBSET DOMAIN sockets, PollStart(t, G)
      PROVE  BorrowInv'
  BY <1>0, <1>7, BorrowedStays DEF PollStart
<1>8. ASSUME NEW t \in Threads, NEW g \in DOMAIN sockets, CloseRemove(t, g)
      PROVE  BorrowInv'
  BY <1>0, <1>8, BorrowedStays DEF CloseRemove, remove
<1>9. ASSUME Drop PROVE BorrowInv'
  BY <1>0, <1>9, BorrowedStays DEF Drop
<1>10. CASE UNCHANGED vars
  BY <1>10 DEF vars, BorrowInv, Borrowed
<1> QED
  BY <1>1, <1>2, <1>3, <1>4, <1>5, <1>6, <1>7, <1>8, <1>9, <1>10 DEF Next, Handler

(* A host call reaches the socket its descriptor named, unless the guest   *)
(* closes that descriptor during the call.                                 *)
THEOREM CallsHitTheirSockets == Spec => []CallHitsItsSocket
<1>1. Init => BorrowInv
  BY DEF Init, BorrowInv
<1>2. IInv /\ BorrowInv /\ [Next]_vars => BorrowInv'
  BY StepBorrow
<1>3. BorrowInv => CallHitsItsSocket
  BY DEF BorrowInv, Borrowed, CallHitsItsSocket
<1> QED BY <1>1, <1>2, <1>3, AlwaysIInv, PTL DEF Spec

------------------------------------------------------------------------------
(***************************************************************************)
(* Families.  Entries and the sockets that handlers have made agree with   *)
(* the kernel or are strays; a handler that waits in accept knows the      *)
(* socket its copy named, and as long as the number names it, its family.  *)
(***************************************************************************)
Normal(s) == s.host_domain = normalize_socket_domain(s.guest_domain)

Agrees(s) ==
  /\ Normal(s)
  /\ s.host_domain = kernel[s.raw_fd].domain \/ kernel[s.raw_fd].id \in strays

Expects(t, b) ==
  /\ b[2] = socket[t].raw_fd /\ b[3] <= born
  /\ \/ kernel[b[2]].id # b[3]
     \/ b[3] \in strays
     \/ kernel[b[2]].domain = socket[t].host_domain

DomainInv ==
  /\ \A g \in DOMAIN sockets : Agrees(sockets[g])
  /\ \A t \in Threads : Holding(t) => Agrees(socket[t])
  /\ \A t \in Threads : pc[t] = "accepting" =>
       Normal(socket[t]) /\ \E b \in borrowed[t] : Expects(t, b)

(* What an accept in progress expects survives every step of the kernel,   *)
(* which never gives a socket's identity to another.                       *)
LEMMA ExpectsStays ==
  ASSUME IInv, NEW t \in Threads, NEW b \in borrowed[t], Expects(t, b),
         socket'[t] = socket[t], strays \subseteq strays',
         born' \in Nat, born <= born',
         \A r \in RawFds : \/ kernel'[r] = kernel[r]
                           \/ kernel'[r].id = 0
                           \/ kernel'[r].id = born + 1
  PROVE  Expects(t, b)'
<1>1. b[2] \in RawFds /\ b[3] \in Nat \ {0} /\ born \in Nat
  BY FdsAssumption, SMTT(20) DEF IInv, TypeOK, SocketIds
<1> QED BY <1>1 DEF Expects

LEMMA StepDomain ==
  ASSUME IInv, KernelIds, DomainInv, [Next]_vars
  PROVE  DomainInv'
<1> USE FdsAssumption DEF Goto
<1>0. /\ \A g \in DOMAIN sockets : sockets[g].raw_fd \in RawFds /\ IsOpen(sockets[g].raw_fd)
      /\ \A t \in Threads : Holding(t) => socket[t].raw_fd \in RawFds /\ IsOpen(socket[t].raw_fd)
      /\ born \in Nat
  BY DEF IInv, TypeOK, OwnedOnce, HostSocket
<1>1. ASSUME NEW t \in Threads, NEW r \in RawFds, NEW d,
             KernelOpens(r, d), socket'[t].raw_fd = r, Agrees(socket[t])',
             strays \subseteq strays', Holding(t)', pc[t] \in {"guest", "accepting"},
             \A u \in Threads \ {t} : UNCHANGED <<pc[u], socket[u], borrowed[u]>>,
             UNCHANGED sockets
      PROVE  DomainInv'
  <2>1. /\ ~IsOpen(r) /\ born' = born + 1
        /\ \A s \in RawFds \ {r} : kernel'[s] = kernel[s]
        /\ kernel'[r].id = born + 1
    BY <1>1 DEF KernelOpens, IInv, TypeOK
  <2>2. \A g \in DOMAIN sockets' : Agrees(sockets[g])'
    BY <1>0, <1>1, <2>1 DEF DomainInv, Agrees, Normal
  <2>3. \A u \in Threads : Holding(u)' => Agrees(socket[u])'
    <3> SUFFICES ASSUME NEW u \in Threads, u # t, Holding(u)' PROVE Agrees(socket[u])'
      BY <1>1
    <3>1. Holding(u) /\ socket'[u] = socket[u]
      BY <1>1 DEF Holding
    <3>2. kernel'[socket[u].raw_fd] = kernel[socket[u].raw_fd]
      BY <1>0, <2>1, <3>1
    <3> QED BY <1>1, <3>1, <3>2 DEF DomainInv, Agrees, Normal
  <2>4. ASSUME NEW u \in Threads, pc'[u] = "accepting"
        PROVE  (Normal(socket[u]) /\ \E b \in borrowed[u] : Expects(u, b))'
    <3>1. u # t /\ pc[u] = "accepting" /\ UNCHANGED <<socket[u], borrowed[u]>>
      BY <1>1, <2>4 DEF Holding
    <3>2. PICK b \in borrowed[u] : Expects(u, b)
      BY <3>1 DEF DomainInv
    <3>3. Expects(u, b)'
      BY <1>0, <1>1, <2>1, <3>1, <3>2, ExpectsStays
    <3> QED BY <3>1, <3>2, <3>3 DEF DomainInv, Normal
  <2> QED BY <2>2, <2>3, <2>4 DEF DomainInv
<1>2. ASSUME UNCHANGED <<born, strays>>,
             \A r \in RawFds : kernel'[r] = kernel[r] \/ kernel'[r].id = 0,
             \A g \in DOMAIN sockets' :
               /\ kernel'[sockets'[g].raw_fd] = kernel[sockets'[g].raw_fd]
               /\ \/ g \in DOMAIN sockets /\ sockets'[g] = sockets[g]
                  \/ \E t \in Threads : Holding(t) /\ sockets'[g] = socket[t],
             \A t \in Threads : Holding(t)' =>
               /\ kernel'[socket'[t].raw_fd] = kernel[socket'[t].raw_fd]
               /\ \/ Holding(t) /\ socket'[t] = socket[t]
                  \/ \E g \in DOMAIN sockets : socket'[t] = sockets[g],
             \A t \in Threads : pc'[t] = "accepting" =>
               pc[t] = "accepting" /\ UNCHANGED <<socket[t], borrowed[t]>>
      PROVE  DomainInv'
  <2>1. \A g \in DOMAIN sockets' : Agrees(sockets[g])'
    BY <1>2 DEF DomainInv, Agrees, Normal
  <2>2. \A t \in Threads : Holding(t)' => Agrees(socket[t])'
    BY <1>2 DEF DomainInv, Agrees, Normal
  <2>3. ASSUME NEW t \in Threads, pc'[t] = "accepting"
        PROVE  (Normal(socket[t]) /\ \E b \in borrowed[t] : Expects(t, b))'
    <3>1. pc[t] = "accepting" /\ UNCHANGED <<socket[t], borrowed[t]>>
      BY <1>2, <2>3
    <3>2. PICK b \in borrowed[t] : Expects(t, b)
      BY <3>1 DEF DomainInv
    <3>3. Expects(t, b)'
      BY <1>0, <1>2, <3>1, <3>2, ExpectsStays
    <3> QED BY <3>1, <3>2, <3>3 DEF DomainInv, Normal
  <2> QED BY <2>1, <2>2, <2>3 DEF DomainInv
<1>3. ASSUME NEW t \in Threads, NEW d \in GuestDomains, Socket(t, d), UNCHANGED history
      PROVE  DomainInv'
  <2> DEFINE s(r) == [raw_fd |-> r, guest_domain |-> d,
                      host_domain |-> normalize_socket_domain(d)]
  <2>1. PICK r \in RawFds : KernelOpens(r, normalize_socket_domain(d))
                           /\ socket' = [socket EXCEPT ![t] = s(r)]
    BY <1>3 DEF Socket
  <2>2. kernel'[r].domain = normalize_socket_domain(d) /\ socket'[t] = s(r)
    BY <2>1 DEF KernelOpens, IInv, TypeOK
  <2>3. Agrees(socket[t])' /\ socket'[t].raw_fd = r
    BY <2>2 DEF Agrees, Normal
  <2>4. Holding(t)' /\ \A u \in Threads \ {t} : UNCHANGED <<pc[u], socket[u], borrowed[u]>>
    BY <1>3, <2>1 DEF Socket, Holding, IInv, TypeOK
  <2> QED BY <1>1, <1>3, <2>1, <2>3, <2>4 DEF Socket, history
<1>4. ASSUME NEW t \in Threads, AcceptSucceeds(t)
      PROVE  DomainInv'
  <2> DEFINE s(r) == [raw_fd |-> r, guest_domain |-> socket[t].guest_domain,
                      host_domain |-> socket[t].host_domain]
  <2>1. PICK r \in RawFds : KernelOpens(r, kernel[socket[t].raw_fd].domain)
                           /\ socket' = [socket EXCEPT ![t] = s(r)]
    BY <1>4 DEF AcceptSucceeds
  <2>2. /\ kernel'[r] = [id |-> born + 1, domain |-> kernel[socket[t].raw_fd].domain]
        /\ socket'[t] = s(r)
    BY <2>1 DEF KernelOpens, IInv, TypeOK
  <2>3. PICK b \in borrowed[t] : Expects(t, b)
    BY <1>4 DEF AcceptSucceeds, DomainInv
  <2>4. kernel[socket[t].raw_fd].domain = socket[t].host_domain \/ born + 1 \in strays'
    BY <1>4, <2>3 DEF AcceptSucceeds, Misled, Expects
  <2>5. Agrees(socket[t])' /\ socket'[t].raw_fd = r
    BY <1>4, <2>2, <2>4 DEF Agrees, Normal, DomainInv, AcceptSucceeds
  <2>6. Holding(t)' /\ \A u \in Threads \ {t} : UNCHANGED <<pc[u], socket[u], borrowed[u]>>
    BY <1>4, <2>1 DEF AcceptSucceeds, Holding, IInv, TypeOK
  <2>7. strays \subseteq strays' /\ UNCHANGED sockets /\ pc[t] = "accepting"
    BY <1>4 DEF AcceptSucceeds
  <2> QED BY <1>1, <2>1, <2>5, <2>6, <2>7
<1>5. ASSUME NEW t \in Threads, ConfigureFails(t) \/ AcceptCopyFails(t) \/ CloseRaw(t),
             UNCHANGED history
      PROVE  DomainInv'
  <2>1. /\ Holding(t) /\ pc' = [pc EXCEPT ![t] = "guest"]
        /\ kernel' = [kernel EXCEPT ![socket[t].raw_fd] = Closed]
        /\ socket' = [socket EXCEPT ![t] = NoSocket]
        /\ UNCHANGED <<born, sockets, borrowed, strays>>
    BY <1>5 DEF ConfigureFails, AcceptCopyFails, CloseRaw, KernelCloses, Holding, history
  <2>2. \A r \in RawFds : kernel'[r] = kernel[r] \/ kernel'[r].id = 0
    BY <2>1 DEF IInv, TypeOK, Closed
  <2>3. \A g \in DOMAIN sockets : kernel'[sockets[g].raw_fd] = kernel[sockets[g].raw_fd]
    BY <1>0, <2>1 DEF IInv, OwnedOnce, TypeOK
  <2>4. \A u \in Threads : Holding(u)' =>
          /\ Holding(u) /\ socket'[u] = socket[u]
          /\ kernel'[socket[u].raw_fd] = kernel[socket[u].raw_fd]
    BY <1>0, <2>1 DEF IInv, OwnedOnce, TypeOK, Holding
  <2>5. \A u \in Threads : pc'[u] = "accepting" =>
          pc[u] = "accepting" /\ UNCHANGED <<socket[u], borrowed[u]>>
    BY <2>1 DEF IInv, TypeOK
  <2> QED BY <1>2, <2>1, <2>2, <2>3, <2>4, <2>5
<1>6. ASSUME NEW t \in Threads, SocketInsert(t) \/ AcceptInsert(t), UNCHANGED history
      PROVE  DomainInv'
  <2>1. /\ Holding(t) /\ insert(socket[t]) /\ pc' = [pc EXCEPT ![t] = "guest"]
        /\ socket' = [socket EXCEPT ![t] = NoSocket]
        /\ UNCHANGED <<kernel, born, borrowed, strays>>
    BY <1>6 DEF SocketInsert, AcceptInsert, Holding, history
  <2>2. \A g \in DOMAIN sockets' : \/ sockets'[g] = socket[t]
                                   \/ g \in DOMAIN sockets /\ sockets'[g] = sockets[g]
    BY <2>1 DEF insert
  <2>3. \A u \in Threads : Holding(u)' => Holding(u) /\ socket'[u] = socket[u]
    BY <2>1 DEF IInv, TypeOK, Holding
  <2>4. \A u \in Threads : pc'[u] = "accepting" =>
          pc[u] = "accepting" /\ UNCHANGED <<socket[u], borrowed[u]>>
    BY <2>1 DEF IInv, TypeOK
  <2> QED BY <1>2, <2>1, <2>2, <2>3, <2>4
<1>7. ASSUME NEW t \in Threads, NEW g \in DOMAIN sockets, AcceptGet(t, g),
             UNCHANGED history
      PROVE  DomainInv'
  <2>1. /\ socket'[t] = sockets[g] /\ copied(g) \in borrowed'[t]
        /\ copied(g)[2] = sockets[g].raw_fd
        /\ copied(g)[3] = kernel[sockets[g].raw_fd].id
        /\ UNCHANGED <<sockets, kernel, born, strays>>
    BY <1>7 DEF AcceptGet, copied, IInv, TypeOK, history
  <2>2. Agrees(sockets[g]) /\ copied(g)[3] <= born
    BY <1>0, <2>1 DEF DomainInv, KernelIds
  <2>3. Normal(socket[t])' /\ Expects(t, copied(g))'
    BY <2>1, <2>2 DEF Agrees, Normal, Expects, copied
  <2>4. /\ \A u \in Threads : Holding(u)' => Holding(u) /\ socket'[u] = socket[u]
        /\ \A u \in Threads \ {t} : UNCHANGED <<pc[u], socket[u], borrowed[u]>>
    BY <1>7 DEF AcceptGet, IInv, TypeOK, Holding
  <2>5. \A u \in Threads \ {t} : pc'[u] = "accepting" =>
          (Normal(socket[u]) /\ \E b \in borrowed[u] : Expects(u, b))'
    BY <2>1, <2>4 DEF DomainInv, Normal, Expects
  <2>6. (\A h \in DOMAIN sockets : Agrees(sockets[h]))'
    BY <2>1 DEF DomainInv, Agrees, Normal
  <2>7. \A u \in Threads : Holding(u)' => Agrees(socket[u])'
    BY <2>1, <2>4 DEF DomainInv, Agrees, Normal
  <2>8. copied(g)' = copied(g)
    BY <2>1 DEF copied
  <2>9. (Normal(socket[t]) /\ \E b \in borrowed[t] : Expects(t, b))'
    BY <2>1, <2>3, <2>8
  <2> QED BY <2>5, <2>6, <2>7, <2>9 DEF DomainInv
<1>8. ASSUME NEW t \in Threads, UNCHANGED strays,
             \/ \E g \in DOMAIN sockets : CallGet(t, g) \/ PollGet(t, g)
             \/ \E G \in SUBSET DOMAIN sockets : PollStart(t, G)
             \/ AcceptFails(t) \/ AcceptPanics(t) \/ CallReturns(t) \/ PollReturns(t)
             \/ CallPanics(t) \/ ThreadExit(t)
      PROVE  DomainInv'
  <2>1. /\ UNCHANGED <<sockets, kernel, born>>
        /\ \A u \in Threads : Holding(u)' => Holding(u) /\ socket'[u] = socket[u]
        /\ \A u \in Threads : pc'[u] = "accepting" =>
             pc[u] = "accepting" /\ UNCHANGED <<socket[u], borrowed[u]>>
    BY <1>8 DEF CallGet, PollGet, PollStart, AcceptFails, AcceptPanics, CallReturns,
       PollReturns, CallPanics, ThreadExit, Exits, Holding, IInv, TypeOK
  <2> QED BY <1>2, <1>8, <2>1
<1>9. ASSUME NEW t \in Threads, NEW g \in DOMAIN sockets, CloseRemove(t, g),
             UNCHANGED history
      PROVE  DomainInv'
  <2>1. /\ \A u \in Threads : Holding(u)' =>
             \/ Holding(u) /\ socket'[u] = socket[u]
             \/ socket'[u] = sockets[g]
        /\ \A u \in Threads : pc'[u] = "accepting" =>
             pc[u] = "accepting" /\ UNCHANGED <<socket[u], borrowed[u]>>
    BY <1>9 DEF CloseRemove, Holding, IInv, TypeOK
  <2> QED BY <1>2, <1>9, <2>1 DEF CloseRemove, remove, history
<1>10. ASSUME Drop, UNCHANGED history PROVE DomainInv'
  <2>1. /\ DOMAIN sockets' = {}
        /\ \A t \in Threads : pc'[t] = "exited"
    BY <1>10 DEF Drop, Exits, IInv, TypeOK
  <2> QED BY <2>1 DEF DomainInv, Holding
<1>11. CASE UNCHANGED vars
  BY <1>2, <1>11 DEF vars, history, Holding
<1> QED
  BY <1>3, <1>4, <1>5, <1>6, <1>7, <1>8, <1>9, <1>10, <1>11
  DEF Next, Handler, AcceptPanics, history

(* Addresses are rewritten with the family of the socket they belong to,   *)
(* for sockets the guest created and for those accept produced, strays     *)
(* excepted.                                                               *)
THEOREM FamiliesAgree == Spec => []DomainsAgree
<1>1. Init => DomainInv
  BY DEF Init, DomainInv, Holding
<1>2. IInv /\ KernelIds /\ DomainInv /\ [Next]_vars => DomainInv'
  BY StepDomain
<1>3. DomainInv => DomainsAgree
  BY DEF DomainInv, DomainsAgree, Agrees, Normal
<1> QED BY <1>1, <1>2, <1>3, AlwaysIInv, AlwaysKernelIds, PTL DEF Spec

------------------------------------------------------------------------------
(***************************************************************************)
(* The bridge implements the abstract table.  Only insert, remove and drop *)
(* move it; every other step stutters because no raw descriptor of an      *)
(* entry is opened or closed (OwnedOnce).  That a new entry names a socket *)
(* no other entry names is KernelIds.                                      *)
(***************************************************************************)
Live == [g \in DOMAIN sockets |-> kernel[sockets[g].raw_fd].id]
Issued == GuestFdBase..(next_fd - 1)

(* A step that leaves the table and the sockets behind it alone. *)
LEMMA TableStutters ==
  ASSUME TypeOK, UNCHANGED <<next_fd, sockets>>,
         \A g \in DOMAIN sockets : kernel'[sockets[g].raw_fd] = kernel[sockets[g].raw_fd]
  PROVE  UNCHANGED <<Live, Issued>>
  BY DEF Live, Issued

LEMMA InsertIsOpen ==
  ASSUME IInv, KernelIds, NEW t \in Threads, Holding(t), insert(socket[t]),
         UNCHANGED kernel
  PROVE  \E d \in GuestFds, o \in SocketIds : Table!Open(d, o)
<1> USE FdsAssumption DEF IInv, insert
<1> DEFINE o == kernel[socket[t].raw_fd].id
<1>1. next_fd \in GuestFds /\ socket[t].raw_fd \in RawFds
  BY DEF TypeOK, OwnedOnce
<1>2. o \in SocketIds
  BY <1>1 DEF OwnedOnce, IsOpen, TypeOK, KernelSocket, SocketIds
<1>3. \A e \in DOMAIN Live : Live[e] # o
  BY <1>1 DEF Live, OwnedOnce, TypeOK, HostSocket, KernelIds
<1>4. Live' = [e \in DOMAIN Live \union {next_fd} |->
                 IF e = next_fd THEN o ELSE Live[e]]
  BY DEF Live
<1>5. /\ next_fd \notin Issued
      /\ Issued' = Issued \union ({next_fd} \ {MaxGuestFd})
  BY <1>1 DEF Issued, saturating_succ, GuestFds
<1> QED BY <1>1, <1>2, <1>3, <1>4, <1>5 DEF Table!Open, Live, Issued

LEMMA StepRefines ==
  ASSUME IInv, KernelIds, [Next]_vars
  PROVE  [Table!Next]_(Table!vars)
<1> USE DEF IInv, Goto
<1>0. ASSUME UNCHANGED <<Live, Issued>> PROVE UNCHANGED Table!vars
  BY <1>0 DEF Live, Issued, Table!vars
<1>1. ASSUME NEW t \in Threads, SocketInsert(t) \/ AcceptInsert(t)
      PROVE  Table!Next
  <2>1. Holding(t) /\ insert(socket[t]) /\ UNCHANGED kernel
    BY <1>1 DEF SocketInsert, AcceptInsert, Holding
  <2> QED BY <2>1, InsertIsOpen DEF Table!Next
<1>2. ASSUME NEW t \in Threads, NEW g \in DOMAIN sockets, CloseRemove(t, g)
      PROVE  Table!Next
  <2>1. g \in GuestFds
    BY DEF TypeOK
  <2>2. Table!Close(g)
    BY <1>2 DEF CloseRemove, remove, Table!Close
  <2> QED BY <2>1, <2>2 DEF Table!Next
<1>3. CASE Drop
  <2>1. Table!Drop
    BY <1>3 DEF Drop, Table!Drop
  <2> QED BY <2>1 DEF Table!Next
<1>4. ASSUME NEW t \in Threads, NEW d \in GuestDomains, Socket(t, d)
      PROVE  UNCHANGED <<Live, Issued>>
  BY <1>4, TableStutters DEF Socket, KernelOpens, OwnedOnce, TypeOK
<1>5. ASSUME NEW t \in Threads, AcceptSucceeds(t)
      PROVE  UNCHANGED <<Live, Issued>>
  BY <1>5, TableStutters DEF AcceptSucceeds, KernelOpens, OwnedOnce, TypeOK
<1>6. ASSUME NEW t \in Threads, ConfigureFails(t) \/ AcceptCopyFails(t) \/ CloseRaw(t)
      PROVE  UNCHANGED <<Live, Issued>>
  <2>1. /\ Holding(t) /\ UNCHANGED <<next_fd, sockets>>
        /\ kernel' = [kernel EXCEPT ![socket[t].raw_fd] = Closed]
    BY <1>6 DEF ConfigureFails, AcceptCopyFails, CloseRaw, KernelCloses, Holding
  <2>2. \A g \in DOMAIN sockets : sockets[g].raw_fd # socket[t].raw_fd
    BY <2>1 DEF OwnedOnce
  <2> QED BY <2>1, <2>2, TableStutters DEF TypeOK, HostSocket
<1>7. ASSUME UNCHANGED <<next_fd, sockets, kernel>>
      PROVE  UNCHANGED <<Live, Issued>>
  BY <1>7, SMTT(20) DEF Live, Issued
<1>8. ASSUME NEW t \in Threads, Handler(t) \/ AcceptSucceeds(t) \/ AcceptPanics(t)
      PROVE  Table!Next \/ UNCHANGED Table!vars
  BY <1>0, <1>1, <1>2, <1>4, <1>5, <1>6, <1>7, <1>8 DEF Handler, AcceptGet,
     AcceptFails, AcceptPanics, CallGet, CallReturns, PollStart, PollGet, PollReturns,
     CallPanics, ThreadExit
<1>9. CASE UNCHANGED vars
  BY <1>0, <1>7, <1>9 DEF vars
<1> QED BY <1>3, <1>8, <1>9 DEF Next

(* For any instance, every interleaving of the bridge's handlers looks to  *)
(* the guest like the one-step-at-a-time table of FdTable.                 *)
THEOREM BridgeImplementsTable == Spec => ImplementsFdTable
<1>1. Init => Table!Init
  BY FdsAssumption DEF Init, Table!Init
<1>2. IInv /\ KernelIds /\ [Next]_vars => [Table!Next]_(Table!vars)
  BY StepRefines
<1> QED
  BY <1>1, <1>2, AlwaysIInv, AlwaysKernelIds, PTL DEF Spec, ImplementsFdTable, Table!Spec
==============================================================================
