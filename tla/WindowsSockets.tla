---------------------------- MODULE WindowsSockets ----------------------------
(***************************************************************************)
(* Nonblocking mode in src/src/host_sockets_windows.rs.  WinSock can set   *)
(* the mode of a socket but not tell it, so the bridge answers F_GETFL     *)
(* from status_flags, a copy in the table.  The copy and the mode change   *)
(* in different steps: socket, accept and F_SETFL each talk to WinSock     *)
(* without the mutex and write the table afterwards.                       *)
(*                                                                         *)
(* A descriptor is identified with the socket it names; that numbers are   *)
(* reused and tables race with closing is the subject of HostSockets.      *)
(***************************************************************************)
EXTENDS Naturals

CONSTANTS
  Threads,
  MaxSockets   \* bound: sockets created in a behaviour

ASSUME WindowsAssumption == MaxSockets \in Nat

VARIABLES
  sockets,  \* HostSocketsInner.sockets: descriptor -> is status_flags O_NONBLOCK?
  mode,     \* external: is the socket nonblocking?
  born,     \* external: sockets created so far
  pc,       \* where the thread's handler is
  raw,      \* the handler's socket: the one it was called for, or has made
  flags,    \* the handler's status_flags
  contested,  \* history: sockets whose last two changes of mode overlapped, or
              \* that were accepted by such a handler
  unsure      \* history: threads whose accept overlapped a change of mode

vars == <<sockets, mode, born, pc, raw, flags, contested, unsure>>
history == <<contested, unsure>>

Sockets == 1..MaxSockets

Init ==
  /\ sockets = [g \in {} |-> FALSE]
  /\ mode = [g \in Sockets |-> FALSE]
  /\ born = 0
  /\ pc = [t \in Threads |-> "guest"]
  /\ raw = [t \in Threads |-> 0]
  /\ flags = [t \in Threads |-> FALSE]
  /\ contested = {} /\ unsure = {}

Goto(t, from, to) == pc[t] = from /\ pc' = [pc EXCEPT ![t] = to]

(* Is a handler of t in this place, for the socket g? *)
Using(t, g, place) == pc[t] = place /\ raw[t] = g

(* Is the mode of g set, and its status_flags not yet? *)
Storing(g) == \E u \in Threads : Using(u, g, "storing")

(* WinSock makes a socket with the given mode. *)
Creates(t, nonblocking) ==
  /\ born < MaxSockets
  /\ born' = born + 1
  /\ mode' = [mode EXCEPT ![born + 1] = nonblocking]
  /\ raw' = [raw EXCEPT ![t] = born + 1]

insert(g, status) ==
  sockets' = [h \in DOMAIN sockets \union {g} |->
                IF h = g THEN status ELSE sockets[h]]

------------------------------------------------------------------------------
(* socket(): a new socket blocks; the type may carry SOCK_NONBLOCK. *)
Socket(t, nonblocking) ==
  /\ Goto(t, "guest", "configuring")
  /\ Creates(t, FALSE)
  /\ flags' = [flags EXCEPT ![t] = nonblocking]
  /\ UNCHANGED <<sockets, history>>

(* FIONBIO if asked for, and the insert: nobody else has the socket yet.   *)
SocketInsert(t) ==
  /\ Goto(t, "configuring", "guest")
  /\ mode' = [mode EXCEPT ![raw[t]] = flags[t]]
  /\ insert(raw[t], flags[t])
  /\ UNCHANGED <<born, raw, flags, history>>

(* FIONBIO fails and the socket is closed. *)
ConfigureFails(t) ==
  /\ flags[t]
  /\ Goto(t, "configuring", "guest")
  /\ UNCHANGED <<sockets, mode, born, raw, flags, history>>

(* accept(): the listener's entry is copied before WinSock accepts. *)
AcceptGet(t, g) ==
  /\ g \in DOMAIN sockets
  /\ Goto(t, "guest", "accepting")
  /\ raw' = [raw EXCEPT ![t] = g]
  /\ flags' = [flags EXCEPT ![t] = sockets[g]]
  /\ unsure' = IF Storing(g) \/ g \in contested THEN unsure \union {t} ELSE unsure \ {t}
  /\ UNCHANGED <<sockets, mode, born, contested>>

(* A connection inherits the mode that its listener has at that moment. *)
AcceptSucceeds(t) ==
  /\ Goto(t, "accepting", "accepted")
  /\ Creates(t, mode[raw[t]])
  /\ contested' = IF t \in unsure THEN contested \union {born + 1} ELSE contested
  /\ UNCHANGED <<sockets, flags, unsure>>

AcceptFails(t) ==
  /\ Goto(t, "accepting", "guest")
  /\ UNCHANGED <<sockets, mode, born, raw, flags, history>>

(* Its address does not reach the guest: the connection is closed. *)
AcceptCopyFails(t) ==
  /\ Goto(t, "accepted", "guest")
  /\ UNCHANGED <<sockets, mode, born, raw, flags, history>>

(* Mutant: a connection starts with no flags, as on Linux. *)
AcceptInsert_Blocking(t) ==
  /\ Goto(t, "accepted", "guest")
  /\ insert(raw[t], FALSE)
  /\ UNCHANGED <<mode, born, raw, flags, history>>

(* Inserted with the flags copied from the listener. *)
AcceptInsert(t) ==
  /\ Goto(t, "accepted", "guest")
  /\ insert(raw[t], flags[t])
  /\ UNCHANGED <<mode, born, raw, flags, history>>

------------------------------------------------------------------------------
(* fcntl(F_SETFL): get, FIONBIO, set_status_flags. *)
SetflGet(t, g, nonblocking) ==
  /\ g \in DOMAIN sockets
  /\ Goto(t, "guest", "setting")
  /\ raw' = [raw EXCEPT ![t] = g]
  /\ flags' = [flags EXCEPT ![t] = nonblocking]
  /\ UNCHANGED <<sockets, mode, born, history>>

SetflIoctl(t) ==
  LET g == raw[t] IN
  /\ Goto(t, "setting", "storing")
  /\ mode' = [mode EXCEPT ![g] = flags[t]]
  /\ contested' = IF Storing(g) THEN contested \union {g} ELSE contested \ {g}
  /\ unsure' = unsure \union {u \in Threads : Using(u, g, "accepting")}
  /\ UNCHANGED <<sockets, born, raw, flags>>

SetflFails(t) ==
  /\ Goto(t, "setting", "guest")
  /\ UNCHANGED <<sockets, mode, born, raw, flags, history>>

(* EBADF, and no change, if the descriptor was closed meanwhile. *)
set_status_flags(t) ==
  /\ Goto(t, "storing", "guest")
  /\ sockets' = IF raw[t] \in DOMAIN sockets
                THEN [sockets EXCEPT ![raw[t]] = flags[t]] ELSE sockets
  /\ UNCHANGED <<mode, born, raw, flags, history>>

(* remove and closesocket; the mode of a socket that is not in the table   *)
(* is of no consequence here.                                              *)
Close(t, g) ==
  /\ pc[t] = "guest" /\ g \in DOMAIN sockets
  /\ sockets' = [h \in DOMAIN sockets \ {g} |-> sockets[h]]
  /\ UNCHANGED <<mode, born, pc, raw, flags, history>>

Step(t) ==
  \/ SocketInsert(t) \/ ConfigureFails(t)
  \/ AcceptSucceeds(t) \/ AcceptFails(t)
  \/ AcceptCopyFails(t) \/ AcceptInsert(t)
  \/ SetflIoctl(t) \/ SetflFails(t) \/ set_status_flags(t)
  \/ \E b \in BOOLEAN : Socket(t, b)
  \/ \E g \in Sockets : AcceptGet(t, g) \/ Close(t, g)
  \/ \E g \in Sockets, b \in BOOLEAN : SetflGet(t, g, b)

Next == \E t \in Threads : Step(t)

Spec == Init /\ [][Next]_vars

------------------------------------------------------------------------------
TypeOK ==
  /\ DOMAIN sockets \subseteq 1..born
  /\ sockets \in [DOMAIN sockets -> BOOLEAN]
  /\ mode \in [Sockets -> BOOLEAN]
  /\ born \in 0..MaxSockets
  /\ pc \in [Threads -> {"guest", "configuring", "accepting", "accepted", "setting",
                         "storing"}]
  /\ raw \in [Threads -> 0..born]
  /\ flags \in [Threads -> BOOLEAN]
  /\ contested \subseteq 1..born /\ unsure \subseteq Threads

(* The socket a handler made is its own until the insert; what any other   *)
(* handler uses exists.                                                    *)
MadeIsPrivate ==
  \A t \in Threads :
    /\ pc[t] # "guest" => raw[t] \in 1..born
    /\ pc[t] \in {"configuring", "accepted"} =>
         /\ raw[t] \notin DOMAIN sockets
         /\ \A u \in Threads \ {t} : pc[u] # "guest" => raw[u] # raw[t]

(* What a handler will store is the mode, unless changes of mode overlap,  *)
(* and then only one handler is about to store it.                         *)
Agrees(t) ==
  /\ pc[t] = "accepting" /\ t \notin unsure => flags[t] = mode[raw[t]]
  /\ pc[t] \in {"accepted", "storing"} /\ raw[t] \notin contested => flags[t] = mode[raw[t]]
  /\ pc[t] = "storing" /\ raw[t] \notin contested =>
       \A u \in Threads \ {t} : ~Using(u, raw[t], "storing")

HandlersAgree == \A t \in Threads : Agrees(t)

(* F_GETFL tells the truth: but for the moment between FIONBIO and         *)
(* set_status_flags in fcntl, the cached flags of a descriptor are the mode*)
(* of its socket, also for a connection, whose mode came from the listener,*)
(* and after every failure.  The exceptions are the sockets on which that  *)
(* moment of two threads' fcntls overlapped, until the next fcntl, and     *)
(* connections whose accept overlapped an fcntl on the listener.           *)
FlagsMatchMode ==
  \A g \in DOMAIN sockets \ contested : ~Storing(g) => sockets[g] = mode[g]

(* The inductive invariant. *)
IInv == TypeOK /\ MadeIsPrivate /\ HandlersAgree /\ FlagsMatchMode
===============================================================================
