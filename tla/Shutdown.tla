------------------------------- MODULE Shutdown -------------------------------
(***************************************************************************)
(* Stopping the server: the shared flag of src/src/main.rs, the signal     *)
(* handlers that set it, SQL SHUTDOWN, and the listener loop of the        *)
(* patched mysqld (patches/mysql-wasi/0002) that looks at it.  Signals and *)
(* clients come at any moment, also before the handlers are in place.      *)
(***************************************************************************)
EXTENDS Naturals

CONSTANTS
  Clients,      \* clients, each of which connects at most once
  Unix,         \* FALSE on Windows, where no signal handler is installed
  MaxSignals    \* bound: SIGINTs, and other requests to stop, in a behaviour

ASSUME ShutdownAssumption == Unix \in BOOLEAN /\ MaxSignals \in Nat

VARIABLES
  shutdown_requested,  \* the AtomicBool shared with every guest thread
  handlers,            \* how many of the three handlers are registered
  main,                \* where the main thread is
  session,             \* what became of each client
  process,             \* "running", or how the process ended
  ctrl_c,              \* number of SIGINTs delivered
  others,              \* number of SIGTERMs and SQL SHUTDOWNs
  late                 \* connections admitted after the flag was set

vars == <<shutdown_requested, handlers, main, session, process,
          ctrl_c, others, late>>

Running == process = "running"

(* The order of registration in install_shutdown_signal_handlers. *)
NoHandler == 0
Conditional == 1      \* SIGINT: exit(1) if the flag is already set
IntFlag == 2          \* SIGINT: set the flag
TermFlag == 3         \* SIGTERM: set the flag

Init ==
  /\ shutdown_requested = FALSE
  /\ handlers = NoHandler
  /\ main = "installing"
  /\ session = [c \in Clients |-> "away"]
  /\ process = "running"
  /\ ctrl_c = 0 /\ others = 0 /\ late = 0

------------------------------------------------------------------------------
(* Mutant: a fourth handler is registered. *)
Install_Again ==
  /\ Running /\ main = "installing" /\ Unix /\ handlers <= TermFlag
  /\ handlers' = handlers + 1
  /\ UNCHANGED <<shutdown_requested, main, session, process, ctrl_c, others, late>>

(* run(): one handler after the other, then the guest's _start. *)
Install ==
  /\ Running /\ main = "installing" /\ Unix /\ handlers < TermFlag
  /\ handlers' = handlers + 1
  /\ UNCHANGED <<shutdown_requested, main, session, process, ctrl_c, others, late>>

Start ==
  /\ Running /\ main = "installing" /\ (Unix => handlers = TermFlag)
  /\ main' = "starting"
  /\ UNCHANGED <<shutdown_requested, handlers, session, process, ctrl_c, others, late>>

(* A signal whose disposition nobody changed ends the process. *)
Ends(how) ==
  /\ process' = how
  /\ UNCHANGED <<shutdown_requested, handlers, main, session, late>>

SetsFlag ==
  /\ shutdown_requested' = TRUE
  /\ UNCHANGED <<handlers, main, session, process, late>>

(* Mutant: the handler that sets the flag is registered first. *)
OnSigint_FlagFirst ==
  CASE handlers = NoHandler -> Ends("killed")
    [] handlers = Conditional -> SetsFlag
    [] OTHER -> Ends("immediate")

(* SIGINT runs the registered actions in the order of registration. *)
OnSigint ==
  IF handlers = NoHandler THEN Ends("killed")
  ELSE IF shutdown_requested THEN Ends("immediate")
  ELSE IF handlers >= IntFlag THEN SetsFlag
  ELSE UNCHANGED <<shutdown_requested, handlers, main, session, process, late>>

Sigint ==
  /\ Running /\ ctrl_c < MaxSignals
  /\ ctrl_c' = ctrl_c + 1
  /\ OnSigint
  /\ UNCHANGED others

Sigterm ==
  /\ Running /\ others < MaxSignals
  /\ others' = others + 1
  /\ IF handlers < TermFlag THEN Ends("killed") ELSE SetsFlag
  /\ UNCHANGED ctrl_c

(* SQL SHUTDOWN: kill_mysql on the session's thread calls request_shutdown.*)
SqlShutdown(c) ==
  /\ Running /\ session[c] = "active" /\ others < MaxSignals
  /\ others' = others + 1
  /\ SetsFlag
  /\ UNCHANGED ctrl_c

------------------------------------------------------------------------------
(* mysqld_main and Connection_acceptor::connection_event_loop. *)
At(from, to) == Running /\ main = from /\ main' = to

(* Initialisation: the flag is not looked at before the loop. *)
Listen ==
  /\ At("starting", "loop")
  /\ UNCHANGED <<shutdown_requested, handlers, session, process, ctrl_c, others, late>>

(* Mutant: connections already waiting are served before the flag counts. *)
LoopHead_BacklogFirst ==
  /\ Running /\ main = "loop"
  /\ main' = IF shutdown_requested /\ \A c \in Clients : session[c] # "pending"
             THEN "closing" ELSE "polling"
  /\ UNCHANGED <<shutdown_requested, handlers, session, process, ctrl_c, others, late>>

(* Mutant: the loop's end goes to the normal shutdown work directly, as it *)
(* does on the platforms where the signal thread closes the connections.   *)
LoopHead_NoClose ==
  /\ Running /\ main = "loop"
  /\ main' = IF shutdown_requested THEN "flushing" ELSE "polling"
  /\ UNCHANGED <<shutdown_requested, handlers, session, process, ctrl_c, others, late>>

LoopHead ==
  /\ Running /\ main = "loop"
  /\ main' = IF shutdown_requested THEN "closing" ELSE "polling"
  /\ UNCHANGED <<shutdown_requested, handlers, session, process, ctrl_c, others, late>>

(* Mutant: the poll's timeout is -1. *)
PollTimeout_Never ==
  /\ At("polling", "loop") /\ FALSE
  /\ UNCHANGED <<shutdown_requested, handlers, session, process, ctrl_c, others, late>>

(* 100 ms without a connection, or a signal that interrupts the poll. *)
PollTimeout ==
  /\ At("polling", "loop")
  /\ UNCHANGED <<shutdown_requested, handlers, session, process, ctrl_c, others, late>>

PollReady ==
  /\ At("polling", "event")
  /\ \E c \in Clients : session[c] = "pending"
  /\ UNCHANGED <<shutdown_requested, handlers, session, process, ctrl_c, others, late>>

(* accept and process_new_connection: a thread for the client starts.  A   *)
(* client that gave up in between leaves nothing to accept.                *)
Admit ==
  /\ At("event", "loop")
  /\ \/ \E c \in Clients :
          /\ session[c] = "pending"
          /\ session' = [session EXCEPT ![c] = "active"]
          /\ late' = late + (IF shutdown_requested THEN 1 ELSE 0)
     \/ /\ \A c \in Clients : session[c] # "pending"
        /\ UNCHANGED <<session, late>>
  /\ UNCHANGED <<shutdown_requested, handlers, process, ctrl_c, others>>

(* external: close_connections() of mysqld closes the listener and asks    *)
(* every session to end, then waits for the last one.                      *)
CloseListener ==
  /\ At("closing", "draining")
  /\ session' = [c \in Clients |->
       CASE session[c] = "active" -> "asked"
         [] session[c] = "pending" -> "gone"
         [] OTHER -> session[c]]
  /\ UNCHANGED <<shutdown_requested, handlers, process, ctrl_c, others, late>>

Drained ==
  /\ At("draining", "flushing")
  /\ \A c \in Clients : session[c] \notin {"active", "asked"}
  /\ UNCHANGED <<shutdown_requested, handlers, session, process, ctrl_c, others, late>>

(* SERVER_SHUTTING_DOWN, InnoDB's flush, return from _start with status 0. *)
Exit ==
  /\ At("flushing", "returned")
  /\ process' = "clean"
  /\ UNCHANGED <<shutdown_requested, handlers, session, ctrl_c, others, late>>

MainStep == Install \/ Start \/ Listen \/ LoopHead \/ PollTimeout \/ PollReady
              \/ Admit \/ CloseListener \/ Drained \/ Exit

------------------------------------------------------------------------------
(* The listener exists from the end of initialisation to close_connections.*)
Listening == main \in {"loop", "polling", "event", "closing"}

Connect(c) ==
  /\ Running /\ Listening /\ session[c] = "away"
  /\ session' = [session EXCEPT ![c] = "pending"]
  /\ UNCHANGED <<shutdown_requested, handlers, main, process, ctrl_c, others, late>>

(* A session ends, by itself or because it was asked to. *)
Leave(c) ==
  /\ Running /\ session[c] \in {"pending", "active", "asked"}
  /\ session' = [session EXCEPT ![c] = "gone"]
  /\ UNCHANGED <<shutdown_requested, handlers, main, process, ctrl_c, others, late>>

Next ==
  \/ MainStep \/ Sigint \/ Sigterm
  \/ \E c \in Clients : Connect(c) \/ Leave(c) \/ SqlShutdown(c)

Spec == Init /\ [][Next]_vars

------------------------------------------------------------------------------
(* Type invariant. *)
TypeOK ==
  /\ shutdown_requested \in BOOLEAN
  /\ handlers \in NoHandler..TermFlag
  /\ main \in {"installing", "starting", "loop", "polling", "event", "closing",
               "draining", "flushing", "returned"}
  /\ session \in [Clients -> {"away", "pending", "active", "asked", "gone"}]
  /\ process \in {"running", "killed", "immediate", "clean"}
  /\ ctrl_c \in 0..MaxSignals /\ others \in 0..MaxSignals
  /\ late \in Nat

(* A process that ends with success was asked to stop and has neither a    *)
(* session nor a connection waiting in the listener's queue: the normal    *)
(* shutdown work ran after the last session ended.                         *)
CleanExitIsComplete ==
  process = "clean" =>
    /\ shutdown_requested
    /\ \A c \in Clients : session[c] \in {"away", "gone"}

(* The loop looks at the flag before every poll, so at most the one        *)
(* connection whose poll was already running is admitted after a request.  *)
AtMostOneLate == late <= 1

(* The immediate exit of the conditional handler is never the answer to    *)
(* the first request, whatever mixture of signals and SQL was used.  It    *)
(* relies on install_shutdown_signal_handlers registering the conditional  *)
(* handler before the one that sets the flag.                              *)
ImmediateIsNotFirst == process = "immediate" => ctrl_c + others >= 2

(* README.md: "the first Ctrl+C or SIGTERM is a graceful stop", "a second  *)
(* Ctrl+C exits immediately": an immediate exit takes two Ctrl+C.          *)
FirstCtrlCIsGraceful == process = "immediate" => ctrl_c >= 2
===============================================================================
