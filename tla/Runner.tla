-------------------------------- MODULE Runner --------------------------------
(***************************************************************************)
(* Shutdown and WasiThreads composed: the thread that serves a client is a *)
(* host thread with an instance of its own, which the main thread spawns   *)
(* when it accepts the connection.  In Shutdown a session ends when it     *)
(* likes; here its thread must have got as far as the guest, and it may    *)
(* fail on the way or trap there.                                          *)
(***************************************************************************)
EXTENDS Shutdown, Integers

CONSTANTS
  MaxId,        \* i32::MAX of thread identifiers
  MaxSpawns     \* bound: calls of thread-spawn in a behaviour

ASSUME RunnerAssumption == MaxId \in Nat \ {0} /\ MaxSpawns \in Nat

VARIABLES
  next_thread_id, thread, thread_id, spawns, birth, start, exit_code,   \* WasiThreads
  failed        \* history: clients whose thread failed in set-up or trapped

T == INSTANCE WasiThreads WITH
       Threads <- Clients, U8Max <- 255, Statuses <- {0}, main <- start

threadVars == <<next_thread_id, thread, thread_id, spawns, birth, start, exit_code>>
allVars == <<vars, threadVars, failed>>

RInit == Init /\ T!Init /\ failed = {}

(* The main thread waits for the host while it spawns a thread. *)
Spawning == \E c \in Clients : thread[c] = "named"

------------------------------------------------------------------------------
(* Mutant: the queue of connections is emptied before the loop's head. *)
Accept_Backlog(c) ==
  /\ Running /\ main = "event" /\ session[c] = "pending"
  /\ session' = [session EXCEPT ![c] = "active"]
  /\ late' = late + (IF shutdown_requested THEN 1 ELSE 0)
  /\ T!FetchAdd(c)
  /\ UNCHANGED <<shutdown_requested, handlers, main, process, ctrl_c, others, failed>>

(* Accept of process_new_connection: the session counts from here on. *)
Accept(c) ==
  /\ session[c] = "pending" /\ Admit /\ session'[c] = "active"
  /\ T!FetchAdd(c)
  /\ UNCHANGED failed

HostSpawns(c) == Running /\ T!HostSpawns(c) /\ UNCHANGED <<vars, failed>>

(* Mutant: the error of pthread_create is ignored. *)
SpawnRefused_Ignored(c) == Running /\ T!SpawnRefused(c) /\ UNCHANGED <<vars, failed>>

(* thread-spawn answers -EAGAIN: mysqld drops the connection. *)
SpawnRefused(c) == T!SpawnRefused(c) /\ Leave(c) /\ UNCHANGED failed

(* The main thread of Shutdown, when it is not in the host's spawn. *)
MainThread ==
  \/ \E c \in Clients : HostSpawns(c) \/ SpawnRefused(c)
  \/ /\ ~Spawning
     /\ \/ \E c \in Clients : Accept(c)
        \/ /\ \A c \in Clients : session[c] # "pending"
           /\ Admit /\ UNCHANGED <<threadVars, failed>>
        \/ /\ \/ Install \/ Start \/ Listen \/ LoopHead \/ PollTimeout
              \/ PollReady \/ CloseListener \/ Drained
           /\ UNCHANGED <<threadVars, failed>>
        \/ Exit /\ T!MainReturns /\ UNCHANGED failed

------------------------------------------------------------------------------
SetUp(c) == Running /\ T!SetUp(c) /\ UNCHANGED <<vars, failed>>

(* The session ends: only a thread that is in the guest can do that.       *)
EndSession(c) ==
  /\ session[c] \in {"active", "asked"} /\ thread[c] = "guest"
  /\ Leave(c) /\ UNCHANGED <<threadVars, failed>>

(* A client gives up before it is accepted. *)
GiveUp(c) == session[c] = "pending" /\ Leave(c) /\ UNCHANGED <<threadVars, failed>>

Returns(c) ==
  Running /\ session[c] = "gone" /\ T!Returns(c) /\ UNCHANGED <<vars, failed>>

(* The thread is gone and nothing of the guest's clean-up has run: mysqld  *)
(* still counts the session.                                               *)
Fails(c) ==
  /\ Running
  /\ T!SetUpFails(c) \/ T!Traps(c)
  /\ failed' = failed \cup {c}
  /\ UNCHANGED vars

SqlShutdownOn(c) ==
  thread[c] = "guest" /\ SqlShutdown(c) /\ UNCHANGED <<threadVars, failed>>

RNext ==
  \/ MainThread
  \/ (Sigint \/ Sigterm) /\ UNCHANGED <<threadVars, failed>>
  \/ \E c \in Clients :
       \/ Connect(c) /\ UNCHANGED <<threadVars, failed>>
       \/ SetUp(c) \/ EndSession(c) \/ GiveUp(c) \/ Returns(c) \/ Fails(c)
       \/ SqlShutdownOn(c)

(* The host schedules every thread, and a poll that can only time out does *)
(* so (fairness of MainThread); a session that was asked to end ends once  *)
(* its thread runs in the guest.  Nothing is assumed of signals, clients   *)
(* and traps.                                                              *)
Fairness ==
  /\ WF_allVars(MainThread)
  /\ \A c \in Clients :
       WF_allVars(SetUp(c)) /\ WF_allVars(session[c] = "asked" /\ EndSession(c))

RSpec == RInit /\ [][RNext]_allVars /\ Fairness

------------------------------------------------------------------------------
(* With threads that are spawned, refused, slow to get to the guest, and   *)
(* cut off by traps, the runner does nothing that Shutdown does not allow  *)
(* (spawn_wasi_thread and run_wasi_thread under connection_event_loop).    *)
ImplementsShutdown == Spec

(* Every session that counts has a thread, so that there is somebody to    *)
(* end it, unless that thread failed: a refused spawn leaves none behind.  *)
EverySessionHasThread ==
  Running => \A c \in Clients :
    session[c] \in {"active", "asked"} => thread[c] # "none" \/ c \in failed

(* Whoever sets the flag, and whenever, the process ends: also if sessions *)
(* are still being set up.  The one exception is a session whose thread    *)
(* failed, which close_connections then waits for.                         *)
Orphaned == \E c \in failed : session[c] \in {"active", "asked"}
StopsUnlessOrphaned == shutdown_requested ~> (~Running \/ Orphaned)
===============================================================================
