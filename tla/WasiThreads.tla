----------------------------- MODULE WasiThreads ------------------------------
(***************************************************************************)
(* Guest threads as host threads: spawn_wasi_thread and run_wasi_thread of *)
(* src/src/main.rs, and the exit status of the process.  Identifiers come  *)
(* from an AtomicI32, whose fetch_add wraps.  Every host thread sets up a  *)
(* Wasm instance of its own before it enters the guest.                    *)
(***************************************************************************)
EXTENDS Integers

CONSTANTS
  Threads,      \* guest threads that can exist at the same time
  MaxId,        \* i32::MAX of thread identifiers
  U8Max,        \* u8::MAX of the host's exit codes
  Statuses,     \* statuses a guest passes to proc_exit
  MaxSpawns     \* bound: calls of thread-spawn in a behaviour

ASSUME ThreadsAssumption ==
  MaxId \in Nat \ {0} /\ U8Max \in Nat \ {0} /\ Statuses \subseteq Int
    /\ MaxSpawns \in Nat

VARIABLES
  next_thread_id,   \* RuntimeEnv::next_thread_id
  thread,           \* "none", "named", "setup" or "guest"
  thread_id,        \* the identifier each thread was given last
  spawns,           \* number of calls of thread-spawn
  birth,            \* history: how many of these came before the thread's own
  main,             \* "guest", or how the guest's _start ended
  exit_code         \* exit code of the process, or Alive

threadVars == <<next_thread_id, thread, thread_id, spawns, birth>>
mainVars == <<main, exit_code>>
vars == <<threadVars, mainVars>>

Span == 2 * MaxId + 2     \* number of values of an i32
Alive == -1
Running == exit_code = Alive
Live(t) == thread[t] \in {"setup", "guest"}

(* Mutant: the counter is wider than an i32. *)
wrapping_succ_Runs(i) == i + 1

(* AtomicI32::fetch_add wraps around. *)
wrapping_succ(i) == IF i = MaxId THEN i + 1 - Span ELSE i + 1

Init ==
  /\ next_thread_id = 1
  /\ thread = [t \in Threads |-> "none"]
  /\ thread_id = [t \in Threads |-> 0]
  /\ spawns = 0
  /\ birth = [t \in Threads |-> 0]
  /\ main = "guest" /\ exit_code = Alive

------------------------------------------------------------------------------
(* spawn_wasi_thread takes an identifier. *)
FetchAdd(t) ==
  /\ Running /\ thread[t] = "none" /\ spawns < MaxSpawns
  /\ spawns' = spawns + 1
  /\ birth' = [birth EXCEPT ![t] = spawns]
  /\ next_thread_id' = wrapping_succ(next_thread_id)
  /\ thread_id' = [thread_id EXCEPT ![t] = next_thread_id]
  /\ thread' = [thread EXCEPT ![t] = "named"]
  /\ UNCHANGED mainVars

Becomes(t, from, to) ==
  /\ Running /\ thread[t] = from
  /\ thread' = [thread EXCEPT ![t] = to]
  /\ UNCHANGED <<thread_id, spawns, birth, mainVars>>

(* thread::Builder::spawn succeeds: the identifier is returned. *)
HostSpawns(t) ==
  thread_id[t] > 0 /\ Becomes(t, "named", "setup") /\ UNCHANGED next_thread_id

(* Mutant: an identifier that was not used is given back. *)
SpawnRefused_GivesBack(t) ==
  /\ Becomes(t, "named", "none")
  /\ next_thread_id' \in {i \in (0 - MaxId - 1)..MaxId : wrapping_succ(i) = next_thread_id}

(* -EAGAIN: the identifier is not positive, or the host has no thread.     *)
(* The identifier is used up.                                              *)
SpawnRefused(t) ==
  Becomes(t, "named", "none") /\ UNCHANGED next_thread_id

(* run_wasi_thread: linker, WASI context, memories, instance. *)
SetUp(t) == Becomes(t, "setup", "guest") /\ UNCHANGED next_thread_id

(* One of these fails: the guest's function never runs. *)
SetUpFails(t) == Becomes(t, "setup", "none") /\ UNCHANGED next_thread_id

(* wasi_thread_start returns; or the thread calls pthread_exit, a trap the *)
(* runner recognises and does not report.                                  *)
Returns(t) == Becomes(t, "guest", "none") /\ UNCHANGED next_thread_id

(* A trap, or proc_exit, in a thread ends that thread only: the rest of    *)
(* the process runs on.                                                    *)
Traps(t) == Becomes(t, "guest", "none") /\ UNCHANGED next_thread_id

------------------------------------------------------------------------------
(* Mutant: the status is cut to a byte, as a Unix shell sees it. *)
exit_code_from_i32_Truncates(status) == status % (U8Max + 1)

exit_code_from_i32(status) == IF status \in 0..U8Max THEN status ELSE 1

Ends(how, code) ==
  /\ Running /\ main = "guest"
  /\ main' = how
  /\ exit_code' = code
  /\ UNCHANGED threadVars

(* The guest's _start returns, calls proc_exit or traps; main() turns this *)
(* into the exit code.  The host ends the other threads.                   *)
MainReturns == Ends("ok", 0)

MainExits(status) ==
  Ends(IF status = 0 THEN "ok" ELSE "failed", exit_code_from_i32(status))

MainTraps == Ends("failed", 1)

Next ==
  \/ \E t \in Threads :
       FetchAdd(t) \/ HostSpawns(t) \/ SpawnRefused(t) \/ SetUp(t)
         \/ SetUpFails(t) \/ Returns(t) \/ Traps(t)
  \/ MainReturns \/ MainTraps
  \/ \E status \in Statuses : MainExits(status)

Spec == Init /\ [][Next]_vars

------------------------------------------------------------------------------
(* Type invariant. *)
TypeOK ==
  /\ next_thread_id \in (0 - MaxId - 1)..MaxId
  /\ thread \in [Threads -> {"none", "named", "setup", "guest"}]
  /\ thread_id \in [Threads -> (0 - MaxId - 1)..MaxId]
  /\ spawns \in 0..MaxSpawns
  /\ birth \in [Threads -> Nat]
  /\ main \in {"guest", "ok", "failed"}
  /\ exit_code \in Alive..U8Max

(* A thread that exists has a positive identifier, and no other that       *)
(* exists has the same, whatever spawns failed in between and however often*)
(* the counter has wrapped (fetch_add and the test of the sign in          *)
(* spawn_wasi_thread): only a thread that outlives 2^32 calls of           *)
(* thread-spawn can meet its own identifier again.  mysqld and wasi-libc   *)
(* name the owner of a lock by this identifier.                            *)
LiveIdsDistinct ==
  \A t \in Threads : Live(t) =>
    /\ thread_id[t] > 0
    /\ \A u \in Threads \ {t} :
         Live(u) /\ birth[t] - birth[u] \in 0..Span - 1 => thread_id[u] # thread_id[t]

(* The process reports success exactly if the guest did, for every status  *)
(* an i32 can hold and whatever the other threads were doing.              *)
ExitStatusHonest == ~Running => (exit_code = 0 <=> main = "ok")
===============================================================================
