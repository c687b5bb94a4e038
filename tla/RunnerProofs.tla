----------------------------- MODULE RunnerProofs -----------------------------
(***************************************************************************)
(* The life of a runner.  First its shutdown (Shutdown, Runner): safety    *)
(* for any set of clients and any number of signals, on Unix and on        *)
(* Windows; and that the runner, with a host thread for every client,      *)
(* implements both Shutdown and WasiThreads, so that it inherits what is   *)
(* proved of each.  Then the file locks that keep runners apart            *)
(* (HostFiles): any number of runners, threads and files, any hash of      *)
(* paths to object names, on Unix and on Windows.                          *)
(***************************************************************************)
EXTENDS Runner, HostFiles, TLAPS

(* The stages of mysqld_main after the listener loop. *)
Stopping == {"closing", "draining", "flushing", "returned"}

(* What each place in the main thread knows.  A late connection sends the  *)
(* thread back to the loop's head, where it sees the flag; past the loop   *)
(* the flag is set, past close_connections no session is left.             *)
Stages ==
  /\ late > 0 => shutdown_requested /\ late = 1
                   /\ main \in Stopping \cup {"loop"}
  /\ main \in Stopping => shutdown_requested
  /\ main = "draining" => \A c \in Clients : session[c] \in {"away", "asked", "gone"}
  /\ main \in {"flushing", "returned"} =>
       \A c \in Clients : session[c] \in {"away", "gone"}
  /\ process = "clean" => main = "returned"

(* The flag remembers a request, and an immediate exit needs another one. *)
Requests ==
  /\ shutdown_requested => ctrl_c + others >= 1
  /\ ImmediateIsNotFirst

IInv == TypeOK /\ Stages /\ Requests

(* The initial state of run() satisfies the inductive invariant. *)
LEMMA InitIInv == Init => IInv
<1> SUFFICES ASSUME Init PROVE IInv
  OBVIOUS
<1> USE ShutdownAssumption DEF Init
<1>1. TypeOK
  <2>1. shutdown_requested \in BOOLEAN
    BY Zenon
  <2>2. handlers \in NoHandler..TermFlag /\ ctrl_c \in 0..MaxSignals
          /\ others \in 0..MaxSignals /\ late \in Nat
    BY DEF NoHandler, TermFlag
  <2> QED
    BY <2>1, <2>2 DEF TypeOK
<1>2. Stages
  BY DEF Stages, Stopping
<1>3. Requests
  BY SMTT(40) DEF Requests, ImmediateIsNotFirst
<1> QED
  BY <1>1, <1>2, <1>3 DEF IInv

(* Every step of the process and of its environment preserves it. *)
LEMMA StepIInv == IInv /\ [Next]_vars => IInv'
<1> SUFFICES ASSUME IInv, [Next]_vars PROVE IInv'
  OBVIOUS
<1> USE ShutdownAssumption DEF IInv, TypeOK, Stages, Stopping, Requests,
        ImmediateIsNotFirst, NoHandler, Conditional, IntFlag, TermFlag, Running
<1>1. CASE Install
  BY <1>1 DEF Install
<1>2. CASE Start
  BY <1>2 DEF Start
<1>3. CASE Listen
  BY <1>3 DEF Listen, At
<1>4. CASE LoopHead
  BY <1>4 DEF LoopHead
<1>5. CASE PollTimeout
  BY <1>5 DEF PollTimeout, At
<1>6. CASE PollReady
  BY <1>6 DEF PollReady, At
<1>7. CASE Admit
  BY <1>7 DEF Admit, At
<1>8. CASE CloseListener
  BY <1>8 DEF CloseListener, At
<1>9. CASE Drained
  BY <1>9 DEF Drained, At
<1>10. CASE Exit
  BY <1>10 DEF Exit, At
<1>11. CASE Sigint
  <2> USE <1>11 DEF Sigint, OnSigint
  <2>1. CASE handlers = NoHandler
    BY <2>1 DEF Ends
  <2>2. CASE handlers # NoHandler /\ shutdown_requested
    BY <2>2 DEF Ends
  <2>3. CASE handlers >= IntFlag /\ ~shutdown_requested
    <3>1. SetsFlag /\ ctrl_c' = ctrl_c + 1 /\ UNCHANGED others
      BY <2>3
    <3> QED
      BY <3>1 DEF SetsFlag
  <2>4. CASE handlers = Conditional /\ ~shutdown_requested
    BY <2>4
  <2> QED
    BY <2>1, <2>2, <2>3, <2>4
<1>12. CASE Sigterm
  <2>1. CASE handlers < TermFlag
    BY <1>12, <2>1 DEF Sigterm, Ends
  <2>2. CASE ~(handlers < TermFlag)
    BY <1>12, <2>2 DEF Sigterm, SetsFlag
  <2> QED
    BY <2>1, <2>2
<1>13. ASSUME NEW c \in Clients, Connect(c) PROVE IInv'
  BY <1>13 DEF Connect, Listening
<1>14. ASSUME NEW c \in Clients, Leave(c) PROVE IInv'
  BY <1>14 DEF Leave
<1>15. ASSUME NEW c \in Clients, SqlShutdown(c) PROVE IInv'
  BY <1>15 DEF SqlShutdown, SetsFlag
<1>16. CASE UNCHANGED vars
  BY <1>16 DEF vars
<1> QED
  BY <1>1, <1>2, <1>3, <1>4, <1>5, <1>6, <1>7, <1>8, <1>9, <1>10, <1>11,
     <1>12, <1>13, <1>14, <1>15, <1>16, ZenonT(30) DEF Next, MainStep

(* The inductive invariant holds throughout. *)
LEMMA AlwaysIInv == Spec => []IInv
<1>1. IInv /\ [Next]_vars => IInv'
  BY StepIInv
<1> QED
  BY InitIInv, <1>1, PTL DEF Spec

(* The state of the runner, of the listener loop and of the clients keeps  *)
(* its type.                                                               *)
THEOREM TypeCorrect == Spec => []TypeOK
<1>1. IInv => TypeOK
  BY DEF IInv
<1> QED
  BY AlwaysIInv, <1>1, PTL

(* However many clients there are, a process that ends with success was    *)
(* asked to and left no session and no queued connection behind.           *)
THEOREM CleanExits == Spec => []CleanExitIsComplete
<1>1. IInv => CleanExitIsComplete
  BY DEF IInv, Stages, Stopping, CleanExitIsComplete
<1> QED
  BY AlwaysIInv, <1>1, PTL

(* At most one connection is admitted after connection_event_loop could    *)
(* have seen the request.                                                  *)
THEOREM OneLateConnection == Spec => []AtMostOneLate
<1>1. IInv => AtMostOneLate
  BY DEF IInv, TypeOK, Stages, AtMostOneLate
<1> QED
  BY AlwaysIInv, <1>1, PTL

(* The conditional handler never answers the first request with exit(1). *)
THEOREM FirstRequestNotImmediate == Spec => []ImmediateIsNotFirst
<1>1. IInv => ImmediateIsNotFirst
  BY DEF IInv, Requests
<1> QED
  BY AlwaysIInv, <1>1, PTL

------------------------------------------------------------------------------
(* The places where a step of the composition takes a step of Shutdown,    *)
(* and those where it takes one of WasiThreads.                            *)
LEMMA ShutdownStep == RNext => [Next]_vars
<1> SUFFICES ASSUME RNext PROVE [Next]_vars
  OBVIOUS
<1>1. CASE MainThread
  <2>1. ASSUME NEW c \in Clients, HostSpawns(c) PROVE UNCHANGED vars
    BY <2>1 DEF HostSpawns
  <2>2. ASSUME NEW c \in Clients, SpawnRefused(c) PROVE Leave(c)
    BY <2>2 DEF SpawnRefused
  <2>3. ASSUME NEW c \in Clients, Accept(c) PROVE Admit
    BY <2>3 DEF Accept
  <2> QED
    BY <1>1, <2>1, <2>2, <2>3, Zenon DEF MainThread, Next, MainStep
<1>2. ASSUME NEW c \in Clients,
             SetUp(c) \/ Returns(c) \/ Fails(c)
      PROVE  UNCHANGED vars
  BY <1>2 DEF SetUp, Returns, Fails
<1>3. ASSUME NEW c \in Clients,
             EndSession(c) \/ GiveUp(c) \/ SqlShutdownOn(c)
      PROVE  Leave(c) \/ SqlShutdown(c)
  BY <1>3 DEF EndSession, GiveUp, SqlShutdownOn
<1> QED
  BY <1>1, <1>2, <1>3, Zenon DEF RNext, Next

LEMMA ThreadsStep == RNext => [T!Next]_(T!vars)
<1> SUFFICES ASSUME RNext PROVE T!Next \/ UNCHANGED threadVars
  BY DEF threadVars, T!vars, T!threadVars, T!mainVars
<1>1. CASE MainThread
  <2>1. ASSUME NEW c \in Clients, HostSpawns(c) \/ SpawnRefused(c) \/ Accept(c)
        PROVE  T!Next
    BY <2>1, Zenon DEF HostSpawns, SpawnRefused, Accept, T!Next
  <2>2. ASSUME Exit, T!MainReturns PROVE T!Next
    BY <2>2 DEF T!Next
  <2> QED
    BY <1>1, <2>1, <2>2, Zenon DEF MainThread
<1>2. ASSUME NEW c \in Clients, SetUp(c) \/ Returns(c) \/ Fails(c)
      PROVE  T!Next
  BY <1>2, Zenon DEF SetUp, Returns, Fails, T!Next
<1>3. ASSUME NEW c \in Clients,
             EndSession(c) \/ GiveUp(c) \/ SqlShutdownOn(c)
      PROVE  UNCHANGED threadVars
  BY <1>3 DEF EndSession, GiveUp, SqlShutdownOn
<1> QED
  BY <1>1, <1>2, <1>3, Zenon DEF RNext

(* Whatever becomes of the threads that serve the clients, the runner does *)
(* only what Shutdown allows, for any set of clients.                      *)
THEOREM RunnerImplementsShutdown == RSpec => ImplementsShutdown
<1>1. RInit => Init
  BY DEF RInit
<1>2. [RNext]_allVars => [Next]_vars
  BY ShutdownStep DEF allVars
<1> QED
  BY <1>1, <1>2, PTL DEF RSpec, ImplementsShutdown, Spec

(* spawn_wasi_thread and run_wasi_thread keep their own rules when mysqld  *)
(* calls them: the runner does only what WasiThreads allows.               *)
THEOREM RunnerImplementsThreads == RSpec => T!Spec
<1>1. RInit => T!Init
  BY DEF RInit
<1>2. [RNext]_allVars => [T!Next]_(T!vars)
  BY ThreadsStep DEF allVars, threadVars, T!vars, T!threadVars, T!mainVars
<1> QED
  BY <1>1, <1>2, PTL DEF RSpec, T!Spec

(* What Shutdown promises holds with real threads: no exit code 0 while a  *)
(* session is open or queued, at most one late connection, and no          *)
(* immediate exit for the first request.                                   *)
THEOREM RunnerSafe ==
  RSpec => [](CleanExitIsComplete /\ AtMostOneLate /\ ImmediateIsNotFirst)
  BY RunnerImplementsShutdown, CleanExits, OneLateConnection,
     FirstRequestNotImmediate, PTL DEF ImplementsShutdown

------------------------------------------------------------------------------
(* A session that counts has a thread or has lost it, also after the end   *)
(* of the process.  The stages of the threads are needed for Accept: the   *)
(* thread it names is that of the session it opens.                        *)
Served ==
  /\ TypeOK
  /\ thread \in [Clients -> {"none", "named", "setup", "guest"}]
  /\ failed \subseteq Clients
  /\ \A c \in Clients :
       session[c] \in {"active", "asked"} => thread[c] # "none" \/ c \in failed

(* Moving one thread to another stage than "none" disturbs nothing, and    *)
(* moving it there is harmless once its session is over or counted lost.   *)
LEMMA ThreadMoves ==
  ASSUME Served, NEW c \in Clients,
         NEW to \in {"none", "named", "setup", "guest"},
         thread' = [thread EXCEPT ![c] = to],
         failed' \in {failed, failed \cup {c}},
         session' = session \/ session' = [session EXCEPT ![c] = "gone"],
         to = "none" => c \in failed' \/ session'[c] \notin {"active", "asked"},
         TypeOK'
  PROVE  Served'
  BY ZenonT(30) DEF Served, TypeOK

(* Every step of the runner preserves it: Accept opens a session with a    *)
(* thread, a refused spawn closes it, a failure is recorded.               *)
LEMMA StepServed == ASSUME Served, TypeOK', [RNext]_allVars PROVE Served'
<1> USE DEF T!Becomes
<1>1. ASSUME NEW c \in Clients, Accept(c) PROVE Served'
  <2>1. /\ thread' = [thread EXCEPT ![c] = "named"]
        /\ session' = [session EXCEPT ![c] = "active"]
        /\ UNCHANGED failed
    BY <1>1 DEF Accept, T!FetchAdd, Admit, Served, TypeOK
  <2> QED
    BY <2>1 DEF Served, TypeOK
<1>2. ASSUME NEW c \in Clients, HostSpawns(c) \/ SetUp(c) PROVE Served'
  <2>1. PICK to \in {"setup", "guest"} : thread' = [thread EXCEPT ![c] = to]
    BY <1>2 DEF HostSpawns, SetUp, T!HostSpawns, T!SetUp
  <2>2. UNCHANGED <<session, failed>>
    BY <1>2 DEF HostSpawns, SetUp, vars
  <2> QED
    BY <2>1, <2>2, ThreadMoves, ZenonT(30)
<1>3. ASSUME NEW c \in Clients, SpawnRefused(c) PROVE Served'
  BY <1>3, ThreadMoves DEF SpawnRefused, T!SpawnRefused, Leave, Served, TypeOK
<1>4. ASSUME NEW c \in Clients, Returns(c) PROVE Served'
  BY <1>4, ThreadMoves, ZenonT(30) DEF Returns, T!Returns, vars
<1>5. ASSUME NEW c \in Clients, Fails(c) PROVE Served'
  BY <1>5, ThreadMoves DEF Fails, T!SetUpFails, T!Traps, vars
<1>6. ASSUME UNCHANGED <<threadVars, failed>>,
             \A c \in Clients : session'[c] \in {"active", "asked"}
                                 => session[c] \in {"active", "asked"}
      PROVE  Served'
  BY <1>6 DEF Served, threadVars
<1>7. ASSUME UNCHANGED <<threadVars, failed>>,
             Install \/ Start \/ Listen \/ LoopHead \/ PollTimeout \/ PollReady
               \/ CloseListener \/ Drained \/ Sigint \/ Sigterm
      PROVE  Served'
  <2>1. CASE CloseListener
    BY <1>6, <1>7, <2>1 DEF CloseListener
  <2>2. CASE Install \/ Start \/ Listen \/ LoopHead \/ PollTimeout \/ PollReady
               \/ Drained
    BY <1>6, <1>7, <2>2
       DEF Install, Start, Listen, LoopHead, PollTimeout, PollReady, Drained
  <2>3. CASE Sigint \/ Sigterm
    BY <1>6, <1>7, <2>3 DEF Sigint, OnSigint, Sigterm, Ends, SetsFlag
  <2> QED
    BY <1>7, <2>1, <2>2, <2>3
<1>8. ASSUME UNCHANGED <<threadVars, failed>>, Admit,
             \A c \in Clients : session[c] # "pending"
      PROVE  Served'
  BY <1>6, <1>8 DEF Admit
<1>9. ASSUME Exit, T!MainReturns, UNCHANGED failed PROVE Served'
  BY <1>9 DEF Exit, T!MainReturns, T!Ends, T!threadVars, Served
<1>10. ASSUME NEW c \in Clients, UNCHANGED <<threadVars, failed>>,
              Connect(c) \/ Leave(c) \/ SqlShutdown(c)
       PROVE  Served'
  BY <1>6, <1>10 DEF Connect, Leave, SqlShutdown, SetsFlag, Served, TypeOK
<1>11. CASE MainThread
  BY <1>1, <1>2, <1>3, <1>7, <1>8, <1>9, <1>11, Zenon DEF MainThread
<1>12. CASE UNCHANGED allVars
  BY <1>6, <1>12 DEF allVars, vars
<1> QED
  BY <1>2, <1>4, <1>5, <1>7, <1>10, <1>11, <1>12, Zenon
     DEF RNext, EndSession, GiveUp, SqlShutdownOn

(* With any number of clients, no session is left without a thread by a    *)
(* refused spawn, a slow set-up or the order of the two (process_new_      *)
(* connection over spawn_wasi_thread): only a thread that failed in set-up *)
(* or trapped leaves one.                                                  *)
THEOREM SessionsHaveThreads == RSpec => []EverySessionHasThread
<1>1. RInit => Served
  BY ShutdownAssumption, InitIInv DEF RInit, T!Init, Served, IInv, Init
<1>2. Served /\ TypeOK' /\ [RNext]_allVars => Served'
  BY StepServed
<1>3. Served => EverySessionHasThread
  BY DEF Served, EverySessionHasThread
<1> QED
  BY <1>1, <1>2, <1>3, RunnerImplementsShutdown, TypeCorrect, PTL
     DEF RSpec, ImplementsShutdown

TP == INSTANCE WasiThreadsProofs WITH
        Threads <- Clients, U8Max <- 255, Statuses <- {0}, main <- start

(* Among the threads that serve clients, two that exist at the same time   *)
(* have different identifiers, unless one has outlived as many spawns as   *)
(* next_thread_id has values (LiveIdsDistinct of WasiThreads).             *)
THEOREM SessionIdsDistinct == RSpec => []T!LiveIdsDistinct
<1>1. T!Init => TP!Init
  BY DEF T!Init, TP!Init, T!Alive, TP!Alive
<1>2. [T!Next]_(T!vars) => [TP!Next]_(TP!vars)
  BY Zenon
     DEF T!vars, TP!vars, T!threadVars, TP!threadVars, T!mainVars,
         TP!mainVars, T!Next, TP!Next, T!FetchAdd, TP!FetchAdd,
         T!HostSpawns, TP!HostSpawns, T!SpawnRefused, TP!SpawnRefused,
         T!SetUp, TP!SetUp, T!SetUpFails, TP!SetUpFails, T!Returns,
         TP!Returns, T!Traps, TP!Traps, T!Becomes, TP!Becomes,
         T!MainReturns, TP!MainReturns, T!MainTraps, TP!MainTraps,
         T!MainExits, TP!MainExits, T!Ends, TP!Ends, T!Running, TP!Running,
         T!Alive, TP!Alive, T!wrapping_succ, TP!wrapping_succ, T!Span,
         TP!Span, T!exit_code_from_i32, TP!exit_code_from_i32
<1>3. TP!LiveIdsDistinct => T!LiveIdsDistinct
  BY DEF T!LiveIdsDistinct, TP!LiveIdsDistinct, T!Live, TP!Live, T!Span, TP!Span
<1>4. TP!Spec => []TP!LiveIdsDistinct
  <2>1. MaxId \in Nat \ {0} /\ 255 \in Nat \ {0} /\ {0} \subseteq Int /\ MaxSpawns \in Nat
    BY RunnerAssumption
  <2> QED BY <2>1, TP!IdsDistinct, PTL
<1> QED
  BY <1>1, <1>2, <1>3, <1>4, RunnerImplementsThreads, PTL DEF T!Spec, TP!Spec

------------------------------------------------------------------------------
(* A runner relies only on descriptors it has open, and the host keeps     *)
(* others from locking their files: LockExclusive becomes inductive.       *)
Keeps(r, p) == IF OnUnix THEN record[FileOf[p]] = r ELSE p \in locks[r]

Backed ==
  \A r \in Runners : \A g \in relied[r] :
    /\ g \in DOMAIN files[r]
    /\ (OnUnix => Tidy) => Keeps(r, files[r][g])

(* One runner of a session at a time has a handle made by LockCreates to   *)
(* an object.                                                              *)
ObjectsOwned ==
  \A q, r \in Runners : q # r /\ logon[q] = logon[r] =>
    \A e \in locks[q], f \in locks[r] : LockName[e] # LockName[f]

LockInv == LockTypeOK /\ Backed /\ ObjectsOwned

(* No runner has started: nothing is open and nothing locked. *)
LEMMA InitLockInv == LockInit => LockInv
<1> SUFFICES ASSUME LockInit PROVE LockInv
  OBVIOUS
<1> USE FilesAssumption, NameAssumption, FdsAssumption DEF LockInit, NoFiles, GuestFds
<1>1. LockTypeOK
  BY DEF LockTypeOK
<1>2. Backed
  BY DEF Backed
<1>3. ObjectsOwned
  BY SMTT(20) DEF ObjectsOwned
<1> QED
  BY <1>1, <1>2, <1>3 DEF LockInv

(* Types are preserved by every operation. *)
LEMMA StepTypeOK == LockTypeOK /\ [LockNext]_lockVars => LockTypeOK'
<1> SUFFICES ASSUME LockTypeOK, [LockNext]_lockVars PROVE LockTypeOK'
  OBVIOUS
<1>0. logon' = logon
  BY DEF LockNext, lockVars
<1> USE <1>0, FilesAssumption, NameAssumption, FdsAssumption DEF LockTypeOK, GuestFds
<1>1. ASSUME NEW r \in Runners, Launch(r) PROVE LockTypeOK'
  BY <1>1 DEF Launch
<1>2. ASSUME NEW r \in Runners, End(r) PROVE LockTypeOK'
  <2> USE <1>2 DEF End
  <2>1. \A q \in Runners : files'[q] = IF q = r THEN NoFiles ELSE files[q]
    OBVIOUS
  <2>2. DOMAIN files' = Runners /\ \A q \in Runners :
          /\ DOMAIN files'[q] \subseteq GuestFds
          /\ files'[q] \in [DOMAIN files'[q] -> Paths]
    BY <2>1 DEF NoFiles
  <2>3. record' \in [Files -> Runners \union {NoRunner}]
    OBVIOUS
  <2>4. opening' \in [Runners -> [Threads -> Paths \union {NoPath}]]
    OBVIOUS
  <2> QED
    BY <2>2, <2>3, <2>4
<1>3. ASSUME NEW r \in Runners, LockGivesUp(r) PROVE LockTypeOK'
  BY <1>3 DEF LockGivesUp
<1>4. ASSUME NEW r \in Runners, NEW t \in Threads, NEW f \in Paths,
             OpenFile(r, t, f) PROVE LockTypeOK'
  BY <1>4 DEF OpenFile
<1>5. ASSUME NEW r \in Runners, NEW t \in Threads, OpenInsert(r, t)
      PROVE LockTypeOK'
  <2> DEFINE g == next_fd[r]
             f == opening[r][t]
             row == [h \in DOMAIN files[r] \union {g} |->
                       IF h = g THEN f ELSE files[r][h]]
  <2>1. g \in GuestFds /\ f \in Paths /\ saturating_succ(g) \in GuestFds
    <3>1. g \in GuestFds /\ f \in Paths \union {NoPath}
      OBVIOUS
    <3>2. f # NoPath
      BY <1>5 DEF OpenInsert
    <3> HIDE DEF f, g, LockTypeOK
    <3>3. saturating_succ(g) \in GuestFds
      BY <3>1 DEF saturating_succ
    <3> QED
      BY <3>1, <3>2, <3>3
  <2>2. files' = [files EXCEPT ![r] = row]
    BY <1>5 DEF OpenInsert
  <2>3. DOMAIN row \subseteq GuestFds /\ row \in [DOMAIN row -> Paths]
    BY <2>1
  <2> HIDE DEF row
  <2>4. DOMAIN files' = Runners /\ \A q \in Runners :
          /\ DOMAIN files'[q] \subseteq GuestFds
          /\ files'[q] \in [DOMAIN files'[q] -> Paths]
    BY <2>2, <2>3
  <2>5. record' \in [Files -> Runners \union {NoRunner}]
    BY <1>5 DEF OpenInsert, DropsRecord
  <2>6. next_fd' \in [Runners -> GuestFds]
    BY <1>5, <2>1 DEF OpenInsert
  <2> QED
    BY <1>5, <2>4, <2>5, <2>6 DEF OpenInsert
<1>6. ASSUME NEW r \in Runners, NEW g \in DOMAIN files[r], Close(r, g)
      PROVE LockTypeOK'
  <2> DEFINE row == [h \in DOMAIN files[r] \ {g} |-> files[r][h]]
  <2>1. files' = [files EXCEPT ![r] = row]
    BY <1>6 DEF Close
  <2>2. DOMAIN row \subseteq GuestFds /\ row \in [DOMAIN row -> Paths]
    OBVIOUS
  <2> HIDE DEF row
  <2>3. DOMAIN files' = Runners /\ \A q \in Runners :
          /\ DOMAIN files'[q] \subseteq GuestFds
          /\ files'[q] \in [DOMAIN files'[q] -> Paths]
    BY <2>1, <2>2, SMTT(20)
  <2> QED
    BY <1>6, <2>3 DEF Close, DropsRecord
<1>7. ASSUME NEW r \in Runners, NEW g \in DOMAIN files[r],
             LockUnix(r, g) \/ LockAgain(r, g) \/ LockCreates(r, g)
               \/ LockFinds(r, g)
      PROVE LockTypeOK'
  <2>1. CASE LockUnix(r, g)
    BY <2>1, SMTT(20) DEF LockUnix
  <2>2. CASE LockAgain(r, g)
    BY <2>2, SMTT(20) DEF LockAgain
  <2>3. CASE LockCreates(r, g)
    BY <2>3, SMTT(20) DEF LockCreates
  <2>4. CASE LockFinds(r, g)
    BY <2>4 DEF LockFinds
  <2> QED
    BY <1>7, <2>1, <2>2, <2>3, <2>4, ZenonT(30)
<1>8. CASE UNCHANGED lockVars
  BY <1>8, ZenonT(30) DEF lockVars
<1> QED
  BY <1>1, <1>2, <1>3, <1>4, <1>5, <1>6, <1>7, <1>8, ZenonT(30) DEF LockNext, Operation

(* Every operation keeps the locks that the guests rely on. *)
LEMMA StepBacked == LockInv /\ [LockNext]_lockVars => Backed'
<1> SUFFICES ASSUME LockInv, [LockNext]_lockVars PROVE Backed'
  OBVIOUS
<1> USE FilesAssumption, NameAssumption, SwitchAssumption DEF LockInv, LockTypeOK, Backed, Keeps
<1>1. ASSUME NEW r \in Runners, Launch(r) \/ LockGivesUp(r) PROVE Backed'
  BY <1>1 DEF Launch, LockGivesUp
<1>2. ASSUME NEW r \in Runners, End(r) PROVE Backed'
  BY <1>2 DEF End, NoFiles
<1>3. ASSUME NEW r \in Runners, NEW t \in Threads, NEW f \in Paths,
             OpenFile(r, t, f) PROVE Backed'
  BY <1>3 DEF OpenFile
<1>4. ASSUME NEW r \in Runners, NEW t \in Threads, OpenInsert(r, t)
      PROVE Backed'
  <2> SUFFICES ASSUME NEW q \in Runners, NEW h \in relied'[q]
               PROVE /\ h \in DOMAIN files'[q]
                     /\ (OnUnix => Tidy) => Keeps(q, files[q][h])'
    OBVIOUS
  <2> DEFINE g == next_fd[r]
  <2>1. h \in relied[q] /\ (q = r => h # g) /\ h \in DOMAIN files[q]
    BY <1>4 DEF OpenInsert
  <2>2. h \in DOMAIN files'[q] /\ files'[q][h] = files[q][h]
    BY <1>4, <2>1 DEF OpenInsert
  <2>3. ASSUME OnUnix, Tidy PROVE record'[FileOf[files[q][h]]] = q
    <3>1. record[FileOf[files[q][h]]] = q
      BY <2>1, <2>3
    <3>2. CASE g \in DOMAIN files[r]
      <4>1. q = r => FileOf[files[r][h]] # FileOf[files[r][g]]
        BY <1>4, <2>1, <2>3, <3>2 DEF OpenInsert, MayClose
      <4>2. DropsRecord(r, files[r][g])
        BY <1>4, <3>2 DEF OpenInsert
      <4> QED
        BY <3>1, <4>1, <4>2, <2>1 DEF DropsRecord
    <3>3. CASE g \notin DOMAIN files[r]
      BY <1>4, <3>1, <3>3 DEF OpenInsert, DropsRecord
    <3> QED
      BY <3>2, <3>3
  <2>4. locks' = locks
    BY <1>4 DEF OpenInsert
  <2> QED
    BY <2>1, <2>2, <2>3, <2>4
<1>5. ASSUME NEW r \in Runners, NEW g \in DOMAIN files[r], Close(r, g)
      PROVE Backed'
  <2> SUFFICES ASSUME NEW q \in Runners, NEW h \in relied'[q]
               PROVE /\ h \in DOMAIN files'[q]
                     /\ (OnUnix => Tidy) => Keeps(q, files[q][h])'
    OBVIOUS
  <2>1. h \in relied[q] /\ (q = r => h # g) /\ h \in DOMAIN files[q]
    BY <1>5 DEF Close
  <2>2. h \in DOMAIN files'[q] /\ files'[q][h] = files[q][h]
    BY <1>5, <2>1 DEF Close
  <2>3. ASSUME OnUnix, Tidy PROVE record'[FileOf[files[q][h]]] = q
    <3>1. record[FileOf[files[q][h]]] = q
      BY <2>1, <2>3
    <3>2. q = r => FileOf[files[r][h]] # FileOf[files[r][g]]
      BY <1>5, <2>1, <2>3 DEF Close, MayClose
    <3> QED
      BY <1>5, <3>1, <3>2, <2>1 DEF Close, DropsRecord
  <2>4. locks' = locks
    BY <1>5 DEF Close
  <2> QED
    BY <2>1, <2>2, <2>3, <2>4
<1>6. ASSUME NEW r \in Runners, NEW g \in DOMAIN files[r], LockUnix(r, g)
      PROVE Backed'
  BY <1>6, SMTT(30) DEF LockUnix
<1>7. ASSUME NEW r \in Runners, NEW g \in DOMAIN files[r],
             LockAgain(r, g) \/ LockCreates(r, g) \/ LockFinds(r, g)
      PROVE Backed'
  <2>1. CASE LockAgain(r, g)
    BY <2>1, SMTT(30) DEF LockAgain
  <2>2. CASE LockCreates(r, g)
    BY <2>2, SMTT(30) DEF LockCreates
  <2>3. CASE LockFinds(r, g)
    BY <2>3, SMTT(30) DEF LockFinds
  <2> QED
    BY <1>7, <2>1, <2>2, <2>3, ZenonT(30)
<1>8. CASE UNCHANGED lockVars
  BY <1>8 DEF lockVars
<1> QED
  BY <1>1, <1>2, <1>3, <1>4, <1>5, <1>6, <1>7, <1>8, ZenonT(30) DEF LockNext, Operation

(* Only LockCreates makes a handle that stays, and only for a new object. *)
LEMMA StepObjects == LockInv /\ [LockNext]_lockVars => ObjectsOwned'
<1> SUFFICES ASSUME LockInv, [LockNext]_lockVars PROVE ObjectsOwned'
  OBVIOUS
<1>0. logon' = logon
  BY DEF LockNext, lockVars
<1> USE <1>0 DEF LockInv, LockTypeOK, ObjectsOwned
<1>1. ASSUME NEW r \in Runners, NEW g \in DOMAIN files[r], LockCreates(r, g)
      PROVE ObjectsOwned'
  BY <1>1 DEF LockCreates, Exists
<1>2. ASSUME NEW r \in Runners, End(r) PROVE ObjectsOwned'
  BY <1>2 DEF End
<1>3. CASE UNCHANGED locks
  BY <1>3
<1> QED
  BY <1>1, <1>2, <1>3, ZenonT(30) DEF LockNext, Operation, lockVars, Launch, LockGivesUp, OpenFile,
     OpenInsert, Close, LockUnix, LockAgain, LockFinds

(* The inductive invariant holds throughout. *)
LEMMA AlwaysLockInv == LockSpec => []LockInv
<1>1. LockInv /\ [LockNext]_lockVars => LockInv'
  BY StepTypeOK, StepBacked, StepObjects DEF LockInv
<1> QED
  BY InitLockInv, <1>1, PTL DEF LockSpec

(* The tables, the locks and what the guests were told keep their types. *)
THEOREM LockTypesCorrect == LockSpec => []LockTypeOK
<1>1. LockInv => LockTypeOK
  BY DEF LockInv
<1> QED
  BY AlwaysLockInv, <1>1, PTL

(* Two runners of one session never rely on a lock_exclusive of the same   *)
(* path on Windows, whatever the guests close and whatever names collide;  *)
(* and on Unix no two runners rely on a lock of the same file, for guests  *)
(* that keep the discipline of fcntl.                                      *)
THEOREM LocksExclude == LockSpec => []LockExclusive
<1>1. LockInv => LockExclusive
  <2> SUFFICES ASSUME LockInv, OnUnix => Tidy,
                      NEW q \in Runners, NEW r \in Runners, q # r,
                      NEW a \in relied[q], NEW b \in relied[r],
                      FileOf[files[q][a]] = FileOf[files[r][b]]
               PROVE OwnObjects(q, a, r, b)
    BY DEF LockExclusive
  <2>1. Keeps(q, files[q][a]) /\ Keeps(r, files[r][b])
    BY DEF LockInv, Backed
  <2> QED
    BY <2>1 DEF Keeps, LockInv, ObjectsOwned, OwnObjects
<1> QED
  BY AlwaysLockInv, <1>1, PTL

(* On Unix a lock ends with the first descriptor of its file that the      *)
(* process closes, so it never outlives the descriptors.                   *)
THEOREM UnixLocksEnd == LockSpec => []LockNeedsDescriptor
<1> DEFINE Q == LockNeedsDescriptor
<1>1. LockInit => Q
  BY FilesAssumption, SMTT(20) DEF LockInit, LockNeedsDescriptor
<1>2. LockInv /\ Q /\ [LockNext]_lockVars => Q'
  <2> SUFFICES ASSUME LockInv, Q, [LockNext]_lockVars,
                      NEW q \in Runners, NEW e \in Files, record'[e] = q
               PROVE \E g \in DOMAIN files'[q] : FileOf[files'[q][g]] = e
    BY ZenonT(30) DEF LockNeedsDescriptor
  <2> USE FilesAssumption, NameAssumption DEF LockInv, LockTypeOK
  <2>1. record[e] = q => \E g \in DOMAIN files[q] : FileOf[files[q][g]] = e
    BY DEF LockNeedsDescriptor
  <2>2. ASSUME NEW r \in Runners, NEW g \in DOMAIN files[r], LockUnix(r, g)
        PROVE \E h \in DOMAIN files'[q] : FileOf[files'[q][h]] = e
    BY <2>1, <2>2 DEF LockUnix
  <2>3. ASSUME NEW r \in Runners, NEW g \in DOMAIN files[r], Close(r, g)
        PROVE \E h \in DOMAIN files'[q] : FileOf[files'[q][h]] = e
    <3>1. record[e] = q /\ (q = r => e # FileOf[files[r][g]])
      BY <2>3 DEF Close, DropsRecord
    <3>2. PICK h \in DOMAIN files[q] : FileOf[files[q][h]] = e
      BY <2>1, <3>1
    <3> QED
      BY <2>3, <3>1, <3>2 DEF Close
  <2>4. ASSUME NEW r \in Runners, NEW t \in Threads, OpenInsert(r, t)
        PROVE \E h \in DOMAIN files'[q] : FileOf[files'[q][h]] = e
    <3> DEFINE g == next_fd[r]
    <3>1. record[e] = q /\ (q = r /\ g \in DOMAIN files[r] => e # FileOf[files[r][g]])
      BY <2>4 DEF OpenInsert, DropsRecord
    <3>2. PICK h \in DOMAIN files[q] : FileOf[files[q][h]] = e
      BY <2>1, <3>1
    <3>3. q = r => h # g
      BY <3>1, <3>2
    <3> QED
      BY <2>4, <3>2, <3>3 DEF OpenInsert
  <2>5. ASSUME NEW r \in Runners, End(r)
        PROVE \E h \in DOMAIN files'[q] : FileOf[files'[q][h]] = e
    BY <2>1, <2>5 DEF End
  <2>6. CASE UNCHANGED <<files, record>>
    BY <2>1, <2>6
  <2> QED
    BY <2>2, <2>3, <2>4, <2>5, <2>6, ZenonT(30) DEF LockNext, Operation, lockVars, Launch,
       LockGivesUp, OpenFile, LockAgain, LockCreates, LockFinds
<1> QED
  BY AlwaysLockInv, <1>1, <1>2, PTL DEF LockSpec
===============================================================================
