-------------------------- MODULE WasiThreadsProofs ---------------------------
(***************************************************************************)
(* Identifiers of guest threads are distinct for every width of the        *)
(* counter and every number of threads, and the exit code is honest for    *)
(* every status.                                                           *)
(***************************************************************************)
EXTENDS WasiThreads, TLAPS

(* Two identifiers taken d calls apart, 0 < d < Span, differ by d or, if   *)
(* the counter wrapped in between, by d - Span.                            *)
Apart(i, j, d) == 0 < d /\ d < Span => j - i \in {d, d - Span}

Named(t) == thread[t] # "none"

(* Each thread was born with a call of its own, and its identifier keeps   *)
(* its distance from the counter and from those of the other threads.      *)
InStep ==
  /\ \A t \in Threads : Named(t) =>
       birth[t] < spawns /\ Apart(thread_id[t], next_thread_id, spawns - birth[t])
  /\ \A t \in Threads : Live(t) => thread_id[t] > 0
  /\ \A t, u \in Threads : t # u /\ Named(t) /\ Named(u) =>
       birth[t] # birth[u] /\ Apart(thread_id[t], thread_id[u], birth[u] - birth[t])

IInv == TypeOK /\ InStep

ThreadStep(t) ==
  HostSpawns(t) \/ SpawnRefused(t) \/ SetUp(t) \/ SetUpFails(t) \/ Returns(t)
    \/ Traps(t)

MainStep == MainReturns \/ MainTraps \/ \E status \in Statuses : MainExits(status)

(* The exit code of main() fits the host's byte. *)
LEMMA ExitCodeRange ==
  ASSUME NEW status \in Int
  PROVE  /\ exit_code_from_i32(status) \in 0..U8Max
         /\ exit_code_from_i32(status) = 0 <=> status = 0
  BY ThreadsAssumption DEF exit_code_from_i32

LEMMA MainStepFrame == ASSUME TypeOK, MainStep PROVE TypeOK' /\ UNCHANGED threadVars
<1>1. exit_code' \in 0..U8Max /\ main' \in {"ok", "failed"} /\ UNCHANGED threadVars
  BY ExitCodeRange, ThreadsAssumption
     DEF MainStep, MainReturns, MainTraps, MainExits, Ends
<1>2. QED BY <1>1, ThreadsAssumption DEF TypeOK, threadVars, Alive

(* All a thread's step but the first does is move it from stage to stage. *)
LEMMA ThreadStepFrame ==
  ASSUME TypeOK, NEW t \in Threads, ThreadStep(t)
  PROVE  /\ \E to \in {"none", "setup", "guest"} :
              thread' = [thread EXCEPT ![t] = to] /\ (Live(t)' => Live(t) \/ thread_id[t] > 0)
         /\ thread[t] # "none"
         /\ UNCHANGED <<next_thread_id, thread_id, spawns, birth, mainVars>>
<1>1. CASE HostSpawns(t) BY <1>1 DEF HostSpawns, Becomes, TypeOK, Live
<1>2. CASE SpawnRefused(t) BY <1>2 DEF SpawnRefused, Becomes, TypeOK, Live
<1>3. CASE SetUp(t) BY <1>3 DEF SetUp, Becomes, TypeOK, Live
<1>4. CASE SetUpFails(t) BY <1>4 DEF SetUpFails, Becomes, TypeOK, Live
<1>5. CASE Returns(t) BY <1>5 DEF Returns, Becomes, TypeOK, Live
<1>6. CASE Traps(t) BY <1>6 DEF Traps, Becomes, TypeOK, Live
<1>7. QED BY <1>1, <1>2, <1>3, <1>4, <1>5, <1>6 DEF ThreadStep

LEMMA InitHolds == Init => IInv
  BY ThreadsAssumption, SMTT(30)
     DEF Init, IInv, TypeOK, InStep, Named, Live, Alive

LEMMA Inductive == IInv /\ [Next]_vars => IInv'
<1> SUFFICES ASSUME IInv, [Next]_vars PROVE IInv'
  OBVIOUS
<1> USE ThreadsAssumption
<1>1. ASSUME NEW t \in Threads, FetchAdd(t) PROVE IInv'
  <2>1. /\ thread[t] = "none" /\ spawns < MaxSpawns /\ spawns' = spawns + 1
        /\ birth' = [birth EXCEPT ![t] = spawns]
        /\ next_thread_id' = wrapping_succ(next_thread_id)
        /\ thread_id' = [thread_id EXCEPT ![t] = next_thread_id]
        /\ thread' = [thread EXCEPT ![t] = "named"]
        /\ UNCHANGED mainVars
    BY <1>1 DEF FetchAdd
  <2>2. wrapping_succ(next_thread_id) \in (0 - MaxId - 1)..MaxId
    BY DEF IInv, TypeOK, wrapping_succ, Span
  <2>3. TypeOK'
    BY <2>1, <2>2 DEF IInv, TypeOK, mainVars
  <2>4. /\ thread'[t] = "named" /\ thread_id'[t] = next_thread_id /\ birth'[t] = spawns
        /\ \A u \in Threads \ {t} :
             thread'[u] = thread[u] /\ thread_id'[u] = thread_id[u] /\ birth'[u] = birth[u]
    BY <2>1 DEF IInv, TypeOK
  <2>5. /\ spawns \in Int /\ next_thread_id \in (0 - MaxId - 1)..MaxId /\ MaxId \in Nat
        /\ \A u \in Threads : birth[u] \in Int /\ thread_id[u] \in (0 - MaxId - 1)..MaxId
    BY DEF IInv, TypeOK
  <2>6. /\ wrapping_succ(next_thread_id) \in Int
        /\ wrapping_succ(next_thread_id) - next_thread_id \in {1, 1 - Span}
        /\ Span \in Nat /\ Span > 2 * MaxId + 1
    BY <2>5 DEF wrapping_succ, Span
  <2>7. ASSUME NEW u \in Threads, Named(u)'
        PROVE  birth'[u] < spawns' /\ Apart(thread_id'[u], next_thread_id', spawns' - birth'[u])
    <3>1. CASE u = t
      BY <2>1, <2>4, <2>5, <2>6, <3>1 DEF Apart
    <3>2. CASE u # t
      <4>1. Named(u) /\ thread_id'[u] = thread_id[u] /\ birth'[u] = birth[u]
        BY <2>4, <2>7, <3>2 DEF Named
      <4>2. birth[u] < spawns /\ Apart(thread_id[u], next_thread_id, spawns - birth[u])
        BY <4>1 DEF IInv, InStep
      <4>3. wrapping_succ(next_thread_id) \in (0 - MaxId - 1)..MaxId
        BY <2>2
      <4> QED BY <2>1, <2>5, <2>6, <4>1, <4>2, <4>3, SMT DEF Apart
    <3> QED BY <3>1, <3>2
  <2>8. ASSUME NEW u \in Threads, Live(u)' PROVE thread_id'[u] > 0
    BY <2>4, <2>8 DEF IInv, InStep, Live
  <2>9. ASSUME NEW u \in Threads, NEW v \in Threads, u # v, Named(u)', Named(v)'
        PROVE  /\ birth'[u] # birth'[v]
               /\ Apart(thread_id'[u], thread_id'[v], birth'[v] - birth'[u])
    <3>0. \A w \in Threads \ {t} : Named(w)' => Named(w)
      BY <2>4 DEF Named
    <3>1. CASE u = t
      <4>1. birth[v] < spawns
        BY <2>9, <3>0, <3>1 DEF IInv, InStep
      <4> QED BY <2>4, <2>5, <2>9, <3>1, <4>1 DEF Apart
    <3>2. CASE v = t
      <4>1. birth[u] < spawns /\ Apart(thread_id[u], next_thread_id, spawns - birth[u])
        BY <2>9, <3>0, <3>2 DEF IInv, InStep
      <4>2. thread_id'[v] = next_thread_id /\ birth'[v] = spawns
            /\ thread_id'[u] = thread_id[u] /\ birth'[u] = birth[u]
        BY <2>4, <2>9, <3>2
      <4> QED BY <2>5, <4>1, <4>2
    <3>3. CASE u # t /\ v # t
      <4>1. birth[u] # birth[v] /\ Apart(thread_id[u], thread_id[v], birth[v] - birth[u])
        BY <2>9, <3>0, <3>3 DEF IInv, InStep
      <4> QED BY <2>4, <3>3, <4>1
    <3> QED BY <3>1, <3>2, <3>3
  <2> QED BY <2>3, <2>7, <2>8, <2>9 DEF IInv, InStep, Apart
<1>2. ASSUME NEW t \in Threads, ThreadStep(t) PROVE IInv'
  <2>1. PICK to \in {"none", "setup", "guest"} :
          thread' = [thread EXCEPT ![t] = to] /\ (Live(t)' => Live(t) \/ thread_id[t] > 0)
    BY <1>2, ThreadStepFrame DEF IInv
  <2>2. thread[t] # "none" /\ UNCHANGED <<next_thread_id, thread_id, spawns, birth, mainVars>>
    BY <1>2, ThreadStepFrame DEF IInv
  <2>3. TypeOK'
    BY <2>1, <2>2 DEF IInv, TypeOK, mainVars
  <2>4. /\ \A u \in Threads : Named(u)' => Named(u)
        /\ \A u \in Threads \ {t} : Live(u)' => Live(u)
    BY <2>1, <2>2 DEF IInv, TypeOK, Live, Named
  <2>5. ASSUME NEW u \in Threads, Live(u)' PROVE thread_id[u] > 0
    BY <2>1, <2>4, <2>5 DEF IInv, InStep
  <2>6. InStep'
    BY <2>2, <2>4, <2>5 DEF IInv, InStep, Apart
  <2>7. QED BY <2>3, <2>6 DEF IInv
<1>3. CASE MainStep
  BY <1>3, MainStepFrame DEF IInv, InStep, Live, Named, Apart, threadVars
<1>4. CASE UNCHANGED vars
  BY <1>4 DEF vars, threadVars, mainVars, IInv, TypeOK, InStep, Live, Named, Apart
<1>5. QED BY <1>1, <1>2, <1>3, <1>4 DEF Next, ThreadStep, MainStep

(* The identifiers, stages and exit code keep their types: the counter     *)
(* stays within an i32 and the exit code within the host's byte.           *)
THEOREM TypeCorrect == Spec => []TypeOK
<1>1. IInv => TypeOK BY DEF IInv
<1>2. QED BY <1>1, InitHolds, Inductive, PTL DEF Spec

(* For any number of threads and any width of the counter, however often   *)
(* fetch_add has wrapped: threads that exist at the same time have         *)
(* different, positive identifiers, unless one has outlived as many spawns *)
(* as the counter has values.                                              *)
THEOREM IdsDistinct == Spec => []LiveIdsDistinct
<1>1. IInv => LiveIdsDistinct
  <2> SUFFICES ASSUME IInv, NEW t \in Threads, Live(t)
               PROVE  /\ thread_id[t] > 0
                      /\ \A u \in Threads \ {t} :
                           Live(u) /\ birth[t] - birth[u] \in 0..Span - 1
                             => thread_id[u] # thread_id[t]
    BY DEF LiveIdsDistinct
  <2>1. thread_id[t] > 0
    BY DEF IInv, InStep
  <2>2. ASSUME NEW u \in Threads \ {t}, Live(u), birth[t] - birth[u] \in 0..Span - 1
        PROVE  thread_id[u] # thread_id[t]
    <3>1. birth[u] # birth[t] /\ Apart(thread_id[u], thread_id[t], birth[t] - birth[u])
      BY <2>2 DEF IInv, InStep, Live, Named
    <3>2. /\ birth[u] \in Int /\ birth[t] \in Int /\ Span \in Int
          /\ thread_id[u] \in Int /\ thread_id[t] \in Int
      BY <2>2, ThreadsAssumption DEF IInv, TypeOK, Span
    <3> QED BY <2>2, <3>1, <3>2, SMT DEF Apart
  <2> QED BY <2>1, <2>2
<1>2. QED BY <1>1, InitHolds, Inductive, PTL DEF Spec

(* For any set of statuses and any width of the host's exit code, main()   *)
(* reports success exactly if the guest did.                               *)
THEOREM ExitCodesHonest == Spec => []ExitStatusHonest
<1> DEFINE Inv == (main = "guest" /\ exit_code = Alive)
                    \/ (exit_code \in Nat /\ (exit_code = 0 <=> main = "ok"))
<1>1. Init => Inv BY DEF Init
<1>2. Inv /\ [Next]_vars => Inv'
  <2> SUFFICES ASSUME Inv, [Next]_vars PROVE Inv'
    OBVIOUS
  <2>1. ASSUME NEW t \in Threads, FetchAdd(t) \/ ThreadStep(t) PROVE UNCHANGED mainVars
    BY <2>1 DEF FetchAdd, ThreadStep, HostSpawns, SpawnRefused, SetUp, SetUpFails,
                Returns, Traps, Becomes
  <2>2. CASE MainStep
    BY <2>2, ExitCodeRange, ThreadsAssumption
       DEF MainStep, MainReturns, MainTraps, MainExits, Ends
  <2>3. CASE UNCHANGED mainVars BY <2>3 DEF mainVars
  <2>4. QED BY <2>1, <2>2, <2>3 DEF Next, ThreadStep, MainStep, vars
<1>3. Inv => ExitStatusHonest BY DEF ExitStatusHonest, Running, Alive
<1>4. QED BY <1>1, <1>2, <1>3, PTL DEF Spec
===============================================================================
