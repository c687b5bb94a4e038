-------------------------- MODULE MarshallingProofs ---------------------------
(***************************************************************************)
(* Theorems about Marshalling, for any memory, limits and calls.           *)
(***************************************************************************)
EXTENDS Marshalling, TLAPS

(* Everything a thread does. *)
Step(t) ==
  \/ \E c \in CallsOf[t] : Enter(t, c)
  \/ KernelFails(t) \/ Receives(t) \/ Answers(t) \/ Sends(t) \/ Polls(t)
  \/ CopyFails(t) \/ Copy(t) \/ CopyName(t) \/ SlicePanics(t) \/ CopyLength(t)
  \/ PollAnswer(t) \/ PollOverflows(t) \/ PollEnds(t)

(* What checked_range promises: the range lies in memory; and what it      *)
(* refuses.                                                                *)
LEMMA RangeAccepted ==
  ASSUME NEW ptr \in Int, NEW k \in Int
  PROVE  checked_range(ptr, k) = "ok" <=>
           ptr >= 0 /\ k >= 0 /\ k <= MaxIo /\ ptr + k <= MemLen
BY MarshallingAssumption DEF checked_range, checked_len

LEMMA RangeType ==
  ASSUME NEW ptr \in Int, NEW k \in Int
  PROVE  checked_range(ptr, k) \in {"ok", "EFAULT", "EINVAL"}
BY Zenon DEF checked_range, checked_len

LEMMA CheckType ==
  ASSUME NEW c \in Calls
  PROVE  Checks(c) \in {"ok", "EFAULT", "EINVAL"}
BY MarshallingAssumption, Zenon DEF Checks, Then, checked_range, checked_len, checked_poll_count,
   checked_sockaddr_len, Calls, Ops, i32, u32, PollFd, Word

LEMMA CallFields ==
  ASSUME NEW c \in Calls
  PROVE  /\ c.op \in Ops
         /\ c.ptr \in Int /\ c.len \in Int /\ c.addr \in Int /\ c.lptr \in Int
         /\ c.alen \in Nat
         /\ c.len <= IntMax /\ c.ptr <= IntMax
BY MarshallingAssumption DEF Calls, i32, u32

------------------------------------------------------------------------------
(* What a thread knows at each place of a handler. *)
Knows(t) ==
  /\ at[t] # "guest" => call[t] \in CallsOf[t]
  /\ at[t] = "copy" => call[t].op \in {"recv", "recvfrom"} /\ n[t] <= call[t].len
  /\ at[t] \in {"name", "length"} => call[t].op \in {"recvfrom", "name", "option"}
  /\ at[t] \in {"name", "length"} /\ call[t].op = "recvfrom" =>
       n[t] <= call[t].len /\ checked_range(call[t].ptr, n[t]) = "ok"
  /\ at[t] \in {"copy", "name", "length"} => nlen[t] \in NameLens
  /\ at[t] = "poll" => call[t].op = "poll"

Local == \A t \in Threads : Knows(t)

(* A step of one thread leaves the others' locals alone. *)
LEMMA Others ==
  ASSUME TypeOK, NEW t \in Threads, NEW u \in Threads, u # t, Step(t)
  PROVE  /\ at'[u] = at[u] /\ call'[u] = call[u] /\ n'[u] = n[u]
         /\ first'[u] = first[u] /\ nlen'[u] = nlen[u] /\ outcome'[u] = outcome[u]
<1> USE DEF TypeOK, Goes, Ends
<1>1. CASE \E c \in CallsOf[t] : Enter(t, c)
  BY <1>1 DEF Enter
<1>2. CASE KernelFails(t)
  BY <1>2, Zenon DEF KernelFails
<1>3. CASE Receives(t)
  BY <1>3, Zenon DEF Receives
<1>4. CASE Answers(t)
  BY <1>4, Zenon DEF Answers
<1>5. CASE Sends(t) \/ Polls(t)
  BY <1>5, Zenon DEF Sends, Polls
<1>6. CASE CopyFails(t) \/ Copy(t)
  BY <1>6, Zenon DEF CopyFails, Copy
<1>7. CASE CopyName(t) \/ SlicePanics(t) \/ CopyLength(t)
  BY <1>7, Zenon DEF CopyName, SlicePanics, CopyLength
<1>8. CASE PollAnswer(t) \/ PollOverflows(t) \/ PollEnds(t)
  BY <1>8, Zenon DEF PollAnswer, PollOverflows, PollEnds
<1> QED BY <1>1, <1>2, <1>3, <1>4, <1>5, <1>6, <1>7, <1>8, Zenon DEF Step

(* What a step does to memory, and when. *)
LEMMA MemoryStep ==
  ASSUME TypeOK, NEW t \in Threads, Knows(t), Step(t)
  PROVE  /\ memory' \in [Addresses -> Int]
         /\ \A a \in Addresses : memory'[a] # memory[a] =>
              at[t] # "guest" /\ a \in Requested(call[t])
<1> USE MarshallingAssumption, CallFields DEF TypeOK
<1>1. CASE UNCHANGED memory
  BY <1>1, Zenon
<1>2. CASE Copy(t)
  <2>1. at[t] = "copy" /\ call[t].op \in {"recv", "recvfrom"} /\ n[t] <= call[t].len
    BY <1>2, Zenon DEF Copy, Knows
  <2>2. Span(call[t].ptr, call[t].len) \subseteq Requested(call[t])
    BY <2>1, Zenon DEF Requested
  <2>3. memory' = [a \in Addresses |-> IF a \in call[t].ptr .. call[t].ptr + n[t] - 1
                                       THEN first[t] + (a - call[t].ptr) ELSE memory[a]]
    BY <1>2, Zenon DEF Copy, write_stream
  <2>4. Addresses \subseteq Int
    BY DEF Addresses
  <2> QED BY <2>1, <2>2, <2>3, <2>4 DEF Span
<1>3. CASE CopyName(t)
  <2>1. at[t] = "name" /\ call[t].op \in {"recvfrom", "name", "option"} /\ nlen[t] <= call[t].alen
    BY <1>3, Zenon DEF CopyName, Knows
  <2>2. Span(call[t].addr, call[t].alen) \subseteq Requested(call[t])
    BY <2>1, Zenon DEF Requested
  <2>3. memory' = memory \/
        memory' = [a \in Addresses |-> IF a \in call[t].addr .. call[t].addr + nlen[t] - 1
                                       THEN Name ELSE memory[a]]
    BY <1>3, Zenon DEF CopyName, write_guest
  <2>4. Addresses \subseteq Int /\ Name \in Int
    BY DEF Addresses, Name
  <2> QED BY <2>1, <2>2, <2>3, <2>4 DEF Span
<1>4. CASE CopyLength(t)
  <2>1. at[t] = "length" /\ call[t].op \in {"recvfrom", "name", "option"}
    BY <1>4, Zenon DEF CopyLength, Knows
  <2>2. Span(call[t].lptr, Word) \subseteq Requested(call[t])
    BY <2>1, Zenon DEF Requested
  <2>3. memory' = memory \/
        memory' = [a \in Addresses |-> IF a \in call[t].lptr .. call[t].lptr + Word - 1
                                       THEN Length ELSE memory[a]]
    BY <1>4, Zenon DEF CopyLength, write_guest
  <2>4. Length \in Int
    BY DEF Length
  <2> QED BY <2>1, <2>2, <2>3, <2>4, Zenon DEF Span
<1>5. CASE PollAnswer(t)
  <2> DEFINE p == ReventsPtr(t)
  <2>1. at[t] = "poll" /\ call[t].op = "poll" /\ n[t] \in 0 .. call[t].len - 1
    BY <1>5 DEF PollAnswer, Knows
  <2>2. p \in Int /\ p \in Requested(call[t])
    BY <2>1 DEF Requested, ReventsPtr, PollFd
  <2>3. memory' = memory \/
        memory' = [a \in Addresses |-> IF a \in p .. p + 1 - 1 THEN Revents ELSE memory[a]]
    BY <1>5, Zenon DEF PollAnswer, write_guest
  <2>4. Revents \in Int /\ Addresses \subseteq Int
    BY DEF Revents, Addresses
  <2> HIDE DEF p
  <2>5. p .. p + 1 - 1 = {p}
    BY <2>2
  <2> QED BY <2>1, <2>2, <2>3, <2>4, <2>5
<1>6. UNCHANGED memory \/ Copy(t) \/ CopyName(t) \/ CopyLength(t) \/ PollAnswer(t)
  BY Zenon DEF Step, Enter, KernelFails, Receives, Answers, Sends, Polls, CopyFails, SlicePanics,
     PollOverflows, PollEnds
<1> QED BY <1>1, <1>2, <1>3, <1>4, <1>5, <1>6, Zenon

------------------------------------------------------------------------------
LEMMA LostType ==
  ASSUME TypeOK, NEW t \in Threads, Step(t)
  PROVE  lost' \subseteq Int
<1>0. OnTheirWay(t) \subseteq Int
  BY DEF OnTheirWay, TypeOK
<1>1. ASSUME NEW bytes, bytes \subseteq Int, Forfeits(t, bytes) PROVE lost' \subseteq Int
  BY <1>1 DEF Forfeits, TypeOK
<1>2. CASE Receives(t)
  <2>1. PICK k \in 0 .. call[t].len :
          lost' = lost \/ Forfeits(t, taken + 1 .. taken + k)
    BY <1>2, Zenon DEF Receives
  <2>2. taken + 1 .. taken + k \subseteq Int
    BY CallFields DEF TypeOK
  <2> QED BY <1>1, <2>1, <2>2, Zenon DEF TypeOK
<1>3. CASE lost' = lost \/ Forfeits(t, OnTheirWay(t))
  BY <1>0, <1>1, <1>3, Zenon DEF TypeOK
<1>4. Receives(t) \/ lost' = lost \/ Forfeits(t, OnTheirWay(t))
  BY Zenon DEF Step, Enter, KernelFails, Answers, Sends, Polls, CopyFails, Copy, CopyName,
     SlicePanics, CopyLength, PollAnswer, PollOverflows, PollEnds
<1> QED BY <1>2, <1>3, <1>4, Zenon

(* The types of the locals after a step of thread t. *)
LEMMA TypeStep ==
  ASSUME TypeOK, NEW t \in Threads, Knows(t), Step(t)
  PROVE  TypeOK'
<1> USE MarshallingAssumption, CallFields
<1>1. memory' \in [Addresses -> Int]
  BY MemoryStep, Zenon
<1>0. lost' \subseteq Int
  BY LostType, Zenon
<1>2. CASE \E c \in CallsOf[t] : Enter(t, c)
  <2>1. PICK c \in CallsOf[t] : Enter(t, c)
    BY <1>2, Zenon
  <2>2. c \in Calls
    OBVIOUS
  <2>3. Checks(c) \in {"ok", "EFAULT", "EINVAL"}
    BY <2>2, CheckType, Zenon
  <2> QED BY <2>1, <2>2, <2>3, <1>0, <1>1 DEF TypeOK, Enter, Goes, Ends
<1>3. CASE KernelFails(t) \/ Sends(t) \/ Polls(t) \/ SlicePanics(t) \/ PollOverflows(t) \/ PollEnds(t)
  <2>1. CASE KernelFails(t) \/ Sends(t) \/ PollEnds(t)
    BY <2>1, <1>0, <1>1, Zenon DEF TypeOK, KernelFails, Sends, PollEnds, Ends
  <2>2. CASE Polls(t)
    BY <2>2, <1>0, <1>1, Zenon DEF TypeOK, Polls, Goes
  <2>3. CASE SlicePanics(t)
    BY <2>3, <1>0, <1>1, Zenon DEF TypeOK, SlicePanics
  <2>4. CASE PollOverflows(t)
    BY <2>4, <1>0, <1>1, Zenon DEF TypeOK, PollOverflows, Ends
  <2> QED BY <1>3, <2>1, <2>2, <2>3, <2>4, Zenon
<1>4. CASE Receives(t)
  <2>1. PICK k \in 0 .. call[t].len, l \in NameLens :
          /\ taken' = taken + k /\ n' = [n EXCEPT ![t] = k] /\ nlen' = [nlen EXCEPT ![t] = l]
          /\ Ends(t, "EIO") \/ Goes(t, "copy")
    BY <1>4, Zenon DEF Receives
  <2>2. UNCHANGED <<call, returned, apart, calls>> /\ first' = [first EXCEPT ![t] = taken + 1]
    BY <1>4, Zenon DEF Receives
  <2>3. k \in Nat /\ taken + k \in Nat /\ l \in Nat /\ taken + 1 \in Nat
    BY DEF TypeOK
  <2>4. /\ taken' \in Nat /\ n' \in [Threads -> Nat] /\ nlen' \in [Threads -> Nat]
        /\ first' \in [Threads -> Nat]
    BY <2>1, <2>2, <2>3, Zenon DEF TypeOK
  <2> QED BY <2>1, <2>2, <2>4, <1>0, <1>1, Zenon DEF TypeOK, Goes, Ends
<1>5. CASE Answers(t)
  <2>1. PICK l \in NameLens : nlen' = [nlen EXCEPT ![t] = l] /\ (Ends(t, "EIO") \/ Goes(t, "name"))
    BY <1>5, Zenon DEF Answers
  <2>2. UNCHANGED <<call, n, first, taken, returned, apart, calls>>
    BY <1>5, Zenon DEF Answers
  <2> QED BY <2>1, <2>2, <1>0, <1>1 DEF TypeOK, Goes, Ends
<1>6. CASE CopyFails(t)
  <2>1. checked_range(call[t].ptr, n[t]) \in {"ok", "EFAULT", "EINVAL"}
    BY RangeType DEF TypeOK
  <2> QED BY <1>6, <1>0, <1>1, <2>1, Zenon DEF TypeOK, CopyFails, Ends
<1>7. CASE Copy(t)
  <2>1. ASSUME GuestReads(t) PROVE returned' \subseteq Int
    <3>1. checked_range(call[t].ptr, n[t]) = "ok"
      BY <1>7, Zenon DEF Copy
    <3>2. call[t].ptr .. call[t].ptr + n[t] - 1 \subseteq Addresses
      BY <3>1, RangeAccepted DEF TypeOK, Addresses
    <3>3. \A a \in Addresses : memory'[a] \in Int
      BY <1>1, Zenon
    <3> QED BY <2>1, <3>2, <3>3, Zenon DEF GuestReads, TypeOK
  <2>2. returned' \subseteq Int
    BY <1>7, <2>1, Zenon DEF Copy, TypeOK
  <2> QED BY <1>7, <1>0, <1>1, <2>2, Zenon DEF TypeOK, Copy, Goes, Ends
<1>8. CASE CopyName(t)
  <2>1. checked_range(call[t].addr, nlen[t]) \in {"ok", "EFAULT", "EINVAL"}
    BY RangeType DEF TypeOK
  <2> QED BY <1>8, <1>0, <1>1, <2>1, Zenon DEF TypeOK, CopyName, Goes, Ends
<1>9. CASE CopyLength(t)
  <2>1. checked_range(call[t].lptr, Word) \in {"ok", "EFAULT", "EINVAL"}
    BY RangeType DEF TypeOK, Word
  <2>2. returned' \subseteq Int
    <3>1. CASE UNCHANGED returned
      BY <3>1, Zenon DEF TypeOK
    <3>2. CASE call[t].op = "recvfrom" /\ GuestReads(t)
      <4>1. checked_range(call[t].ptr, n[t]) = "ok"
        BY <1>9, <3>2, Zenon DEF CopyLength, Knows
      <4>2. call[t].ptr .. call[t].ptr + n[t] - 1 \subseteq Addresses
        BY <4>1, RangeAccepted DEF TypeOK, Addresses
      <4> QED BY <3>2, <1>1, <4>2, Zenon DEF GuestReads, TypeOK
    <3> QED BY <1>9, <3>1, <3>2, Zenon DEF CopyLength
  <2> QED BY <1>9, <1>0, <1>1, <2>1, <2>2, Zenon DEF TypeOK, CopyLength, Ends
<1>10. CASE PollAnswer(t)
  <2>1. checked_range(ReventsPtr(t), 1) \in {"ok", "EFAULT", "EINVAL"}
    BY RangeType DEF TypeOK, ReventsPtr, PollFd
  <2> QED BY <1>10, <1>0, <1>1, <2>1 DEF TypeOK, PollAnswer, Ends
<1> QED BY <1>2, <1>3, <1>4, <1>5, <1>6, <1>7, <1>8, <1>9, <1>10, Zenon DEF Step

LEMMA KnowsStep ==
  ASSUME TypeOK, NEW t \in Threads, Knows(t), Step(t)
  PROVE  Knows(t)'
<1> USE MarshallingAssumption, CallFields DEF TypeOK, Goes, Ends
<1>1. CASE \E c \in CallsOf[t] : Enter(t, c)
  BY <1>1 DEF Enter, Knows
<1>2. CASE KernelFails(t) \/ Sends(t) \/ CopyFails(t) \/ PollEnds(t)
  BY <1>2, Zenon DEF KernelFails, Sends, CopyFails, PollEnds, Knows
<1>3. CASE Receives(t)
  BY <1>3 DEF Receives, Knows
<1>4. CASE Answers(t)
  BY <1>4 DEF Answers, Knows
<1>5. CASE Polls(t) \/ SlicePanics(t) \/ PollOverflows(t)
  BY <1>5, Zenon DEF Polls, SlicePanics, PollOverflows, Knows
<1>6. CASE Copy(t)
  BY <1>6, Zenon DEF Copy, Knows, checked_range, checked_len
<1>7. CASE CopyName(t)
  BY <1>7, Zenon DEF CopyName, Knows, checked_range, checked_len
<1>8. CASE CopyLength(t)
  BY <1>8, Zenon DEF CopyLength, Knows
<1>9. CASE PollAnswer(t)
  BY <1>9, Zenon DEF PollAnswer, Knows
<1> QED BY <1>1, <1>2, <1>3, <1>4, <1>5, <1>6, <1>7, <1>8, <1>9, Zenon DEF Step

(* The inductive invariant. *)
IInv == TypeOK /\ Local

LEMMA InitInv == Init => IInv
BY MarshallingAssumption DEF Init, IInv, TypeOK, Local, Knows, Calls, Ops, NoCall, i32, u32, Addresses

LEMMA NextInv == IInv /\ [Next]_vars => IInv'
<1> SUFFICES ASSUME IInv, [Next]_vars PROVE IInv'
  OBVIOUS
<1>1. CASE UNCHANGED vars
  BY <1>1, Zenon DEF vars, IInv, TypeOK, Local, Knows
<1>2. CASE Next
  <2>1. PICK t \in Threads : Step(t)
    BY <1>2, Zenon DEF Next, Step
  <2>2. TypeOK /\ Knows(t)
    BY Zenon DEF IInv, Local
  <2>3. TypeOK'
    BY <2>1, <2>2, TypeStep, Zenon
  <2>4. Knows(t)'
    BY <2>1, <2>2, KnowsStep, Zenon
  <2>5. ASSUME NEW u \in Threads, u # t PROVE Knows(u)'
    BY <2>1, <2>2, <2>5, Others, Zenon DEF Knows, IInv, Local
  <2> QED BY <2>3, <2>4, <2>5, Zenon DEF IInv, Local
<1> QED BY <1>1, <1>2, Zenon

(* The types hold, whatever the guest passes. *)
THEOREM TypeCorrect == Spec => []TypeOK
<1>1. Spec => []IInv
  BY InitInv, NextInv, PTL DEF Spec
<1>2. IInv => TypeOK
  BY Zenon DEF IInv
<1> QED BY <1>1, <1>2, PTL

(* write_guest changes only what the call's arguments name, in a memory of *)
(* any size and for all arguments: checked_range, and the lengths that the *)
(* handlers pass to it.                                                    *)
THEOREM WritesOnlyRequested == Spec => OnlyRequested
<1>1. Spec => []IInv
  BY InitInv, NextInv, PTL DEF Spec
<1>2. IInv /\ [Next]_vars =>
        [\A a \in Addresses : memory'[a] # memory[a] =>
           \E t \in Threads : at[t] # "guest" /\ a \in Requested(call[t])]_vars
  <2> SUFFICES ASSUME IInv, Next,
                      NEW a \in Addresses, memory'[a] # memory[a]
               PROVE  \E t \in Threads : at[t] # "guest" /\ a \in Requested(call[t])
    OBVIOUS
  <2>1. PICK t \in Threads : Step(t)
    BY Zenon DEF Next, Step
  <2>2. TypeOK /\ Knows(t)
    BY Zenon DEF IInv, Local
  <2> QED BY <2>1, <2>2, MemoryStep, Zenon
<1> QED BY <1>1, <1>2, PTL DEF Spec, OnlyRequested

------------------------------------------------------------------------------
(* A call that keeps the rules has room for what the kernel answers. *)
LEMMA RoomForAnswers ==
  ASSUME TypeOK, NEW t \in Threads, Knows(t), Keeps(call[t])
  PROVE  /\ at[t] = "copy" => checked_range(call[t].ptr, n[t]) = "ok"
         /\ at[t] \in {"name", "length"} =>
              /\ nlen[t] <= call[t].alen /\ checked_range(call[t].addr, nlen[t]) = "ok"
              /\ checked_range(call[t].lptr, Word) = "ok"
<1> USE MarshallingAssumption, CallFields DEF TypeOK
<1>1. CASE at[t] = "copy"
  <2>1. call[t].op \in {"recv", "recvfrom"} /\ n[t] <= call[t].len
    BY <1>1, Zenon DEF Knows
  <2>2. checked_range(call[t].ptr, n[t]) = "ok"
    BY <2>1, RangeAccepted DEF Keeps, InMemory
  <2> QED BY <1>1, <2>2, Zenon
<1>2. CASE at[t] \in {"name", "length"}
  <2>1. call[t].op \in {"recvfrom", "name", "option"} /\ nlen[t] \in NameLens
    BY <1>2, Zenon DEF Knows
  <2>2. nlen[t] <= call[t].alen
    BY <2>1, Zenon DEF Keeps, Roomy
  <2>3. checked_range(call[t].addr, nlen[t]) = "ok"
    BY <2>1, <2>2, RangeAccepted DEF Keeps, Roomy, InMemory
  <2>4. checked_range(call[t].lptr, Word) = "ok"
    BY <2>1, RangeAccepted DEF Keeps, Roomy, InMemory, Word
  <2> QED BY <1>2, <2>2, <2>3, <2>4, Zenon
<1> QED BY <1>1, <1>2, Zenon

(* A call that keeps the rules ends well, or has not ended. *)
LEMMA OutcomeStep ==
  ASSUME TypeOK, NEW t \in Threads, Knows(t), Step(t), Keeps(call'[t])
  PROVE  \/ outcome'[t] \in {"ok", "host"}
         \/ outcome'[t] = outcome[t] /\ at'[t] \notin {"guest", "panicked"}
<1> USE MarshallingAssumption, CallFields DEF TypeOK
<1>1. (\E c \in CallsOf[t] : Enter(t, c)) \/ Keeps(call[t])
  BY Zenon DEF Step, KernelFails, Receives, Answers, Sends, Polls, CopyFails, Copy, CopyName,
     SlicePanics, CopyLength, PollAnswer, PollOverflows, PollEnds
<1>2. CASE \E c \in CallsOf[t] : Enter(t, c)
  <2>1. PICK c \in CallsOf[t] : Enter(t, c)
    BY <1>2, Zenon
  <2>2. c \in Calls /\ Keeps(c)
    BY <2>1, Zenon DEF Enter
  <2>3. Checks(c) = "ok"
    BY <2>2 DEF Keeps, InMemory, Roomy, Checks, Then, checked_range, checked_len,
       checked_poll_count, checked_sockaddr_len, Ops, PollFd, Word
  <2> QED BY <2>1, <2>3, Zenon DEF Enter, Goes
<1>3. CASE KernelFails(t) \/ Sends(t) \/ Polls(t) \/ PollEnds(t)
  BY <1>3, Zenon DEF KernelFails, Sends, Polls, PollEnds, Goes, Ends
<1>4. CASE Receives(t)
  BY <1>4, SMTT(30) DEF Receives, Goes, Knows, Keeps, Roomy
<1>5. CASE Answers(t)
  BY <1>5 DEF Answers, Goes, Knows, Keeps, Roomy
<1>6. CASE CopyFails(t) \/ Copy(t)
  <2>1. at[t] = "copy"
    BY <1>6, Zenon DEF CopyFails, Copy
  <2>2. Keeps(call[t])
    BY <1>6, Zenon DEF CopyFails, Copy
  <2>3. checked_range(call[t].ptr, n[t]) = "ok"
    BY <2>1, <2>2, RoomForAnswers, Zenon
  <2> QED BY <1>6, <2>3, Zenon DEF CopyFails, Copy, Goes, Ends
<1>7. CASE CopyName(t) \/ SlicePanics(t) \/ CopyLength(t)
  <2>1. at[t] \in {"name", "length"}
    BY <1>7, Zenon DEF CopyName, SlicePanics, CopyLength
  <2>2. Keeps(call[t])
    BY <1>7, Zenon DEF CopyName, SlicePanics, CopyLength
  <2>3. nlen[t] <= call[t].alen /\ checked_range(call[t].addr, nlen[t]) = "ok"
        /\ checked_range(call[t].lptr, Word) = "ok"
    BY <2>1, <2>2, RoomForAnswers, Zenon
  <2> QED BY <1>7, <2>3 DEF CopyName, SlicePanics, CopyLength, Goes, Ends
<1>8. CASE PollAnswer(t) \/ PollOverflows(t)
  <2>1. at[t] = "poll" /\ n[t] < call[t].len
    BY <1>8, Zenon DEF PollAnswer, PollOverflows
  <2>2. Keeps(call[t]) /\ call[t].op = "poll"
    BY <1>8, <2>1, Zenon DEF Knows, PollAnswer, PollOverflows
  <2>3. ReventsPtr(t) \in Int /\ ReventsPtr(t) <= IntMax
    BY <2>1, <2>2 DEF Keeps, InMemory, ReventsPtr, PollFd
  <2>4. checked_range(ReventsPtr(t), 1) = "ok"
    BY <2>1, <2>2, <2>3, RangeAccepted DEF Keeps, InMemory, ReventsPtr, PollFd, Word
  <2> QED BY <1>8, <2>3, <2>4 DEF PollAnswer, PollOverflows
<1> QED BY <1>2, <1>3, <1>4, <1>5, <1>6, <1>7, <1>8, Zenon DEF Step

(* The checks of the handlers refuse nothing that the socket API allows,   *)
(* and nothing fails or panics once the kernel has acted.                  *)
THEOREM SoundCallsEndWell == Spec => []SoundCallsSucceed
<1> DEFINE Inv == IInv /\ SoundCallsSucceed
<1>1. Init => Inv
  BY InitInv, Zenon DEF Init, SoundCallsSucceed
<1>2. Inv /\ [Next]_vars => Inv'
  <2> SUFFICES ASSUME IInv, SoundCallsSucceed, [Next]_vars, NEW u \in Threads,
                      at'[u] \in {"guest", "panicked"}, Keeps(call'[u])
               PROVE  outcome'[u] \in {"ok", "host"}
    BY NextInv, Zenon DEF SoundCallsSucceed, Keeps, InMemory, Roomy
  <2>1. CASE UNCHANGED vars
    BY <2>1, Zenon DEF vars, SoundCallsSucceed
  <2>2. CASE Next
    <3>1. PICK t \in Threads : Step(t)
      BY <2>2, Zenon DEF Next, Step
    <3>2. TypeOK /\ Knows(t)
      BY Zenon DEF IInv, Local
    <3>3. CASE u = t
      BY <3>1, <3>2, <3>3, OutcomeStep, Zenon
    <3>4. CASE u # t
      BY <3>1, <3>2, <3>4, Others, Zenon DEF SoundCallsSucceed
    <3> QED BY <3>3, <3>4, Zenon
  <2> QED BY <2>1, <2>2, Zenon
<1>3. Inv => SoundCallsSucceed
  OBVIOUS
<1> QED BY <1>1, <1>2, <1>3, PTL DEF Spec

------------------------------------------------------------------------------
(* The bytes received stay in the buffer while recvfrom copies the rest.   *)
Copied(t) ==
  at[t] \in {"name", "length"} /\ call[t].op = "recvfrom" =>
    \A a \in Span(call[t].ptr, n[t]) : memory[a] = first[t] + (a - call[t].ptr)

(* The buffers of a call in progress are its own. *)
Apart(t) == at[t] # "guest" => Separate(t, call[t])

(* A step begins a call, or goes on with one. *)
LEMMA BeginsOrGoesOn ==
  ASSUME TypeOK, NEW t \in Threads, Step(t)
  PROVE  \/ \E c \in CallsOf[t] : Enter(t, c)
         \/ at[t] # "guest" /\ call' = call /\ apart' = apart
BY Zenon DEF Step, KernelFails, Receives, Answers, Sends, Polls, CopyFails, Copy, CopyName,
   SlicePanics, CopyLength, PollAnswer, PollOverflows, PollEnds

LEMMA ApartStep ==
  ASSUME TypeOK, NEW t \in Threads, Step(t), apart', \A u \in Threads : Apart(u)
  PROVE  apart /\ \A u \in Threads : Apart(u)'
<1>1. CASE \E c \in CallsOf[t] : Enter(t, c)
  <2>1. PICK c \in CallsOf[t] : Enter(t, c)
    BY <1>1, Zenon
  <2>2. apart /\ Separate(t, c) /\ call'[t] = c
    BY <2>1, Zenon DEF Enter, TypeOK
  <2>3. \A u \in Threads \ {t} : at'[u] = at[u] /\ call'[u] = call[u]
    BY Others, Zenon
  <2>4. Apart(t)'
    BY <2>2, <2>3, Zenon DEF Apart, Separate
  <2>5. ASSUME NEW u \in Threads \ {t} PROVE Apart(u)'
    BY <2>2, <2>3, Zenon DEF Apart, Separate
  <2> QED BY <2>2, <2>4, <2>5, Zenon
<1>2. CASE at[t] # "guest" /\ call' = call /\ apart' = apart
  <2>1. \A u \in Threads : at'[u] # "guest" => at[u] # "guest"
    BY <1>2, Others, Zenon
  <2> QED BY <1>2, <2>1, Zenon DEF Apart, Separate
<1> QED BY <1>1, <1>2, BeginsOrGoesOn, Zenon

LEMMA CopiedOthers ==
  ASSUME TypeOK, \A w \in Threads : Apart(w), NEW t \in Threads, NEW u \in Threads, u # t,
         Knows(t), Knows(u), Copied(u), Step(t)
  PROVE  Copied(u)'
<1> USE MarshallingAssumption, CallFields
<1>1. at'[u] = at[u] /\ call'[u] = call[u] /\ n'[u] = n[u] /\ first'[u] = first[u]
  BY Others, Zenon
<1>2. SUFFICES ASSUME at[u] \in {"name", "length"}, call[u].op = "recvfrom",
                      NEW a \in Span(call[u].ptr, n[u])
               PROVE  memory'[a] = memory[a]
  BY <1>1, Zenon DEF Copied
<1>3. n[u] <= call[u].len /\ checked_range(call[u].ptr, n[u]) = "ok"
  BY <1>2, Zenon DEF Knows
<1>4. a \in Addresses
  <2>1. call[u].ptr \in Int /\ n[u] \in Nat
    BY Zenon DEF TypeOK
  <2>2. call[u].ptr >= 0 /\ call[u].ptr + n[u] <= MemLen
    BY <1>3, <2>1, RangeAccepted
  <2> QED BY <2>1, <2>2 DEF Span, Addresses
<1>5. a \in Requested(call[u])
  <2>1. a \in Span(call[u].ptr, call[u].len)
    BY <1>3 DEF Span, TypeOK
  <2> QED BY <2>1, <1>2, Zenon DEF Requested
<1>6. SUFFICES ASSUME memory'[a] # memory[a] PROVE FALSE
  OBVIOUS
<1>7. at[t] # "guest" /\ a \in Requested(call[t])
  BY <1>4, <1>6, MemoryStep, Zenon
<1>8. Separate(u, call[u])
  BY <1>2, Zenon DEF Apart
<1> QED BY <1>5, <1>7, <1>8, Zenon DEF Separate

LEMMA CopiedOwn ==
  ASSUME TypeOK, NEW t \in Threads, Apart(t), Knows(t), Copied(t), Step(t)
  PROVE  Copied(t)'
<1> USE MarshallingAssumption, CallFields
<1>1. CASE Copy(t)
  <2>1. checked_range(call[t].ptr, n[t]) = "ok"
    BY <1>1, Zenon DEF Copy
  <2>2. Span(call[t].ptr, n[t]) \subseteq Addresses
    BY <2>1, RangeAccepted, SMTT(30) DEF TypeOK, Span, Addresses
  <2>3. memory' = [a \in Addresses |-> IF a \in Span(call[t].ptr, n[t])
                                       THEN first[t] + (a - call[t].ptr) ELSE memory[a]]
    BY <1>1, <2>1, Zenon DEF Copy, write_stream, Span
  <2>4. UNCHANGED <<call, n, first>>
    BY <1>1, Zenon DEF Copy
  <2> QED BY <2>2, <2>3, <2>4, Zenon DEF Copied
<1>2. CASE CopyName(t)
  <2> SUFFICES ASSUME call[t].op = "recvfrom", NEW a \in Span(call[t].ptr, n[t])
               PROVE  memory'[a] = first[t] + (a - call[t].ptr)
    BY <1>2, Zenon DEF CopyName, Copied
  <2>1. at[t] = "name" /\ nlen[t] <= call[t].alen
    BY <1>2, Zenon DEF CopyName
  <2>2. n[t] <= call[t].len /\ checked_range(call[t].ptr, n[t]) = "ok"
    BY <2>1, Zenon DEF Knows
  <2>3. a \in Addresses
    BY <2>2, RangeAccepted, SMTT(30) DEF TypeOK, Span, Addresses
  <2>4. a \in Span(call[t].ptr, call[t].len)
    BY <2>2 DEF Span, TypeOK
  <2>5. a \notin Span(call[t].addr, call[t].alen)
    BY <2>1, <2>4, Zenon DEF Apart, Separate
  <2>6. a \notin call[t].addr .. call[t].addr + nlen[t] - 1
    <3>1. call[t].addr \in Int /\ call[t].alen \in Nat /\ nlen[t] \in Nat /\ a \in Int
      BY <2>3 DEF TypeOK, Addresses
    <3> QED BY <2>1, <2>5, <3>1 DEF Span
  <2>7. memory'[a] = memory[a]
    BY <1>2, <2>3, <2>6, Zenon DEF CopyName, write_guest
  <2> QED BY <2>1, <2>7, Zenon DEF Copied
<1>3. CASE Answers(t)
  BY <1>3, Zenon DEF Answers, Goes, Ends, Copied, TypeOK
<1>4. CASE Copied(t)' \/ at'[t] \notin {"name", "length"}
  BY <1>4, Zenon DEF Copied
<1>5. \/ Copy(t) \/ CopyName(t) \/ Answers(t)
      \/ at'[t] \notin {"name", "length"}
  <2> USE DEF TypeOK, Goes, Ends
  <2>1. (\E c \in CallsOf[t] : Enter(t, c)) => at'[t] \notin {"name", "length"}
    BY DEF Enter
  <2>2. KernelFails(t) \/ Receives(t) \/ Sends(t) \/ Polls(t) => at'[t] \notin {"name", "length"}
    BY ZenonT(30) DEF KernelFails, Receives, Sends, Polls
  <2>3. CopyFails(t) \/ SlicePanics(t) \/ CopyLength(t) => at'[t] \notin {"name", "length"}
    BY Zenon DEF CopyFails, SlicePanics, CopyLength
  <2>4. PollAnswer(t) \/ PollOverflows(t) \/ PollEnds(t) => at'[t] \notin {"name", "length"}
    BY Zenon DEF PollAnswer, PollOverflows, PollEnds
  <2> QED BY <2>1, <2>2, <2>3, <2>4, Zenon DEF Step
<1> QED BY <1>1, <1>2, <1>3, <1>4, <1>5, Zenon

(* The bytes whose fate is known. *)
Settled == returned \cup lost

(* A step of t leaves the accounts alone, settles the bytes on t's way, or *)
(* takes new ones from the stream, which are on their way or lost at once. *)
LEMMA Accounts ==
  ASSUME TypeOK, NEW t \in Threads, Apart(t), Knows(t), Copied(t), Step(t)
  PROVE  \/ taken' = taken /\ Settled' = Settled /\ OnTheirWay(t)' = OnTheirWay(t)
         \/ taken' = taken /\ Settled' = Settled \cup OnTheirWay(t) /\ OnTheirWay(t)' = {}
         \/ /\ taken' \in Nat /\ taken' >= taken /\ OnTheirWay(t) = {}
            /\ Settled' \cup OnTheirWay(t)' = Settled \cup (taken + 1 .. taken')
<1> USE MarshallingAssumption, CallFields DEF TypeOK
<1>0. ASSUME Forfeits(t, OnTheirWay(t)), ~Keeps(call[t]), UNCHANGED <<taken, returned>>,
             at'[t] \in {"guest", "panicked"}
      PROVE  taken' = taken /\ Settled' = Settled \cup OnTheirWay(t) /\ OnTheirWay(t)' = {}
  <2>1. OnTheirWay(t)' = {}
    BY <1>0, Zenon DEF OnTheirWay
  <2>2. lost' = lost \cup OnTheirWay(t)
    BY <1>0, Zenon DEF Forfeits
  <2> QED BY <1>0, <2>1, <2>2, Zenon DEF Settled
<1>1. CASE \E c \in CallsOf[t] : Enter(t, c)
  BY <1>1 DEF Enter, OnTheirWay, Goes, Ends, Settled
<1>2. CASE KernelFails(t) \/ Sends(t) \/ Polls(t)
  BY <1>2, Zenon DEF KernelFails, Sends, Polls, OnTheirWay, Goes, Ends, Settled
<1>3. CASE Receives(t)
  <2>1. PICK k \in 0 .. call[t].len, l \in NameLens :
          /\ taken' = taken + k /\ n' = [n EXCEPT ![t] = k]
          /\ IF Windows /\ call[t].op = "recvfrom" /\ l > call[t].alen
             THEN Ends(t, "EIO") /\ Forfeits(t, taken + 1 .. taken + k)
             ELSE Goes(t, "copy") /\ UNCHANGED lost
    BY <1>3, Zenon DEF Receives
  <2>2. at[t] = "kernel" /\ call' = call /\ call[t].op \in {"recv", "recvfrom"}
        /\ first'[t] = taken + 1 /\ returned' = returned
    BY <1>3, Zenon DEF Receives
  <2>3. taken' \in Nat /\ taken' >= taken /\ n'[t] = k /\ first'[t] + k - 1 = taken'
    <3>1. n'[t] = k /\ taken' = taken + k /\ first'[t] = taken + 1
      BY <2>1, <2>2, Zenon
    <3>2. k \in Nat /\ taken \in Nat
      BY SMTT(20)
    <3> HIDE DEF TypeOK
    <3> QED BY <3>1, <3>2, SMTT(20)
  <2>4. OnTheirWay(t) = {}
    BY <2>2, Zenon DEF OnTheirWay
  <2>5. CASE Goes(t, "copy") /\ UNCHANGED lost
    <3>1. at'[t] = "copy"
      BY <2>5, Zenon DEF Goes
    <3>2. OnTheirWay(t)' = taken + 1 .. taken'
      BY <2>2, <2>3, <3>1, Zenon DEF OnTheirWay
    <3> QED BY <2>2, <2>3, <2>4, <2>5, <3>2, Zenon DEF Settled
  <2>6. CASE ~(Goes(t, "copy") /\ UNCHANGED lost)
    <3>1. call[t].op = "recvfrom" /\ l > call[t].alen
          /\ Ends(t, "EIO") /\ Forfeits(t, taken + 1 .. taken + k)
      BY <2>1, <2>6, Zenon
    <3>2. ~Keeps(call[t])
      <4>1. l \in Int /\ call[t].alen \in Int
        BY SMTT(20)
      <4>2. ~(l <= call[t].alen)
        BY <3>1, <4>1, SMTT(20)
      <4> QED BY <3>1, <4>2, Zenon DEF Keeps, Roomy
    <3>3. lost' = lost \cup (taken + 1 .. taken')
      BY <2>1, <3>1, <3>2, Zenon DEF Forfeits
    <3>4. OnTheirWay(t)' = {}
      BY <3>1, Zenon DEF Ends, OnTheirWay
    <3> QED BY <2>2, <2>3, <2>4, <3>3, <3>4, Zenon DEF Settled
  <2> QED BY <2>5, <2>6, Zenon
<1>4. CASE Answers(t)
  BY <1>4, Zenon DEF Answers, OnTheirWay, Goes, Ends, Settled
<1>5. CASE CopyFails(t)
  <2>1. ~Keeps(call[t])
    BY <1>5, RoomForAnswers, Zenon DEF CopyFails
  <2> QED BY <1>0, <1>5, <2>1, Zenon DEF CopyFails, Ends
<1>6. CASE Copy(t)
  <2>1. checked_range(call[t].ptr, n[t]) = "ok" /\ at[t] = "copy"
    BY <1>6, Zenon DEF Copy
  <2>2. Span(call[t].ptr, n[t]) \subseteq Addresses
    BY <2>1, RangeAccepted, SMTT(30) DEF Span, Addresses
  <2>3. \A a \in Span(call[t].ptr, n[t]) : memory'[a] = first[t] + (a - call[t].ptr)
    BY <1>6, <2>1, <2>2, Zenon DEF Copy, write_stream, Span
  <2>4. CASE call[t].op = "recv"
    <3>1. GuestReads(t) /\ at'[t] = "guest"
      BY <1>6, <2>4, Zenon DEF Copy, Ends
    <3>2. {memory'[a] : a \in Span(call[t].ptr, n[t])} = first[t] .. first[t] + n[t] - 1
      <4>1. \A b \in first[t] .. first[t] + n[t] - 1 :
              /\ call[t].ptr + (b - first[t]) \in Span(call[t].ptr, n[t])
              /\ b = memory'[call[t].ptr + (b - first[t])]
        BY <2>3 DEF Span
      <4>2. \A a \in Span(call[t].ptr, n[t]) : memory'[a] \in first[t] .. first[t] + n[t] - 1
        BY <2>3 DEF Span
      <4> QED BY <4>1, <4>2
    <3> QED BY <1>6, <2>1, <2>4, <3>1, <3>2, Zenon DEF GuestReads, OnTheirWay, Copy, Span, Settled
  <2>5. CASE call[t].op = "recvfrom"
    BY <1>6, <2>5, Zenon DEF Copy, OnTheirWay, Goes, Settled
  <2> QED BY <1>6, <2>4, <2>5, Zenon DEF Copy
<1>7. CASE CopyName(t)
  <2>1. CASE checked_range(call[t].addr, nlen[t]) = "ok"
    BY <1>7, <2>1, Zenon DEF CopyName, OnTheirWay, Goes, Settled
  <2>2. CASE checked_range(call[t].addr, nlen[t]) # "ok"
    <3>1. ~Keeps(call[t])
      BY <1>7, <2>2, RoomForAnswers, Zenon DEF CopyName
    <3> QED BY <1>0, <1>7, <2>2, <3>1, Zenon DEF CopyName, Ends
  <2> QED BY <2>1, <2>2, Zenon
<1>8. CASE SlicePanics(t)
  <2>1. ~Keeps(call[t])
    BY <1>8, RoomForAnswers DEF SlicePanics
  <2> QED BY <1>0, <1>8, <2>1, Zenon DEF SlicePanics
<1>9. CASE CopyLength(t)
  <2>1. at[t] = "length" /\ at'[t] = "guest" /\ UNCHANGED <<call, n, first, taken>>
    BY <1>9, Zenon DEF CopyLength, Ends
  <2>2. CASE call[t].op # "recvfrom"
    <3>1. OnTheirWay(t) = {} /\ OnTheirWay(t)' = {}
      BY <2>1, <2>2, Zenon DEF OnTheirWay, Knows
    <3>2. returned' = returned /\ lost' = lost
      <4>1. returned' = returned /\ Forfeits(t, {})
        BY <1>9, <2>2, <3>1, Zenon DEF CopyLength
      <4> QED BY <4>1, Zenon DEF Forfeits
    <3> QED BY <2>1, <3>1, <3>2, Zenon DEF Settled
  <2>3. CASE call[t].op = "recvfrom" /\ checked_range(call[t].lptr, Word) # "ok"
    <3>1. ~Keeps(call[t])
      BY <2>1, <2>3, RoomForAnswers, Zenon
    <3>2. Forfeits(t, OnTheirWay(t)) /\ returned' = returned
      BY <1>9, <2>3, Zenon DEF CopyLength
    <3> QED BY <1>0, <2>1, <3>1, <3>2, Zenon
  <2>4. CASE call[t].op = "recvfrom" /\ checked_range(call[t].lptr, Word) = "ok"
    <3>1. GuestReads(t) /\ lost' = lost
      BY <1>9, <2>4, Zenon DEF CopyLength
    <3>2. \A a \in Span(call[t].ptr, n[t]) : memory'[a] = first[t] + (a - call[t].ptr)
      <4> SUFFICES ASSUME NEW a \in Span(call[t].ptr, n[t])
                   PROVE  memory'[a] = first[t] + (a - call[t].ptr)
        OBVIOUS
      <4>1. n[t] <= call[t].len /\ checked_range(call[t].ptr, n[t]) = "ok"
        BY <2>1, <2>4, Zenon DEF Knows
      <4>2. call[t].ptr >= 0 /\ call[t].ptr + n[t] <= MemLen
        BY <4>1, RangeAccepted
      <4>3. a \in Addresses /\ a \in Span(call[t].ptr, call[t].len)
        <5>1. call[t].ptr \in Int /\ n[t] \in Nat /\ call[t].len \in Int
          OBVIOUS
        <5>2. a \in Int /\ call[t].ptr <= a /\ a <= call[t].ptr + n[t] - 1
          BY <5>1 DEF Span
        <5>3. a \in Addresses
          BY <4>2, <5>1, <5>2 DEF Addresses
        <5>4. a \in Span(call[t].ptr, call[t].len)
          BY <4>1, <5>1, <5>2 DEF Span
        <5> QED BY <5>3, <5>4, Zenon
      <4>4. a \notin call[t].lptr .. call[t].lptr + Word - 1
        BY <2>1, <2>4, <4>3, Zenon DEF Apart, Separate, Span
      <4>5. memory'[a] = memory[a]
        BY <1>9, <4>3, <4>4, Zenon DEF CopyLength, write_guest
      <4> QED BY <2>1, <2>4, <4>5, Zenon DEF Copied
    <3>3. {memory'[a] : a \in Span(call[t].ptr, n[t])} = first[t] .. first[t] + n[t] - 1
      <4>1. \A b \in first[t] .. first[t] + n[t] - 1 :
              /\ call[t].ptr + (b - first[t]) \in Span(call[t].ptr, n[t])
              /\ b = memory'[call[t].ptr + (b - first[t])]
        BY <3>2 DEF Span
      <4>2. \A a \in Span(call[t].ptr, n[t]) : memory'[a] \in first[t] .. first[t] + n[t] - 1
        BY <3>2 DEF Span
      <4> QED BY <4>1, <4>2
    <3> QED BY <2>1, <2>4, <3>1, <3>3, Zenon DEF GuestReads, OnTheirWay, Span, Settled
  <2> QED BY <2>2, <2>3, <2>4, Zenon
<1>10. CASE PollAnswer(t) \/ PollOverflows(t) \/ PollEnds(t)
  <2>1. at[t] = "poll" /\ at'[t] \in {"poll", "guest", "panicked"} /\ UNCHANGED <<taken, returned, lost>>
    BY <1>10, Zenon DEF PollAnswer, PollOverflows, PollEnds, Ends
  <2> QED BY <2>1, Zenon DEF OnTheirWay, Settled
<1> QED BY <1>1, <1>2, <1>3, <1>4, <1>5, <1>6, <1>7, <1>8, <1>9, <1>10, Zenon DEF Step

(* No byte is lost between the kernel and the guest but by a call that     *)
(* breaks the rules, which loses no byte of another's (NoByteLost).  It is *)
(* not inductive alone: Copied says that what was received is still in the *)
(* buffer when recvfrom returns, for which the buffers of calls in progress*)
(* must be apart.                                                          *)
THEOREM NothingIsLost == Spec => []NoByteLost
<1> DEFINE Kept == apart => \A t \in Threads : Copied(t) /\ Apart(t)
           Inv == IInv /\ Kept /\ NoByteLost
<1>1. Init => Inv
  <2> SUFFICES ASSUME Init PROVE Inv
    OBVIOUS
  <2>1. IInv
    BY InitInv, Zenon
  <2>2. Kept
    BY Zenon DEF Init, Copied, Apart
  <2>3. \A t \in Threads : OnTheirWay(t) = {}
    BY Zenon DEF Init, OnTheirWay
  <2>4. 1 .. taken = {} /\ returned = {} /\ lost = {}
    BY DEF Init
  <2> QED BY <2>1, <2>2, <2>3, <2>4, Zenon DEF NoByteLost
<1>2. Inv /\ [Next]_vars => Inv'
  <2> SUFFICES ASSUME Inv, [Next]_vars PROVE Inv'
    OBVIOUS
  <2>0. IInv'
    BY NextInv, Zenon
  <2>1. CASE UNCHANGED vars
    <3>1. Kept'
      BY <2>1, Zenon DEF vars, Copied, Apart, Separate
    <3>2. NoByteLost'
      BY <2>1, Zenon DEF vars, NoByteLost, OnTheirWay
    <3> QED BY <2>0, <3>1, <3>2, Zenon
  <2>2. CASE Next /\ ~apart'
    BY <2>0, <2>2, Zenon DEF NoByteLost
  <2>3. CASE Next /\ apart'
    <3>1. PICK t \in Threads : Step(t)
      BY <2>3, Zenon DEF Next, Step
    <3>2. TypeOK /\ \A u \in Threads : Knows(u)
      BY Zenon DEF IInv, Local
    <3>3. apart /\ \A u \in Threads : Copied(u) /\ Apart(u)
      <4>1. apart
        BY <2>3, <3>1, <3>2, BeginsOrGoesOn, Zenon DEF Enter
      <4> QED BY <4>1, Zenon
    <3>4. \A u \in Threads : Apart(u)'
      BY <2>3, <3>1, <3>2, <3>3, ApartStep, Zenon
    <3>5. \A u \in Threads : Copied(u)'
      BY <3>1, <3>2, <3>3, CopiedOwn, CopiedOthers, Zenon
    <3>6. \A u \in Threads \ {t} : OnTheirWay(u)' = OnTheirWay(u)
      BY <3>1, <3>2, Others, Zenon DEF OnTheirWay
    <3>7. 1 .. taken = Settled \cup UNION {OnTheirWay(u) : u \in Threads}
      BY <3>3, Zenon DEF NoByteLost, Settled
    <3>8. 1 .. taken' = Settled' \cup UNION {OnTheirWay(u)' : u \in Threads}
      <4>1. CASE taken' = taken /\ Settled' = Settled /\ OnTheirWay(t)' = OnTheirWay(t)
        BY <4>1, <3>6, <3>7, Zenon
      <4>2. CASE taken' = taken /\ Settled' = Settled \cup OnTheirWay(t) /\ OnTheirWay(t)' = {}
        BY <4>2, <3>6, <3>7
      <4>3. CASE /\ taken' \in Nat /\ taken' >= taken /\ OnTheirWay(t) = {}
                 /\ Settled' \cup OnTheirWay(t)' = Settled \cup (taken + 1 .. taken')
        <5>1. 1 .. taken' = (1 .. taken) \cup (taken + 1 .. taken')
          BY <4>3, <3>2 DEF TypeOK
        <5>2. UNION {OnTheirWay(u)' : u \in Threads}
                = OnTheirWay(t)' \cup UNION {OnTheirWay(u) : u \in Threads}
          BY <4>3, <3>6
        <5> QED BY <4>3, <5>1, <5>2, <3>7
      <4> QED BY <3>1, <3>2, <3>3, <4>1, <4>2, <4>3, Accounts, Zenon
    <3> QED BY <2>0, <3>4, <3>5, <3>8, Zenon DEF NoByteLost, Settled
  <2> QED BY <2>1, <2>2, <2>3, Zenon
<1>3. Inv => NoByteLost
  OBVIOUS
<1> QED BY <1>1, <1>2, <1>3, PTL DEF Spec
===============================================================================
