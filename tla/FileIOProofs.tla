----------------------------- MODULE FileIOProofs -----------------------------
(***************************************************************************)
(* What the file bridge promises for any number of threads, files and      *)
(* blocks: reads that no write comes between, sizes that were true, and    *)
(* data that survives a loss of power.                                     *)
(***************************************************************************)
EXTENDS Durability, TLAPS

(* A thread inside a transfer or a sync holds the mutex. *)
Holding == {"preading", "pwriting", "syncing"}
Holder == \A t \in Threads : at[t] \in Holding => mutex = t

(* The present length is among those a measuring call may answer. *)
LensCurrent == \A t \in Threads : Measuring(t) => len[File(t)] \in lens[t]

(* Only a transfer in progress has transferred anything. *)
Fresh == \A t \in Threads : at[t] \notin {"preading", "pwriting"} => done[t] = 0

(* What a pread will still find is what was there when it got the mutex:   *)
(* until it ends the file may only become shorter.                         *)
Ahead ==
  \A t \in Threads : at[t] = "preading" =>
    \A b \in Page : b <= len[File(t)] => mem[File(t)][b] = seen[t][b]

IInv == TypeOK /\ Holder /\ Fresh /\ Ahead /\ ReadIsSnapshot /\ LensCurrent /\ SizeWasTrue

LEMMA FileTyped == TypeOK => \A t \in Threads : File(t) \in Files
BY FileIOAssumption, Zenon DEF TypeOK, File

LEMMA ZeroTyped == Zero \in [Page -> Nat] /\ \A b \in Page : Zero[b] = 0
BY DEF Zero

(* Every step of a thread, and every call, keeps the types. *)
LEMMA TypeStep ==
  ASSUME TypeOK, NEW t \in Threads,
         Step(t) \/ \E d \in Fds, op \in Imports : Call(t, d, op)
  PROVE  TypeOK'
<1> USE FileIOAssumption
<1>1. ASSUME NEW d \in Fds, NEW op \in Imports, Call(t, d, op) PROVE TypeOK'
  <2>1. UNCHANGED <<mutex, table, done, buf, seen, mem, len, cursor, writes>>
    BY <1>1, Zenon DEF Call, Goes
  <2>2. at' \in [Threads -> Places]
    BY <1>1, Zenon DEF Call, Goes, TypeOK, Places, Imports
  <2>3. fd' \in [Threads -> Fds]
    BY <1>1, Zenon DEF Call, Goes, TypeOK
  <2>4. pos' \in [Threads -> Failed..Blocks] /\ size' \in [Threads -> Failed..Blocks]
    BY <1>1 DEF Call, Goes, TypeOK, Failed
  <2>5. lens' \in [Threads -> SUBSET (0..Blocks)]
    BY <1>1 DEF Call, Goes, TypeOK
  <2>6. calls' \in 0..MaxCalls
    BY <1>1 DEF Call, Goes, TypeOK
  <2>7. QED BY <2>1, <2>2, <2>3, <2>4, <2>5, <2>6, Zenon DEF TypeOK
<1>2. ASSUME NEW n \in 0..Blocks, Truncate(t, n) PROVE TypeOK'
  <2>1. UNCHANGED <<mutex, table, fd, done, buf, seen, pos, size, cursor, calls>>
    BY <1>2, Zenon DEF Truncate, SetsLen, Goes, Page
  <2>2. at' \in [Threads -> Places]
    BY <1>2, Zenon DEF Truncate, SetsLen, Goes, Page, TypeOK, Places, Imports
  <2>3. mem' \in [Files -> [Page -> Nat]]
    <3>1. writes' \in Nat BY <1>2 DEF Truncate, TypeOK
    <3>2. mem[File(t)] \in [Page -> Nat] BY FileTyped, Zenon DEF TypeOK
    <3>3. [b \in Page |-> IF b > n THEN writes' ELSE mem[File(t)][b]] \in [Page -> Nat]
      BY <3>1, <3>2, Zenon
    <3>4. QED BY <1>2, <3>3, Zenon DEF Truncate, TypeOK
  <2>4. len' \in [Files -> 0..Blocks]
    BY <1>2, Zenon DEF Truncate, SetsLen, Goes, Page, TypeOK
  <2>5. lens' \in [Threads -> SUBSET (0..Blocks)]
    BY <1>2, Zenon DEF Truncate, SetsLen, Goes, Page, TypeOK
  <2>6. writes' \in Nat
    BY <1>2 DEF Truncate, SetsLen, Goes, Page, TypeOK
  <2>7. QED BY <2>1, <2>2, <2>3, <2>4, <2>5, <2>6, Zenon DEF TypeOK
<1>3. CASE OpenFile(t) \/ OpenResolves(t) \/ OpenFails(t) \/ TruncateFails(t)
  <2>1. UNCHANGED <<mutex, table, fd, done, buf, seen, pos, size, mem, len, cursor, lens, calls, writes>>
    BY <1>3, Zenon DEF OpenFile, OpenResolves, OpenFails, TruncateFails, Goes
  <2>2. at' \in [Threads -> Places]
    BY <1>3, Zenon DEF OpenFile, OpenResolves, OpenFails, TruncateFails, Goes, TypeOK, Places, Imports
  <2>3. QED BY <2>1, <2>2, Zenon DEF TypeOK
<1>4. CASE OpenInsert(t)
  <2>1. UNCHANGED <<mutex, fd, done, buf, seen, pos, size, mem, len, cursor, lens, calls, writes>>
    BY <1>4, Zenon DEF OpenInsert, Goes
  <2>2. at' \in [Threads -> Places]
    BY <1>4, Zenon DEF OpenInsert, Goes, TypeOK, Places, Imports
  <2>3. table' \in [Fds -> {"new", "open", "closed"}]
    BY <1>4, Zenon DEF OpenInsert, Goes, TypeOK
  <2>4. QED BY <2>1, <2>2, <2>3, Zenon DEF TypeOK
<1>5. CASE Close(t)
  <2>1. UNCHANGED <<mutex, fd, done, buf, seen, pos, size, mem, len, cursor, lens, calls, writes>>
    BY <1>5, Zenon DEF Close, Goes, IsOpen
  <2>2. at' \in [Threads -> Places]
    BY <1>5, Zenon DEF Close, Goes, IsOpen, TypeOK, Places, Imports
  <2>3. table' \in [Fds -> {"new", "open", "closed"}]
    BY <1>5, Zenon DEF Close, Goes, IsOpen, TypeOK
  <2>4. QED BY <2>1, <2>2, <2>3, Zenon DEF TypeOK
<1>6. CASE BadDescriptor(t)
  <2>1. UNCHANGED <<mutex, table, fd, done, buf, seen, pos, size, mem, len, cursor, lens, calls, writes>>
    BY <1>6, Zenon DEF BadDescriptor, Goes, IsOpen
  <2>2. at' \in [Threads -> Places]
    BY <1>6, Zenon DEF BadDescriptor, Goes, IsOpen, TypeOK, Places, Imports
  <2>3. QED BY <2>1, <2>2, Zenon DEF TypeOK
<1>7. CASE PreadStarts(t)
  <2>1. UNCHANGED <<table, fd, done, buf, pos, size, mem, len, cursor, lens, calls, writes>>
    BY <1>7, Zenon DEF PreadStarts, Locks, Goes
  <2>2. at' \in [Threads -> Places]
    BY <1>7, Zenon DEF PreadStarts, Locks, Goes, TypeOK, Places, Imports
  <2>3. mutex' \in Threads \cup {Free}
    BY <1>7, Zenon DEF PreadStarts, Locks, Goes, TypeOK
  <2>4. seen' \in [Threads -> [Page -> Nat]]
    BY <1>7, FileTyped, Zenon DEF PreadStarts, Locks, Goes, TypeOK
  <2>5. QED BY <2>1, <2>2, <2>3, <2>4, Zenon DEF TypeOK
<1>8. CASE PreadBlock(t)
  <2>1. UNCHANGED <<mutex, table, at, fd, seen, pos, size, mem, len, cursor, lens, calls, writes>>
    BY <1>8, Zenon DEF PreadBlock, Page
  <2>2. /\ done[t] + 1 \in 1..Blocks
        /\ done' = [done EXCEPT ![t] = done[t] + 1]
        /\ buf' = [buf EXCEPT ![t] = [buf[t] EXCEPT ![done[t] + 1] = mem[File(t)][done[t] + 1]]]
    <3>1. File(t) \in Files BY FileTyped
    <3>2. done[t] \in 0..Blocks /\ len[File(t)] \in 0..Blocks BY <3>1 DEF TypeOK
    <3>3. QED BY <1>8, <3>2 DEF PreadBlock
  <2>3. mem[File(t)][done[t] + 1] \in Nat
    <3>1. mem[File(t)] \in [1..Blocks -> Nat] BY FileTyped, Zenon DEF TypeOK, Page
    <3>2. QED BY <2>2, <3>1, Zenon
  <2>4. [buf[t] EXCEPT ![done[t] + 1] = mem[File(t)][done[t] + 1]] \in [Page -> Nat]
    BY <2>2, <2>3, Zenon DEF TypeOK, Page
  <2>5. buf' \in [Threads -> [Page -> Nat]] /\ done' \in [Threads -> 0..Blocks]
    BY <2>2, <2>4 DEF TypeOK
  <2>6. QED BY <2>1, <2>5, Zenon DEF TypeOK
<1>9. CASE PwriteStarts(t)
  <2>1. UNCHANGED <<table, fd, done, buf, seen, pos, size, mem, len, cursor, lens, calls, writes>>
    BY <1>9, Zenon DEF PwriteStarts, Locks, Goes
  <2>2. at' \in [Threads -> Places]
    BY <1>9, Zenon DEF PwriteStarts, Locks, Goes, TypeOK, Places, Imports
  <2>3. mutex' \in Threads \cup {Free}
    BY <1>9, Zenon DEF PwriteStarts, Locks, Goes, TypeOK
  <2>4. QED BY <2>1, <2>2, <2>3, Zenon DEF TypeOK
<1>10. CASE PwriteBlock(t)
  <2>1. UNCHANGED <<mutex, table, at, fd, buf, seen, pos, size, cursor, calls>>
    BY <1>10, Zenon DEF PwriteBlock, SetsLen, Page
  <2> DEFINE n == IF done[t] + 1 > len[File(t)] THEN done[t] + 1 ELSE len[File(t)]
  <2>7. File(t) \in Files /\ len[File(t)] \in 0..Blocks BY FileTyped DEF TypeOK
  <2>2. /\ done[t] + 1 \in 1..Blocks /\ n \in 0..Blocks /\ writes' \in Nat
        /\ done' = [done EXCEPT ![t] = done[t] + 1]
        /\ mem' = [mem EXCEPT ![File(t)] = [mem[File(t)] EXCEPT ![done[t] + 1] = writes']]
        /\ len' = [len EXCEPT ![File(t)] = n]
        /\ lens' = [u \in Threads |-> IF File(u) = File(t) /\ Measuring(u)
                                      THEN lens[u] \cup {n} ELSE lens[u]]
    BY <1>10, <2>7 DEF PwriteBlock, SetsLen, TypeOK, Page
  <2> HIDE DEF n
  <2>3. [mem[File(t)] EXCEPT ![done[t] + 1] = writes'] \in [Page -> Nat]
    BY <2>2, <2>7, Zenon DEF TypeOK, Page
  <2>8. done' \in [Threads -> 0..Blocks]
    BY <2>2 DEF TypeOK
  <2>4. mem' \in [Files -> [Page -> Nat]] /\ done' \in [Threads -> 0..Blocks]
    BY <2>2, <2>3, <2>8, Zenon DEF TypeOK
  <2>5. len' \in [Files -> 0..Blocks] /\ lens' \in [Threads -> SUBSET (0..Blocks)]
    BY <2>2, Zenon DEF TypeOK
  <2>6. QED BY <2>1, <2>2, <2>4, <2>5, Zenon DEF TypeOK
<1>11. CASE TransferEnds(t)
  <2>1. UNCHANGED <<table, fd, pos, size, mem, len, lens, calls, writes>>
    BY <1>11, Zenon DEF TransferEnds, Unlocks, Goes
  <2>2. at' \in [Threads -> Places]
    BY <1>11, Zenon DEF TransferEnds, Unlocks, Goes, TypeOK, Places, Imports
  <2>3. mutex' \in Threads \cup {Free}
    BY <1>11, Zenon DEF TransferEnds, Unlocks, Goes, TypeOK
  <2>4. cursor' \in [Fds -> 0..Blocks]
    BY <1>11, Zenon DEF TransferEnds, Unlocks, Goes, TypeOK
  <2>5. done' \in [Threads -> 0..Blocks]
    BY <1>11 DEF TransferEnds, TypeOK
  <2>6. buf' \in [Threads -> [Page -> Nat]] /\ seen' \in [Threads -> [Page -> Nat]]
    BY <1>11, ZeroTyped, Zenon DEF TransferEnds, TypeOK
  <2>7. QED BY <2>1, <2>2, <2>3, <2>4, <2>5, <2>6, Zenon DEF TypeOK
<1>12. CASE SyncStarts(t)
  <2>1. UNCHANGED <<table, fd, done, buf, seen, pos, size, mem, len, cursor, lens, calls, writes>>
    BY <1>12, Zenon DEF SyncStarts, Locks, Goes
  <2>2. at' \in [Threads -> Places]
    BY <1>12, Zenon DEF SyncStarts, Locks, Goes, TypeOK, Places, Imports
  <2>3. mutex' \in Threads \cup {Free}
    BY <1>12, Zenon DEF SyncStarts, Locks, Goes, TypeOK
  <2>4. QED BY <2>1, <2>2, <2>3, Zenon DEF TypeOK
<1>13. CASE SyncEnds(t)
  <2>1. UNCHANGED <<table, fd, done, buf, seen, pos, size, mem, len, cursor, lens, calls, writes>>
    BY <1>13, Zenon DEF SyncEnds, Unlocks, Goes
  <2>2. at' \in [Threads -> Places]
    BY <1>13, Zenon DEF SyncEnds, Unlocks, Goes, TypeOK, Places, Imports
  <2>3. mutex' \in Threads \cup {Free}
    BY <1>13, Zenon DEF SyncEnds, Unlocks, Goes, TypeOK
  <2>4. QED BY <2>1, <2>2, <2>3, Zenon DEF TypeOK
<1>14. CASE ParentResolves(t)
  <2>1. UNCHANGED <<mutex, table, fd, done, buf, seen, pos, size, mem, len, cursor, lens, calls, writes>>
    BY <1>14, Zenon DEF ParentResolves, Goes
  <2>2. at' \in [Threads -> Places]
    BY <1>14, Zenon DEF ParentResolves, Goes, TypeOK, Places, Imports
  <2>3. QED BY <2>1, <2>2, Zenon DEF TypeOK
<1>15. CASE ParentAllowed(t)
  <2>1. UNCHANGED <<mutex, table, fd, done, buf, seen, pos, size, mem, len, cursor, lens, calls, writes>>
    BY <1>15, Zenon DEF ParentAllowed, Goes
  <2>2. at' \in [Threads -> Places]
    BY <1>15, Zenon DEF ParentAllowed, Goes, TypeOK, Places, Imports
  <2>3. QED BY <2>1, <2>2, Zenon DEF TypeOK
<1>16. CASE ParentEnds(t)
  <2>1. UNCHANGED <<mutex, table, fd, done, buf, seen, pos, size, mem, len, cursor, lens, calls, writes>>
    BY <1>16, Zenon DEF ParentEnds, Goes
  <2>2. at' \in [Threads -> Places]
    BY <1>16, Zenon DEF ParentEnds, Goes, TypeOK, Places, Imports
  <2>3. QED BY <2>1, <2>2, Zenon DEF TypeOK
<1>17. CASE ParentRefused(t)
  <2>1. UNCHANGED <<mutex, table, fd, done, buf, seen, pos, size, mem, len, cursor, lens, calls, writes>>
    BY <1>17, Zenon DEF ParentRefused, Goes
  <2>2. at' \in [Threads -> Places]
    BY <1>17, Zenon DEF ParentRefused, Goes, TypeOK, Places, Imports
  <2>3. QED BY <2>1, <2>2, Zenon DEF TypeOK
<1>18. CASE SizeCur(t)
  <2>1. UNCHANGED <<mutex, table, fd, done, buf, seen, size, mem, len, cursor, lens, calls, writes>>
    BY <1>18, Zenon DEF SizeCur, Failed, Goes, IsOpen
  <2>2. at' \in [Threads -> Places]
    BY <1>18, Zenon DEF SizeCur, Failed, Goes, IsOpen, TypeOK, Places, Imports
  <2>3. pos' \in [Threads -> Failed..Blocks]
    BY <1>18 DEF SizeCur, Failed, Goes, IsOpen, TypeOK
  <2>4. QED BY <2>1, <2>2, <2>3, Zenon DEF TypeOK
<1>19. CASE SizeEnd(t)
  <2>1. UNCHANGED <<mutex, table, fd, done, buf, seen, pos, mem, len, lens, calls, writes>>
    BY <1>19, Zenon DEF SizeEnd, Failed, Goes, IsOpen
  <2>2. at' \in [Threads -> Places]
    BY <1>19, Zenon DEF SizeEnd, Failed, Goes, IsOpen, TypeOK, Places, Imports
  <2>3. size' \in [Threads -> Failed..Blocks]
    <3>1. len[File(t)] \in 0..Blocks BY FileTyped, Zenon DEF TypeOK
    <3>2. len[File(t)] \in Failed..Blocks /\ Failed \in Failed..Blocks BY <3>1 DEF Failed
    <3>3. QED BY <1>19, <3>2, Zenon DEF SizeEnd, TypeOK
  <2>4. cursor' \in [Fds -> 0..Blocks]
    BY <1>19, FileTyped, Zenon DEF SizeEnd, Failed, Goes, IsOpen, TypeOK
  <2>5. QED BY <2>1, <2>2, <2>3, <2>4, Zenon DEF TypeOK
<1>20. CASE SizeSet(t)
  <2>1. UNCHANGED <<mutex, table, fd, done, buf, seen, pos, size, mem, len, lens, calls, writes>>
    BY <1>20, Zenon DEF SizeSet, Restored, Failed, Goes, IsOpen
  <2>2. at' \in [Threads -> Places]
    BY <1>20, Zenon DEF SizeSet, Restored, Failed, Goes, IsOpen, TypeOK, Places, Imports
  <2>3. cursor' \in [Fds -> 0..Blocks]
    BY <1>20 DEF SizeSet, Restored, Failed, Goes, IsOpen, TypeOK
  <2>4. QED BY <2>1, <2>2, <2>3, Zenon DEF TypeOK
<1>21. CASE OpenTruncates(t)
  <2>1. UNCHANGED <<mutex, table, fd, done, buf, seen, pos, size, cursor, calls>>
    BY <1>21, Zenon DEF OpenTruncates
  <2>2. at' \in [Threads -> Places]
    BY <1>21, Zenon DEF OpenTruncates, Goes, TypeOK, Places, Imports
  <2>3. writes' \in Nat
    BY <1>21 DEF OpenTruncates, TypeOK
  <2>4. mem' \in [Files -> [Page -> Nat]]
    BY <1>21, <2>3, Zenon DEF OpenTruncates, TypeOK
  <2>5. 0 \in 0..Blocks OBVIOUS
  <2>6. len' \in [Files -> 0..Blocks] /\ lens' \in [Threads -> SUBSET (0..Blocks)]
    BY <1>21, <2>5, Zenon DEF OpenTruncates, SetsLen, TypeOK
  <2>7. QED BY <2>1, <2>2, <2>3, <2>4, <2>6, Zenon DEF TypeOK
<1>22. QED
  BY <1>1, <1>2, <1>3, <1>4, <1>5, <1>6, <1>7, <1>8, <1>9, <1>10, <1>11, <1>12, <1>13, <1>14, <1>15, <1>16, <1>17, <1>18, <1>19, <1>20, <1>21, Zenon DEF Step

(* A step that changes neither contents nor measurements, and moves only   *)
(* its own thread, out of the mutex if it was in it.                       *)
LEMMA QuietStep ==
  ASSUME IInv, TypeOK', NEW t \in Threads, NEW to \in Places \ Holding,
         at' = [at EXCEPT ![t] = to],
         UNCHANGED <<fd, size, mem, len, lens>>, done'[t] = 0,
         \A u \in Threads \ {t} : done'[u] = done[u] /\ buf'[u] = buf[u] /\ seen'[u] = seen[u],
         mutex' = mutex \/ mutex = t,
         to \in {"size_end", "idle", "opening", "insert", "resolved", "dirsync"},
         to = "size_end" => at[t] = "size",
         to # "size_end" => at[t] \notin {"size", "size_end"}
  PROVE  IInv'
<1>1. at'[t] = to /\ \A u \in Threads \ {t} : at'[u] = at[u]
  BY Zenon DEF IInv, TypeOK
<1>2. Holder' BY <1>1, FileIOAssumption, Zenon DEF IInv, Holder, Holding
<1>9. ASSUME NEW u \in Threads, at'[u] = "preading"
      PROVE  /\ at[u] = "preading" /\ File(u)' = File(u)
             /\ done'[u] = done[u] /\ buf'[u] = buf[u] /\ seen'[u] = seen[u]
  BY <1>1, <1>9, Zenon DEF Holding, File
<1>3. ReadIsSnapshot' BY <1>9 DEF IInv, ReadIsSnapshot
<1>4. Ahead' BY <1>9, ZenonT(40) DEF IInv, Ahead
<1>5. LensCurrent' BY <1>1, Zenon DEF IInv, LensCurrent, Measuring, File
<1>6. SizeWasTrue' BY <1>1, Zenon DEF IInv, SizeWasTrue
<1>7. Fresh' BY <1>1, Zenon DEF IInv, Fresh
<1>8. QED BY <1>2, <1>3, <1>4, <1>5, <1>6, <1>7, Zenon DEF IInv

(* A step that takes the mutex for a transfer or a sync. *)
LEMMA LockStep ==
  ASSUME IInv, TypeOK', NEW t \in Threads, NEW to \in Holding,
         at' = [at EXCEPT ![t] = to], mutex = Free, mutex' = t,
         at[t] \in {"pread", "pwrite", "sync"},
         to = "preading" => seen'[t] = mem[File(t)],
         UNCHANGED <<fd, done, buf, size, mem, len, lens>>
  PROVE  IInv'
<1>1. at'[t] = to /\ \A u \in Threads \ {t} : at'[u] = at[u]
  BY Zenon DEF IInv, TypeOK
<1>2. \A u \in Threads : at[u] \notin Holding
  BY FileIOAssumption, Zenon DEF IInv, Holder, Holding
<1>3. \A u \in Threads \ {t} : at'[u] \notin Holding BY <1>1, <1>2, Zenon
<1>4. done'[t] = 0 BY Zenon DEF IInv, Fresh
<1>5. Holder' BY <1>3, Zenon DEF Holder
<1>6. ReadIsSnapshot' BY <1>3, <1>4 DEF ReadIsSnapshot, Holding
<1>7. Ahead' BY <1>1, <1>3, Zenon DEF Ahead, File, Holding
<1>8. LensCurrent' BY <1>1, Zenon DEF IInv, LensCurrent, Measuring, Holding, File
<1>9. SizeWasTrue' BY <1>1, Zenon DEF IInv, SizeWasTrue
<1>10. Fresh' BY <1>1, <1>4, Zenon DEF IInv, Fresh, Holding
<1>11. QED BY <1>5, <1>6, <1>7, <1>8, <1>9, <1>10, Zenon DEF IInv

LEMMA InitHolds == Init => IInv
<1> SUFFICES ASSUME Init PROVE IInv
  OBVIOUS
<1>1. (CHOOSE d \in Fds : TRUE) \in Fds BY FileIOAssumption, Zenon
<1>2. /\ fd \in [Threads -> Fds] /\ buf \in [Threads -> [Page -> Nat]]
      /\ seen \in [Threads -> [Page -> Nat]] /\ mem \in [Files -> [Page -> Nat]]
  BY <1>1, ZeroTyped, Zenon DEF Init
<1>3. TypeOK
  <2>1. /\ pos \in [Threads -> Failed..Blocks] /\ size \in [Threads -> Failed..Blocks]
        /\ done \in [Threads -> 0..Blocks] /\ len \in [Files -> 0..Blocks]
        /\ cursor \in [Fds -> 0..Blocks] /\ calls \in 0..MaxCalls /\ writes \in Nat
    BY FileIOAssumption DEF Init, Failed
  <2>2. QED BY <1>2, <2>1, Zenon DEF Init, TypeOK, Places, Imports
<1>4. QED
  BY <1>3, Zenon DEF Init, IInv, Holder, Holding, Fresh, Ahead, ReadIsSnapshot, LensCurrent,
              SizeWasTrue, Measuring

(* pwrite, truncate and O_TRUNC change a file, and record the new length   *)
(* for those who measure it.  The first two have the mutex; O_TRUNC leaves *)
(* nothing for a pread to find.                                            *)
LEMMA ChangeStep ==
  ASSUME IInv, TypeOK', NEW t \in Threads, NEW f \in Files, NEW n \in 0..Blocks,
         n = 0 \/ \A u \in Threads : at[u] # "preading",
         NEW to \in {"pwriting", "insert", "idle"},
         to = "pwriting" => at[t] = "pwriting", at[t] # "preading", ~Measuring(t),
         at' = [at EXCEPT ![t] = to], mutex' = mutex,
         \A u \in Threads \ {t} : done'[u] = done[u],
         to = "pwriting" \/ done'[t] = 0,
         \A g \in Files \ {f} : mem'[g] = mem[g],
         SetsLen(f, n), UNCHANGED <<fd, buf, seen, size>>
  PROVE  IInv'
<1>1. at'[t] = to /\ to # "preading" /\ \A u \in Threads \ {t} : at'[u] = at[u]
  BY Zenon DEF IInv, TypeOK
<1>2. Holder' BY <1>1, Zenon DEF IInv, Holder, Holding
<1>3. ReadIsSnapshot' BY <1>1, Zenon DEF IInv, ReadIsSnapshot
<1>4. \A u \in Threads : Measuring(u)' => Measuring(u)
  BY <1>1, Zenon DEF Measuring
<1>5. /\ len' = [len EXCEPT ![f] = n]
      /\ \A u \in Threads : lens'[u] = IF File(u) = f /\ Measuring(u)
                                       THEN lens[u] \cup {n} ELSE lens[u]
  BY Zenon DEF SetsLen
<1>6. \A u \in Threads : File(u)' = File(u) /\ File(u) \in Files
  BY FileTyped, Zenon DEF File, IInv
<1>7. /\ len'[f] = n /\ \A g \in Files \ {f} : len'[g] = len[g]
  BY <1>5, Zenon DEF IInv, TypeOK
<1>8. Ahead'
  <2> SUFFICES ASSUME NEW u \in Threads, at'[u] = "preading", NEW b \in Page,
                      b <= len'[File(u)]
               PROVE  mem'[File(u)][b] = seen[u][b]
    BY <1>6, ZenonT(40) DEF Ahead
  <2>1. at[u] = "preading" BY <1>1, Zenon
  <2>2. File(u) # f
    <3>1. n = 0 BY <2>1, Zenon
    <3>2. ~(b <= n) BY <3>1 DEF Page
    <3>3. QED BY <1>7, <3>2, Zenon
  <2>3. QED BY <2>1, <2>2, <1>6, <1>7, Zenon DEF IInv, Ahead
<1>9. LensCurrent'
  <2> SUFFICES ASSUME NEW u \in Threads, Measuring(u)' PROVE len'[File(u)] \in lens'[u]
    BY <1>6, Zenon DEF LensCurrent
  <2>1. Measuring(u) /\ len[File(u)] \in lens[u] BY <1>4, Zenon DEF IInv, LensCurrent
  <2>2. CASE File(u) = f BY <1>5, <1>7, <2>1, <2>2, ZenonT(40)
  <2>3. CASE File(u) # f BY <1>5, <1>6, <1>7, <2>1, <2>3, Zenon
  <2>4. QED BY <2>2, <2>3, Zenon
<1>10. SizeWasTrue'
  BY <1>1, <1>5, Zenon DEF IInv, SizeWasTrue, Measuring
<1>11. Fresh' BY <1>1, Zenon DEF IInv, Fresh
<1>12. QED BY <1>2, <1>3, <1>8, <1>9, <1>10, <1>11, Zenon DEF IInv

LEMMA StepHolds ==
  ASSUME IInv, NEW t \in Threads,
         Step(t) \/ \E d \in Fds, op \in Imports : Call(t, d, op)
  PROVE  IInv'
<1>1. TypeOK' BY TypeStep, Zenon DEF IInv
<1>2. {"opening", "insert", "idle", "resolved", "dirsync", "size_end"} \subseteq Places \ Holding
  BY Zenon DEF Places, Holding
<1>3. CASE OpenResolves(t)
  <2>1. /\ at' = [at EXCEPT ![t] = "opening"] /\ (mutex' = mutex \/ mutex = t)
        /\ UNCHANGED <<fd, done, buf, seen, size, mem, len, lens>>
        /\ at[t] \notin {"size", "size_end"} /\ at[t] \notin {"preading", "pwriting"}
    BY <1>3, Zenon DEF OpenResolves, Goes
  <2>2. done'[t] = 0 BY <2>1, Zenon DEF IInv, Fresh
  <2>3. QED BY <1>1, <1>2, <2>1, <2>2, QuietStep, Zenon
<1>4. CASE OpenFile(t)
  <2>1. /\ at' = [at EXCEPT ![t] = "insert"] /\ (mutex' = mutex \/ mutex = t)
        /\ UNCHANGED <<fd, done, buf, seen, size, mem, len, lens>>
        /\ at[t] \notin {"size", "size_end"} /\ at[t] \notin {"preading", "pwriting"}
    BY <1>4, Zenon DEF OpenFile, Goes
  <2>2. done'[t] = 0 BY <2>1, Zenon DEF IInv, Fresh
  <2>3. QED BY <1>1, <1>2, <2>1, <2>2, QuietStep, Zenon
<1>5. CASE OpenFails(t) \/ OpenInsert(t) \/ Close(t) \/ TruncateFails(t)
  <2>1. /\ at' = [at EXCEPT ![t] = "idle"] /\ (mutex' = mutex \/ mutex = t)
        /\ UNCHANGED <<fd, done, buf, seen, size, mem, len, lens>>
        /\ at[t] \notin {"size", "size_end"} /\ at[t] \notin {"preading", "pwriting"}
    BY <1>5, Zenon DEF OpenFails, OpenInsert, Close, TruncateFails, Goes
  <2>2. done'[t] = 0 BY <2>1, Zenon DEF IInv, Fresh
  <2>3. QED BY <1>1, <1>2, <2>1, <2>2, QuietStep, Zenon
<1>6. CASE BadDescriptor(t)
  <2>1. /\ at' = [at EXCEPT ![t] = "idle"] /\ (mutex' = mutex \/ mutex = t)
        /\ UNCHANGED <<fd, done, buf, seen, size, mem, len, lens>>
        /\ at[t] \notin {"size", "size_end"} /\ at[t] \notin {"preading", "pwriting"}
    BY <1>6, Zenon DEF BadDescriptor, Goes
  <2>2. done'[t] = 0 BY <2>1, Zenon DEF IInv, Fresh
  <2>3. QED BY <1>1, <1>2, <2>1, <2>2, QuietStep, Zenon
<1>7. CASE ParentEnds(t) \/ ParentRefused(t) \/ SizeSet(t)
  <2>1. /\ at' = [at EXCEPT ![t] = "idle"] /\ (mutex' = mutex \/ mutex = t)
        /\ UNCHANGED <<fd, done, buf, seen, size, mem, len, lens>>
        /\ at[t] \notin {"size", "size_end"} /\ at[t] \notin {"preading", "pwriting"}
    BY <1>7, Zenon DEF ParentEnds, ParentRefused, SizeSet, Goes
  <2>2. done'[t] = 0 BY <2>1, Zenon DEF IInv, Fresh
  <2>3. QED BY <1>1, <1>2, <2>1, <2>2, QuietStep, Zenon
<1>8. CASE SyncEnds(t)
  <2>1. /\ at' = [at EXCEPT ![t] = "idle"] /\ (mutex' = mutex \/ mutex = t)
        /\ UNCHANGED <<fd, done, buf, seen, size, mem, len, lens>>
        /\ at[t] \notin {"size", "size_end"} /\ at[t] \notin {"preading", "pwriting"}
    BY <1>8, Zenon DEF SyncEnds, Goes, IInv, Unlocks, Holder, Holding
  <2>2. done'[t] = 0 BY <2>1, Zenon DEF IInv, Fresh
  <2>3. QED BY <1>1, <1>2, <2>1, <2>2, QuietStep, Zenon
<1>9. CASE ParentResolves(t)
  <2>1. /\ at' = [at EXCEPT ![t] = "resolved"] /\ (mutex' = mutex \/ mutex = t)
        /\ UNCHANGED <<fd, done, buf, seen, size, mem, len, lens>>
        /\ at[t] \notin {"size", "size_end"} /\ at[t] \notin {"preading", "pwriting"}
    BY <1>9, Zenon DEF ParentResolves, Goes
  <2>2. done'[t] = 0 BY <2>1, Zenon DEF IInv, Fresh
  <2>3. QED BY <1>1, <1>2, <2>1, <2>2, QuietStep, Zenon
<1>10. CASE ParentAllowed(t)
  <2>1. /\ at' = [at EXCEPT ![t] = "dirsync"] /\ (mutex' = mutex \/ mutex = t)
        /\ UNCHANGED <<fd, done, buf, seen, size, mem, len, lens>>
        /\ at[t] \notin {"size", "size_end"} /\ at[t] \notin {"preading", "pwriting"}
    BY <1>10, Zenon DEF ParentAllowed, Goes
  <2>2. done'[t] = 0 BY <2>1, Zenon DEF IInv, Fresh
  <2>3. QED BY <1>1, <1>2, <2>1, <2>2, QuietStep, Zenon
<1>11. CASE SizeCur(t)
  <2>1. /\ at' = [at EXCEPT ![t] = "size_end"] /\ (mutex' = mutex \/ mutex = t)
        /\ UNCHANGED <<fd, done, buf, seen, size, mem, len, lens>>
        /\ at[t] = "size" /\ at[t] \notin {"preading", "pwriting"}
    BY <1>11, Zenon DEF SizeCur, Goes
  <2>2. done'[t] = 0 BY <2>1, Zenon DEF IInv, Fresh
  <2>3. QED BY <1>1, <1>2, <2>1, <2>2, QuietStep, Zenon
<1>12. CASE TransferEnds(t)
  <2>1. /\ at' = [at EXCEPT ![t] = "idle"] /\ (mutex' = mutex \/ mutex = t)
        /\ UNCHANGED <<fd, size, mem, len, lens>> /\ at[t] \notin {"size", "size_end"}
        /\ done'[t] = 0
        /\ \A u \in Threads \ {t} : done'[u] = done[u] /\ buf'[u] = buf[u] /\ seen'[u] = seen[u]
    BY <1>12, Zenon DEF TransferEnds, Goes, IInv, TypeOK, Unlocks, Holder, Holding
  <2>2. QED BY <1>1, <1>2, <2>1, QuietStep, Zenon
<1>13. CASE PreadStarts(t)
  <2>1. /\ at[t] = "pread" /\ at' = [at EXCEPT ![t] = "preading"] /\ mutex = Free /\ mutex' = t
        /\ UNCHANGED <<fd, done, buf, size, mem, len, lens>>
    BY <1>13, Zenon DEF PreadStarts, Goes, Locks
  <2>2. "preading" \in Holding /\ seen'[t] = mem[File(t)]
    BY <1>13, Zenon DEF Holding, PreadStarts, IInv, TypeOK
  <2>3. QED BY <1>1, <2>1, <2>2, LockStep, Zenon
<1>14. CASE PwriteStarts(t)
  <2>1. /\ at[t] = "pwrite" /\ at' = [at EXCEPT ![t] = "pwriting"] /\ mutex = Free /\ mutex' = t
        /\ UNCHANGED <<fd, done, buf, size, mem, len, lens>>
    BY <1>14, Zenon DEF PwriteStarts, Goes, Locks
  <2>2. "pwriting" \in Holding
    BY <1>14, Zenon DEF Holding
  <2>3. QED BY <1>1, <2>1, <2>2, LockStep, Zenon
<1>15. CASE SyncStarts(t)
  <2>1. /\ at[t] = "sync" /\ at' = [at EXCEPT ![t] = "syncing"] /\ mutex = Free /\ mutex' = t
        /\ UNCHANGED <<fd, done, buf, size, mem, len, lens>>
    BY <1>15, Zenon DEF SyncStarts, Goes, Locks
  <2>2. "syncing" \in Holding
    BY <1>15, Zenon DEF Holding
  <2>3. QED BY <1>1, <2>1, <2>2, LockStep, Zenon
<1>16. CASE PreadBlock(t)
  <2>1. /\ at[t] = "preading" /\ done[t] < len[File(t)]
        /\ done' = [done EXCEPT ![t] = done[t] + 1]
        /\ buf' = [buf EXCEPT ![t] = [buf[t] EXCEPT ![done[t] + 1] = mem[File(t)][done[t] + 1]]]
        /\ UNCHANGED <<mutex, at, fd, seen, size, mem, len, lens>>
    BY <1>16, Zenon DEF PreadBlock
  <2>2. /\ buf[t] \in [Page -> Nat] /\ done[t] \in Nat
        /\ done[t] + 1 \in Page /\ done[t] + 1 <= len[File(t)] /\ done'[t] = done[t] + 1
        /\ \A u \in Threads \ {t} : done'[u] = done[u]
    <3>1. buf[t] \in [Page -> Nat] /\ done[t] \in Nat /\ len[File(t)] \in 0..Blocks
      BY FileTyped DEF IInv, TypeOK
    <3>2. done[t] + 1 \in Page /\ done[t] + 1 <= len[File(t)]
      BY <2>1, <3>1, FileIOAssumption DEF Page
    <3>3. QED BY <2>1, <3>1, <3>2, Zenon DEF IInv, TypeOK
  <2>3. /\ buf'[t] = [buf[t] EXCEPT ![done[t] + 1] = mem[File(t)][done[t] + 1]]
        /\ \A u \in Threads \ {t} : buf'[u] = buf[u]
    BY <2>1, Zenon DEF IInv, TypeOK
  <2>4. ReadIsSnapshot'
    <3>1. \A b \in 1..done'[t] : buf'[t][b] = seen[t][b]
      <4> TAKE b \in 1..done'[t]
      <4>1. CASE b = done[t] + 1
        <5>1. buf'[t][b] = mem[File(t)][b] BY <2>2, <2>3, <4>1, Zenon
        <5>2. mem[File(t)][b] = seen[t][b] BY <2>1, <2>2, <4>1, Zenon DEF IInv, Ahead
        <5>3. QED BY <5>1, <5>2
      <4>2. CASE b \in 1..done[t]
        BY <2>1, <2>2, <2>3, <4>2, FileIOAssumption DEF IInv, ReadIsSnapshot, Page
      <4>3. QED BY <2>2, <4>1, <4>2
    <3>2. ASSUME NEW u \in Threads \ {t}, at[u] = "preading"
          PROVE  \A b \in 1..done'[u] : buf'[u][b] = seen[u][b]
      <4>1. done'[u] = done[u] /\ buf'[u] = buf[u] BY <2>2, <2>3, Zenon
      <4>2. QED BY <3>2, <4>1, Zenon DEF IInv, ReadIsSnapshot
    <3>4. seen' = seen /\ at' = at BY <2>1, Zenon
    <3>3. QED BY <3>1, <3>2, <3>4, Zenon DEF ReadIsSnapshot
  <2>5. Fresh' BY <2>1, <2>2, Zenon DEF IInv, Fresh
  <2>6. (Holder /\ Ahead /\ LensCurrent /\ SizeWasTrue)'
    BY <2>1, Zenon DEF IInv, Holder, Ahead, LensCurrent, SizeWasTrue, Measuring, File
  <2>7. QED BY <1>1, <2>4, <2>5, <2>6, Zenon DEF IInv
<1>17. CASE PwriteBlock(t)
  <2> DEFINE n == IF done[t] + 1 > len[File(t)] THEN done[t] + 1 ELSE len[File(t)]
  <2>1. File(t) \in Files /\ len[File(t)] \in 0..Blocks BY FileTyped DEF IInv, TypeOK
  <2>2. /\ at[t] = "pwriting" /\ SetsLen(File(t), n) /\ n \in 0..Blocks
        /\ \A u \in Threads \ {t} : done'[u] = done[u]
        /\ UNCHANGED <<mutex, at, fd, buf, seen, size>>
    BY <1>17, <2>1, FileIOAssumption DEF PwriteBlock, IInv, TypeOK, Page
  <2>3. \A g \in Files \ {File(t)} : mem'[g] = mem[g]
    BY <1>17, Zenon DEF PwriteBlock, IInv, TypeOK
  <2>4. \A u \in Threads : at[u] # "preading"
    BY <2>2, Zenon DEF IInv, Holder, Holding
  <2>5. at' = [at EXCEPT ![t] = "pwriting"] /\ ~Measuring(t)
    BY <2>2, Zenon DEF IInv, TypeOK, Measuring
  <2> HIDE DEF n
  <2>6. QED BY <1>1, <2>1, <2>2, <2>3, <2>4, <2>5, ChangeStep, Zenon
<1>18. ASSUME NEW n \in 0..Blocks, Truncate(t, n) PROVE IInv'
  <2>1. /\ at[t] = "truncate" /\ at' = [at EXCEPT ![t] = "idle"] /\ mutex = Free
        /\ SetsLen(File(t), n) /\ File(t) \in Files /\ ~Measuring(t)
        /\ \A g \in Files \ {File(t)} : mem'[g] = mem[g]
        /\ UNCHANGED <<mutex, fd, done, buf, seen, size>>
    BY <1>18, FileTyped, Zenon DEF Truncate, Goes, IInv, TypeOK, Measuring
  <2>2. \A u \in Threads : at[u] # "preading"
    BY <2>1, FileIOAssumption, Zenon DEF IInv, Holder, Holding
  <2>3. done'[t] = 0 BY <2>1, Zenon DEF IInv, Fresh
  <2>4. QED BY <1>1, <2>1, <2>2, <2>3, ChangeStep, Zenon
<1>19. CASE OpenTruncates(t)
  <2>1. /\ at[t] = "opening" /\ at' = [at EXCEPT ![t] = "insert"]
        /\ SetsLen(File(t), 0) /\ File(t) \in Files /\ ~Measuring(t)
        /\ \A g \in Files \ {File(t)} : mem'[g] = mem[g]
        /\ UNCHANGED <<mutex, fd, done, buf, seen, size>>
    BY <1>19, FileTyped, Zenon DEF OpenTruncates, Goes, IInv, TypeOK, Measuring
  <2>2. 0 \in 0..Blocks BY FileIOAssumption
  <2>3. done'[t] = 0 BY <2>1, Zenon DEF IInv, Fresh
  <2>4. QED BY <1>1, <2>1, <2>2, <2>3, ChangeStep, Zenon
<1>20. CASE SizeEnd(t)
  <2>1. /\ at'[t] = "size_set" /\ Measuring(t) /\ at[t] = "size_end"
        /\ \A u \in Threads \ {t} : at'[u] = at[u] /\ size'[u] = size[u]
        /\ size'[t] \in {len[File(t)], Failed}
        /\ UNCHANGED <<mutex, fd, done, buf, seen, mem, len, lens>>
    BY <1>20, Zenon DEF SizeEnd, Goes, IInv, TypeOK, Measuring, Failed
  <2>2. SizeWasTrue' BY <2>1, Zenon DEF IInv, SizeWasTrue, LensCurrent
  <2>3. (Holder /\ Fresh)' BY <2>1, Zenon DEF IInv, Holder, Fresh, Holding
  <2>4. (ReadIsSnapshot /\ Ahead)' BY <2>1, Zenon DEF IInv, ReadIsSnapshot, Ahead, File
  <2>5. LensCurrent' BY <2>1, Zenon DEF IInv, LensCurrent, Measuring, File
  <2>6. QED BY <1>1, <2>2, <2>3, <2>4, <2>5, Zenon DEF IInv
<1>21. ASSUME NEW d \in Fds, NEW op \in Imports, Call(t, d, op) PROVE IInv'
  <2>1. /\ at[t] = "idle" /\ at'[t] = op /\ fd'[t] = d /\ size'[t] = Failed
        /\ lens'[t] = IF op = "size" THEN {len[FileOf[d]]} ELSE {}
        /\ \A u \in Threads \ {t} :
             at'[u] = at[u] /\ fd'[u] = fd[u] /\ size'[u] = size[u] /\ lens'[u] = lens[u]
        /\ UNCHANGED <<mutex, done, buf, seen, mem, len>>
    BY <1>21, ZenonT(40) DEF Call, Goes, IInv, TypeOK
  <2>2. op \notin Holding \cup {"size_end", "size_set"} BY Zenon DEF Imports, Holding
  <2>3. (Holder /\ Fresh)' BY <2>1, <2>2, Zenon DEF IInv, Holder, Fresh, Holding
  <2>4. (ReadIsSnapshot /\ Ahead)'
    <3>1. ASSUME NEW u \in Threads, at'[u] = "preading"
          PROVE  at[u] = "preading" /\ File(u)' = File(u)
      BY <2>1, <2>2, <3>1, Zenon DEF Holding, File
    <3>2. ReadIsSnapshot' BY <2>1, <3>1 DEF IInv, ReadIsSnapshot
    <3>3. Ahead'
      <4>1. SUFFICES ASSUME NEW u \in Threads, at'[u] = "preading", NEW b \in Page,
                            b <= len'[File(u)']
                     PROVE  mem'[File(u)'][b] = seen'[u][b]
        BY Zenon DEF Ahead
      <4>2. at[u] = "preading" /\ File(u)' = File(u)
        BY <3>1, <4>1, Zenon
      <4>3. mem' = mem /\ len' = len /\ seen' = seen
        BY <2>1, Zenon
      <4>4. QED BY <4>1, <4>2, <4>3, ZenonT(30) DEF IInv, Ahead
    <3>4. QED BY <3>2, <3>3, Zenon
  <2>5. LensCurrent'
    <3>1. Measuring(t)' => len'[File(t)'] \in lens'[t]
      BY <2>1, <2>2, Zenon DEF Measuring, File
    <3>2. \A u \in Threads \ {t} : Measuring(u)' => len'[File(u)'] \in lens'[u]
      BY <2>1, Zenon DEF IInv, LensCurrent, Measuring, File
    <3>3. QED BY <3>1, <3>2, Zenon DEF LensCurrent
  <2>6. SizeWasTrue' BY <2>1, <2>2, Zenon DEF IInv, SizeWasTrue
  <2>7. QED BY <1>1, <2>3, <2>4, <2>5, <2>6, Zenon DEF IInv
<1>22. QED
  BY <1>3, <1>4, <1>5, <1>6, <1>7, <1>8, <1>9, <1>10, <1>11, <1>12, <1>13, <1>14, <1>15, <1>16, <1>17, <1>18, <1>19, <1>20, <1>21, Zenon DEF Step

LEMMA Inductive == IInv /\ [Next]_vars => IInv'
<1>1. ASSUME IInv, UNCHANGED vars PROVE IInv'
  BY <1>1, Zenon DEF vars, IInv, TypeOK, Holder, Fresh, Ahead, ReadIsSnapshot, LensCurrent,
              SizeWasTrue, Measuring, File
<1>2. QED BY <1>1, StepHolds, Zenon DEF Next

------------------------------------------------------------------------------
(* Durability. *)
DTypeOK ==
  /\ disk \in [Files -> [Page -> Nat]] /\ promised \in [Files -> [Page -> Nat]]
  /\ asked \in [Threads -> [Page -> Nat]]
  /\ askedEntries \in [Threads -> SUBSET Files]

(* The disk is between what was promised and what the host shows, and      *)
(* changes are numbered in order.                                          *)
Ordered ==
  \A f \in Files, b \in Page :
    promised[f][b] <= disk[f][b] /\ disk[f][b] <= mem[f][b] /\ mem[f][b] <= writes

EntriesOrdered ==
  promisedEntries \subseteq diskEntries /\ diskEntries \subseteq entries
    /\ entries \subseteq Files

(* What a call found when it began is still there, or newer. *)
AskedHolds ==
  \A t \in Threads : at[t] # "idle" =>
    /\ \A b \in Page : asked[t][b] <= mem[File(t)][b]
    /\ askedEntries[t] \subseteq entries

DInv == TypeOK /\ DTypeOK /\ Ordered /\ EntriesOrdered /\ AskedHolds

LEMMA Transitive == \A x, y, z \in Nat : x <= x /\ (x <= y /\ y <= z => x <= z)
OBVIOUS

(* A step of the bridge only replaces contents by newer ones. *)
LEMMA ContentsGrow ==
  ASSUME TypeOK, Ordered, DTypeOK, NEW t \in Threads, Step(t)
  PROVE  /\ writes <= writes'
         /\ \A f \in Files, b \in Page : mem[f][b] <= mem'[f][b] /\ mem'[f][b] <= writes'
         /\ \A u \in Threads : at'[u] # "idle" => at[u] # "idle"
         /\ UNCHANGED fd
<1>1. writes \in Nat /\ \A f \in Files, b \in Page : mem[f][b] \in Nat /\ mem[f][b] <= writes
  BY Zenon DEF TypeOK, Ordered
<1>2. ASSUME mem' = mem, writes' = writes
      PROVE  /\ writes <= writes'
             /\ \A f \in Files, b \in Page : mem[f][b] <= mem'[f][b] /\ mem'[f][b] <= writes'
  BY <1>1, <1>2
<1>3. ASSUME writes' = writes + 1,
             \A f \in Files, b \in Page : mem'[f][b] \in {mem[f][b], writes'}
      PROVE  /\ writes <= writes'
             /\ \A f \in Files, b \in Page : mem[f][b] <= mem'[f][b] /\ mem'[f][b] <= writes'
  <2>1. writes \in Nat /\ writes <= writes' /\ writes' \in Nat BY <1>1, <1>3
  <2>2. ASSUME NEW f \in Files, NEW b \in Page
        PROVE  mem[f][b] <= mem'[f][b] /\ mem'[f][b] <= writes'
    <3>1. mem[f][b] \in Nat /\ mem[f][b] <= writes /\ mem'[f][b] \in {mem[f][b], writes'}
      BY <1>1, <1>3, Zenon
    <3>2. mem[f][b] <= writes' /\ mem[f][b] <= mem[f][b] /\ writes' <= writes'
      BY <2>1, <3>1, Transitive, Zenon
    <3>3. QED BY <3>1, <3>2, Zenon
  <2>3. QED BY <2>1, <2>2
<1>4. UNCHANGED fd /\ \A u \in Threads : at'[u] # "idle" => at[u] # "idle"
  <2>1. UNCHANGED fd
    BY Zenon DEF Step, OpenResolves, OpenFile, OpenTruncates, OpenFails, OpenInsert, Close,
           BadDescriptor, PreadStarts, PreadBlock, PwriteStarts, PwriteBlock, TransferEnds,
           Truncate, TruncateFails, SyncStarts, SyncEnds, ParentResolves, ParentAllowed,
           ParentEnds, ParentRefused, SizeCur, SizeEnd, SizeSet
  <2>2. at' = at \/ (at[t] # "idle" /\ \E to \in Places : at' = [at EXCEPT ![t] = to])
    BY Zenon DEF Step, OpenResolves, OpenFile, OpenTruncates, OpenFails, OpenInsert, Close,
           BadDescriptor, PreadStarts, PreadBlock, PwriteStarts, PwriteBlock, TransferEnds,
           Truncate, TruncateFails, SyncStarts, SyncEnds, ParentResolves, ParentAllowed,
           ParentEnds, ParentRefused, SizeCur, SizeEnd, SizeSet, Goes, Places
  <2>3. QED BY <2>1, <2>2, Zenon DEF TypeOK
<1>5. ASSUME PwriteBlock(t) \/ OpenTruncates(t) \/ \E n \in 0..Blocks : Truncate(t, n)
      PROVE  writes' = writes + 1 /\ \A f \in Files, b \in Page : mem'[f][b] \in {mem[f][b], writes'}
  <2>1. CASE PwriteBlock(t) BY <2>1, Zenon DEF PwriteBlock, TypeOK
  <2>2. CASE OpenTruncates(t) BY <2>2, Zenon DEF OpenTruncates, TypeOK
  <2>3. ASSUME NEW n \in 0..Blocks, Truncate(t, n)
        PROVE  writes' = writes + 1 /\ \A f \in Files, b \in Page : mem'[f][b] \in {mem[f][b], writes'}
    BY <2>3, Zenon DEF Truncate, TypeOK
  <2>4. QED BY <1>5, <2>1, <2>2, <2>3, Zenon
<1>6. \/ PwriteBlock(t) \/ OpenTruncates(t) \/ (\E n \in 0..Blocks : Truncate(t, n))
      \/ mem' = mem /\ writes' = writes
  BY Zenon DEF Step, OpenResolves, OpenFile, OpenFails, OpenInsert, Close, BadDescriptor,
         PreadStarts, PreadBlock, PwriteStarts, TransferEnds, TruncateFails, SyncStarts, SyncEnds,
         ParentResolves, ParentAllowed, ParentEnds, ParentRefused, SizeCur, SizeEnd, SizeSet
<1>7. QED BY <1>2, <1>3, <1>4, <1>5, <1>6, Zenon

(* A step of the bridge that leaves the disk alone. *)
LEMMA CachedHolds ==
  ASSUME DInv, NEW t \in Threads, Step(t),
         UNCHANGED <<disk, diskEntries, promised, promisedEntries>>,
         asked' = asked \/ asked' = [asked EXCEPT ![t] = Zero],
         askedEntries' = askedEntries \/ askedEntries' = [askedEntries EXCEPT ![t] = {}],
         entries \subseteq entries', entries' \subseteq Files
  PROVE  DInv'
<1>1. TypeOK' BY TypeStep, Zenon DEF DInv
<1>2. /\ writes <= writes'
      /\ \A f \in Files, b \in Page : mem[f][b] <= mem'[f][b] /\ mem'[f][b] <= writes'
      /\ \A u \in Threads : at'[u] # "idle" => at[u] # "idle"
      /\ UNCHANGED fd
  BY ContentsGrow, Zenon DEF DInv
<1>3. DTypeOK' /\ EntriesOrdered' BY ZeroTyped, Zenon DEF DInv, DTypeOK, EntriesOrdered
<1>4. \A f \in Files, b \in Page : mem[f][b] \in Nat /\ mem'[f][b] \in Nat /\ disk[f][b] \in Nat
  BY <1>1 DEF DInv, TypeOK, DTypeOK
<1>9. ASSUME NEW g \in Files, NEW c \in Page
      PROVE  promised'[g][c] <= disk'[g][c] /\ disk'[g][c] <= mem'[g][c] /\ mem'[g][c] <= writes'
  <2>1. promised[g][c] <= disk[g][c] /\ disk[g][c] <= mem[g][c] /\ mem[g][c] <= writes
    BY Zenon DEF DInv, Ordered
  <2>2. /\ mem[g][c] \in Nat /\ mem'[g][c] \in Nat /\ disk[g][c] \in Nat
        /\ mem[g][c] <= mem'[g][c] /\ mem'[g][c] <= writes'
    BY <1>2, <1>4, Zenon
  <2>3. QED BY <2>1, <2>2
<1>5. Ordered' BY <1>9, Zenon DEF Ordered
<1>6. ASSUME NEW u \in Threads, at'[u] # "idle", NEW b \in Page
      PROVE  asked'[u][b] <= mem'[File(u)][b]
  <2>1. /\ asked[u][b] <= mem[File(u)][b] /\ File(u) \in Files /\ asked[u][b] \in Nat
        /\ asked'[u][b] \in {asked[u][b], 0}
    <3>1. asked[u][b] <= mem[File(u)][b] BY <1>2, <1>6, Zenon DEF DInv, AskedHolds
    <3>2. File(u) \in Files BY FileTyped, Zenon DEF DInv
    <3>3. asked[u][b] \in Nat BY Zenon DEF DInv, DTypeOK
    <3>4. asked'[u] \in {asked[u], Zero} BY Zenon DEF DInv, DTypeOK
    <3>5. QED BY <3>1, <3>2, <3>3, <3>4, ZeroTyped, Zenon
  <2>2. /\ mem[File(u)][b] <= mem'[File(u)][b]
        /\ mem[File(u)][b] \in Nat /\ mem'[File(u)][b] \in Nat
    BY <1>2, <1>4, <2>1, Zenon
  <2>3. QED BY <2>1, <2>2
<1>10. \A u \in Threads : askedEntries'[u] \subseteq askedEntries[u]
  BY Zenon DEF DInv, DTypeOK
<1>7. AskedHolds' BY <1>2, <1>6, <1>10, Zenon DEF DInv, AskedHolds, File
<1>8. QED BY <1>1, <1>3, <1>5, <1>7, Zenon DEF DInv

LEMMA DInitHolds == DInit => DInv
<1> SUFFICES ASSUME DInit PROVE DInv
  OBVIOUS
<1>1. TypeOK BY InitHolds, Zenon DEF DInit, IInv
<1>2. QED
  <2>1. DTypeOK BY <1>1, Zenon DEF DInit, TypeOK, DTypeOK
  <2>2. \A f \in Files, b \in Page : mem[f][b] = 0 /\ promised[f][b] = 0 /\ disk[f][b] = 0
    BY ZeroTyped, Zenon DEF DInit, Init
  <2>3. Ordered BY <1>1, <2>2 DEF Ordered, TypeOK
  <2>4. EntriesOrdered /\ AskedHolds
    BY Zenon DEF DInit, Init, EntriesOrdered, AskedHolds
  <2>5. QED BY <1>1, <2>1, <2>3, <2>4, Zenon DEF DInv

LEMMA SyncedHolds == ASSUME DInv, NEW t \in Threads, Synced(t) PROVE DInv'
<1>1. /\ at[t] = "syncing" /\ at' = [at EXCEPT ![t] = "idle"]
      /\ disk' = [disk EXCEPT ![File(t)] = mem[File(t)]]
      /\ promised' = [promised EXCEPT ![File(t)] =
            [b \in Page |-> IF asked[t][b] > promised[File(t)][b]
                            THEN asked[t][b] ELSE promised[File(t)][b]]]
      /\ asked' = [asked EXCEPT ![t] = Zero]
      /\ UNCHANGED <<mem, fd, writes, askedEntries, entries, diskEntries, promisedEntries>>
  BY Zenon DEF Synced, SyncReturns, SyncEnds, Goes
<1>12. File(t) \in Files BY FileTyped, Zenon DEF DInv
<1>2. TypeOK' BY TypeStep, Zenon DEF DInv, Synced, SyncReturns, Step
<1>3. \A f \in Files, b \in Page :
        /\ disk'[f][b] = IF f = File(t) THEN mem[f][b] ELSE disk[f][b]
        /\ promised'[f][b] = IF f = File(t) /\ asked[t][b] > promised[f][b]
                             THEN asked[t][b] ELSE promised[f][b]
  BY <1>1, Zenon DEF DInv, DTypeOK
<1>4. DTypeOK' BY <1>1, <1>12, ZeroTyped, ZenonT(40) DEF DInv, DTypeOK, TypeOK
<1>5. \A b \in Page : asked[t][b] <= mem[File(t)][b]
  BY <1>1, Zenon DEF DInv, AskedHolds
<1>6. \A f \in Files, b \in Page :
        promised[f][b] \in Nat /\ disk[f][b] \in Nat /\ mem[f][b] \in Nat
  BY DEF DInv, DTypeOK, TypeOK
<1>11. ASSUME NEW g \in Files, NEW c \in Page
      PROVE  promised'[g][c] <= disk'[g][c] /\ disk'[g][c] <= mem'[g][c] /\ mem'[g][c] <= writes'
  <2>1. promised[g][c] <= disk[g][c] /\ disk[g][c] <= mem[g][c] /\ mem[g][c] <= writes
    BY Zenon DEF DInv, Ordered
  <2>2. /\ disk'[g][c] = IF g = File(t) THEN mem[g][c] ELSE disk[g][c]
        /\ promised'[g][c] = IF g = File(t) /\ asked[t][c] > promised[g][c]
                             THEN asked[t][c] ELSE promised[g][c]
        /\ promised[g][c] \in Nat /\ disk[g][c] \in Nat /\ mem[g][c] \in Nat
    BY <1>3, <1>6, Zenon
  <2>3. g = File(t) => asked[t][c] <= mem[g][c]
    BY <1>5, Zenon
  <2>4. mem' = mem /\ writes' = writes BY <1>1, Zenon
  <2>5. QED BY <2>1, <2>2, <2>3, <2>4
<1>7. Ordered' BY <1>11, Zenon DEF Ordered
<1>8. EntriesOrdered' BY <1>1, Zenon DEF DInv, EntriesOrdered
<1>9. AskedHolds'
  <2>1. \A u \in Threads \ {t} : asked'[u] = asked[u] /\ at'[u] = at[u]
    BY <1>1, Zenon DEF DInv, TypeOK, DTypeOK
  <2>2. at'[t] = "idle" BY <1>1, Zenon DEF DInv, TypeOK
  <2>3. QED BY <1>1, <2>1, <2>2, Zenon DEF DInv, AskedHolds, File
<1>10. QED BY <1>2, <1>4, <1>7, <1>8, <1>9, Zenon DEF DInv

LEMMA PowerLossHolds == ASSUME DInv, PowerLoss PROVE DInv'
<1>1. Zero \in [Page -> Nat] /\ \A b \in Page : Zero[b] = 0 BY ZeroTyped, Zenon
<1>2. /\ disk' = [f \in Files |-> IF f \in diskEntries THEN disk[f] ELSE Zero]
      /\ mem' = disk' /\ entries' = diskEntries
      /\ promised' = [f \in Files |-> IF f \in diskEntries THEN promised[f] ELSE Zero]
      /\ at' = [t \in Threads |-> "idle"] /\ mutex' = Free
      /\ table' = [d \in Fds |-> "new"] /\ cursor' = [d \in Fds |-> 0]
      /\ len' = [f \in Files |-> IF f \in diskEntries THEN len[f] ELSE 0]
      /\ done' = [t \in Threads |-> 0] /\ buf' = [t \in Threads |-> Zero] /\ seen' = buf'
      /\ pos' = [t \in Threads |-> 0] /\ size' = [t \in Threads |-> Failed]
      /\ lens' = [t \in Threads |-> {}]
      /\ UNCHANGED <<fd, calls, writes, diskEntries, asked, askedEntries, promisedEntries>>
  BY Zenon DEF PowerLoss
<1>3. DTypeOK' BY <1>1, <1>2, Zenon DEF DInv, DTypeOK
<1>4. mem' \in [Files -> [Page -> Nat]] BY <1>2, <1>3, Zenon DEF DTypeOK
<1>5. at' \in [Threads -> Places] /\ cursor' \in [Fds -> 0..Blocks]
      /\ len' \in [Files -> 0..Blocks]
  BY <1>2, FileIOAssumption DEF Places, DInv, TypeOK
<1>12. /\ done' \in [Threads -> 0..Blocks] /\ buf' \in [Threads -> [Page -> Nat]]
       /\ seen' \in [Threads -> [Page -> Nat]]
       /\ pos' \in [Threads -> Failed..Blocks] /\ size' \in [Threads -> Failed..Blocks]
       /\ lens' \in [Threads -> SUBSET (0..Blocks)]
  BY <1>1, <1>2, FileIOAssumption DEF Failed
<1>6. TypeOK' BY <1>2, <1>4, <1>5, <1>12, Zenon DEF DInv, TypeOK
<1>7. \A f \in Files, b \in Page :
        \/ disk'[f][b] = disk[f][b] /\ promised'[f][b] = promised[f][b]
        \/ disk'[f][b] = 0 /\ promised'[f][b] = 0
  BY <1>1, <1>2, Zenon
<1>8. \A f \in Files, b \in Page :
        promised[f][b] \in Nat /\ disk[f][b] \in Nat /\ mem[f][b] \in Nat /\ writes \in Nat
  BY DEF DInv, DTypeOK, TypeOK
<1>13. ASSUME NEW g \in Files, NEW c \in Page
      PROVE  promised'[g][c] <= disk'[g][c] /\ disk'[g][c] <= mem'[g][c] /\ mem'[g][c] <= writes'
  <2>1. promised[g][c] <= disk[g][c] /\ disk[g][c] <= mem[g][c] /\ mem[g][c] <= writes
    BY Zenon DEF DInv, Ordered
  <2>2. /\ promised[g][c] \in Nat /\ disk[g][c] \in Nat /\ mem[g][c] \in Nat /\ writes \in Nat
        /\ \/ disk'[g][c] = disk[g][c] /\ promised'[g][c] = promised[g][c]
           \/ disk'[g][c] = 0 /\ promised'[g][c] = 0
    BY <1>7, <1>8, Zenon
  <2>3. mem' = disk' /\ writes' = writes BY <1>2, Zenon
  <2>4. QED BY <2>1, <2>2, <2>3
<1>9. Ordered' BY <1>13, Zenon DEF Ordered
<1>10. EntriesOrdered' /\ AskedHolds' BY <1>2, Zenon DEF DInv, EntriesOrdered, AskedHolds
<1>11. QED BY <1>3, <1>6, <1>9, <1>10, Zenon DEF DInv

LEMMA WriteBackHolds == ASSUME DInv, NEW f \in Files, NEW b \in Page, WriteBack(f, b) PROVE DInv'
<1>1. /\ disk' = [disk EXCEPT ![f] = [disk[f] EXCEPT ![b] = mem[f][b]]]
      /\ UNCHANGED vars
      /\ UNCHANGED <<entries, diskEntries, asked, askedEntries, promised, promisedEntries>>
  BY Zenon DEF WriteBack
<1>2. TypeOK' BY <1>1, Zenon DEF vars, DInv, TypeOK
<1>3. mem[f][b] \in Nat /\ disk[f] \in [Page -> Nat] BY DEF DInv, TypeOK, DTypeOK
<1>4. DTypeOK' BY <1>1, <1>3, Zenon DEF DInv, DTypeOK
<1>5. \A g \in Files, c \in Page : disk'[g][c] \in {disk[g][c], mem[g][c]}
  BY <1>1, Zenon DEF DInv, DTypeOK
<1>6. \A g \in Files, c \in Page :
        promised[g][c] \in Nat /\ disk[g][c] \in Nat /\ mem[g][c] \in Nat
  BY DEF DInv, DTypeOK, TypeOK
<1>10. ASSUME NEW g \in Files, NEW c \in Page
      PROVE  promised'[g][c] <= disk'[g][c] /\ disk'[g][c] <= mem'[g][c] /\ mem'[g][c] <= writes'
  <2>1. promised[g][c] <= disk[g][c] /\ disk[g][c] <= mem[g][c] /\ mem[g][c] <= writes
    BY Zenon DEF DInv, Ordered
  <2>2. /\ promised[g][c] \in Nat /\ disk[g][c] \in Nat /\ mem[g][c] \in Nat
        /\ disk'[g][c] \in {disk[g][c], mem[g][c]}
    BY <1>5, <1>6, Zenon
  <2>3. mem' = mem /\ writes' = writes /\ promised' = promised BY <1>1, Zenon DEF vars
  <2>4. QED BY <2>1, <2>2, <2>3
<1>7. Ordered' BY <1>10, Zenon DEF Ordered
<1>8. EntriesOrdered' /\ AskedHolds' BY <1>1, Zenon DEF DInv, EntriesOrdered, AskedHolds, vars, File
<1>9. QED BY <1>2, <1>4, <1>7, <1>8, Zenon DEF DInv

LEMMA DInductive == DInv /\ [DNext]_allVars => DInv'
<1> SUFFICES ASSUME DInv, [DNext]_allVars PROVE DInv'
  OBVIOUS
<1>1. ASSUME NEW t \in Threads, NEW d \in Fds, NEW op \in Imports, Begin(t, d, op) PROVE DInv'
  <2>1. /\ Call(t, d, op)
        /\ asked' = [asked EXCEPT ![t] = IF op = "sync" THEN mem[FileOf[d]] ELSE Zero]
        /\ askedEntries' = [askedEntries EXCEPT ![t] = IF op = "sync_parent" THEN entries ELSE {}]
        /\ UNCHANGED <<entries, disk, diskEntries, promised, promisedEntries>>
    BY <1>1, Zenon DEF Begin
  <2>2. TypeOK' BY <2>1, TypeStep, Zenon DEF DInv
  <2>3. /\ fd' = [fd EXCEPT ![t] = d] /\ UNCHANGED <<mem, writes>>
        /\ \A u \in Threads \ {t} : at'[u] = at[u]
    BY <2>1, Zenon DEF Call, Goes, DInv, TypeOK
  <2>4. /\ entries \subseteq Files /\ FileOf[d] \in Files /\ mem[FileOf[d]] \in [Page -> Nat]
        /\ Zero \in [Page -> Nat] /\ \A b \in Page : Zero[b] = 0
    BY FileIOAssumption, ZeroTyped, Zenon DEF DInv, EntriesOrdered, TypeOK
  <2>5. DTypeOK' BY <2>1, <2>4, Zenon DEF DInv, DTypeOK
  <2>6. Ordered' /\ EntriesOrdered' BY <2>1, <2>3, Zenon DEF DInv, Ordered, EntriesOrdered
  <2>7. /\ asked'[t] \in {mem[FileOf[d]], Zero} /\ askedEntries'[t] \in {entries, {}}
        /\ File(t)' = FileOf[d]
    BY <2>1, <2>3, Zenon DEF DInv, TypeOK, DTypeOK, File
  <2>8. \A u \in Threads \ {t} :
          asked'[u] = asked[u] /\ askedEntries'[u] = askedEntries[u] /\ File(u)' = File(u)
    BY <2>1, <2>3, Zenon DEF DInv, TypeOK, DTypeOK, File
  <2>9. AskedHolds'
    <3>1. \A b \in Page : asked'[t][b] <= mem'[File(t)'][b]
      BY <2>3, <2>4, <2>7
    <3>2. QED BY <2>1, <2>3, <2>7, <2>8, <3>1, Zenon DEF DInv, AskedHolds
  <2>10. QED BY <2>2, <2>5, <2>6, <2>9, Zenon DEF DInv
<1>2. ASSUME NEW t \in Threads, Creates(t) PROVE DInv'
  <2>1. Step(t) /\ entries' = entries \cup {File(t)}
        /\ UNCHANGED <<disk, diskEntries, asked, askedEntries, promised, promisedEntries>>
    BY <1>2, Zenon DEF Creates, Step
  <2>2. entries \subseteq entries' /\ entries' \subseteq Files
    BY <2>1, FileTyped, Zenon DEF DInv, EntriesOrdered
  <2>3. QED BY <2>1, <2>2, CachedHolds, Zenon
<1>3. ASSUME NEW t \in Threads, SyncFails(t) \/ DirFails(t) \/ CachedStep(t) PROVE DInv'
  <2>1. /\ Step(t)
        /\ UNCHANGED <<entries, disk, diskEntries, promised, promisedEntries>>
        /\ asked' = asked \/ asked' = [asked EXCEPT ![t] = Zero]
        /\ askedEntries' = askedEntries \/ askedEntries' = [askedEntries EXCEPT ![t] = {}]
    BY <1>3, Zenon DEF SyncFails, SyncReturns, DirFails, DirReturns, CachedStep, Step, diskVars
  <2>2. entries' \subseteq Files BY <2>1, Zenon DEF DInv, EntriesOrdered
  <2>3. QED BY <2>1, <2>2, CachedHolds, Zenon
<1>4. ASSUME NEW t \in Threads, DirSynced(t) PROVE DInv'
  <2>1. /\ at[t] = "dirsync" /\ at' = [at EXCEPT ![t] = "idle"]
        /\ diskEntries' = diskEntries \cup entries
        /\ promisedEntries' = promisedEntries \cup askedEntries[t]
        /\ askedEntries' = [askedEntries EXCEPT ![t] = {}]
        /\ UNCHANGED <<mem, fd, writes, entries, disk, asked, promised>>
    BY <1>4, Zenon DEF DirSynced, DirReturns, ParentEnds, Goes
  <2>2. TypeOK' BY <1>4, TypeStep, Zenon DEF DInv, DirSynced, DirReturns, Step
  <2>3. EntriesOrdered' BY <2>1, Zenon DEF DInv, EntriesOrdered, AskedHolds
  <2>4. DTypeOK' /\ Ordered' BY <2>1, Zenon DEF DInv, DTypeOK, Ordered
  <2>7. \A u \in Threads \ {t} : askedEntries'[u] = askedEntries[u] /\ at'[u] = at[u]
    BY <2>1, Zenon DEF DInv, TypeOK, DTypeOK
  <2>8. at'[t] = "idle" BY <2>1, Zenon DEF DInv, TypeOK
  <2>5. AskedHolds' BY <2>1, <2>7, <2>8, Zenon DEF DInv, AskedHolds, File
  <2>6. QED BY <2>2, <2>3, <2>4, <2>5, Zenon DEF DInv
<1>5. ASSUME NEW f \in Files, WriteBackEntry(f) PROVE DInv'
  <2>1. /\ f \in entries /\ diskEntries' = diskEntries \cup {f} /\ UNCHANGED vars
        /\ UNCHANGED <<entries, disk, asked, askedEntries, promised, promisedEntries>>
    BY <1>5, Zenon DEF WriteBackEntry
  <2>2. TypeOK' BY <2>1, Zenon DEF vars, DInv, TypeOK
  <2>3. QED BY <2>1, <2>2, Zenon DEF vars, DInv, DTypeOK, Ordered, EntriesOrdered, AskedHolds, File
<1>6. CASE UNCHANGED allVars
  <2>1. TypeOK' BY <1>6, Zenon DEF allVars, vars, DInv, TypeOK
  <2>2. QED BY <1>6, <2>1, Zenon DEF allVars, vars, diskVars, DInv, DTypeOK, Ordered,
                              EntriesOrdered, AskedHolds, File
<1>7. QED
  BY <1>1, <1>2, <1>3, <1>4, <1>5, <1>6, SyncedHolds, PowerLossHolds, WriteBackHolds, Zenon DEF DNext, ThreadStep

(* A loss of power leaves no call in progress. *)
LEMMA PowerLossKeeps == ASSUME IInv, DInv, PowerLoss PROVE IInv'
<1>1. TypeOK' BY PowerLossHolds, Zenon DEF DInv
<1>2. /\ at' = [t \in Threads |-> "idle"]
      /\ size' = [t \in Threads |-> Failed] /\ done' = [t \in Threads |-> 0]
  BY Zenon DEF PowerLoss
<1>3. \A t \in Threads : at'[t] = "idle" /\ size'[t] = Failed /\ done'[t] = 0 BY <1>2, Zenon
<1>4. (Holder /\ Fresh /\ Ahead /\ ReadIsSnapshot /\ LensCurrent /\ SizeWasTrue)'
  BY <1>3, Zenon DEF Holder, Holding, Fresh, Ahead, ReadIsSnapshot, LensCurrent, Measuring, SizeWasTrue
<1>5. QED BY <1>1, <1>4, Zenon DEF IInv

(* Every step of the bridge with its disk is one of the bridge, a loss of  *)
(* power, or changes the disk only.                                        *)
LEMMA Keeps == IInv /\ DInv /\ [DNext]_allVars => IInv'
<1>1. ASSUME NEW t \in Threads, ThreadStep(t) PROVE Step(t)
  BY <1>1, Zenon DEF ThreadStep, Creates, Synced, SyncFails, SyncReturns, DirSynced, DirFails,
              DirReturns, CachedStep, Step
<1>2. ASSUME NEW t \in Threads, NEW d \in Fds, NEW op \in Imports, Begin(t, d, op)
      PROVE  Call(t, d, op)
  BY <1>2, Zenon DEF Begin
<1>3. ASSUME NEW f \in Files, WriteBackEntry(f) \/ \E b \in Page : WriteBack(f, b)
      PROVE  UNCHANGED vars
  BY <1>3, Zenon DEF WriteBackEntry, WriteBack
<1>4. [DNext]_allVars => [Next]_vars \/ PowerLoss
  BY <1>1, <1>2, <1>3, Zenon DEF DNext, Next, allVars
<1>5. QED BY <1>4, Inductive, PowerLossKeeps, Zenon

LEMMA DSpecKeeps == DSpec => []IInv
<1>1. DInit => IInv BY InitHolds, Zenon DEF DInit
<1>2. QED BY <1>1, DInitHolds, DInductive, Keeps, PTL DEF DSpec

(* Types, for every number of threads and every size of a page: no import  *)
(* leaves a cursor, a length or a count of blocks outside the file.        *)
THEOREM TypeCorrect == DSpec => []TypeOK
<1>1. IInv => TypeOK BY Zenon DEF IInv
<1>2. QED BY <1>1, DSpecKeeps, PTL

(* A pread returns the beginning of the file as it was when the call got   *)
(* the mutex, for any number of threads that write, truncate and open with *)
(* O_TRUNC.                                                                *)
THEOREM ReadsAreSnapshots == DSpec => []ReadIsSnapshot
<1>1. IInv => ReadIsSnapshot BY Zenon DEF IInv
<1>2. QED BY <1>1, DSpecKeeps, PTL

(* os_file_get_size answers a length the file had during the call, for any *)
(* number of threads that seek, write and truncate.                        *)
THEOREM SizesAreTrue == DSpec => []SizeWasTrue
<1>1. IInv => SizeWasTrue BY Zenon DEF IInv
<1>2. QED BY <1>1, DSpecKeeps, PTL

(* What sync has promised is on the disk, through any number of losses of  *)
(* power and for any interleaving of threads, write-back and failures.     *)
THEOREM SyncedDataSurvives == DSpec => []DataSurvives
<1>1. DInv => DataSurvives BY Zenon DEF DInv, Ordered, DataSurvives
<1>2. QED BY <1>1, DInitHolds, DInductive, PTL DEF DSpec

(* A file whose entry sync_parent has promised is found again with all     *)
(* that sync has promised of it.                                           *)
THEOREM CreatedFilesSurvive == DSpec => []CreatedSurvives
<1>1. ASSUME DInv PROVE CreatedSurvives
  <2>1. \A f \in Files, b \in Page :
          promised[f][b] \in Nat /\ disk[f][b] \in Nat /\ mem[f][b] \in Nat
    BY <1>1 DEF DInv, DTypeOK, TypeOK
  <2>2. ASSUME NEW f \in Files, NEW b \in Page PROVE promised[f][b] <= mem[f][b]
    <3>1. promised[f][b] <= disk[f][b] /\ disk[f][b] <= mem[f][b]
      BY <1>1, Zenon DEF DInv, Ordered
    <3>2. promised[f][b] \in Nat /\ disk[f][b] \in Nat /\ mem[f][b] \in Nat
      BY <2>1, Zenon
    <3>3. QED BY <3>1, <3>2, Transitive, Zenon
  <2>3. QED BY <1>1, <2>2, Zenon DEF DInv, EntriesOrdered, CreatedSurvives
<1>2. QED BY <1>1, DInitHolds, DInductive, PTL DEF DSpec
===============================================================================
