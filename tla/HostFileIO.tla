------------------------------ MODULE HostFileIO ------------------------------
(***************************************************************************)
(* File I/O of InnoDB through src/src/host_files.rs: what the mutex of the *)
(* table orders, who waits for whom, and the three seeks of                *)
(* os_file_get_size.  pread and pwrite transfer a page of Blocks blocks;   *)
(* the host does so one block at a time.  A block's contents are the       *)
(* number of the change that it got last.  Descriptors are not reused, so  *)
(* that a descriptor stands for one opening of one file.                   *)
(***************************************************************************)
EXTENDS Integers

CONSTANTS
  Threads,      \* guest threads
  Free,         \* the mutex when nobody holds it
  Files,        \* files of one directory
  Fds, FileOf,  \* guest descriptors, and the file that each is opened on
  Blocks,       \* blocks of a page
  Windows,      \* whether positional I/O moves the cursor
  MaxCalls      \* bound: calls in a behaviour

ASSUME FileIOAssumption ==
  /\ Free \notin Threads /\ Blocks \in Nat \ {0} /\ Windows \in BOOLEAN
  /\ MaxCalls \in Nat /\ Fds # {} /\ FileOf \in [Fds -> Files]

VARIABLES
  mutex,        \* HostFiles::inner
  table,        \* of each descriptor: "new", "open" or "closed"
  at,           \* what each thread is doing
  fd,           \* descriptor of a thread's call, or one to be for its path
  done,         \* blocks a pread or pwrite has transferred
  buf,          \* what a pread has read
  seen,         \* history: the file when a thread's pread got the mutex
  pos, size,    \* locals of os_file_get_size
  mem, len,     \* contents and length of the files
  cursor,       \* file offset of the descriptors
  lens,         \* history: lengths of the file during a thread's get_size
  calls, writes \* numbers of calls, and of changes of contents

vars == <<mutex, table, at, fd, done, buf, seen, pos, size, mem, len, cursor, lens, calls, writes>>

Page == 1..Blocks
Zero == [b \in Page |-> 0]
Failed == -1

Init ==
  /\ mutex = Free
  /\ table = [d \in Fds |-> "new"]
  /\ at = [t \in Threads |-> "idle"]
  /\ fd = [t \in Threads |-> CHOOSE d \in Fds : TRUE]
  /\ done = [t \in Threads |-> 0]
  /\ buf = [t \in Threads |-> Zero] /\ seen = buf
  /\ pos = [t \in Threads |-> 0] /\ size = [t \in Threads |-> Failed]
  /\ mem = [f \in Files |-> Zero]
  /\ len \in [Files -> 0..Blocks] /\ cursor = [d \in Fds |-> 0]
  /\ lens = [t \in Threads |-> {}]
  /\ calls = 0 /\ writes = 0

------------------------------------------------------------------------------
Opening == {"open", "opening", "insert"}

Goes(t, from, to) == at[t] = from /\ at' = [at EXCEPT ![t] = to]
Locks(t) == mutex = Free /\ mutex' = t
Unlocks == mutex' = Free
IsOpen(t) == table[fd[t]] = "open"
File(t) == FileOf[fd[t]]

(* A thread enters an import, or os_file_get_size, with a descriptor or a  *)
(* path.  A descriptor that was never handed out is only opened.           *)
Call(t, d, op) ==
  /\ op = "open" => \A u \in Threads : fd[u] = d => at[u] \notin Opening
  /\ op # "sync_parent" => (op = "open") = (table[d] = "new")
  /\ calls < MaxCalls /\ calls' = calls + 1
  /\ Goes(t, "idle", op)
  /\ fd' = [fd EXCEPT ![t] = d]
  /\ pos' = [pos EXCEPT ![t] = 0] /\ size' = [size EXCEPT ![t] = Failed]
  /\ lens' = [lens EXCEPT ![t] = IF op = "size" THEN {len[FileOf[d]]} ELSE {}]
  /\ UNCHANGED <<mutex, table, done, buf, seen, mem, len, cursor, writes>>

(* A new length is one that a call measuring the file may answer. *)
Measuring(t) == at[t] \in {"size", "size_end", "size_set"}

SetsLen(f, n) ==
  /\ len' = [len EXCEPT ![f] = n]
  /\ lens' = [t \in Threads |->
       IF File(t) = f /\ Measuring(t) THEN lens[t] \cup {n} ELSE lens[t]]

(* open: resolve locks and unlocks; then the host opens or creates the     *)
(* file without the mutex, which is taken again for the entry.             *)
OpenResolves(t) ==
  /\ mutex = Free /\ Goes(t, "open", "opening")
  /\ UNCHANGED <<mutex, table, fd, done, buf, seen, pos, size, mem, len, cursor, lens, calls, writes>>

OpenFile(t) ==
  /\ Goes(t, "opening", "insert")
  /\ UNCHANGED <<mutex, table, fd, done, buf, seen, pos, size, mem, len, cursor, lens, calls, writes>>

(* O_TRUNC: the host empties the file as it opens it. *)
OpenTruncates(t) ==
  /\ Goes(t, "opening", "insert")
  /\ writes' = writes + 1
  /\ mem' = [mem EXCEPT ![File(t)] = [b \in Page |-> writes']]
  /\ SetsLen(File(t), 0)
  /\ UNCHANGED <<mutex, table, fd, done, buf, seen, pos, size, cursor, calls>>

(* The path is refused, names a directory, or the host does not open it. *)
OpenFails(t) ==
  /\ \/ Goes(t, "opening", "idle")
     \/ mutex = Free /\ Goes(t, "open", "idle")
  /\ UNCHANGED <<mutex, table, fd, done, buf, seen, pos, size, mem, len, cursor, lens, calls, writes>>

OpenInsert(t) ==
  /\ mutex = Free /\ Goes(t, "insert", "idle")
  /\ table' = [table EXCEPT ![fd[t]] = "open"]
  /\ UNCHANGED <<mutex, fd, done, buf, seen, pos, size, mem, len, cursor, lens, calls, writes>>

Close(t) ==
  /\ mutex = Free /\ Goes(t, "close", "idle") /\ IsOpen(t)
  /\ table' = [table EXCEPT ![fd[t]] = "closed"]
  /\ UNCHANGED <<mutex, fd, done, buf, seen, pos, size, mem, len, cursor, lens, calls, writes>>

(* EBADF: another thread closed the descriptor before the mutex was free. *)
BadDescriptor(t) ==
  /\ mutex = Free /\ ~IsOpen(t)
  /\ at[t] \in {"close", "pread", "pwrite", "truncate", "sync"}
  /\ Goes(t, at[t], "idle")
  /\ UNCHANGED <<mutex, table, fd, done, buf, seen, pos, size, mem, len, cursor, lens, calls, writes>>

------------------------------------------------------------------------------
(* Mutant: the file is read through a duplicated handle, without the mutex.*)
PreadStarts_Unlocked(t) ==
  /\ mutex = Free /\ IsOpen(t) /\ Goes(t, "pread", "preading")
  /\ seen' = [seen EXCEPT ![t] = mem[File(t)]]
  /\ UNCHANGED <<mutex, table, fd, done, buf, pos, size, mem, len, cursor, lens, calls, writes>>

(* pread and pwrite hold the mutex for the whole transfer. *)
PreadStarts(t) ==
  /\ Locks(t) /\ IsOpen(t) /\ Goes(t, "pread", "preading")
  /\ seen' = [seen EXCEPT ![t] = mem[File(t)]]
  /\ UNCHANGED <<table, fd, done, buf, pos, size, mem, len, cursor, lens, calls, writes>>

PreadBlock(t) ==
  /\ at[t] = "preading" /\ done[t] < len[File(t)]
  /\ done' = [done EXCEPT ![t] = @ + 1]
  /\ buf' = [buf EXCEPT ![t] = [@ EXCEPT ![done[t] + 1] = mem[File(t)][done[t] + 1]]]
  /\ UNCHANGED <<mutex, table, at, fd, seen, pos, size, mem, len, cursor, lens, calls, writes>>

PwriteStarts(t) ==
  /\ Locks(t) /\ IsOpen(t) /\ Goes(t, "pwrite", "pwriting")
  /\ UNCHANGED <<table, fd, done, buf, seen, pos, size, mem, len, cursor, lens, calls, writes>>

PwriteBlock(t) ==
  LET f == File(t)  b == done[t] + 1 IN
  /\ at[t] = "pwriting" /\ b \in Page
  /\ done' = [done EXCEPT ![t] = b]
  /\ writes' = writes + 1
  /\ mem' = [mem EXCEPT ![f] = [@ EXCEPT ![b] = writes']]
  /\ SetsLen(f, IF b > len[f] THEN b ELSE len[f])
  /\ UNCHANGED <<mutex, table, at, fd, buf, seen, pos, size, cursor, calls>>

(* The host's call returns, having transferred the page, less than that or *)
(* nothing.  seek_read and seek_write of Windows leave the cursor behind   *)
(* the last byte.                                                          *)
TransferEnds(t) ==
  /\ at[t] \in {"preading", "pwriting"} /\ Goes(t, at[t], "idle") /\ Unlocks
  /\ cursor' = IF Windows THEN [cursor EXCEPT ![fd[t]] = done[t]] ELSE cursor
  /\ done' = [done EXCEPT ![t] = 0]
  /\ buf' = [buf EXCEPT ![t] = Zero] /\ seen' = [seen EXCEPT ![t] = Zero]
  /\ UNCHANGED <<table, fd, pos, size, mem, len, lens, calls, writes>>

Truncate(t, n) ==
  LET f == File(t) IN
  /\ mutex = Free /\ IsOpen(t) /\ Goes(t, "truncate", "idle")
  /\ writes' = writes + 1
  /\ mem' = [mem EXCEPT ![f] = [b \in Page |-> IF b > n THEN writes' ELSE @[b]]]
  /\ SetsLen(f, n)
  /\ UNCHANGED <<mutex, table, fd, done, buf, seen, pos, size, cursor, calls>>

TruncateFails(t) ==
  /\ mutex = Free /\ IsOpen(t) /\ Goes(t, "truncate", "idle")
  /\ UNCHANGED <<mutex, table, fd, done, buf, seen, pos, size, mem, len, cursor, lens, calls, writes>>

------------------------------------------------------------------------------
(* sync holds the mutex while the host writes the file to the disk. *)
SyncStarts(t) ==
  /\ Locks(t) /\ IsOpen(t) /\ Goes(t, "sync", "syncing")
  /\ UNCHANGED <<table, fd, done, buf, seen, pos, size, mem, len, cursor, lens, calls, writes>>

SyncEnds(t) ==
  /\ Goes(t, "syncing", "idle") /\ Unlocks
  /\ UNCHANGED <<table, fd, done, buf, seen, pos, size, mem, len, cursor, lens, calls, writes>>

(* Mutant: resolve's lock is still held when resolve_parent takes it. *)
ParentResolves_Holds(t) ==
  /\ Locks(t) /\ Goes(t, "sync_parent", "resolved")
  /\ UNCHANGED <<table, fd, done, buf, seen, pos, size, mem, len, cursor, lens, calls, writes>>

(* sync_parent: resolve locks and unlocks, resolve_parent locks and        *)
(* unlocks again, then the directory is opened and synced without the      *)
(* mutex.  Each part may fail.                                             *)
ParentResolves(t) ==
  /\ mutex = Free /\ Goes(t, "sync_parent", "resolved")
  /\ UNCHANGED <<mutex, table, fd, done, buf, seen, pos, size, mem, len, cursor, lens, calls, writes>>

ParentAllowed(t) ==
  /\ mutex = Free /\ Goes(t, "resolved", "dirsync")
  /\ UNCHANGED <<mutex, table, fd, done, buf, seen, pos, size, mem, len, cursor, lens, calls, writes>>

ParentEnds(t) ==
  /\ Goes(t, "dirsync", "idle")
  /\ UNCHANGED <<mutex, table, fd, done, buf, seen, pos, size, mem, len, cursor, lens, calls, writes>>

ParentRefused(t) ==
  /\ mutex = Free /\ at[t] \in {"sync_parent", "resolved"} /\ Goes(t, at[t], "idle")
  /\ UNCHANGED <<mutex, table, fd, done, buf, seen, pos, size, mem, len, cursor, lens, calls, writes>>

------------------------------------------------------------------------------
(* os_file_get_size: three seeks, each under the mutex.  A seek on a       *)
(* closed descriptor fails.                                                *)
SizeCur(t) ==
  /\ mutex = Free /\ Goes(t, "size", "size_end")
  /\ pos' = [pos EXCEPT ![t] = IF IsOpen(t) THEN cursor[fd[t]] ELSE Failed]
  /\ UNCHANGED <<mutex, table, fd, done, buf, seen, size, mem, len, cursor, lens, calls, writes>>

SizeEnd(t) ==
  /\ mutex = Free /\ Goes(t, "size_end", "size_set")
  /\ size' = [size EXCEPT ![t] = IF IsOpen(t) THEN len[File(t)] ELSE Failed]
  /\ cursor' = IF IsOpen(t) THEN [cursor EXCEPT ![fd[t]] = len[File(t)]] ELSE cursor
  /\ UNCHANGED <<mutex, table, fd, done, buf, seen, pos, mem, len, lens, calls, writes>>

(* Mutant: the results of the seeks are not looked at. *)
Restored_Unchecked(t) == [cursor EXCEPT ![fd[t]] = pos[t]]

(* The last seek fails if the first one did: SEEK_SET of -1 is EINVAL. *)
Restored(t) ==
  IF IsOpen(t) /\ pos[t] # Failed THEN [cursor EXCEPT ![fd[t]] = pos[t]] ELSE cursor

(* Mutant: the size is asked for with a fourth call, after SEEK_END. *)
SizeSet_Tell(t) ==
  /\ mutex = Free /\ Goes(t, "size_set", "idle")
  /\ size' = [size EXCEPT ![t] = cursor[fd[t]]]
  /\ cursor' = Restored(t)
  /\ UNCHANGED <<mutex, table, fd, done, buf, seen, pos, mem, len, lens, calls, writes>>

SizeSet(t) ==
  /\ mutex = Free /\ Goes(t, "size_set", "idle")
  /\ cursor' = Restored(t)
  /\ UNCHANGED <<mutex, table, fd, done, buf, seen, pos, size, mem, len, lens, calls, writes>>

------------------------------------------------------------------------------
Imports == {"open", "close", "pread", "pwrite", "truncate", "sync", "sync_parent", "size"}

Places == Imports \cup {"idle", "opening", "insert", "preading", "pwriting", "syncing", "resolved",
                        "dirsync", "size_end", "size_set"}

Step(t) ==
  \/ OpenResolves(t) \/ OpenFile(t) \/ OpenTruncates(t) \/ OpenFails(t)
  \/ OpenInsert(t) \/ Close(t) \/ BadDescriptor(t)
  \/ PreadStarts(t) \/ PreadBlock(t) \/ PwriteStarts(t) \/ PwriteBlock(t)
  \/ TransferEnds(t) \/ (\E n \in 0..Blocks : Truncate(t, n)) \/ TruncateFails(t)
  \/ SyncStarts(t) \/ SyncEnds(t)
  \/ ParentResolves(t) \/ ParentAllowed(t) \/ ParentEnds(t) \/ ParentRefused(t)
  \/ SizeCur(t) \/ SizeEnd(t) \/ SizeSet(t)

Next ==
  \E t \in Threads :
    Step(t) \/ \E d \in Fds, op \in Imports : Call(t, d, op)

Spec == Init /\ [][Next]_vars

------------------------------------------------------------------------------
(* Type invariant. *)
TypeOK ==
  /\ mutex \in Threads \cup {Free}
  /\ table \in [Fds -> {"new", "open", "closed"}]
  /\ at \in [Threads -> Places]
  /\ fd \in [Threads -> Fds]
  /\ done \in [Threads -> 0..Blocks]
  /\ buf \in [Threads -> [Page -> Nat]] /\ seen \in [Threads -> [Page -> Nat]]
  /\ pos \in [Threads -> Failed..Blocks] /\ size \in [Threads -> Failed..Blocks]
  /\ mem \in [Files -> [Page -> Nat]]
  /\ len \in [Files -> 0..Blocks] /\ cursor \in [Fds -> 0..Blocks]
  /\ lens \in [Threads -> SUBSET (0..Blocks)]
  /\ calls \in 0..MaxCalls /\ writes \in Nat

(* What a pread returns is the beginning of what the file held when the    *)
(* call got the mutex.  No pwrite and no truncate of another thread comes  *)
(* between its blocks, because HostFiles::pread and pwrite keep the mutex  *)
(* for the whole transfer; an open with O_TRUNC, which does not take the   *)
(* mutex, may come between them, and then the pread is short.              *)
ReadIsSnapshot ==
  \A t \in Threads : at[t] = "preading" =>
    \A b \in 1..done[t] : buf[t][b] = seen[t][b]

(* os_file_get_size answers a length the file had at some moment of the    *)
(* call, or -1 if the descriptor was closed under it, whatever other       *)
(* threads seek, write and truncate between its three seeks.               *)
SizeWasTrue ==
  \A t \in Threads :
    at[t] \notin {"size", "size_end"} => size[t] \in lens[t] \cup {Failed}

(* Every import returns: nobody waits for a mutex that is never released,  *)
(* although sync and the transfers hold it for as long as the host takes,  *)
(* and sync_parent takes it twice.                                         *)
EveryCallReturns == \A t \in Threads : at[t] # "idle" ~> at[t] = "idle"
===============================================================================
