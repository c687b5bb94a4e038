------------------------------ MODULE Durability ------------------------------
(***************************************************************************)
(* What survives a loss of power: HostFileIO with a disk under the host's  *)
(* cache.  The host writes blocks and directory entries back whenever it   *)
(* likes; sync and sync_parent make it do so.                              *)
(***************************************************************************)
EXTENDS HostFileIO

CONSTANT MaxCrashes     \* bound: losses of power in a behaviour

ASSUME DurabilityAssumption == MaxCrashes \in Nat

VARIABLES
  entries,                      \* files with an entry in the host's directory
  disk, diskEntries,            \* contents and entries on the disk
  asked, askedEntries,          \* history: what a thread's call found when it began
  promised, promisedEntries,    \* history: what successful calls have made durable
  crashes

diskVars == <<entries, disk, diskEntries, asked, askedEntries, promised,
              promisedEntries, crashes>>
allVars == <<vars, diskVars>>

DInit ==
  /\ Init
  /\ entries \in SUBSET Files /\ (\A f \in Files \ entries : len[f] = 0)
  /\ disk = mem /\ diskEntries = entries
  /\ asked = buf /\ askedEntries = [t \in Threads |-> {}]
  /\ promised = mem /\ promisedEntries = entries
  /\ crashes = 0

------------------------------------------------------------------------------
Begin(t, d, op) ==
  /\ Call(t, d, op)
  /\ asked' = [asked EXCEPT ![t] = IF op = "sync" THEN mem[FileOf[d]] ELSE Zero]
  /\ askedEntries' = [askedEntries EXCEPT ![t] = IF op = "sync_parent" THEN entries ELSE {}]
  /\ UNCHANGED <<entries, disk, diskEntries, promised, promisedEntries, crashes>>

(* open with O_CREAT makes the entry in the host's cache. *)
Creates(t) ==
  /\ OpenFile(t) \/ OpenTruncates(t)
  /\ entries' = entries \cup {File(t)}
  /\ UNCHANGED <<disk, diskEntries, asked, askedEntries, promised, promisedEntries, crashes>>

(* The call returns, and what it asked for is forgotten. *)
SyncReturns(t) ==
  /\ SyncEnds(t)
  /\ asked' = [asked EXCEPT ![t] = Zero]
  /\ UNCHANGED <<entries, diskEntries, askedEntries, promisedEntries, crashes>>

(* sync_all and sync_data write what the cache holds of the file; what the *)
(* caller had written before is durable when the import answers 0.         *)
Synced(t) ==
  /\ SyncReturns(t)
  /\ disk' = [disk EXCEPT ![File(t)] = mem[File(t)]]
  /\ promised' = [promised EXCEPT ![File(t)] =
       [b \in Page |-> IF asked[t][b] > @[b] THEN asked[t][b] ELSE @[b]]]

(* Mutant: the host's error is dropped and the guest told that all is well.*)
SyncFails_Ignored(t) ==
  /\ SyncReturns(t)
  /\ promised' = [promised EXCEPT ![File(t)] = asked[t]]
  /\ UNCHANGED disk

SyncFails(t) == SyncReturns(t) /\ UNCHANGED <<disk, promised>>

DirReturns(t) ==
  /\ ParentEnds(t)
  /\ askedEntries' = [askedEntries EXCEPT ![t] = {}]
  /\ UNCHANGED <<entries, disk, asked, promised, crashes>>

(* Mutant: os_parent_dir_fsync_posix returns at once, as it did before     *)
(* there was an import for it.                                             *)
DirSynced_Skipped(t) ==
  /\ DirReturns(t)
  /\ promisedEntries' = promisedEntries \cup askedEntries[t]
  /\ UNCHANGED diskEntries

(* sync_parent opens the directory and syncs it. *)
DirSynced(t) ==
  /\ DirReturns(t)
  /\ diskEntries' = diskEntries \cup entries
  /\ promisedEntries' = promisedEntries \cup askedEntries[t]

DirFails(t) == DirReturns(t) /\ UNCHANGED <<diskEntries, promisedEntries>>

CachedStep(t) ==
  /\ \/ OpenResolves(t) \/ OpenFails(t) \/ OpenInsert(t) \/ Close(t) \/ BadDescriptor(t)
     \/ PreadStarts(t) \/ PreadBlock(t) \/ PwriteStarts(t) \/ PwriteBlock(t)
     \/ TransferEnds(t) \/ (\E n \in 0..Blocks : Truncate(t, n))
     \/ TruncateFails(t) \/ SyncStarts(t)
     \/ ParentResolves(t) \/ ParentAllowed(t) \/ ParentRefused(t)
     \/ SizeCur(t) \/ SizeEnd(t) \/ SizeSet(t)
  /\ UNCHANGED diskVars

------------------------------------------------------------------------------
(* external: the host's write-back. *)
WriteBack(f, b) ==
  /\ disk' = [disk EXCEPT ![f] = [@ EXCEPT ![b] = mem[f][b]]]
  /\ UNCHANGED <<vars, entries, diskEntries, asked, askedEntries, promised,
                 promisedEntries, crashes>>

WriteBackEntry(f) ==
  /\ f \in entries
  /\ diskEntries' = diskEntries \cup {f}
  /\ UNCHANGED <<vars, entries, disk, asked, askedEntries, promised, promisedEntries, crashes>>

(* external: power is lost and the runner started again.  A file without   *)
(* an entry on the disk is gone, and with it what was synced of it; of the *)
(* others the length is kept, the contents being what matters here.        *)
PowerLoss ==
  /\ crashes < MaxCrashes /\ crashes' = crashes + 1
  /\ mutex' = Free
  /\ table' = [d \in Fds |-> "new"]
  /\ at' = [t \in Threads |-> "idle"]
  /\ disk' = [f \in Files |-> IF f \in diskEntries THEN disk[f] ELSE Zero]
  /\ mem' = disk'
  /\ entries' = diskEntries
  /\ promised' = [f \in Files |-> IF f \in diskEntries THEN promised[f] ELSE Zero]
  /\ len' = [f \in Files |-> IF f \in diskEntries THEN len[f] ELSE 0]
  /\ cursor' = [d \in Fds |-> 0]
  /\ done' = [t \in Threads |-> 0] /\ buf' = [t \in Threads |-> Zero] /\ seen' = buf'
  /\ pos' = [t \in Threads |-> 0] /\ size' = [t \in Threads |-> Failed]
  /\ lens' = [t \in Threads |-> {}]
  /\ UNCHANGED <<fd, calls, writes, diskEntries, asked, askedEntries, promisedEntries>>

ThreadStep(t) ==
  Creates(t) \/ Synced(t) \/ SyncFails(t) \/ DirSynced(t) \/ DirFails(t) \/ CachedStep(t)

DNext ==
  \/ \E t \in Threads :
       ThreadStep(t) \/ \E d \in Fds, op \in Imports : Begin(t, d, op)
  \/ \E f \in Files : WriteBackEntry(f) \/ \E b \in Page : WriteBack(f, b)
  \/ PowerLoss

(* The host schedules every thread and its file operations end.  Nothing   *)
(* is assumed of the guest, which need not call, nor of the write-back.    *)
Fairness == \A t \in Threads : WF_allVars(ThreadStep(t))

DSpec == DInit /\ [][DNext]_allVars /\ Fairness

------------------------------------------------------------------------------
(* What a thread had written to a file before it called sync is on the     *)
(* disk once sync has answered 0, and stays there through losses of power, *)
(* or is replaced by something newer (HostFiles::sync, which must not drop *)
(* the host's error).  It is a promise about the contents of a file, which *)
(* ends with the file: one whose entry was not on the disk is lost with    *)
(* the power.                                                              *)
DataSurvives == \A f \in Files, b \in Page : promised[f][b] <= disk[f][b]

(* A file that existed when sync_parent was called is there for good once  *)
(* it has answered 0, with everything that was synced, also after a loss   *)
(* of power at any moment: a table space that InnoDB created, wrote,       *)
(* synced and whose directory it synced is found again.                    *)
CreatedSurvives ==
  \A f \in promisedEntries : f \in entries /\ \A b \in Page : promised[f][b] <= mem[f][b]
===============================================================================
