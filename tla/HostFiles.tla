------------------------------ MODULE HostFiles ------------------------------
(***************************************************************************)
(* The file table of src/src/host_files.rs and the locks taken through it, *)
(* for several runner processes on one host.  InnoDB locks its data files  *)
(* so that a second server on the same directory does not start; the host  *)
(* provides the lock with fcntl record locks on Unix and with named kernel *)
(* objects on Windows, and the two end at different moments.               *)
(*                                                                         *)
(* Every operation holds the table's mutex from its first to its last      *)
(* step, except open, which opens the file before it takes the mutex.      *)
(***************************************************************************)
EXTENDS Integers

CONSTANTS
  Runners,      \* processes; each one starts at most once
  Threads,      \* guest threads of a runner
  Files,        \* files of the host
  Paths,        \* the paths under which open stores a file: the canonical one,
                \* or where canonicalize failed the one it was opened by
  FileOf,       \* the file at each path
  LockName,     \* windows_lock_name: path -> name of its kernel object
  Sessions,     \* Windows: logon sessions, each with a Local\ namespace
  NoPath, NoRunner,
  GuestFdBase,  \* GUEST_FD_BASE
  MaxGuestFd,   \* i32::MAX, where next_fd saturates
  OnUnix,       \* FALSE on Windows
  Tidy          \* does the guest keep other descriptors of a file open as
                \* long as it relies on a lock of that file?

ASSUME FilesAssumption == NoPath \notin Paths /\ NoRunner \notin Runners
ASSUME FdsAssumption ==
  GuestFdBase \in Nat /\ MaxGuestFd \in Nat /\ GuestFdBase <= MaxGuestFd
ASSUME SwitchAssumption == OnUnix \in BOOLEAN /\ Tidy \in BOOLEAN
ASSUME NameAssumption == DOMAIN LockName = Paths /\ FileOf \in [Paths -> Files]

VARIABLES
  up,        \* "new", "up" or "ended" for each runner
  next_fd,   \* HostFilesInner.next_fd of each runner
  files,     \* HostFilesInner.files and lock_paths: guest fd -> path of its file
  opening,   \* path of a file opened by a thread and not yet in the table
  locks,     \* Windows, HostFilesInner.locks: paths whose object we hold
  probing,   \* Windows: second handle to another runner's object, held
             \* with the mutex while lock_exclusive is about to give up
  record,    \* external, Unix: the process that owns a file's record lock
  relied,    \* guest descriptors for which lock_exclusive returned 0
  logon      \* external, Windows: the session each runner is started in

lockVars == <<up, next_fd, files, opening, locks, probing, record, relied, logon>>

GuestFds == GuestFdBase..MaxGuestFd
NoFiles == [g \in {} |-> NoPath]

LockInit ==
  /\ up = [r \in Runners |-> "new"]
  /\ next_fd = [r \in Runners |-> GuestFdBase]
  /\ files = [r \in Runners |-> NoFiles]
  /\ opening = [r \in Runners |-> [t \in Threads |-> NoPath]]
  /\ locks = [r \in Runners |-> {}]
  /\ probing = [r \in Runners |-> NoPath]
  /\ record = [f \in Files |-> NoRunner]
  /\ relied = [r \in Runners |-> {}]
  /\ logon \in [Runners -> Sessions]

Launch(r) ==
  /\ up[r] = "new"
  /\ up' = [up EXCEPT ![r] = "up"]
  /\ UNCHANGED <<next_fd, files, opening, locks, probing, record, relied>>

(* The mutex of a runner's table is free. *)
Free(r) == up[r] = "up" /\ probing[r] = NoPath

------------------------------------------------------------------------------
(* external: when a process closes a descriptor of a file, any descriptor, *)
(* the kernel drops the process's record lock on the file.                 *)
DropsRecord(r, p) ==
  record' = IF p \in Paths /\ record[FileOf[p]] = r
            THEN [record EXCEPT ![FileOf[p]] = NoRunner] ELSE record

(* The guest's discipline, when Tidy: g may go if it is no other           *)
(* descriptor of a file the guest relies on having locked.                 *)
MayClose(r, g) ==
  Tidy => \A h \in relied[r] \ {g} : FileOf[files[r][h]] # FileOf[files[r][g]]

------------------------------------------------------------------------------
(* open: resolve, OpenOptions::open and on Windows canonicalize, which may *)
(* fail and leaves the path as it is; then the entry under the mutex.      *)
OpenFile(r, t, p) ==
  /\ Free(r) /\ opening[r][t] = NoPath
  /\ opening' = [opening EXCEPT ![r] = [opening[r] EXCEPT ![t] = p]]
  /\ UNCHANGED <<up, next_fd, files, locks, probing, record, relied>>

(* Mutant: the counter runs on past i32::MAX. *)
saturating_succ_Runs(n) == n + 1

saturating_succ(n) == IF n = MaxGuestFd THEN n ELSE n + 1

(* A saturated counter overwrites the last entry, whose File is dropped.   *)
OpenInsert(r, t) ==
  LET g == next_fd[r]
      p == opening[r][t]
      replaced == IF g \in DOMAIN files[r] THEN files[r][g] ELSE NoPath
  IN /\ Free(r) /\ p # NoPath
     /\ g \in DOMAIN files[r] => MayClose(r, g)
     /\ next_fd' = [next_fd EXCEPT ![r] = saturating_succ(g)]
     /\ files' = [files EXCEPT ![r] =
          [h \in DOMAIN files[r] \union {g} |-> IF h = g THEN p ELSE files[r][h]]]
     /\ opening' = [opening EXCEPT ![r] = [opening[r] EXCEPT ![t] = NoPath]]
     /\ relied' = [relied EXCEPT ![r] = relied[r] \ {g}]
     /\ DropsRecord(r, replaced)
     /\ UNCHANGED <<up, locks, probing>>

(* Mutant: the guest's descriptor goes, the host's File stays open. *)
Close_Leaks(r, g) ==
  /\ Free(r) /\ g \in DOMAIN files[r]
  /\ MayClose(r, g)
  /\ files' = [files EXCEPT ![r] = [h \in DOMAIN files[r] \ {g} |-> files[r][h]]]
  /\ relied' = [relied EXCEPT ![r] = relied[r] \ {g}]
  /\ UNCHANGED <<up, next_fd, opening, locks, probing, record>>

(* close: the File is dropped.  The entry of locks stays. *)
Close(r, g) ==
  /\ Free(r) /\ g \in DOMAIN files[r]
  /\ MayClose(r, g)
  /\ files' = [files EXCEPT ![r] = [h \in DOMAIN files[r] \ {g} |-> files[r][h]]]
  /\ relied' = [relied EXCEPT ![r] = relied[r] \ {g}]
  /\ DropsRecord(r, files[r][g])
  /\ UNCHANGED <<up, next_fd, opening, locks, probing>>

------------------------------------------------------------------------------
(* Mutant: F_RDLCK, which other processes can take too. *)
LockUnix_Shared(r, g) ==
  /\ OnUnix /\ Free(r) /\ g \in DOMAIN files[r]
  /\ record' = [record EXCEPT ![FileOf[files[r][g]]] = r]
  /\ relied' = [relied EXCEPT ![r] = relied[r] \union {g}]
  /\ UNCHANGED <<up, next_fd, files, opening, locks, probing>>

(* lock_exclusive on Unix: fcntl(F_SETLK), which succeeds again for the    *)
(* process that has the lock and fails for any other.                      *)
LockUnix(r, g) ==
  /\ OnUnix /\ Free(r) /\ g \in DOMAIN files[r]
  /\ record[FileOf[files[r][g]]] \in {NoRunner, r}
  /\ record' = [record EXCEPT ![FileOf[files[r][g]]] = r]
  /\ relied' = [relied EXCEPT ![r] = relied[r] \union {g}]
  /\ UNCHANGED <<up, next_fd, files, opening, locks, probing>>

(* lock_exclusive on Windows: 0 if this runner has the object. *)
LockAgain(r, g) ==
  /\ ~OnUnix /\ Free(r) /\ g \in DOMAIN files[r]
  /\ files[r][g] \in locks[r]
  /\ relied' = [relied EXCEPT ![r] = relied[r] \union {g}]
  /\ UNCHANGED <<up, next_fd, files, opening, locks, probing, record>>

(* external: a kernel object of a session exists as long as anyone in the  *)
(* session has a handle to it.                                             *)
Exists(r, name) ==
  \E q \in Runners, p \in Paths :
    /\ logon[q] = logon[r] /\ LockName[p] = name
    /\ p \in locks[q] \/ probing[q] = p

LockCreates(r, g) ==
  /\ ~OnUnix /\ Free(r) /\ g \in DOMAIN files[r]
  /\ files[r][g] \notin locks[r]
  /\ ~Exists(r, LockName[files[r][g]])
  /\ locks' = [locks EXCEPT ![r] = locks[r] \union {files[r][g]}]
  /\ relied' = [relied EXCEPT ![r] = relied[r] \union {g}]
  /\ UNCHANGED <<up, next_fd, files, opening, probing, record>>

(* ERROR_ALREADY_EXISTS comes with a handle, which is closed again. *)
LockFinds(r, g) ==
  /\ ~OnUnix /\ Free(r) /\ g \in DOMAIN files[r]
  /\ files[r][g] \notin locks[r]
  /\ Exists(r, LockName[files[r][g]])
  /\ probing' = [probing EXCEPT ![r] = files[r][g]]
  /\ UNCHANGED <<up, next_fd, files, opening, locks, record, relied>>

LockGivesUp(r) ==
  /\ up[r] = "up" /\ probing[r] # NoPath
  /\ probing' = [probing EXCEPT ![r] = NoPath]
  /\ UNCHANGED <<up, next_fd, files, opening, locks, record, relied>>

------------------------------------------------------------------------------
(* The process ends, at any moment and in any way: the host closes its     *)
(* files and its handles.                                                  *)
End(r) ==
  /\ up[r] = "up"
  /\ up' = [up EXCEPT ![r] = "ended"]
  /\ files' = [files EXCEPT ![r] = NoFiles]
  /\ opening' = [opening EXCEPT ![r] = [t \in Threads |-> NoPath]]
  /\ locks' = [locks EXCEPT ![r] = {}]
  /\ probing' = [probing EXCEPT ![r] = NoPath]
  /\ record' = [f \in Files |-> IF record[f] = r THEN NoRunner ELSE record[f]]
  /\ relied' = [relied EXCEPT ![r] = {}]
  /\ UNCHANGED next_fd

Operation(r) ==
  \/ Launch(r) \/ End(r) \/ LockGivesUp(r)
  \/ \E t \in Threads : OpenInsert(r, t) \/ \E p \in Paths : OpenFile(r, t, p)
  \/ \E g \in DOMAIN files[r] :
       Close(r, g) \/ LockUnix(r, g) \/ LockAgain(r, g) \/ LockCreates(r, g)
         \/ LockFinds(r, g)

LockNext == (\E r \in Runners : Operation(r)) /\ UNCHANGED logon

LockSpec == LockInit /\ [][LockNext]_lockVars

------------------------------------------------------------------------------
(* Type invariant. *)
LockTypeOK ==
  /\ up \in [Runners -> {"new", "up", "ended"}]
  /\ next_fd \in [Runners -> GuestFds]
  /\ DOMAIN files = Runners
  /\ \A r \in Runners :
       /\ DOMAIN files[r] \subseteq GuestFds
       /\ files[r] \in [DOMAIN files[r] -> Paths]
  /\ opening \in [Runners -> [Threads -> Paths \union {NoPath}]]
  /\ locks \in [Runners -> SUBSET Paths]
  /\ probing \in [Runners -> Paths \union {NoPath}]
  /\ record \in [Files -> Runners \union {NoRunner}]
  /\ relied \in [Runners -> SUBSET GuestFds]
  /\ logon \in [Runners -> Sessions]

(* The second of two runners does not get a lock: no two rely on a lock of *)
(* the same file.                                                          *)
SecondRunnerFails ==
  \A q, r \in Runners : q # r =>
    \A a \in relied[q], b \in relied[r] : FileOf[files[q][a]] # FileOf[files[r][b]]

(* Two runners hold kernel objects of their own for one file: they are in  *)
(* different sessions, or canonicalize failed for one of them.             *)
OwnObjects(q, a, r, b) ==
  /\ files[q][a] \in locks[q] /\ files[r][b] \in locks[r]
  /\ logon[q] # logon[r] \/ files[q][a] # files[r][b]

(* No two runners rely on a lock of the same file: the second one's        *)
(* lock_exclusive fails.  On Unix this needs the guest's discipline, since *)
(* closing any descriptor of the file ends the lock of the process.  On    *)
(* Windows it needs none, but the objects are named by path and in the     *)
(* namespace of the session, and exclude only runners that share both.     *)
LockExclusive ==
  (OnUnix => Tidy) =>
    \A q, r \in Runners : q # r =>
      \A a \in relied[q], b \in relied[r] :
        FileOf[files[q][a]] = FileOf[files[r][b]] => OwnObjects(q, a, r, b)

(* A record lock does not outlive the descriptors of its file in the       *)
(* process that has it: what fcntl promises of close and of the end of a   *)
(* process, and what the entries of the table must keep up.                *)
LockNeedsDescriptor ==
  \A r \in Runners, f \in Files :
    record[f] = r => \E g \in DOMAIN files[r] : FileOf[files[r][g]] = f
==============================================================================
