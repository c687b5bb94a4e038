# Verification of wasmtime-mysql

TLA+ models of the native runner that hosts the WASI build of `mysqld`, checked
with TLC on small instances and, for the safety properties that matter most,
proved with TLAPS for every instance.

## The system

| Part | Source | Model |
| --- | --- | --- |
| Socket bridge, Unix: table of guest descriptors, 16 host imports | `src/host_sockets.rs` | `HostSockets` |
| Socket bridge, Windows: the same over WinSock | `src/host_sockets_windows.rs` | `WindowsSockets` (nonblocking mode) |
| Buffers, lengths and copies of both bridges | both | `Marshalling` |
| Options and timeouts of both bridges | both, the shim's header | `SocketOptions` |
| Error numbers, and what the guest concludes from them | `src/guest_errno.rs`, all bridges, the shim's `decode_i32` | `GuestErrno`, `SocketErrors` |
| File bridge: table of files and locks | `src/host_files.rs` | `HostFiles` |
| File bridge: positional I/O, seek, sync; InnoDB's file shim | `src/host_files.rs`, `patches/mysql-wasi` | `HostFileIO`, `Durability` |
| Guest paths and preopens | `src/host_files.rs`, `src/main.rs` | `GuestPaths` |
| Shutdown flag, signal handlers | `src/main.rs` | `Shutdown` |
| Listener loop, `kill_mysql`, order of shutdown in mysqld | `patches/mysql-wasi/0002` | `Shutdown` |
| WASI threads: identifiers, instances, traps; exit status | `src/main.rs` | `WasiThreads` |
| Threads, sessions and shutdown together | the same | `Runner` |
| Command line, WASI context, build scripts, libc shim | `src/main.rs`, `build.rs`, `scripts/` | not modelled |

Guest threads are host threads. Each has a Wasm instance of its own; they share
the guest's memory, the two descriptor tables (each behind one mutex) and the
shutdown flag. What can go wrong therefore lies in the gaps between two uses of a
mutex, between the host kernel and a table, and between the flag and the loop
that looks at it. `PROJECT.json` lists these hazards with the line where each
one bites.

## Modules

**`FdTable`** is the promise of a descriptor table to the guest: an object enters
under a descriptor that was never handed out, keeps it until it is closed, and no
two open descriptors name the same object. The counter saturates, so the last
descriptor (`i32::MAX`) alone may be handed out again.

**`HostSockets`** is the Unix bridge. `next_fd` and `sockets` are the fields of
`HostSocketsInner`; `kernel` is the host's descriptor table, in which numbers are
reused and a counter names each socket. A handler is split where it releases the
mutex or calls the kernel: `Socket`/`ConfigureFails`/`SocketInsert`,
`AcceptGet`/`AcceptSucceeds`/`AcceptFails`/`AcceptCopyFails`/`AcceptInsert`,
`PollStart`/`PollGet`/`PollReturns`, `CloseRemove`/`CloseRaw`. The remaining
handlers have one shape, `CallGet` and `CallReturns`, mapped to `bind`; their
payloads are left out. A handler may panic: `CallPanics` over the length of an
answer or poll's arithmetic, `AcceptPanics` with the accepted connection in hand,
which then belongs to nobody. The thread unwinds and ends (`Exits`).
A handler that fails before it changed anything is a stuttering step. `poll`
starts from descriptors that are open at that moment and meets closed ones only
through a race. `Drop` is the end of the last clone of the table; a process that
exits while other threads run leaves the closing to the host and is not a step.

Threads may close a descriptor while another thread's call uses it; the bridge
does not prevent that, and no property assumes that they do not.
`CallHitsItsSocket` says that nothing but such a close, of that very descriptor,
misdirects a call. `strays` are the connections that a misdirected `accept`
produced: `DomainsAgree` excepts them from one of its two parts. `lost` are the
connections of accepts that panicked, which `NoLeak` and `DropClosesAll` name.

**`WindowsSockets`** is about one thing in which the Windows bridge differs.
WinSock cannot be asked whether a socket is nonblocking, so `fcntl(F_GETFL)`
answers from `status_flags` in the table. `socket`, `accept` and `F_SETFL` talk to
WinSock and write the table in separate steps, and every failure in between is an
action. That a connection inherits its listener's mode is WinSock's behaviour as
the code relies on it. Nothing is assumed of the guest. Where two threads' steps
between FIONBIO and `set_status_flags` overlap on a socket, its flags and its mode
may differ until the next `F_SETFL`; and a connection may get the listener's old
mode if the mode changed between `accept`'s copy and its arrival. `contested` and
`unsure` record exactly these sockets and threads, and `FlagsMatchMode` is about all
others.

**`Shutdown`** has the flag, the three registrations of
`install_shutdown_signal_handlers` one by one, signals at any moment, SQL
`SHUTDOWN` from any session, and the main thread: start, loop head, 100 ms poll,
accept, `close_connections`, the flush, and the exit. What mysqld itself does
(`close_connections`, sessions) is external. With `Unix = FALSE` no handler is
registered and a signal ends the process.

**`HostFiles`** has several runner processes with a file table each. All
operations hold the mutex throughout except `open`, which is `OpenFile` and
`OpenInsert`. On Unix a lock is a record lock of the process, which the kernel
drops when the process closes any descriptor of the file. On Windows it is a
named kernel object: `LockCreates` makes it, `LockFinds` gets a second handle to
another's and `LockGivesUp` closes that again, `close` leaves it alone. The name is
a hash of the path, `LockName`, in the namespace of the runner's logon session,
`logon`. A file may be known by a second path, since `open` keeps the path as it is
where `canonicalize` fails. `LockExclusive` is about runners that share session and
path, and says that there is no other exception. `End` is
a process that exits or is killed at any point. `Tidy` is the guest's side of
fcntl's contract. `lock_paths` has the same domain as `files` and is not a
variable of its own.

**`GuestPaths`** has the path functions as operators on sequences of components;
its behaviours enumerate paths under several sets of preopens. Host paths are
absolute. `loop` is the loop of `normalize_guest_path` as a function of the number
of its turns; the order of the preopens is `before`, by which `resolve` takes the
first that matches.

**`WasiThreads`** has `spawn_wasi_thread` and `run_wasi_thread`: an identifier is
taken (`FetchAdd`), the host spawns or refuses, the thread sets up its instance,
enters the guest, and returns or traps. `birth` counts spawns, so that
`LiveIdsDistinct` can speak of all rounds of the counter: two live threads have the
same identifier only if a whole round of spawns lies between them. `main`'s exit status is part of it, since
the process ends under whatever the threads do.

**`Runner`** extends `Shutdown` and composes it with `WasiThreads` through
`INSTANCE`: accepting a connection takes an identifier, a session can only end on a
thread that has got as far as the guest, and the main thread waits while the host
spawns. Threads may fail in set-up or trap, after which mysqld still counts the
session (`failed`).

**`HostFileIO`** has the calls of several threads on files of one directory.
`mutex` is the table's; a transfer and a sync hold it, `sync_parent` takes it
twice and syncs without it. `open` resolves the path under it (`OpenResolves`) and
opens without it: `OpenTruncates` is `O_TRUNC`, which empties the file in the middle
of whatever other threads do. A file may be opened several times; `FileOf` is the
file of each descriptor. Opening, truncating and syncing may fail. Contents are
numbers of changes, a page has a few blocks, and `SizeCur`, `SizeEnd`, `SizeSet` are the three
seeks of `os_file_get_size`. `Windows` is positional I/O that moves the cursor.

**`Durability`** extends it with a disk under the host's cache. The host writes
back what it likes and when it likes, a sync may fail, and power is lost at any
moment; `promised` and `promisedEntries` record what successful imports claimed.
That a successful fsync puts the file on the disk is the host's promise and is
assumed. After a loss of power the file's length is kept: the properties are
about contents and existence. A file without an entry on the disk is gone then,
synced or not, and what was promised of its contents ends with it; that it cannot
happen to a file whose directory was synced is `CreatedSurvives`.

**`GuestErrno`** has the three translation tables, **`SocketErrors`** the paths on
which they are used: failing imports, a failed configuration followed by the
clean-up's own system call, `connect` at once or later, and `SO_ERROR`.
`CloseClobbers` lets the clean-up overwrite the thread's error. The Unix bridge
takes the error down first and is checked with it; the WinSock bridge reads it
afterwards and is checked on the assumption that a successful `closesocket` leaves
it alone. `guest_link` is what a caller that goes by POSIX believes.

**`Marshalling`** has guest memory and every import that has a buffer: its checks in
their order, the kernel's call on a buffer of the host's, and the copies one by
one. `i32` and memory are scaled down together. `Keeps` and `Separate` state the
rules of the socket API that a guest keeps; `SoundCallsSucceed` is about every call
that keeps them and `OnlyRequested` about every call. `NoByteLost` accounts for
every byte taken from the stream: it was returned, is on its way, or was lost by a
call that broke the rules itself (`lost`). It assumes only that buffers of calls in
progress do not overlap (`apart`), without which a byte has no place of its own.

**`SocketOptions`** has `setsockopt` and `getsockopt` with the numbers of the guest
and of Linux, macOS and Windows. A timeout is a `timeval` in the guest and, on
Windows, milliseconds in the host; the guest saves and restores one. Negative
timeouts, and values shorter than a `timeval`, which the WinSock bridge passes on as
they are, are included; a Unix host refuses both (`Accepts`). A call that fails
leaves everything as it was.

`MC*` modules instantiate these for TLC, `*Proofs` modules hold the theorems. Where
a module has two kinds of host, its `MC` module takes it twice, once for each, and a
variable says which host a behaviour is on.
Definitions with a suffix and the comment "Mutant" are plausible bugs of the code
they precede; each property of a passing run fails under one of them.

## Runs

| Run | Instance | Shows |
| --- | --- | --- |
| `host_sockets` | 2 threads, 3 raw descriptors, 4 sockets created, two spellings of families, counter saturating after 3 | `TypeOK`, `OwnedOnce`, `NoLeak`, `DropClosesAll`, `CallHitsItsSocket`, `DomainsAgree`, `ImplementsFdTable` |
| `runner` | Unix, 3 clients, 2 SIGINTs, 2 other requests, threads that are refused, fail and trap | `TypeOK`, `AtMostOneLate`, `ImmediateIsNotFirst`, `CleanExitIsComplete`, `EverySessionHasThread`, `ImplementsShutdown`, `StopsUnlessOrphaned` |
| `wasi_threads` | 3 threads, 18 spawns, an i32 of 8 values | `TypeOK`, `LiveIdsDistinct`, `ExitStatusHonest` |
| `file_locks` | Unix: 2 files, 2 runners of 2 threads, 3 descriptors; Windows: a file of 2 paths, 3 runners in one session or 2 in two, 2 descriptors | `LockTypeOK`, `LockExclusive`, `LockNeedsDescriptor` |
| `durability` | 2 threads, 1 file of 2 blocks, new or existing, 2 descriptors, 3 calls, one loss of power, transfers that move the cursor | `TypeOK`, `ReadIsSnapshot`, `SizeWasTrue`, `DataSurvives`, `CreatedSurvives`, `EveryCallReturns` |
| `guest_paths` | all paths of up to 5 components, 8 sets of preopens and one that is refused | `NormalizeIsLexical`, `InnermostPreopenServes`, `ParentIsGuestParent` |
| `socket_errors` | Unix and Windows, all errors of the tables and some outside, 2 sockets | `FailureIsReported`, `ErrnoNamesCause`, `NoFalseConnection` |
| `marshalling` | both bridges, 2 threads, buffers at the ends of memory and of the greatest length; one thread also passes arbitrary pointers and lengths; memory larger than `i32::MAX` | `TypeOK`, `SoundCallsSucceed`, `NoByteLost`, `OnlyRequested` |
| `socket_settings` | mode: 3 threads, 2 sockets created; options: Linux and Windows, all options, timeouts at the edges, u32 and i64 scaled down | `FlagsMatchMode`, `OptionsTakeEffect`, `TimeoutKept`, `RestoreIsExact` |

The bounds let the cases happen: a raw descriptor is reused (4 sockets on 3
numbers), the counters reach their limits, a third runner meets the handle a
second one has to the first one's object, two connections can wait when the flag
is set, a listener's connection is a listener again, the identifiers of threads
wrap around twice (18 spawns, 8 values), three calls, of either thread and
overlapping, are enough to open a file a second time while it is read, or to create
it and sync its directory, timeouts reach the greatest that WinSock has, and poll's
addresses overflow. In `file_locks` one file is opened at a time on Windows; in
`marshalling` there is a third call only while all of them keep the rules; in
`socket_settings` one option at a time is on. One thread makes the calls of `SocketErrors`,
since the errors are per thread, while connections proceed under it. With one file,
nothing is lost: files interact only through the mutex. The transfers of `durability`
are those of Windows, which do to the cursor what those of Unix do not; `Shutdown` on
Windows, without handlers, is covered by its theorems and not by a run.
Processes and sessions may stop and the bounds use themselves up, so deadlock is
not checked.

Three runs refute a sentence of the documentation:

* `first_ctrl_c`: after a SIGTERM or an SQL `SHUTDOWN` the *first* Ctrl+C exits
  immediately; README says the first one is graceful and a second one exits.
* `so_error_zero`: on Unix `getsockopt(SO_ERROR)` answers `EIO` for "no error", so
  a nonblocking connect that succeeded looks like one that failed.
* `second_runner`: on Windows two runners in different logon sessions both lock the
  same data file, since `Local\` names are kept apart for each session;
  `docs/status.md` says that a second runner on the same directory fails to lock
  `ibdata1`.

Other behaviours met while modelling, which the models have and the properties
name as exceptions or leave out:

* A Ctrl+C between the two registrations for SIGINT has no effect (`OnSigint`);
  `StopsUnlessOrphaned` begins when the flag is set.
* When the thread of a session traps or cannot be set up, mysqld waits for that
  session for ever and a graceful stop does not end the process (`Orphaned`).
* On Windows a lock lasts until the process ends, not until close as an fcntl lock
  does; `LockNeedsDescriptor` is about record locks. (The README and
  `docs/status.md` also name `LockFileEx`; the code uses `CreateFileMappingW` and
  says why.)
* On Windows a runner for which `canonicalize` failed locks another name than one
  for which it succeeded, and both get the lock (`OwnObjects`).
* `accept`, `recvfrom` and the name calls of the Unix bridge panic if the address is
  longer than the guest's buffer; `accept` then leaves the connection open for the
  life of the process.
* `recv` into a buffer outside memory loses the bytes it took from the stream.
* `open` with `O_TRUNC` can empty a file during another thread's `pread`, which is
  then short; what it has returned is still from one state of the page.
* A negative timeout waits for ever on Windows (`TimeoutKept`).
* A relative preopen with a one-byte name is hidden by a preopen `.` (the default
  one) or `/` before it, whose names are as long; `InnermostPreopenServes` names the
  case.
* On Windows a nonblocking connect that has to wait answers `EAGAIN`; POSIX callers
  wait only on `EINPROGRESS`. `NoFalseFailure` would fail for this as well.
* On macOS the names of options are passed on with Linux's numbers, so
  `OptionsTakeEffect` does not hold with `Platform = "macos"`.

### Fairness

`StopsUnlessOrphaned` assumes weak fairness of the main thread, which the host
schedules, and whose poll has a timeout of 100 ms, so that an idle listener returns
to the loop's head; of the set-up of a spawned thread, which the host schedules
too; and that a session which was asked to end does so once its thread is in the
guest. Threads may fail or trap at any time, and nothing is assumed then.
`EveryCallReturns` assumes that the host schedules every thread and that its own
file operations end; since the mutex is only waited for while another call holds
it, weak fairness and the bounded number of calls suffice. Nothing is assumed of
signals, clients, or of the guest making calls. The other specifications assume
no fairness.

## Theorems

All are proved for every value of the constants under the named assumptions of
the modules (numbers are naturals, sentinels are outside their sets).

`HostSocketsProofs`: `TypeCorrect`, `OwnershipExclusive`, `NothingLeaks`,
`DropIsComplete`, `CallsHitTheirSockets`, `FamiliesAgree`, and
`BridgeImplementsTable` (refinement of `FdTable`). The inductive invariant adds
to the type, ownership and leak invariants what a handler's local variable holds
at each place (`Locals`), that the table's descriptors are below the counter
unless it saturated (`BelowCounter`: a new descriptor is really new) and what is
true once threads have ended (`Finished`). Ownership is not inductive without
`Locals`: closing needs the local descriptor to be the only reference left. The two
that have exceptions, `lost` and `strays`, are proved with them, for all behaviours.

`RunnerProofs` is about the processes: `Shutdown`, its composition with the threads,
and the locks between runners.

* Of `Shutdown`: `TypeCorrect`, `CleanExits`, `OneLateConnection`,
  `FirstRequestNotImmediate`. The invariant says what each place of the main thread
  knows (`Stages`) and that the flag remembers a request (`Requests`).
* Of `Runner`: `RunnerImplementsShutdown` and `RunnerImplementsThreads`, the
  refinements of both components, step by step; through them `RunnerSafe` and
  `SessionIdsDistinct`, what the components promise; and `SessionsHaveThreads`, which
  neither of them says. Its invariant (`Served`) drops the condition that the process
  runs and adds the stages of the threads: a refused spawn is the step at which a
  session would be left behind.
* Of `HostFiles`: `LockTypesCorrect`, `LocksExclude`, `UnixLocksEnd`. Exclusion
  becomes inductive with `Backed` (a descriptor the guest relies on is open and the
  host keeps others out on its behalf) and `ObjectsOwned` (one owner per object
  name and session, for any hash of paths, collisions included).

`GuestPathsProofs`: `NormalizationIsLexical`, `InnermostServes` and
`ParentsAreGuestParents`, for paths of any length, any names and any list of
preopens. The state is simple (`PathInv`: the preopens are normalized, the path is a
path); the work is in the operators. Induction over the turns of the loop comes from
`Least`, that a set of naturals has a least element. `LoopIsLexical` carries the
stack through the turns: after `m` of them there is an increasing list `pos` of the
places of the components that stay, the stack is their names, and the height of the
stack above each of them is the balance of names and `..` since then (`Stacked`). A
name extends the list (`KeptName`), `..` takes its last place away (`KeptUp`) and
anything else leaves it (`KeptIdle`). `ResolveServes` reduces `resolve` to the first
preopen in `before`'s order, which exists because a set of preopens is finite
(`Minimum`); a longer guest path on the way to the same place has more bytes
(`LenGrows`), which is where the exception for names of one byte comes from.

`SocketErrorsProofs`: `FailuresAreReported`, `ErrnosNameCauses` and
`ConnectionsAreReal`, for any errors of the host, any number of threads and sockets,
on Unix and Windows. Three lemmas say that each translation names every cause
(`Tells`): a finite table, and one default for all the rest. The invariant says that
what a thread brings back tells of its cause, and in the clean-up that the saved
errno does, or that WinSock still has the error (`ThreadState`); and that a guest
that waits for a connection has one that the host is still making, has made, or has
the error of (`LinkInv`). Two assumptions are the host's: a call that failed has an
error and an attempt that ended is not in progress (`FailuresAssumption`), and on
Windows a successful `closesocket` leaves the error alone, no error of WinSock is
called `EAGAIN`, and file calls fail with errors of Windows (`WindowsAssumption`).

`SocketSettingsProofs` is about what a socket was told. Of `WindowsSockets`:
`FlagsAreTrue`, for any guest. `FlagsMatchMode` is not inductive by itself:
`HandlersAgree` says that what a handler is about to store is the mode of its socket
unless it is among the recorded overlaps, `MadeIsPrivate` that nobody else can change
it before the insert. Of `SocketOptions`:
`OptionsReachTheirNames`, `TimeoutsKeepMeaning`, `RestoringIsExact`, each assuming
that the platform is not macOS. The host's timeout is always one that WinSock can
have, and a saved one is its image, so that rounding happens once.

`WasiThreadsProofs`: `TypeCorrect`, `IdsDistinct`, `ExitCodesHonest`. Distinctness
needs the identifier of a thread as a function of its birth, modulo the number of
identifiers, and that births are distinct: a residue does not repeat within a round.

`FileIOProofs`: `TypeCorrect`, `ReadsAreSnapshots`, `SizesAreTrue`, and of
`Durability` `SyncedDataSurvives` and `CreatedFilesSurvive`, all of them under losses
of power. The first invariant adds
who holds the mutex at which place (`Holder`), that what is left to read of a page
is as it was when the read began or has been cut off (`Ahead`), and that the current
length is among
those recorded for a call that is measuring (`LensCurrent`); the second one orders
the versions of a block, promised ≤ disk ≤ cache ≤ counter (`Ordered`), and the
entries likewise.

`MarshallingProofs`: `TypeCorrect`, `WritesOnlyRequested`, `SoundCallsEndWell`,
`NothingIsLost`, for any sizes of memory and integers and any calls. `Local` says
what a handler knows at each place of its call; `NothingIsLost` also needs that a
buffer already copied keeps its bytes until the call returns (`Copied`), which is
where the separate buffers of calls in progress matter (`Apart`), and that a call
which keeps the rules has room for every answer (`RoomForAnswers`). `Accounts` says
what one step does to the bytes returned or lost and to those on their way.

Every invariant that a passing run checks is proved. Only model-checked are
`StopsUnlessOrphaned` and `EveryCallReturns`, which are liveness under fairness and
out of the prover's reach, and the three runs that refute a sentence, whose
counterexamples TLC finds. `LockNeedsDescriptor` is proved for Unix, which it is
about.

## Not modelled

* The admin listener of `handle_admin_socket`: its loop looks at a flag that parts
  of mysqld outside the repository set.
* Bits of poll events, message flags and socket types, and the layout of socket
  addresses: conversions without state, each of a few constants, whose right
  answers are WinSock's and not in the repository.
* `read_cstr`, UTF-8, and name lookup in the guest's shim: scanning of strings.
* File offsets and lengths beyond a page, and `os_wasi_resolve_path`: the file
  bridge passes 64-bit offsets on unchanged.
* Set-up of Wasmtime, command line, WASI context and preopening: sequential, and
  finished before the first instruction of the guest.
* The libc shim: stubs without state. `qsort_r`'s unprotected globals are listed as a
  hazard, but what calls it, as well as `ppoll` of the socket shim, is not in the
  repository.
* What WSAPoll counts and refuses, and `MSG_DONTWAIT`, which the Windows bridge drops:
  WinSock's behaviour is not determined by the repository.
* Sizes of host buffers: the Unix bridge allocates what the guest's address length
  says before it checks the memory behind it.
* Build and test scripts.
