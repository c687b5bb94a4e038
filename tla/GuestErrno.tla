------------------------------ MODULE GuestErrno ------------------------------
(***************************************************************************)
(* Error numbers: the tables of src/src/guest_errno.rs and socket_errno of *)
(* src/src/host_sockets_windows.rs.  Errors of the host are named by their *)
(* POSIX, WinSock or Windows constants, since their values differ from     *)
(* platform to platform; those of the guest are wasi-libc's numbers.       *)
(***************************************************************************)
EXTENDS Integers, Sequences

(* The numbers of guest_errno.rs. *)
Errno ==
  [ E2BIG |-> 1, EACCES |-> 2, EADDRINUSE |-> 3, EADDRNOTAVAIL |-> 4,
    EAFNOSUPPORT |-> 5, EAGAIN |-> 6, EALREADY |-> 7, EBADF |-> 8, EBUSY |-> 10,
    ECONNABORTED |-> 13, ECONNREFUSED |-> 14, ECONNRESET |-> 15, EDESTADDRREQ |-> 17,
    EEXIST |-> 20, EFAULT |-> 21, EFBIG |-> 22, EHOSTUNREACH |-> 23,
    EINPROGRESS |-> 26, EINTR |-> 27, EINVAL |-> 28, EIO |-> 29, EISCONN |-> 30,
    EISDIR |-> 31, ELOOP |-> 32, EMFILE |-> 33, EMSGSIZE |-> 35, ENAMETOOLONG |-> 37,
    ENETDOWN |-> 38, ENETRESET |-> 39, ENETUNREACH |-> 40, ENFILE |-> 41,
    ENOBUFS |-> 42, ENODEV |-> 43, ENOENT |-> 44, ENOMEM |-> 48, ENOPROTOOPT |-> 50,
    ENOSPC |-> 51, ENOSYS |-> 52, ENOTCONN |-> 53, ENOTDIR |-> 54, ENOTEMPTY |-> 55,
    ENOTSOCK |-> 57, ENOTSUP |-> 58, EOVERFLOW |-> 61, EPERM |-> 63, EPIPE |-> 64,
    EPROTONOSUPPORT |-> 66, EPROTOTYPE |-> 67, ERANGE |-> 68, EROFS |-> 69,
    ESPIPE |-> 70, ETIMEDOUT |-> 73, ENOTCAPABLE |-> 76 ]

(* external: the errors of WASI preview 1 in the order of their numbers. *)
WasiErrors ==
  << "E2BIG", "EACCES", "EADDRINUSE", "EADDRNOTAVAIL", "EAFNOSUPPORT", "EAGAIN",
     "EALREADY", "EBADF", "EBADMSG", "EBUSY", "ECANCELED", "ECHILD", "ECONNABORTED",
     "ECONNREFUSED", "ECONNRESET", "EDEADLK", "EDESTADDRREQ", "EDOM", "EDQUOT", "EEXIST",
     "EFAULT", "EFBIG", "EHOSTUNREACH", "EIDRM", "EILSEQ", "EINPROGRESS", "EINTR",
     "EINVAL", "EIO", "EISCONN", "EISDIR", "ELOOP", "EMFILE", "EMLINK", "EMSGSIZE",
     "EMULTIHOP", "ENAMETOOLONG", "ENETDOWN", "ENETRESET", "ENETUNREACH", "ENFILE",
     "ENOBUFS", "ENODEV", "ENOENT", "ENOEXEC", "ENOLCK", "ENOLINK", "ENOMEM", "ENOMSG",
     "ENOPROTOOPT", "ENOSPC", "ENOSYS", "ENOTCONN", "ENOTDIR", "ENOTEMPTY",
     "ENOTRECOVERABLE", "ENOTSOCK", "ENOTSUP", "ENOTTY", "ENXIO", "EOVERFLOW",
     "EOWNERDEAD", "EPERM", "EPIPE", "EPROTO", "EPROTONOSUPPORT", "EPROTOTYPE", "ERANGE",
     "EROFS", "ESPIPE", "ESRCH", "ESTALE", "ETIMEDOUT", "ETXTBSY", "EXDEV",
     "ENOTCAPABLE" >>

(* Mutant: an error without a number is no error. *)
Known_Zero(name) == IF name \in DOMAIN Errno THEN Errno[name] ELSE 0

Known(name) == IF name \in DOMAIN Errno THEN Errno[name] ELSE Errno.EIO

(* from_host_errno translates an error to the guest's error of that name.  *)
(* ENOTCAPABLE is the guest's own.                                         *)
HostAliases ==
  [ EWOULDBLOCK |-> "EAGAIN", EOPNOTSUPP |-> "ENOTSUP", ENOTCAPABLE |-> "EIO" ]

from_host_errno(name) ==
  Known(IF name \in DOMAIN HostAliases THEN HostAliases[name] ELSE name)

(* socket_errno does the same for WinSock; "none" is its value 0. *)
WinSockErrors ==
  {"EINTR", "EBADF", "EACCES", "EFAULT", "EINVAL", "EMFILE", "EINPROGRESS", "EALREADY",
   "ENOTSOCK", "EDESTADDRREQ", "EMSGSIZE", "EPROTOTYPE", "ENOPROTOOPT", "EPROTONOSUPPORT",
   "EAFNOSUPPORT", "EADDRINUSE", "EADDRNOTAVAIL", "ENETDOWN", "ENETUNREACH", "ENETRESET",
   "ECONNABORTED", "ECONNRESET", "ENOBUFS", "EISCONN", "ENOTCONN", "ETIMEDOUT",
   "ECONNREFUSED", "EHOSTUNREACH"}

WinSockAliases ==
  [ EWOULDBLOCK |-> "EAGAIN", ESOCKTNOSUPPORT |-> "ENOTSUP", EOPNOTSUPP |-> "ENOTSUP",
    EPFNOSUPPORT |-> "EAFNOSUPPORT", ESHUTDOWN |-> "ENOTCONN", EHOSTDOWN |-> "EHOSTUNREACH" ]

socket_errno(name) ==
  IF name = "none" THEN 0
  ELSE IF name \in DOMAIN WinSockAliases THEN Errno[WinSockAliases[name]]
  ELSE IF name \in WinSockErrors THEN Errno[name] ELSE Errno.EIO

(* from_windows_error; the code has the numbers of these errors. *)
WindowsErrors ==
  [ FILE_NOT_FOUND |-> "ENOENT", PATH_NOT_FOUND |-> "ENOENT", ACCESS_DENIED |-> "EACCES",
    INVALID_HANDLE |-> "EBADF", NOT_ENOUGH_MEMORY |-> "ENOMEM", OUTOFMEMORY |-> "ENOMEM",
    WRITE_PROTECT |-> "EROFS", SHARING_VIOLATION |-> "EBUSY", LOCK_VIOLATION |-> "EAGAIN",
    FILE_EXISTS |-> "EEXIST", ALREADY_EXISTS |-> "EEXIST", INVALID_PARAMETER |-> "EINVAL",
    DISK_FULL |-> "ENOSPC", DIR_NOT_EMPTY |-> "ENOTEMPTY", DIRECTORY |-> "ENOTDIR",
    OPERATION_ABORTED |-> "EINTR" ]

from_windows_error(name) ==
  Errno[IF name \in DOMAIN WindowsErrors THEN WindowsErrors[name] ELSE "EIO"]

(* The guest reads a number by wasi-libc's table. *)
GuestReads(number) == WasiErrors[number]
===============================================================================
