---------------------------- MODULE SocketOptions -----------------------------
(***************************************************************************)
(* setsockopt and getsockopt of both bridges.  The guest has the numbers   *)
(* of mysql_wasi_socket_shim.h, the host its own; the Unix bridge converts *)
(* the level, the WinSock bridge levels, options and timeouts, which       *)
(* WinSock counts in milliseconds.  In a timeout zero means to wait for    *)
(* ever.                                                                   *)
(***************************************************************************)
EXTENDS Integers

CONSTANTS
  Platform,   \* "linux", "macos" or "windows"
  Values,     \* the timeouts the guest sets
  U32Max,     \* u32::MAX
  I64Max      \* i64::MAX

ASSUME OptionsAssumption ==
  /\ Platform \in {"linux", "macos", "windows"}
  /\ U32Max \in Nat /\ I64Max \in Nat
  /\ U32Max > 0 /\ I64Max > 2 * U32Max + 1001000
  /\ Values \subseteq [whole : BOOLEAN, sec : -I64Max .. I64Max,
                      usec : -I64Max .. I64Max - 999, millis : 0 .. U32Max]

Flags == {"SO_REUSEADDR", "SO_KEEPALIVE", "IP_TOS", "TCP_NODELAY", "IPV6_V6ONLY"}
Timeouts == {"SO_RCVTIMEO", "SO_SNDTIMEO"}
Windows == Platform = "windows"

VARIABLES
  option,    \* the host's value of each option that is a flag
  timeout,   \* the time the host waits, in microseconds
  asked,     \* history: the flag the guest asked for last
  wanted,    \* history: the timeout the guest asked for last
  saved,     \* timeouts the guest has read in order to restore them
  original   \* history: the time the host waited when they were read

optionVars == <<option, timeout, asked, wanted, saved, original>>

(* The guest's timeouts: a struct timeval of sixteen bytes, or fewer bytes,*)
(* of which WinSock reads the first four as milliseconds.                  *)
Timeval(s, us) == [whole |-> TRUE, sec |-> s, usec |-> us, millis |-> 0]
Millis(n) == [whole |-> FALSE, sec |-> 0, usec |-> 0, millis |-> n]
None == Timeval(-1, 0)

OInit ==
  /\ option = [o \in Flags |-> FALSE]
  /\ asked = [o \in Flags |-> FALSE]
  /\ timeout = [o \in Timeouts |-> 0]
  /\ wanted = [o \in Timeouts |-> 0]
  /\ saved = [o \in Timeouts |-> None]
  /\ original = [o \in Timeouts |-> 0]

------------------------------------------------------------------------------
(* The guest's numbers; SOL_SOCKET is the shim's or wasi-libc's. *)
WASI_SOL_SOCKET == 2147483647
GuestSocketLevels == {1, WASI_SOL_SOCKET}
Protocol == [ IP_TOS |-> 0, TCP_NODELAY |-> 6, IPV6_V6ONLY |-> 41 ]
GuestLevel(o) == IF o \in DOMAIN Protocol THEN {Protocol[o]} ELSE GuestSocketLevels
GuestName == [ SO_REUSEADDR |-> 2, SO_KEEPALIVE |-> 9, SO_RCVTIMEO |-> 20, SO_SNDTIMEO |-> 21,
               IP_TOS |-> 1, TCP_NODELAY |-> 1, IPV6_V6ONLY |-> 26 ]

(* external: the numbers of the platforms. *)
HostSocketLevel == IF Platform = "linux" THEN 1 ELSE 65535
HostLevel(o) == IF o \in DOMAIN Protocol THEN Protocol[o] ELSE HostSocketLevel
HostName ==
  IF Platform = "linux" THEN GuestName
  ELSE [ SO_REUSEADDR |-> 4, SO_KEEPALIVE |-> 8, SO_RCVTIMEO |-> 4102, SO_SNDTIMEO |-> 4101,
         IP_TOS |-> 3, TCP_NODELAY |-> 1, IPV6_V6ONLY |-> 27 ]

is_guest_socket_level(level) == level \in GuestSocketLevels

(* Unix: the name of an option is passed on as it is. *)
normalize_socket_level(level) == IF is_guest_socket_level(level) THEN HostSocketLevel ELSE level

socket_level_option(name) ==
  IF name = 2 THEN 4 ELSE IF name = 9 THEN 8 ELSE IF name = 20 THEN 4102
  ELSE IF name = 21 THEN 4101 ELSE name

(* Mutant: the options of the other levels keep their numbers. *)
normalize_socket_option_Socket(level, name) ==
  IF is_guest_socket_level(level)
  THEN <<65535, socket_level_option(name)>>
  ELSE <<level, name>>

normalize_socket_option(level, name) ==
  IF is_guest_socket_level(level)
  THEN <<65535, socket_level_option(name)>>
  ELSE <<level, IF level = 0 /\ name = 1 THEN 3 ELSE IF level = 41 /\ name = 26 THEN 27 ELSE name>>

(* The host's option that a call of the guest reaches. *)
Reaches(o, level, x) ==
  <<HostLevel(x), HostName[x]>> =
    IF Windows THEN normalize_socket_option(level, GuestName[o])
    ELSE <<normalize_socket_level(level), GuestName[o]>>

------------------------------------------------------------------------------
saturating(i) == IF i > I64Max THEN I64Max ELSE IF i < -I64Max - 1 THEN -I64Max - 1 ELSE i
clamp(i) == IF i > U32Max THEN U32Max ELSE IF i < 0 THEN 0 ELSE i

(* Mutant: the division rounds down. *)
guest_timeout_to_windows_Down(v) ==
  IF ~v.whole THEN v.millis
  ELSE clamp(saturating(saturating(v.sec * 1000) + v.usec \div 1000))

(* Microseconds are rounded up to milliseconds; a short value is passed on.*)
guest_timeout_to_windows(v) ==
  IF ~v.whole THEN v.millis
  ELSE clamp(saturating(saturating(v.sec * 1000) + (saturating(v.usec + 999) \div 1000)))

(* Mutant: the remainder is left in milliseconds. *)
windows_timeout_to_guest_Millis(millis, whole) ==
  IF whole THEN Timeval(millis \div 1000, millis % 1000) ELSE Millis(millis)

(* whole: has the guest room for a struct timeval? *)
windows_timeout_to_guest(millis, whole) ==
  IF whole THEN Timeval(millis \div 1000, (millis % 1000) * 1000) ELSE Millis(millis)

Micros(v) == IF v.whole THEN v.sec * 1000000 + v.usec ELSE v.millis * 1000

InRange(v) == v.sec >= 0 /\ v.usec >= 0 /\ v.usec < 1000000

(* external: a Unix host takes a whole struct timeval with its fields in   *)
(* range.  (Linux also takes negative seconds; the bridge has no part in   *)
(* what it makes of them.)                                                 *)
Accepts(v) == Windows \/ (v.whole /\ InRange(v))

(* What the host makes of a value, and what it shows of its timeout. *)
ToHost(v) == IF Windows THEN guest_timeout_to_windows(v) * 1000 ELSE Micros(v)
ToGuest(micros, whole) ==
  IF Windows THEN windows_timeout_to_guest(micros \div 1000, whole)
  ELSE Timeval(micros \div 1000000, micros % 1000000)

(* setsockopt of a flag; a host that has no such option refuses it.  Any   *)
(* call that fails, here and below, leaves everything as it was.           *)
SetOption(o, level, v) ==
  /\ asked' = [asked EXCEPT ![o] = v]
  /\ option' = [x \in Flags |-> IF Reaches(o, level, x) THEN v ELSE option[x]]
  /\ UNCHANGED <<timeout, wanted, saved, original>>

SetsTimeout(o, level, v) ==
  /\ Accepts(v)
  /\ timeout' = [x \in Timeouts |-> IF Reaches(o, level, x) THEN ToHost(v) ELSE timeout[x]]
  /\ wanted' = [wanted EXCEPT ![o] = Micros(v)]

SetTimeout(o, level, v) ==
  /\ SetsTimeout(o, level, v)
  /\ UNCHANGED <<option, asked, saved, original>>

(* getsockopt: the guest reads a timeout, with room for a struct timeval   *)
(* or, where that makes sense, for less.                                   *)
Save(o, level, whole) ==
  /\ whole \/ Windows
  /\ \E x \in Timeouts :
       /\ Reaches(o, level, x)
       /\ saved' = [saved EXCEPT ![o] = ToGuest(timeout[x], whole)]
  /\ original' = [original EXCEPT ![o] = timeout[o]]
  /\ UNCHANGED <<option, timeout, asked, wanted>>

(* The guest sets what it has read. *)
Restore(o, level) ==
  /\ saved[o] # None
  /\ SetsTimeout(o, level, saved[o])
  /\ UNCHANGED <<option, asked, saved, original>>

ONext ==
  \/ \E o \in Flags : \E level \in GuestLevel(o) : \E v \in BOOLEAN : SetOption(o, level, v)
  \/ \E o \in Timeouts : \E level \in GuestSocketLevels :
       \/ \E whole \in BOOLEAN : Save(o, level, whole)
       \/ \E v \in Values : SetTimeout(o, level, v)
       \/ Restore(o, level)

OSpec == OInit /\ [][ONext]_optionVars

------------------------------------------------------------------------------
(* Every option a guest sets is the one that is set at the host, whatever  *)
(* was set before and after it: levels and names are converted together,   *)
(* no two options share a number of the host, and none is refused for its  *)
(* number.  docs/status.md: "The guest ABI is WASI, not the platform C     *)
(* runtime".                                                               *)
OptionsTakeEffect == option = asked

(* A timeout keeps its meaning: a guest that wants to wait for ever, and   *)
(* only such a guest, does; no wait is cut short unless it exceeds         *)
(* WinSock's greatest; and none is a millisecond too long.  A negative     *)
(* timeout, which has no meaning, waits for ever on Windows.               *)
TimeoutKept ==
  \A o \in Timeouts :
    /\ timeout[o] = 0 <=> wanted[o] <= 0
    /\ timeout[o] >= wanted[o] \/ (Windows /\ timeout[o] = U32Max * 1000)
    /\ wanted[o] >= 0 => timeout[o] < wanted[o] + 1000

(* A guest that reads a timeout and later sets what it read has the host   *)
(* wait as before: the rounding of the two conversions does not add up.    *)
RestoreIsExact ==
  [][\A o \in Timeouts : \A level \in GuestSocketLevels :
       Restore(o, level) => timeout'[o] = original[o]]_optionVars
===============================================================================
