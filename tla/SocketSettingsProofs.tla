------------------------- MODULE SocketSettingsProofs -------------------------
(***************************************************************************)
(* The settings of a socket: that the cached flags of the Windows bridge   *)
(* agree with the sockets but where changes of mode overlap, for any number*)
(* of threads and sockets; and that options and timeouts keep their        *)
(* meaning for every timeout and every width of the integers, on Linux and *)
(* on Windows.                                                             *)
(***************************************************************************)
EXTENDS WindowsSockets, SocketOptions, TLAPS

(* A new table is empty and no handler runs. *)
LEMMA InitEstablishes == Init => IInv
  BY WindowsAssumption
  DEF Init, IInv, TypeOK, MadeIsPrivate, HandlersAgree, Agrees, FlagsMatchMode,
      Sockets, Using, Storing

(* Every step of a handler keeps the invariant. *)
LEMMA StepPreserves ==
  ASSUME IInv, NEW t \in Threads, Step(t)
  PROVE  IInv'
<1> USE WindowsAssumption DEF IInv, Sockets, Goto, Using, Storing, history
<1>1. CASE SocketInsert(t)
  <2>1. TypeOK'
    BY <1>1 DEF SocketInsert, insert, TypeOK, MadeIsPrivate, HandlersAgree
  <2>2. MadeIsPrivate'
    BY <1>1 DEF SocketInsert, insert, TypeOK, MadeIsPrivate, HandlersAgree
  <2>3. HandlersAgree'
    BY <1>1 DEF SocketInsert, insert, TypeOK, MadeIsPrivate, HandlersAgree, Agrees, FlagsMatchMode
  <2>4. FlagsMatchMode'
    BY <1>1 DEF SocketInsert, insert, TypeOK, MadeIsPrivate, HandlersAgree, Agrees, FlagsMatchMode
  <2> QED BY <2>1, <2>2, <2>3, <2>4
<1>2. CASE ConfigureFails(t)
  <2>1. TypeOK'
    BY <1>2 DEF ConfigureFails, TypeOK, MadeIsPrivate, HandlersAgree
  <2>2. MadeIsPrivate'
    BY <1>2 DEF ConfigureFails, TypeOK, MadeIsPrivate, HandlersAgree
  <2>3. HandlersAgree'
    BY <1>2 DEF ConfigureFails, TypeOK, MadeIsPrivate, HandlersAgree, Agrees, FlagsMatchMode
  <2>4. FlagsMatchMode'
    BY <1>2 DEF ConfigureFails, TypeOK, MadeIsPrivate, HandlersAgree, Agrees, FlagsMatchMode
  <2> QED BY <2>1, <2>2, <2>3, <2>4
<1>3. CASE AcceptSucceeds(t)
  <2>1. TypeOK'
    BY <1>3 DEF AcceptSucceeds, Creates, TypeOK, MadeIsPrivate, HandlersAgree
  <2>2. MadeIsPrivate'
    BY <1>3 DEF AcceptSucceeds, Creates, TypeOK, MadeIsPrivate, HandlersAgree
  <2>3. HandlersAgree'
    BY <1>3 DEF AcceptSucceeds, Creates, TypeOK, MadeIsPrivate, HandlersAgree, Agrees, FlagsMatchMode
  <2>4. FlagsMatchMode'
    BY <1>3 DEF AcceptSucceeds, Creates, TypeOK, MadeIsPrivate, HandlersAgree, Agrees, FlagsMatchMode
  <2> QED BY <2>1, <2>2, <2>3, <2>4
<1>4. CASE AcceptFails(t)
  <2>1. TypeOK'
    BY <1>4 DEF AcceptFails, TypeOK, MadeIsPrivate, HandlersAgree
  <2>2. MadeIsPrivate'
    BY <1>4 DEF AcceptFails, TypeOK, MadeIsPrivate, HandlersAgree
  <2>3. HandlersAgree'
    BY <1>4 DEF AcceptFails, TypeOK, MadeIsPrivate, HandlersAgree, Agrees, FlagsMatchMode
  <2>4. FlagsMatchMode'
    BY <1>4 DEF AcceptFails, TypeOK, MadeIsPrivate, HandlersAgree, Agrees, FlagsMatchMode
  <2> QED BY <2>1, <2>2, <2>3, <2>4
<1>5. CASE AcceptCopyFails(t)
  <2>1. TypeOK'
    BY <1>5 DEF AcceptCopyFails, TypeOK, MadeIsPrivate, HandlersAgree
  <2>2. MadeIsPrivate'
    BY <1>5 DEF AcceptCopyFails, TypeOK, MadeIsPrivate, HandlersAgree
  <2>3. HandlersAgree'
    BY <1>5 DEF AcceptCopyFails, TypeOK, MadeIsPrivate, HandlersAgree, Agrees, FlagsMatchMode
  <2>4. FlagsMatchMode'
    BY <1>5 DEF AcceptCopyFails, TypeOK, MadeIsPrivate, HandlersAgree, Agrees, FlagsMatchMode
  <2> QED BY <2>1, <2>2, <2>3, <2>4
<1>6. CASE AcceptInsert(t)
  <2>1. TypeOK'
    BY <1>6 DEF AcceptInsert, insert, TypeOK, MadeIsPrivate, HandlersAgree
  <2>2. MadeIsPrivate'
    BY <1>6 DEF AcceptInsert, insert, TypeOK, MadeIsPrivate, HandlersAgree
  <2>3. HandlersAgree'
    BY <1>6 DEF AcceptInsert, insert, TypeOK, MadeIsPrivate, HandlersAgree, Agrees, FlagsMatchMode
  <2>4. FlagsMatchMode'
    BY <1>6 DEF AcceptInsert, insert, TypeOK, MadeIsPrivate, HandlersAgree, Agrees, FlagsMatchMode
  <2> QED BY <2>1, <2>2, <2>3, <2>4
<1>7. CASE SetflIoctl(t)
  <2>1. TypeOK'
    BY <1>7 DEF SetflIoctl, TypeOK, MadeIsPrivate, HandlersAgree
  <2>2. MadeIsPrivate'
    BY <1>7 DEF SetflIoctl, TypeOK, MadeIsPrivate, HandlersAgree
  <2>3. HandlersAgree'
    BY <1>7 DEF SetflIoctl, TypeOK, MadeIsPrivate, HandlersAgree, Agrees, FlagsMatchMode
  <2>4. FlagsMatchMode'
    BY <1>7 DEF SetflIoctl, TypeOK, MadeIsPrivate, HandlersAgree, Agrees, FlagsMatchMode
  <2> QED BY <2>1, <2>2, <2>3, <2>4
<1>8. CASE SetflFails(t)
  <2>1. TypeOK'
    BY <1>8 DEF SetflFails, TypeOK, MadeIsPrivate, HandlersAgree
  <2>2. MadeIsPrivate'
    BY <1>8 DEF SetflFails, TypeOK, MadeIsPrivate, HandlersAgree
  <2>3. HandlersAgree'
    BY <1>8 DEF SetflFails, TypeOK, MadeIsPrivate, HandlersAgree, Agrees, FlagsMatchMode
  <2>4. FlagsMatchMode'
    BY <1>8 DEF SetflFails, TypeOK, MadeIsPrivate, HandlersAgree, Agrees, FlagsMatchMode
  <2> QED BY <2>1, <2>2, <2>3, <2>4
<1>9. CASE set_status_flags(t)
  <2>1. TypeOK'
    BY <1>9 DEF set_status_flags, TypeOK, MadeIsPrivate, HandlersAgree
  <2>2. MadeIsPrivate'
    BY <1>9 DEF set_status_flags, TypeOK, MadeIsPrivate, HandlersAgree
  <2>3. HandlersAgree'
    BY <1>9 DEF set_status_flags, TypeOK, MadeIsPrivate, HandlersAgree, Agrees, FlagsMatchMode
  <2>4. FlagsMatchMode'
    BY <1>9 DEF set_status_flags, TypeOK, MadeIsPrivate, HandlersAgree, Agrees, FlagsMatchMode
  <2> QED BY <2>1, <2>2, <2>3, <2>4
<1>10. CASE \E b \in BOOLEAN : Socket(t, b)
  <2> PICK b \in BOOLEAN : Socket(t, b) BY <1>10
  <2>1. TypeOK'
    BY DEF Socket, Creates, TypeOK
  <2>2. MadeIsPrivate'
    BY DEF Socket, Creates, TypeOK, MadeIsPrivate, HandlersAgree
  <2>a. \A g \in 1..born : mode'[g] = mode[g]
    <3> TAKE g \in 1..born
    <3>1. g # born + 1 /\ g \in Sockets BY DEF TypeOK
    <3>2. mode' = [mode EXCEPT ![born + 1] = FALSE] BY DEF Socket, Creates
    <3> QED BY <3>1, <3>2, Zenon DEF TypeOK
  <2>b. /\ \A u \in Threads \ {t} :
             pc'[u] = pc[u] /\ raw'[u] = raw[u] /\ flags'[u] = flags[u]
        /\ pc'[t] = "configuring" /\ pc[t] = "guest" /\ sockets' = sockets
    BY DEF Socket, Creates, TypeOK
  <2>c. UNCHANGED history
    BY DEF Socket
  <2>3. HandlersAgree'
    <3> SUFFICES ASSUME NEW u \in Threads, pc'[u] \in {"accepting", "accepted", "storing"}
                 PROVE  Agrees(u)'
      BY DEF HandlersAgree, Agrees
    <3>1. u # t
      BY <2>b
    <3>2. pc'[u] = pc[u] /\ raw'[u] = raw[u] /\ flags'[u] = flags[u]
      BY <2>b, <3>1
    <3>3. raw[u] \in 1..born
      BY <3>2 DEF MadeIsPrivate
    <3>4. mode'[raw[u]] = mode[raw[u]]
      BY <2>a, <3>3
    <3>5. \A w \in Threads : Using(w, raw[u], "storing")' => Using(w, raw[u], "storing")
      BY <2>b, <3>2
    <3>6. Agrees(u)
      BY DEF HandlersAgree, Agrees
    <3> QED BY <2>c, <3>2, <3>4, <3>5, <3>6 DEF Agrees
  <2>4. FlagsMatchMode'
    <3> SUFFICES ASSUME NEW g \in DOMAIN sockets \ contested, ~Storing(g)'
                 PROVE  sockets[g] = mode'[g]
      BY <2>b, <2>c DEF FlagsMatchMode
    <3>1. ~Storing(g)
      <4> SUFFICES ASSUME NEW u \in Threads, Using(u, g, "storing") PROVE FALSE
        OBVIOUS
      <4> QED BY <2>b
    <3>2. sockets[g] = mode[g] BY <3>1, Zenon DEF FlagsMatchMode
    <3>3. g \in 1..born BY DEF TypeOK
    <3> QED BY <2>a, <3>2, <3>3, Zenon
  <2> QED BY <2>1, <2>2, <2>3, <2>4
<1>11. CASE \E g \in Sockets : AcceptGet(t, g)
  <2>1. TypeOK'
    BY <1>11 DEF AcceptGet, TypeOK, MadeIsPrivate, HandlersAgree
  <2>2. MadeIsPrivate'
    BY <1>11 DEF AcceptGet, TypeOK, MadeIsPrivate, HandlersAgree
  <2>3. HandlersAgree'
    BY <1>11 DEF AcceptGet, TypeOK, MadeIsPrivate, HandlersAgree, Agrees, FlagsMatchMode
  <2>4. FlagsMatchMode'
    BY <1>11 DEF AcceptGet, TypeOK, MadeIsPrivate, HandlersAgree, Agrees, FlagsMatchMode
  <2> QED BY <2>1, <2>2, <2>3, <2>4
<1>12. CASE \E g \in Sockets : Close(t, g)
  <2>1. TypeOK'
    BY <1>12 DEF Close, TypeOK, MadeIsPrivate, HandlersAgree
  <2>2. MadeIsPrivate'
    BY <1>12 DEF Close, TypeOK, MadeIsPrivate, HandlersAgree
  <2>3. HandlersAgree'
    BY <1>12 DEF Close, TypeOK, MadeIsPrivate, HandlersAgree, Agrees, FlagsMatchMode
  <2>4. FlagsMatchMode'
    BY <1>12 DEF Close, TypeOK, MadeIsPrivate, HandlersAgree, Agrees, FlagsMatchMode
  <2> QED BY <2>1, <2>2, <2>3, <2>4
<1>13. CASE \E g \in Sockets, b \in BOOLEAN : SetflGet(t, g, b)
  <2>1. TypeOK'
    BY <1>13 DEF SetflGet, TypeOK, MadeIsPrivate, HandlersAgree
  <2>2. MadeIsPrivate'
    BY <1>13 DEF SetflGet, TypeOK, MadeIsPrivate, HandlersAgree
  <2>3. HandlersAgree'
    BY <1>13 DEF SetflGet, TypeOK, MadeIsPrivate, HandlersAgree, Agrees, FlagsMatchMode
  <2>4. FlagsMatchMode'
    BY <1>13 DEF SetflGet, TypeOK, MadeIsPrivate, HandlersAgree, Agrees, FlagsMatchMode
  <2> QED BY <2>1, <2>2, <2>3, <2>4
<1> QED BY <1>1, <1>2, <1>3, <1>4, <1>5, <1>6, <1>7, <1>8, <1>9, <1>10, <1>11, <1>12, <1>13 DEF Step

(* F_GETFL tells the truth: the status_flags of every descriptor are the   *)
(* mode of its socket, except where two threads changed the mode at once,  *)
(* or one accepted while another changed it.                               *)
THEOREM FlagsAreTrue == Spec => []FlagsMatchMode
<1>1. IInv /\ [Next]_vars => IInv'
  <2> SUFFICES ASSUME IInv, [Next]_vars PROVE IInv'
    OBVIOUS
  <2>1. CASE Next BY <2>1, StepPreserves DEF Next
  <2>2. CASE UNCHANGED vars
    BY <2>2 DEF vars, IInv, TypeOK, MadeIsPrivate, HandlersAgree, Agrees,
       FlagsMatchMode, Using, Storing
  <2> QED BY <2>1, <2>2
<1>2. IInv => FlagsMatchMode BY DEF IInv
<1> QED BY <1>1, <1>2, InitEstablishes, PTL DEF Spec

------------------------------------------------------------------------------
(* Every number the guest uses for an option is converted to the number of *)
(* that option and of no other.                                            *)
LEMMA FlagReaches ==
  ASSUME Platform # "macos", NEW o \in Flags, NEW x \in Flags, NEW level \in GuestLevel(o)
  PROVE  Reaches(o, level, x) <=> x = o
<1> USE OptionsAssumption DEF Flags, GuestLevel, GuestSocketLevels, WASI_SOL_SOCKET, Protocol, GuestName,
    HostLevel, HostSocketLevel, HostName, is_guest_socket_level
<1>1. CASE Platform = "windows"
  BY <1>1, SMT DEF Reaches, Windows, normalize_socket_option, socket_level_option
<1>2. CASE Platform = "linux"
  BY <1>2, SMT DEF Reaches, Windows, normalize_socket_level
<1> QED BY <1>1, <1>2, SMT

LEMMA TimeoutReaches ==
  ASSUME Platform # "macos", NEW o \in Timeouts, NEW x \in Timeouts, NEW level \in GuestSocketLevels
  PROVE  Reaches(o, level, x) <=> x = o
<1> USE OptionsAssumption DEF Timeouts, GuestSocketLevels, WASI_SOL_SOCKET, Protocol, GuestName,
    HostLevel, HostSocketLevel, HostName, is_guest_socket_level
<1>1. CASE Platform = "windows"
  BY <1>1, SMT DEF Reaches, Windows, normalize_socket_option, socket_level_option
<1>2. CASE Platform = "linux"
  BY <1>2, SMT DEF Reaches, Windows, normalize_socket_level
<1> QED BY <1>1, <1>2, SMT

------------------------------------------------------------------------------
(* The values a host accepts. *)
AnyValue == [whole : BOOLEAN, sec : -I64Max .. I64Max, usec : -I64Max .. I64Max - 999,
             millis : 0 .. U32Max]
Value == {v \in AnyValue : Accepts(v)}

LEMMA WindowsAccepts == Windows => \A v : Accepts(v)
BY Zenon DEF Accepts

(* guest_timeout_to_windows rounds up by less than a millisecond, keeps    *)
(* what is positive apart, and gives way only to u32::MAX.                 *)
LEMMA RoundsUp ==
  ASSUME NEW v, v.whole, v.sec \in -I64Max .. I64Max, v.usec \in -I64Max .. I64Max - 999
  PROVE  LET ms == guest_timeout_to_windows(v)
         IN  /\ ms \in 0 .. U32Max
             /\ ms = 0 <=> Micros(v) <= 0
             /\ ms * 1000 >= Micros(v) \/ ms = U32Max
             /\ Micros(v) >= 0 => ms * 1000 < Micros(v) + 1000
<1> DEFINE sec == v.sec
           usec == v.usec
           up == (usec + 999) \div 1000
<1>0. sec \in Int /\ usec \in Int /\ I64Max \in Int /\ U32Max \in Int
      /\ -I64Max <= usec /\ usec <= I64Max - 999
      /\ U32Max > 0 /\ I64Max > 2 * U32Max + 1001000
  BY OptionsAssumption, SMT
<1>1. up \in Int /\ up * 1000 >= usec /\ up * 1000 < usec + 1000
  BY <1>0, SMT
<1>2. guest_timeout_to_windows(v) = clamp(saturating(saturating(sec * 1000) + up))
  <2>1. saturating(usec + 999) = usec + 999
    BY <1>0, SMT DEF saturating
  <2> QED BY <2>1 DEF guest_timeout_to_windows
<1>3. Micros(v) = sec * 1000000 + usec
  BY DEF Micros
<1> HIDE DEF up, sec, usec
<1>4. CASE sec * 1000 > I64Max
  <2>1. saturating(sec * 1000) = I64Max
    BY <1>0, <1>4, SMT DEF saturating
  <2>2. I64Max + up > U32Max
    BY <1>0, <1>1, SMT
  <2>3. clamp(saturating(I64Max + up)) = U32Max
    BY <1>0, <1>1, <2>2, SMT DEF clamp, saturating
  <2> QED BY <1>0, <1>2, <1>3, <1>4, <2>1, <2>3, SMT
<1>5. CASE sec * 1000 < -I64Max - 1
  <2>1. saturating(sec * 1000) = -I64Max - 1
    BY <1>0, <1>5, SMT DEF saturating
  <2>2. -I64Max - 1 + up < 0
    BY <1>0, <1>1, SMT
  <2>3. clamp(saturating(-I64Max - 1 + up)) = 0
    BY <1>0, <1>1, <2>2, SMT DEF clamp, saturating
  <2> QED BY <1>0, <1>2, <1>3, <1>5, <2>1, <2>3, SMT
<1>6. CASE sec * 1000 <= I64Max /\ sec * 1000 >= -I64Max - 1
  <2>1. saturating(sec * 1000) = sec * 1000
    BY <1>0, <1>6, SMT DEF saturating
  <2>2. clamp(saturating(sec * 1000 + up)) = clamp(sec * 1000 + up)
    BY <1>0, <1>1, SMT DEF clamp, saturating
  <2> QED BY <1>0, <1>1, <1>2, <1>3, <2>1, <2>2, SMT DEF clamp
<1> QED BY <1>0, <1>4, <1>5, <1>6, SMT

(* The way to the guest and back is exact, for a struct timeval and for    *)
(* less.                                                                   *)
LEMMA RoundTrip ==
  ASSUME Windows, NEW ms \in 0 .. U32Max, NEW whole \in BOOLEAN
  PROVE  /\ guest_timeout_to_windows(windows_timeout_to_guest(ms, whole)) = ms
         /\ windows_timeout_to_guest(ms, whole) \in Value
         /\ windows_timeout_to_guest(ms, whole) # None
<1>0. ms \in Nat /\ ms <= U32Max /\ U32Max \in Nat /\ I64Max \in Nat /\ I64Max > 2 * U32Max + 1001000
  BY OptionsAssumption, SMT
<1>1. CASE ~whole
  <2>1. windows_timeout_to_guest(ms, whole) =
          [whole |-> FALSE, sec |-> 0, usec |-> 0, millis |-> ms]
    BY <1>1 DEF windows_timeout_to_guest, Millis
  <2>2. windows_timeout_to_guest(ms, whole) \in AnyValue
    BY <1>0, <2>1, SMT DEF AnyValue
  <2>3. windows_timeout_to_guest(ms, whole) \in Value
    BY <2>2, WindowsAccepts, Zenon DEF Value
  <2> QED BY <2>1, <2>3, SMT DEF guest_timeout_to_windows, None, Timeval
<1>2. CASE whole
  <2> DEFINE s == ms \div 1000
             r == ms % 1000
  <2>1. s \in Nat /\ r \in Nat /\ r < 1000 /\ ms = s * 1000 + r
    BY <1>0, SMT
  <2> HIDE DEF s, r
  <2>2. windows_timeout_to_guest(ms, whole) =
          [whole |-> TRUE, sec |-> s, usec |-> r * 1000, millis |-> 0]
    BY <1>2 DEF windows_timeout_to_guest, Timeval, s, r
  <2>3. saturating(r * 1000 + 999) \div 1000 = r
    BY <1>0, <2>1, SMT DEF saturating
  <2>4. guest_timeout_to_windows(windows_timeout_to_guest(ms, whole)) =
          clamp(saturating(saturating(s * 1000) + r))
    BY <2>2, <2>3, SMT DEF guest_timeout_to_windows
  <2>5. clamp(saturating(saturating(s * 1000) + r)) = ms
    BY <1>0, <2>1, SMT DEF clamp, saturating
  <2>6. windows_timeout_to_guest(ms, whole) \in Value
    <3>1. windows_timeout_to_guest(ms, whole) \in AnyValue
      <4>1. r * 1000 \in -I64Max .. I64Max - 999 /\ s \in -I64Max .. I64Max /\ 0 \in 0 .. U32Max
        BY <1>0, <2>1, SMT
      <4> QED BY <2>2, <4>1, SMT DEF AnyValue
    <3> QED BY <3>1, WindowsAccepts, Zenon DEF Value
  <2>7. windows_timeout_to_guest(ms, whole) # None
    BY <2>1, <2>2, SMT DEF None, Timeval
  <2> QED BY <2>4, <2>5, <2>6, <2>7
<1> QED BY <1>1, <1>2

(* The times a host can be set to. *)
Settings == IF Windows THEN {m * 1000 : m \in 0 .. U32Max}
            ELSE {n \in Nat : n \div 1000000 <= I64Max}

LEMMA ToHostKeeps ==
  ASSUME NEW v \in Value
  PROVE  /\ ToHost(v) \in Settings
         /\ ToHost(v) \in Nat /\ Micros(v) \in Int
         /\ ToHost(v) = 0 <=> Micros(v) <= 0
         /\ ToHost(v) >= Micros(v) \/ (Windows /\ ToHost(v) = U32Max * 1000)
         /\ Micros(v) >= 0 => ToHost(v) < Micros(v) + 1000
<1>0. U32Max \in Nat /\ I64Max \in Nat /\ U32Max > 0
  BY OptionsAssumption, SMT
<1>1. /\ v.whole \in BOOLEAN /\ v.sec \in -I64Max .. I64Max /\ v.millis \in 0 .. U32Max
      /\ v.usec \in -I64Max .. I64Max - 999 /\ Accepts(v)
  BY DEF Value, AnyValue
<1>2. Micros(v) \in Int
  BY <1>0, <1>1, SMT DEF Micros
<1>3. CASE ~Windows
  <2>a. v.whole /\ InRange(v)
    BY <1>1, <1>3, Zenon DEF Accepts
  <2>1. v.sec \in Nat /\ v.sec <= I64Max /\ v.usec \in Nat /\ v.usec < 1000000
    BY <1>0, <1>1, <2>a, SMT DEF InRange
  <2>2. Micros(v) = v.sec * 1000000 + v.usec /\ ToHost(v) = Micros(v)
    BY <1>3, <2>a, SMT DEF Micros, ToHost
  <2>3. Micros(v) \in Nat /\ Micros(v) \div 1000000 <= I64Max
    BY <1>0, <2>1, <2>2, SMT
  <2> QED BY <1>3, <2>2, <2>3, SMT DEF Settings
<1>4. CASE Windows
  <2> DEFINE ms == guest_timeout_to_windows(v)
  <2>1. /\ ms \in 0 .. U32Max
        /\ ms = 0 <=> Micros(v) <= 0
        /\ ms * 1000 >= Micros(v) \/ ms = U32Max
        /\ Micros(v) >= 0 => ms * 1000 < Micros(v) + 1000
    <3>1. CASE v.whole
      BY <1>1, <3>1, RoundsUp
    <3>2. CASE ~v.whole
      <4>1. ms = v.millis /\ Micros(v) = v.millis * 1000
        BY <3>2 DEF guest_timeout_to_windows, Micros
      <4> QED BY <1>0, <1>1, <4>1, SMT
    <3> QED BY <3>1, <3>2
  <2>2. ToHost(v) = ms * 1000
    BY <1>4 DEF ToHost
  <2> HIDE DEF ms
  <2> QED BY <1>0, <1>2, <1>4, <2>1, <2>2, SMT DEF Settings
<1> QED BY <1>3, <1>4

LEMMA ThereAndBack ==
  ASSUME NEW micros \in Settings, NEW whole \in BOOLEAN
  PROVE  /\ ToGuest(micros, whole) \in Value /\ ToGuest(micros, whole) # None
         /\ ToHost(ToGuest(micros, whole)) = micros
<1>1. CASE Windows
  <2>1. PICK m \in 0 .. U32Max : micros = m * 1000
    BY <1>1, SMT DEF Settings
  <2>2. micros \div 1000 = m
    BY <2>1, OptionsAssumption, SMT
  <2>3. ToGuest(micros, whole) = windows_timeout_to_guest(m, whole)
    BY <1>1, <2>2 DEF ToGuest
  <2> QED BY <1>1, <2>1, <2>3, RoundTrip DEF ToHost
<1>2. CASE ~Windows
  <2> DEFINE s == micros \div 1000000
             r == micros % 1000000
  <2>1. micros \in Nat /\ s <= I64Max
    BY <1>2, SMT DEF Settings
  <2>2. s \in Nat /\ r \in Nat /\ r < 1000000 /\ s * 1000000 + r = micros
    BY <2>1, SMT
  <2>3. ToGuest(micros, whole) = [whole |-> TRUE, sec |-> s, usec |-> r, millis |-> 0]
    BY <1>2 DEF ToGuest, Timeval
  <2> HIDE DEF s, r
  <2>4. ToGuest(micros, whole) \in Value
    <3>1. ToGuest(micros, whole) \in AnyValue
      BY <2>1, <2>2, <2>3, OptionsAssumption, SMT DEF AnyValue
    <3>2. InRange(ToGuest(micros, whole))
      BY <2>2, <2>3, SMT DEF InRange
    <3>3. ToGuest(micros, whole).whole
      BY <2>3
    <3> QED BY <3>1, <3>2, <3>3, Zenon DEF Value, Accepts
  <2>5. ToGuest(micros, whole) # None
    BY <2>2, <2>3, SMT DEF None, Timeval
  <2>6. ToHost(ToGuest(micros, whole)) = micros
    BY <1>2, <2>2, <2>3, SMT DEF ToHost, Micros
  <2> QED BY <2>4, <2>5, <2>6
<1> QED BY <1>1, <1>2

------------------------------------------------------------------------------
(* The inductive invariant. *)
Saved(o) == saved[o] = None \/ \E whole \in BOOLEAN : saved[o] = ToGuest(original[o], whole)

OInv ==
  /\ option \in [Flags -> BOOLEAN] /\ option = asked
  /\ timeout \in [Timeouts -> Settings] /\ wanted \in [Timeouts -> Int]
  /\ saved \in [Timeouts -> Value \cup {None}] /\ original \in [Timeouts -> Settings]
  /\ \A o \in Timeouts : Saved(o)
  /\ TimeoutKept

LEMMA SettingsNat == Settings \subseteq Nat /\ 0 \in Settings
BY OptionsAssumption, SMT DEF Settings

LEMMA InitInv == OInit => OInv
<1> SUFFICES ASSUME OInit PROVE OInv
  BY SMT
<1>1. timeout = [o \in Timeouts |-> 0] /\ wanted = [o \in Timeouts |-> 0]
      /\ saved = [o \in Timeouts |-> None] /\ original = [o \in Timeouts |-> 0]
      /\ option = [o \in Flags |-> FALSE] /\ asked = option
  BY SMT DEF OInit
<1>2. TimeoutKept
  BY <1>1, SMT DEF TimeoutKept
<1> QED BY <1>1, <1>2, SettingsNat, SMT DEF OInv, Saved

(* What setting a timeout does to the two variables concerned. *)
LEMMA SettingTimeout ==
  ASSUME Platform # "macos", OInv, NEW o \in Timeouts, NEW level \in GuestSocketLevels,
         NEW v \in Value, SetsTimeout(o, level, v)
  PROVE  /\ timeout' = [timeout EXCEPT ![o] = ToHost(v)]
         /\ timeout' \in [Timeouts -> Settings] /\ wanted' \in [Timeouts -> Int]
         /\ TimeoutKept'
<1>0. wanted' = [wanted EXCEPT ![o] = Micros(v)]
  BY DEF SetsTimeout
<1>1. timeout' = [timeout EXCEPT ![o] = ToHost(v)]
  <2>1. \A x \in Timeouts : Reaches(o, level, x) <=> x = o
    BY TimeoutReaches
  <2>2. timeout' = [x \in Timeouts |-> IF x = o THEN ToHost(v) ELSE timeout[x]]
    BY <2>1 DEF SetsTimeout
  <2>3. timeout \in [Timeouts -> Settings]
    BY DEF OInv
  <2> QED BY <2>2, <2>3
<1>2. timeout' \in [Timeouts -> Settings] /\ wanted' \in [Timeouts -> Int]
  BY <1>0, <1>1, ToHostKeeps, SMT DEF OInv
<1>3. ASSUME NEW x \in Timeouts, x # o
      PROVE  timeout'[x] = timeout[x] /\ wanted'[x] = wanted[x]
  BY <1>0, <1>1, <1>3, SMT DEF OInv
<1>4. timeout'[o] = ToHost(v) /\ wanted'[o] = Micros(v)
  BY <1>0, <1>1, SMT DEF OInv
<1>5. TimeoutKept'
  BY <1>3, <1>4, ToHostKeeps, SMT DEF OInv, TimeoutKept, Windows
<1> QED BY <1>1, <1>2, <1>5, SMT

LEMMA NextInv == ASSUME Platform # "macos" PROVE OInv /\ [ONext]_optionVars => OInv'
<1> SUFFICES ASSUME OInv, [ONext]_optionVars PROVE OInv'
  BY SMT
<1>1. CASE UNCHANGED optionVars
  BY <1>1, SMT DEF optionVars, OInv, Saved, TimeoutKept
<1>2. ASSUME NEW o \in Flags, NEW level \in GuestLevel(o), NEW v \in BOOLEAN, SetOption(o, level, v)
      PROVE  OInv'
  <2>0. \A x \in Flags : Reaches(o, level, x) <=> x = o
    BY FlagReaches
  <2>1. option' = [option EXCEPT ![o] = v] /\ asked' = [asked EXCEPT ![o] = v]
    <3>1. option' = [x \in Flags |-> IF x = o THEN v ELSE option[x]]
      BY <1>2, <2>0 DEF SetOption
    <3>2. option \in [Flags -> BOOLEAN]
      BY DEF OInv
    <3>3. asked' = [asked EXCEPT ![o] = v]
      BY <1>2 DEF SetOption
    <3> QED BY <3>1, <3>2, <3>3
  <2>2. option' \in [Flags -> BOOLEAN] /\ option' = asked'
    BY <2>1, SMT DEF OInv
  <2>3. UNCHANGED <<timeout, wanted, saved, original>>
    BY <1>2, SMT DEF SetOption
  <2> QED BY <2>2, <2>3, SMT DEF OInv, Saved, TimeoutKept
<1>3. ASSUME NEW o \in Timeouts, NEW level \in GuestSocketLevels, NEW whole \in BOOLEAN,
             Save(o, level, whole)
      PROVE  OInv'
  <2>0. \A x \in Timeouts : Reaches(o, level, x) <=> x = o
    BY TimeoutReaches
  <2>1. saved' = [saved EXCEPT ![o] = ToGuest(timeout[o], whole)]
        /\ original' = [original EXCEPT ![o] = timeout[o]] /\ timeout[o] \in Settings
    BY <1>3, <2>0 DEF Save, OInv
  <2>2. UNCHANGED <<option, timeout, asked, wanted>>
    BY <1>3, SMT DEF Save
  <2>3. saved \in [Timeouts -> Value \cup {None}] /\ original \in [Timeouts -> Settings]
    BY DEF OInv
  <2>4. saved' \in [Timeouts -> Value \cup {None}] /\ original' \in [Timeouts -> Settings]
    BY <2>1, <2>3, ThereAndBack
  <2>5. ASSUME NEW x \in Timeouts PROVE Saved(x)'
    <3>1. CASE x = o
      <4>1. saved'[x] = ToGuest(timeout[o], whole) /\ original'[x] = timeout[o]
        BY <2>1, <2>3, <3>1
      <4> QED BY <4>1, Zenon DEF Saved
    <3>2. CASE x # o
      <4>1. saved'[x] = saved[x] /\ original'[x] = original[x] /\ Saved(x)
        BY <2>1, <2>3, <3>2 DEF OInv
      <4> QED BY <4>1, Zenon DEF Saved
    <3> QED BY <3>1, <3>2
  <2> QED BY <2>2, <2>4, <2>5, SMT DEF OInv, TimeoutKept
<1>4. ASSUME NEW o \in Timeouts, NEW level \in GuestSocketLevels, NEW v \in Values,
             SetTimeout(o, level, v)
      PROVE  OInv'
  <2>1. v \in Value
    <3>1. v \in AnyValue
      BY OptionsAssumption, SMT DEF AnyValue
    <3>2. Accepts(v)
      BY <1>4 DEF SetTimeout, SetsTimeout
    <3> QED BY <3>1, <3>2, Zenon DEF Value
  <2>2. /\ timeout' \in [Timeouts -> Settings] /\ wanted' \in [Timeouts -> Int] /\ TimeoutKept'
    BY <1>4, <2>1, SettingTimeout DEF SetTimeout
  <2>3. UNCHANGED <<option, asked, saved, original>>
    BY <1>4, SMT DEF SetTimeout
  <2> QED BY <2>2, <2>3, SMT DEF OInv, Saved
<1>5. ASSUME NEW o \in Timeouts, NEW level \in GuestSocketLevels, Restore(o, level) PROVE OInv'
  <2>1. saved[o] \in Value
    BY <1>5 DEF Restore, OInv
  <2>2. /\ timeout' \in [Timeouts -> Settings] /\ wanted' \in [Timeouts -> Int] /\ TimeoutKept'
    BY <1>5, <2>1, SettingTimeout DEF Restore
  <2>3. UNCHANGED <<option, asked, saved, original>>
    BY <1>5, SMT DEF Restore
  <2> QED BY <2>2, <2>3, SMT DEF OInv, Saved
<1> QED BY <1>1, <1>2, <1>3, <1>4, <1>5, SMT DEF ONext

(* Options reach the host's options of the same name. *)
THEOREM OptionsReachTheirNames == ASSUME Platform # "macos" PROVE OSpec => []OptionsTakeEffect
<1>1. OInv => OptionsTakeEffect
  BY SMT DEF OInv, OptionsTakeEffect
<1>2. OInv /\ [ONext]_optionVars => OInv'
  BY NextInv, SMT
<1> QED BY InitInv, <1>1, <1>2, PTL DEF OSpec

(* Timeouts keep their meaning, for all timevals and widths. *)
THEOREM TimeoutsKeepMeaning == ASSUME Platform # "macos" PROVE OSpec => []TimeoutKept
<1>1. OInv => TimeoutKept
  BY SMT DEF OInv
<1>2. OInv /\ [ONext]_optionVars => OInv'
  BY NextInv, SMT
<1> QED BY InitInv, <1>1, <1>2, PTL DEF OSpec

(* A timeout that was read is restored exactly. *)
THEOREM RestoringIsExact == ASSUME Platform # "macos" PROVE OSpec => RestoreIsExact
<1>1. OInv /\ [ONext]_optionVars => OInv'
  BY NextInv, SMT
<1>2. OInv /\ [ONext]_optionVars =>
        [\A o \in Timeouts : \A level \in GuestSocketLevels :
           Restore(o, level) => timeout'[o] = original[o]]_optionVars
  <2> SUFFICES ASSUME OInv, NEW o \in Timeouts, NEW level \in GuestSocketLevels, Restore(o, level)
               PROVE  timeout'[o] = original[o]
    BY SMT
  <2>1. original[o] \in Settings
    BY DEF OInv
  <2>a. PICK whole \in BOOLEAN : saved[o] = ToGuest(original[o], whole)
    BY DEF Restore, OInv, Saved
  <2>2. saved[o] \in Value /\ ToHost(saved[o]) = original[o]
    BY <2>1, <2>a, ThereAndBack
  <2>3. timeout' = [timeout EXCEPT ![o] = ToHost(saved[o])]
    BY <2>2, SettingTimeout DEF Restore
  <2> QED BY <2>2, <2>3, SMT DEF OInv
<1> QED BY InitInv, <1>1, <1>2, PTL DEF OSpec, RestoreIsExact
===============================================================================
