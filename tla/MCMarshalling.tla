----------------------------- MODULE MCMarshalling ----------------------------
(* Instances of Marshalling for TLC: two guest threads whose calls keep    *)
(* the rules, with buffers at both ends of memory and of the greatest      *)
(* length, the first of which may also pass anything; over either bridge.  *)
(* A memory of more than i32::MAX cells lets sound buffers reach past it.  *)
EXTENDS Marshalling

CONSTANTS t1, t2

C(op, ptr, len, addr, alen, lptr) ==
  [op |-> op, ptr |-> ptr, len |-> len, addr |-> addr, alen |-> alen, lptr |-> lptr]

SoundCalls(t) ==
  IF t = t1
  THEN {C("recv", 0, 3, 0, 0, 0), C("recvfrom", 2, 2, 0, 2, 4), C("name", 0, 0, 0, 3, 3),
        C("poll", 0, 2, 0, 0, 0), C("send", 0, 4, 6, 3, 0)}
  ELSE {C("recv", 7, 3, 0, 0, 0), C("recvfrom", 5, 1, 7, 3, 6), C("option", 0, 0, 6, 4, 5),
        C("poll", 6, 1, 0, 0, 0)}

AnyPtr == {-2, 7}
AnyCalls ==
  {C(op, p, l, 0, 0, 0) : op \in {"recv", "send", "poll"}, p \in AnyPtr \cup {6}, l \in {-1, 2, 5}}
    \cup {C(op, 0, 0, a, l, w) : op \in {"name", "option"}, a \in AnyPtr \cup {0},
                                 l \in {1, 15}, w \in AnyPtr}
    \cup {C("recvfrom", p, 2, a, l, 0) : p \in AnyPtr \cup {2}, a \in AnyPtr, l \in {1, 2, 15}}
    \cup {C("send", 0, 2, a, l, 0) : a \in AnyPtr, l \in {1, 4, 15}}

MCCallsOf == [t \in {t1, t2} |-> IF t = t1 THEN SoundCalls(t) \cup AnyCalls ELSE SoundCalls(t)]

MCNameLens == {0, 2}

VARIABLE bridge
MCvars == <<vars, bridge>>

W == INSTANCE Marshalling WITH Windows <- TRUE

MCInit == Init /\ bridge \in {"unix", "windows"}

(* Bound: a third call only while all have kept the rules, as far as can   *)
(* be seen, and keeping them itself.                                       *)
ThirdIsSound ==
  calls' = calls \/ calls' <= 2
    \/ (apart' /\ \A t \in Threads : Keeps(call'[t]) /\ outcome'[t] \in {"ok", "host"})

MCNext ==
  /\ \/ bridge = "unix" /\ Next
     \/ bridge = "windows" /\ W!Next
  /\ ThirdIsSound
  /\ UNCHANGED bridge

MCSpec == MCInit /\ [][MCNext]_MCvars
===============================================================================
