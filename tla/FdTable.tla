------------------------------- MODULE FdTable -------------------------------
(***************************************************************************)
(* What a guest descriptor table promises to the guest, with no threads,   *)
(* no mutex and no host kernel in it: an object enters the table under a   *)
(* descriptor nobody was given before and keeps it until the descriptor is *)
(* closed.  The counter behind the table saturates, so the one descriptor  *)
(* Last (i32::MAX in the code) may be handed out again.                    *)
(* HostSockets implements this specification.                              *)
(***************************************************************************)
CONSTANTS Descriptors,  \* every descriptor the table can hand out
          Objects,      \* what a descriptor can name
          Last          \* the descriptor a saturated counter stays at

VARIABLES live,         \* partial function: open descriptor -> object
          issued        \* every descriptor handed out so far, except Last

vars == <<live, issued>>

Init == /\ live = [d \in {} |-> d]
        /\ issued = {}

(* An object that no open descriptor names is entered under d. *)
Open(d, o) ==
  /\ d \notin issued
  /\ \A e \in DOMAIN live : live[e] # o
  /\ live' = [e \in DOMAIN live \union {d} |-> IF e = d THEN o ELSE live[e]]
  /\ issued' = issued \union ({d} \ {Last})

Close(d) ==
  /\ d \in DOMAIN live
  /\ live' = [e \in DOMAIN live \ {d} |-> live[e]]
  /\ UNCHANGED issued

(* The table is dropped with its last owner. *)
Drop ==
  /\ live' = [d \in {} |-> d]
  /\ UNCHANGED issued

Next ==
  \/ \E d \in Descriptors, o \in Objects : Open(d, o)
  \/ \E d \in Descriptors : Close(d)
  \/ Drop

Spec == Init /\ [][Next]_vars
==============================================================================
