---------------------------- MODULE MCSocketSettings --------------------------
(***************************************************************************)
(* The settings of a socket for TLC.  A behaviour is one of WindowsSockets,*)
(* whose threads are interchangeable, or one of SocketOptions: as the      *)
(* configuration has it, the Windows bridge, or as L, the Unix bridge on   *)
(* Linux, with at most one flag set at a time.  Timeouts lie at the edges  *)
(* of a millisecond, of zero and of a scaled-down u32 and i64.             *)
(***************************************************************************)
EXTENDS WindowsSockets, SocketOptions, FiniteSets, TLC

VARIABLE model   \* what this behaviour is of

L == INSTANCE SocketOptions WITH Platform <- "linux"

MCInit == model \in {"mode", "windows", "linux"} /\ Init /\ OInit

MCNext ==
  /\ \/ model = "mode" /\ Next /\ UNCHANGED optionVars
     \/ model = "windows" /\ ONext /\ UNCHANGED vars
     \/ model = "linux" /\ L!ONext /\ UNCHANGED vars
  /\ Cardinality({o \in Flags : asked'[o]}) <= 1
  /\ UNCHANGED model

MCSpec == MCInit /\ [][MCNext]_<<vars, optionVars, model>>

MCValues == {Timeval(0, 0), Timeval(0, 1), Timeval(3, 999001), Timeval(1101, 0),
             Timeval(-1, 1), Millis(7)}

Symmetry == Permutations(Threads)
===============================================================================
