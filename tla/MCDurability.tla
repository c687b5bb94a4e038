----------------------------- MODULE MCDurability -----------------------------
(* Instance of Durability, and with it of HostFileIO, for TLC: one file,   *)
(* opened twice.  Liveness is checked, hence no symmetry; instead, of the  *)
(* two descriptors the first is the first to be opened, and stands for the *)
(* path of the file.                                                       *)
EXTENDS Durability

CONSTANT f1

MCFileOf == [d \in Fds |-> f1]

InOrder(t) ==
  /\ at'[t] = "open" /\ fd'[t] = 2 =>
       table[1] # "new" \/ \E u \in Threads : at[u] \in Opening /\ fd[u] = 1
  /\ at'[t] = "sync_parent" => fd'[t] = 1

MCNext == DNext /\ \A t \in Threads : at[t] = "idle" => InOrder(t)

MCSpec == DInit /\ [][MCNext]_allVars /\ Fairness
===============================================================================
