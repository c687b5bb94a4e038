---------------------------- MODULE MCHostSockets ----------------------------
(* HostSockets for TLC: the kernel's descriptor numbers are interchangeable;*)
(* the threads are not, Main being one of them.                             *)
EXTENDS HostSockets, TLC

Symmetry == Permutations(RawFds)
==============================================================================
