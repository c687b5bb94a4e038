---------------------------- MODULE MCWasiThreads -----------------------------
(* Instance of WasiThreads for TLC: identifiers of three bits, so that the *)
(* counter wraps, and exit codes of two.                                   *)
EXTENDS WasiThreads, TLC

SmallStatuses == {-1, 0, 3, 4, 5, 8}

ThreadSymmetry == Permutations(Threads)
===============================================================================
