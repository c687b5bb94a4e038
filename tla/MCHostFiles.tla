----------------------------- MODULE MCHostFiles -----------------------------
(***************************************************************************)
(* HostFiles for TLC, on both kinds of host: U is a Unix host with a tidy  *)
(* guest and two files, W a Windows host with a guest that closes          *)
(* descriptors as it likes and one file, whose path canonicalize may fail  *)
(* to find.  The invariants are stated for the paths of both.              *)
(***************************************************************************)
EXTENDS HostFiles, FiniteSets, TLC

CONSTANTS f1, f2, c1, c2, alias

VARIABLE host           \* the host of this behaviour

MCPaths == {c1, c2, alias}
MCFileOf == [p \in MCPaths |-> IF p = c2 THEN f2 ELSE f1]
MCLockName == [p \in MCPaths |-> p]

U == INSTANCE HostFiles WITH
       Paths <- {c1, c2}, FileOf <- [p \in {c1, c2} |-> MCFileOf[p]],
       LockName <- [p \in {c1, c2} |-> p]

W == INSTANCE HostFiles WITH
       OnUnix <- FALSE, Tidy <- FALSE, MaxGuestFd <- MaxGuestFd - 1,
       Paths <- {c1, alias}, FileOf <- [p \in {c1, alias} |-> f1],
       LockName <- [p \in {c1, alias} |-> p]

OneSession == \A q, r \in Runners : logon[q] = logon[r]

MCInit ==
  /\ LockInit
  /\ host \in {"unix", "windows"}
  /\ host = "unix" => OneSession

(* Bounds.  On Unix two runners start; on Windows three in one session or  *)
(* two in two, with one descriptor less, and one file is being opened at a *)
(* time.                                                                   *)
TwoRunners == Cardinality({r \in Runners : up[r] # "new"}) <= 2

OneOpening ==
  Cardinality({o \in Runners \X Threads : opening[o[1]][o[2]] # NoPath}) <= 1

MCNext ==
  /\ \/ host = "unix" /\ U!LockNext /\ TwoRunners'
     \/ host = "windows" /\ W!LockNext /\ OneOpening' /\ (OneSession \/ TwoRunners')
  /\ UNCHANGED host

MCSpec == MCInit /\ [][MCNext]_<<lockVars, host>>

Symmetry == Permutations(Runners) \union Permutations(Threads) \union Permutations(Sessions)
==============================================================================
