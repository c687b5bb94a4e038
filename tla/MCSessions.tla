----------------------------- MODULE MCSessions ------------------------------
(* HostFiles on a Windows host with two sessions and one file, which every *)
(* runner knows by its canonical path.                                     *)
EXTENDS HostFiles

CONSTANTS f1, c1

OnePath == [p \in {c1} |-> f1]
OneName == [p \in {c1} |-> p]
==============================================================================
