------------------------------- MODULE MCRunner -------------------------------
(* Instances of Runner for TLC: model values for the clients only. *)
EXTENDS Runner
===============================================================================
