----------------------------- MODULE MCGuestPaths -----------------------------
(* Option sets for GuestPaths: the documented one (one absolute preopen,   *)
(* no default), nested and sibling preopens, the root, and the default     *)
(* preopen of the current directory with relative ones beside it, also one *)
(* with a name of a single byte, which the root can hide too; the last one *)
(* is refused.                                                             *)
EXTENDS GuestPaths

MCNames == {"d", "tmp", "var"}
MCNameLen == [n \in MCNames |-> IF n = "d" THEN 1 ELSE 3]

Abs(parts) == [abs |-> TRUE, parts |-> parts]
Rel(parts) == [abs |-> FALSE, parts |-> parts]
At(h, g) == [host |-> h, guest |-> g]
Cwd == At(<<"home", "work">>, Rel(<<".">>))

MCClis ==
  { <<At(<<"run">>, Abs(<<"tmp">>))>>,
    <<At(<<"run">>, Abs(<<"tmp">>)), At(<<"disk">>, Abs(<<"tmp", "var">>))>>,
    <<At(<<"disk">>, Abs(<<"tmp", "", "d">>)), At(<<>>, Abs(<<>>))>>,
    <<Cwd>>,
    <<Cwd, At(<<"run">>, Abs(<<"tmp">>)), At(<<"disk">>, Rel(<<"var">>))>>,
    <<Cwd, At(<<"run">>, Rel(<<"tmp", "d">>)), At(<<"disk">>, Abs(<<"d">>))>>,
    <<Cwd, At(<<"disk">>, Rel(<<"d">>))>>,
    <<At(<<"run">>, Abs(<<>>)), At(<<"disk">>, Rel(<<"d">>))>>,
    <<Cwd, At(<<"run">>, Abs(<<"tmp", "..", "..">>))>> }
===============================================================================
