------------------------------ MODULE GuestPaths ------------------------------
(***************************************************************************)
(* Guest paths and preopens in src/src/host_files.rs: normalize_guest_path,*)
(* HostFiles::new's ordering of the preopens, resolve, join_suffix and     *)
(* resolve_parent.  A path is a sequence of components and a flag for the  *)
(* leading slash; "" is the component between two slashes.                 *)
(*                                                                         *)
(* The state is one set of command line options and one path, which grows  *)
(* by a component a step.                                                  *)
(***************************************************************************)
EXTENDS Integers, Sequences, FiniteSets

CONSTANTS
  Names,      \* ordinary components
  NameLen,    \* their length in bytes
  Clis,       \* option sets: sequences of [host, guest] in the order of
              \* HostFiles::new (the default preopen first, if any)
  MaxParts    \* bound: components of a path

ASSUME PathsAssumption ==
  MaxParts \in Nat /\ NameLen \in [Names -> Nat \ {0}]

VARIABLES
  preopens,   \* HostFilesInner.preopens
  path        \* a path the guest passes

pathVars == <<preopens, path>>

Components == Names \union {"", ".", ".."}
Paths == [abs : BOOLEAN, parts : Seq(Components)]

ASSUME ComponentsAssumption == Names \cap {"", ".", ".."} = {}
ASSUME ClisAssumption == Clis \subseteq Seq([host : Seq(STRING), guest : Paths])

------------------------------------------------------------------------------
Error(e) == [err |-> e]
Failed(x) == "err" \in DOMAIN x

(* Vec::pop of what is not empty, and Path::parent. *)
pop(parts) == SubSeq(parts, 1, Len(parts) - 1)

(* Path::starts_with, component by component. *)
starts_with(parts, base) ==
  Len(base) <= Len(parts) /\ SubSeq(parts, 1, Len(base)) = base

(* Mutant: ".." at the top stays at the top, as in a host's root. *)
step_Lenient(parts, part) ==
  IF Failed(parts) \/ part \in {"", "."} THEN parts
  ELSE IF part # ".." THEN [parts |-> Append(parts.parts, part)]
  ELSE IF parts.parts = <<>> THEN parts
  ELSE [parts |-> pop(parts.parts)]

(* One turn of normalize_guest_path's loop. *)
step(parts, part) ==
  IF Failed(parts) \/ part \in {"", "."} THEN parts
  ELSE IF part # ".." THEN [parts |-> Append(parts.parts, part)]
  ELSE IF parts.parts = <<>> THEN Error("ENOTCAPABLE")
  ELSE [parts |-> pop(parts.parts)]

(* What the loop has after each number of turns. *)
loop(path_parts) ==
  LET after[k \in 0..Len(path_parts)] ==
        IF k = 0 THEN [parts |-> <<>>] ELSE step(after[k - 1], path_parts[k])
  IN after

(* No components left stands for "/" or ".". *)
normalize_guest_path(p) ==
  IF ~p.abs /\ p.parts = <<>> THEN Error("ENOENT")
  ELSE LET end == loop(p.parts)[Len(p.parts)]
       IN IF Failed(end) THEN end ELSE [abs |-> p.abs, parts |-> end.parts]

(* The bytes of the names of a path, each with the place of its name. *)
Bytes(parts) == UNION {{k} \X (1..NameLen[parts[k]]) : k \in DOMAIN parts}

(* The length of a normalized path as a string. *)
len(g) ==
  IF g.parts = <<>> THEN 1
  ELSE (IF g.abs THEN 1 ELSE 0) + Len(g.parts) - 1 + Cardinality(Bytes(g.parts))

(* HostFiles::new keeps the normalized guest path of each preopen. *)
new(cli) ==
  [i \in DOMAIN cli |-> [host |-> cli[i].host,
                         guest |-> normalize_guest_path(cli[i].guest)]]

guest(i) == preopens[i].guest

(* Mutant: the shortest guest path first. *)
before_Ascending(i, j) ==
  \/ len(guest(i)) < len(guest(j))
  \/ len(guest(i)) = len(guest(j)) /\ i < j

(* sort_by is stable: longest first, equal ones in the order given. *)
before(i, j) ==
  \/ len(guest(i)) > len(guest(j))
  \/ len(guest(i)) = len(guest(j)) /\ i < j

(* Does resolve's loop stop at preopen i?  "." takes every relative path   *)
(* and "/" every path, also a relative one.                                *)
matches(i, n) ==
  LET g == guest(i)
  IN IF g.parts = <<>> THEN g.abs \/ ~n.abs
     ELSE n.abs = g.abs /\ starts_with(n.parts, g.parts)

join_suffix(root, suffix) == root \o suffix

resolve(p) ==
  LET n == normalize_guest_path(p)
      found == {i \in DOMAIN preopens : matches(i, n)}
  IN IF Failed(n) THEN n
     ELSE IF found = {} THEN Error("ENOTCAPABLE")
     ELSE LET i == CHOOSE i \in found : \A j \in found \ {i} : before(i, j)
              below == Len(guest(i).parts)
          IN [by |-> i,
              host |-> join_suffix(preopens[i].host,
                                   SubSeq(n.parts, below + 1, Len(n.parts)))]

(* Mutant: the last component is cut off before the path is normalized. *)
resolve_parent_Raw(p) ==
  IF Failed(resolve(p)) THEN resolve(p)
  ELSE IF p.parts = <<>> THEN Error("EINVAL")
  ELSE LET parent == resolve([abs |-> p.abs, parts |-> pop(p.parts)])
       IN IF Failed(parent) THEN parent ELSE [host |-> parent.host]

(* The host directory above, if it is in some preopen. *)
resolve_parent(p) ==
  LET r == resolve(p)
  IN IF Failed(r) THEN r
     ELSE IF r.host = <<>> THEN Error("EINVAL")
     ELSE IF \E i \in DOMAIN preopens :
               starts_with(pop(r.host), preopens[i].host)
     THEN [host |-> pop(r.host)]
     ELSE Error("ENOTCAPABLE")

------------------------------------------------------------------------------
PathInit ==
  /\ \E cli \in Clis :
       \* an option that names no guest path ends the runner
       /\ \A i \in DOMAIN cli : ~Failed(normalize_guest_path(cli[i].guest))
       /\ preopens = new(cli)
  /\ path \in [abs : BOOLEAN, parts : {<<>>}]

Extend ==
  /\ Len(path.parts) < MaxParts
  /\ \E c \in Components :
       \* a path that begins with a slash is absolute
       /\ c = "" => path.abs \/ path.parts # <<>>
       /\ path' = [path EXCEPT !.parts = Append(path.parts, c)]
  /\ UNCHANGED preopens

PathSpec == PathInit /\ [][Extend]_pathVars

------------------------------------------------------------------------------
(* The names of the components i..j minus the ".." among them. *)
Balance(parts, i, j) ==
  Cardinality({k \in i..j : parts[k] \in Names})
    - Cardinality({k \in i..j : parts[k] = ".."})

(* normalize_guest_path against a definition without a stack: the walk is  *)
(* refused iff some prefix of it climbs above its start, and a component   *)
(* stays iff nothing after it ever climbs back over it.                    *)
NormalizeIsLexical ==
  LET parts == path.parts
      all == DOMAIN parts
      climbs == \E j \in all : Balance(parts, 1, j) < 0
      stays(i) == parts[i] \in Names
                    /\ \A j \in all : j > i => Balance(parts, i + 1, j) >= 0
      kept == {i \in all : stays(i)}
      n == normalize_guest_path(path)
  IN (path.abs \/ parts # <<>>) =>
       IF climbs THEN Failed(n)
       ELSE /\ ~Failed(n) /\ n.abs = path.abs
            /\ Len(n.parts) = Cardinality(kept)
            /\ \A i \in kept :
                 n.parts[Cardinality({k \in kept : k <= i})] = parts[i]

(* Preopen i covers a path if its guest directory is on the way to it. *)
Covers(i, n) == guest(i).abs = n.abs /\ starts_with(n.parts, guest(i).parts)

(* --preopen: "Preopen a host directory at a guest path" (main.rs): of the *)
(* preopens that cover a path the innermost one serves it.  The one        *)
(* exception is a name of a single byte beside "." or "/", which are as    *)
(* long, if they come first.                                               *)
InnermostPreopenServes ==
  LET n == normalize_guest_path(path)
      r == resolve(path)
  IN ~Failed(r) => \A i \in DOMAIN preopens : Covers(i, n) =>
       \/ Len(guest(i).parts) <= Len(guest(r.by).parts)
       \/ guest(r.by).parts = <<>> /\ len(guest(i)) = 1 /\ r.by < i

(* sync_parent syncs the directory that the guest sees above the path: for *)
(* a path strictly inside its preopen, resolve_parent is resolve of the    *)
(* normalized path without its last component.                             *)
ParentIsGuestParent ==
  LET n == normalize_guest_path(path)
      r == resolve(path)
  IN ~Failed(r) /\ Len(n.parts) > Len(guest(r.by).parts) =>
         LET up == resolve([abs |-> n.abs,
                            parts |-> IF Len(n.parts) = 1 /\ ~n.abs THEN <<".">>
                                      ELSE pop(n.parts)])
             parent == resolve_parent(path)
         IN ~Failed(parent) /\ ~Failed(up) /\ parent.host = up.host
===============================================================================
