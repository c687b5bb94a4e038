--------------------------- MODULE GuestPathsProofs ---------------------------
(***************************************************************************)
(* The paths of any length, over any names, below the preopens of any      *)
(* command line: what GuestPaths' run checks on small paths.               *)
(***************************************************************************)
EXTENDS GuestPaths, WellFoundedInduction, SequenceTheorems, FiniteSetTheorems,
        TLAPS

(* Every set of naturals has a least element, and so induction over Nat. *)
LEMMA Least ==
  ASSUME NEW S \in SUBSET Nat, S # {}
  PROVE  \E m \in S : \A k \in S : m <= k
<1> DEFINE R == OpToRel(<, Nat)
<1>1. IsWellFoundedOn(R, Nat)
  BY NatLessThanWellFounded, Zenon
<1>2. R = {ss \in Nat \X Nat : ss[1] < ss[2]}
  BY DEF OpToRel
<1>3. \A x, y \in Nat : y < x => <<y, x>> \in R
  BY <1>2, Zenon
<1> HIDE DEF R
<1>4. \E x \in S : \A y \in S : ~ (<<y, x>> \in R)
  BY <1>1, WFMin, Zenon
<1>5. PICK x \in S : \A y \in S : ~ (<<y, x>> \in R)
  BY <1>4
<1>6. \A y \in S : ~ (y < x)
  BY <1>3, <1>5, Zenon
<1> QED
  BY <1>6

(* Induction over Nat for a set. *)
LEMMA Induction ==
  ASSUME NEW S, 0 \in S, \A n \in Nat : n \in S => n + 1 \in S
  PROVE  \A n \in Nat : n \in S
<1> SUFFICES ASSUME Nat \ S # {} PROVE FALSE
  OBVIOUS
<1>1. PICK m \in Nat \ S : \A k \in Nat \ S : m <= k
  BY Least, Zenon
<1>2. m # 0 /\ m - 1 \in Nat
  BY <1>1
<1>3. m - 1 \in S
  BY <1>1, <1>2
<1> QED
  BY <1>1, <1>2, <1>3

(* The loop of normalize_guest_path, unfolded. *)
Turns(s, n, g) ==
  g = [k \in 0..n |-> IF k = 0 THEN [parts |-> <<>>] ELSE step(g[k - 1], s[k])]

(* The loop is the function that its definition describes. *)
LEMMA LoopDef == ASSUME NEW s, Len(s) \in Nat PROVE Turns(s, Len(s), loop(s))
<1> DEFINE S == {n \in Nat : \E g : Turns(s, n, g)}
<1>1. 0 \in S
  <2>1. Turns(s, 0, [k \in 0..0 |-> [parts |-> <<>>]])
    BY DEF Turns
  <2> QED
    BY <2>1
<1>2. ASSUME NEW n \in Nat, n \in S PROVE n + 1 \in S
  <2>1. PICK g : Turns(s, n, g)
    BY <1>2
  <2> DEFINE h == [k \in 0..n + 1 |-> IF k = n + 1 THEN step(g[n], s[n + 1]) ELSE g[k]]
  <2>2. Turns(s, n + 1, h)
    <3>1. \A k \in 0..n : h[k] = g[k]
      OBVIOUS
    <3>2. \A k \in 0..n : k # 0 => k - 1 \in 0..n
      OBVIOUS
    <3>3. \A k \in 0..n : g[k] = IF k = 0 THEN [parts |-> <<>>] ELSE step(g[k - 1], s[k])
      BY <2>1 DEF Turns
    <3>4. \A k \in 0..n + 1 :
            h[k] = IF k = 0 THEN [parts |-> <<>>] ELSE step(h[k - 1], s[k])
      <4> SUFFICES ASSUME NEW k \in 0..n + 1
                   PROVE  h[k] = IF k = 0 THEN [parts |-> <<>>] ELSE step(h[k - 1], s[k])
        OBVIOUS
      <4>1. CASE k \in 0..n
        <5>1. h[k] = g[k] /\ (k # 0 => h[k - 1] = g[k - 1])
          BY <3>1, <3>2, <4>1, Zenon
        <5> HIDE DEF h
        <5> QED
          BY <3>3, <4>1, <5>1, Zenon
      <4>2. CASE k = n + 1
        <5>1. h[n] = g[n] /\ n + 1 - 1 = n /\ n + 1 # 0
          BY <3>1
        <5> QED
          BY <4>2, <5>1
      <4> QED
        BY <4>1, <4>2
    <3> QED
      BY <3>4 DEF Turns
  <2> QED
    BY <2>2
<1>3. Len(s) \in S
  BY <1>1, <1>2, Induction, Zenon
<1> QED
  BY <1>3, Zenon DEF loop, Turns

(* Each turn of the loop is a step. *)
LEMMA LoopTurns ==
  ASSUME NEW s, Len(s) \in Nat
  PROVE  /\ loop(s)[0] = [parts |-> <<>>]
         /\ \A k \in 1..Len(s) : loop(s)[k] = step(loop(s)[k - 1], s[k])
<1> DEFINE f == loop(s)
<1>1. f = [k \in 0..Len(s) |-> IF k = 0 THEN [parts |-> <<>>] ELSE step(f[k - 1], s[k])]
  BY LoopDef DEF Turns
<1> HIDE DEF f
<1>2. f[0] = [parts |-> <<>>] /\ \A k \in 1..Len(s) : f[k] = step(f[k - 1], s[k])
  BY <1>1
<1> QED
  BY <1>2 DEF f

(* The stack of the loop, or its refusal. *)
Stacks == [parts : Seq(Names)]
Walks == Stacks \cup {Error("ENOTCAPABLE")}

(* A stack is not an error. *)
LEMMA StackOrError ==
  /\ \A w \in Stacks : ~Failed(w) /\ w.parts \in Seq(Names) /\ w = [parts |-> w.parts]
  /\ \A e : Failed(Error(e))
  /\ \A q : ~Failed([parts |-> q])
  /\ \A a, q : ~Failed([abs |-> a, parts |-> q])
  BY DEF Stacks, Failed, Error

(* One turn of the loop keeps a stack of names, or refuses. *)
LEMMA StepWalks ==
  ASSUME NEW w \in Walks, NEW c \in Components
  PROVE  step(w, c) \in Walks
<1>1. CASE w = Error("ENOTCAPABLE")
  BY <1>1, StackOrError, Zenon DEF step
<1>2. CASE w \in Stacks
  <2>1. w.parts \in Seq(Names)
    BY <1>2, StackOrError
  <2>2. CASE c \in {"", "."}
    BY <2>2, Zenon DEF step
  <2>3. CASE c \in Names
    <3>1. [parts |-> Append(w.parts, c)] \in Stacks
      BY <2>1, <2>3 DEF Stacks
    <3>2. step(w, c) = [parts |-> Append(w.parts, c)]
      BY <1>2, <2>3, StackOrError, ComponentsAssumption, Zenon DEF step
    <3> QED
      BY <3>1, <3>2 DEF Walks
  <2>4. CASE c = ".."
    <3>1. CASE w.parts = <<>>
      BY <1>2, <2>4, <3>1, StackOrError, Zenon DEF step, Walks
    <3>2. CASE w.parts # <<>>
      <4>1. pop(w.parts) \in Seq(Names)
        BY <2>1, <3>2 DEF pop
      <4>2. [parts |-> pop(w.parts)] \in Stacks
        BY <4>1 DEF Stacks
      <4>3. step(w, c) = [parts |-> pop(w.parts)]
        BY <1>2, <2>4, <3>2, StackOrError, Zenon DEF step
      <4> QED
        BY <4>2, <4>3 DEF Walks
    <3> QED
      BY <3>1, <3>2
  <2> QED
    BY <2>2, <2>3, <2>4, Zenon DEF Components
<1> QED
  BY <1>1, <1>2 DEF Walks

(* So does the whole loop. *)
LEMMA LoopWalks ==
  ASSUME NEW s \in Seq(Components), NEW m \in 0..Len(s)
  PROVE  loop(s)[m] \in Walks
<1> DEFINE S == {k \in Nat : k <= Len(s) => loop(s)[k] \in Walks}
<1>1. 0 \in S
  <2>1. <<>> \in Seq(Names)
    OBVIOUS
  <2>2. [parts |-> <<>>] \in Stacks
    BY <2>1 DEF Stacks
  <2> QED
    BY <2>2, LoopTurns DEF Walks
<1>2. ASSUME NEW k \in Nat, k \in S PROVE k + 1 \in S
  <2> SUFFICES ASSUME k + 1 <= Len(s) PROVE loop(s)[k + 1] \in Walks
    OBVIOUS
  <2>1. loop(s)[k] \in Walks /\ s[k + 1] \in Components /\ k + 1 \in 1..Len(s)
    BY <1>2
  <2>2. loop(s)[k + 1] = step(loop(s)[k], s[k + 1])
    BY <2>1, LoopTurns
  <2> QED
    BY <2>1, <2>2, StepWalks
<1> HIDE DEF S
<1>3. m \in S
  BY <1>1, <1>2, Induction
<1> QED
  BY <1>3 DEF S

(* Without "." and ".." the loop just collects the components. *)
LEMMA LoopCollects ==
  ASSUME NEW s \in Seq(Names)
  PROVE  loop(s)[Len(s)] = [parts |-> s]
<1> DEFINE S == {k \in Nat : k <= Len(s) => loop(s)[k] = [parts |-> SubSeq(s, 1, k)]}
<1>1. 0 \in S
  <2>1. SubSeq(s, 1, 0) = <<>>
    OBVIOUS
  <2> QED
    BY <2>1, LoopTurns
<1>2. ASSUME NEW k \in Nat, k \in S PROVE k + 1 \in S
  <2> SUFFICES ASSUME k + 1 <= Len(s)
               PROVE  loop(s)[k + 1] = [parts |-> SubSeq(s, 1, k + 1)]
    OBVIOUS
  <2>1. loop(s)[k] = [parts |-> SubSeq(s, 1, k)] /\ s[k + 1] \in Names
        /\ k + 1 \in 1..Len(s)
    BY <1>2
  <2>2. loop(s)[k + 1] = step(loop(s)[k], s[k + 1])
    BY <2>1, LoopTurns
  <2>3. step(loop(s)[k], s[k + 1]) = [parts |-> Append(SubSeq(s, 1, k), s[k + 1])]
    <3>1. ~Failed(loop(s)[k]) /\ loop(s)[k].parts = SubSeq(s, 1, k)
      BY <2>1, StackOrError
    <3>2. s[k + 1] \notin {"", ".", ".."}
      BY <2>1, ComponentsAssumption, Zenon
    <3> QED
      BY <3>1, <3>2, Zenon DEF step
  <2>4. Append(SubSeq(s, 1, k), s[k + 1]) = SubSeq(s, 1, k + 1)
    <3>1. SubSeq(s, 1, k + 1) = SubSeq(s, 1, k) \o <<s[k + 1]>>
      BY <2>1, SubSeqRecursiveSecond
    <3>2. SubSeq(s, 1, k) \in Seq(Names)
      BY <2>1
    <3> QED
      BY <2>1, <3>1, <3>2, AppendIsConcat
  <2> QED
    BY <2>2, <2>3, <2>4, Zenon
<1> HIDE DEF S
<1>3. Len(s) \in S
  BY <1>1, <1>2, Induction
<1>4. SubSeq(s, 1, Len(s)) = s
  OBVIOUS
<1> QED
  BY <1>3, <1>4 DEF S

(* What normalize_guest_path answers. *)
Normal == [abs : BOOLEAN, parts : Seq(Names)]

(* What normalize_guest_path does not refuse is normal and keeps the slash. *)
LEMMA NormalizeType ==
  ASSUME NEW p \in Paths, ~Failed(normalize_guest_path(p))
  PROVE  /\ normalize_guest_path(p) \in Normal
         /\ normalize_guest_path(p).abs = p.abs
<1> DEFINE w == loop(p.parts)[Len(p.parts)]
<1>1. p.parts \in Seq(Components) /\ p.abs \in BOOLEAN
  BY DEF Paths
<1>2. w \in Walks
  BY <1>1, LoopWalks
<1>3. ~(~p.abs /\ p.parts = <<>>) /\ ~Failed(w)
  BY StackOrError DEF normalize_guest_path
<1>4. w.parts \in Seq(Names)
  BY <1>2, <1>3, StackOrError, Zenon DEF Walks
<1>5. normalize_guest_path(p) = [abs |-> p.abs, parts |-> w.parts]
  BY <1>3 DEF normalize_guest_path
<1> QED
  BY <1>1, <1>4, <1>5 DEF Normal

(* A normalized path stays as it is. *)
LEMMA NormalizeIdle ==
  ASSUME NEW n \in Normal, n.abs \/ n.parts # <<>>
  PROVE  /\ normalize_guest_path(n) = n
         /\ ~Failed(n)
<1>1. n.parts \in Seq(Names) /\ n = [abs |-> n.abs, parts |-> n.parts]
  BY DEF Normal
<1>2. loop(n.parts)[Len(n.parts)] = [parts |-> n.parts]
  BY <1>1, LoopCollects
<1> QED
  BY <1>1, <1>2, StackOrError DEF normalize_guest_path

------------------------------------------------------------------------------
(* Prefixes, element by element. *)
LEMMA Prefix ==
  ASSUME NEW S, NEW a \in Seq(S), NEW b \in Seq(S)
  PROVE  starts_with(b, a) <=> Len(a) <= Len(b) /\ \A i \in 1..Len(a) : a[i] = b[i]
<1>1. SubSeq(a, 1, Len(a)) = a
  BY SubSeqFull
<1> SUFFICES ASSUME Len(a) <= Len(b)
             PROVE  a = SubSeq(b, 1, Len(a)) <=> \A i \in 1..Len(a) : a[i] = b[i]
  BY <1>1 DEF starts_with
<1>2. /\ SubSeq(b, 1, Len(a)) \in Seq(S)
      /\ Len(SubSeq(b, 1, Len(a))) = Len(a)
      /\ \A i \in 1..Len(a) : SubSeq(b, 1, Len(a))[i] = b[i]
  OBVIOUS
<1> QED
  BY <1>2, SeqEqual

(* A path has finitely many bytes. *)
LEMMA BytesFinite ==
  ASSUME NEW q \in Seq(Names)
  PROVE  IsFiniteSet(Bytes(q)) /\ Cardinality(Bytes(q)) \in Nat
<1> DEFINE B(n) == UNION {{k} \X (1..NameLen[q[k]]) : k \in 1..n}
           S == {n \in Nat : n <= Len(q) => IsFiniteSet(B(n))}
<1>1. 0 \in S
  <2>1. B(0) = {}
    OBVIOUS
  <2> QED
    BY <2>1, FS_EmptySet
<1>2. ASSUME NEW n \in Nat, n \in S PROVE n + 1 \in S
  <2> SUFFICES ASSUME n + 1 <= Len(q) PROVE IsFiniteSet(B(n + 1))
    OBVIOUS
  <2>1. IsFiniteSet(B(n))
    BY <1>2
  <2>2. q[n + 1] \in Names /\ NameLen[q[n + 1]] \in Nat
    BY PathsAssumption
  <2>3. IsFiniteSet({n + 1}) /\ IsFiniteSet(1..NameLen[q[n + 1]])
    <3>1. 1 \in Int /\ NameLen[q[n + 1]] \in Int
      BY <2>2
    <3>2. IsFiniteSet(1..NameLen[q[n + 1]])
      BY <3>1, FS_Interval, Zenon
    <3> QED
      BY <3>2, FS_Singleton, Zenon
  <2>4. IsFiniteSet({n + 1} \X (1..NameLen[q[n + 1]]))
    BY <2>3, FS_Product, Zenon
  <2>5. 1..n + 1 = (1..n) \cup {n + 1}
    OBVIOUS
  <2>6. B(n + 1) = B(n) \cup ({n + 1} \X (1..NameLen[q[n + 1]]))
    <3>1. ASSUME NEW z \in B(n + 1)
          PROVE  z \in B(n) \cup ({n + 1} \X (1..NameLen[q[n + 1]]))
      <4>1. PICK k \in 1..n + 1 : z \in {k} \X (1..NameLen[q[k]])
        BY <3>1
      <4> QED
        BY <2>5, <4>1
    <3>2. ASSUME NEW z \in B(n) PROVE z \in B(n + 1)
      BY <3>2, <2>5
    <3>3. ASSUME NEW z \in {n + 1} \X (1..NameLen[q[n + 1]]) PROVE z \in B(n + 1)
      BY <3>3, <2>5
    <3> HIDE DEF B
    <3> QED
      BY <3>1, <3>2, <3>3
  <2>7. IsFiniteSet(B(n) \cup ({n + 1} \X (1..NameLen[q[n + 1]])))
    BY <2>1, <2>4, FS_Union, Zenon
  <2> HIDE DEF B
  <2> QED
    BY <2>6, <2>7, Zenon
<1> HIDE DEF S
<1>3. Len(q) \in S
  BY <1>1, <1>2, Induction
<1>4. Bytes(q) = B(Len(q))
  BY DEF Bytes
<1> QED
  BY <1>3, <1>4, FS_CardinalityType DEF S

(* A longer path has no fewer bytes. *)
LEMMA BytesGrow ==
  ASSUME NEW a \in Seq(Names), NEW b \in Seq(Names), starts_with(b, a)
  PROVE  Cardinality(Bytes(a)) <= Cardinality(Bytes(b))
<1>1. Len(a) <= Len(b) /\ \A i \in 1..Len(a) : a[i] = b[i]
  BY Prefix
<1>2. DOMAIN a = 1..Len(a) /\ DOMAIN b = 1..Len(b)
  OBVIOUS
<1>3. DOMAIN a \subseteq DOMAIN b /\ \A i \in DOMAIN a : a[i] = b[i]
  BY <1>1, <1>2
<1>4. Bytes(a) \subseteq Bytes(b)
  BY <1>3, Zenon DEF Bytes
<1> QED
  BY <1>4, BytesFinite, FS_Subset, Zenon

(* A name has a byte. *)
LEMMA BytesSome ==
  ASSUME NEW a \in Seq(Names), a # <<>>
  PROVE  Cardinality(Bytes(a)) >= 1
<1>1. 1 \in DOMAIN a /\ a[1] \in Names
  OBVIOUS
<1>2. NameLen[a[1]] \in Nat \ {0}
  BY <1>1, PathsAssumption
<1>3. <<1, 1>> \in {1} \X (1..NameLen[a[1]])
  BY <1>2
<1>4. <<1, 1>> \in Bytes(a)
  BY <1>1, <1>3, Zenon DEF Bytes
<1>5. Cardinality(Bytes(a)) # 0
  BY <1>4, BytesFinite, FS_EmptySet, Zenon
<1> QED
  BY <1>5, BytesFinite

(* The length of a path is at least one, and a path that goes further is   *)
(* longer, but for the names of a single byte.                             *)
LEMMA LenGrows ==
  ASSUME NEW g \in Normal, NEW h \in Normal, g.abs = h.abs,
         starts_with(h.parts, g.parts), Len(g.parts) < Len(h.parts)
  PROVE  g.parts = <<>> \/ len(g) < len(h)
<1>1. g.parts \in Seq(Names) /\ h.parts \in Seq(Names)
  BY DEF Normal
<1>2. Cardinality(Bytes(g.parts)) <= Cardinality(Bytes(h.parts))
  BY <1>1, BytesGrow
<1>3. Cardinality(Bytes(g.parts)) \in Nat /\ Cardinality(Bytes(h.parts)) \in Nat
  BY <1>1, BytesFinite
<1>4. h.parts # <<>> /\ Len(g.parts) \in Nat /\ Len(h.parts) \in Nat
  BY <1>1
<1> DEFINE A == IF g.abs THEN 1 ELSE 0
<1>5. A \in Nat
  OBVIOUS
<1>6. g.parts # <<>> => len(g) = A + Len(g.parts) - 1 + Cardinality(Bytes(g.parts))
  BY DEF len
<1>7. len(h) = A + Len(h.parts) - 1 + Cardinality(Bytes(h.parts))
  BY <1>4 DEF len
<1> HIDE DEF A
<1>8. Len(g.parts) < Len(h.parts)
  OBVIOUS
<1> QED
  BY <1>2, <1>3, <1>4, <1>5, <1>6, <1>7, <1>8

(* No guest path is empty as a string. *)
LEMMA LenPositive ==
  ASSUME NEW g \in Normal
  PROVE  len(g) \in Nat \ {0}
<1>1. g.parts \in Seq(Names)
  BY DEF Normal
<1>2. CASE g.parts = <<>>
  BY <1>2 DEF len
<1>3. CASE g.parts # <<>>
  <2>1. Cardinality(Bytes(g.parts)) \in Nat \ {0}
    BY <1>1, <1>3, BytesFinite, BytesSome
  <2>2. Len(g.parts) \in Nat \ {0}
    BY <1>1, <1>3
  <2> DEFINE A == IF g.abs THEN 1 ELSE 0
  <2>3. len(g) = A + Len(g.parts) - 1 + Cardinality(Bytes(g.parts))
    BY <1>3 DEF len
  <2>4. A \in Nat
    OBVIOUS
  <2> HIDE DEF A
  <2> QED
    BY <2>1, <2>2, <2>3, <2>4
<1> QED
  BY <1>2, <1>3

------------------------------------------------------------------------------
(* The preopens of HostFiles::new and the guest's paths. *)
PathInv ==
  /\ preopens \in Seq([host : Seq(STRING), guest : Normal])
  /\ path \in Paths

(* The fields of a preopen. *)
LEMMA PreopenType ==
  ASSUME PathInv, NEW i \in DOMAIN preopens
  PROVE  guest(i) \in Normal /\ preopens[i].host \in Seq(STRING)
<1> DEFINE R == [host : Seq(STRING), guest : Normal]
<1>1. preopens \in Seq(R)
  BY DEF PathInv
<1> HIDE DEF R
<1>2. preopens[i] \in R
  BY <1>1
<1> USE DEF R
<1> QED
  BY <1>2 DEF guest

(* Of any preopens one comes first in the order of HostFiles::new. *)
LEMMA Minimum ==
  ASSUME PathInv, NEW F \in SUBSET DOMAIN preopens, F # {}
  PROVE  \E i \in F : \A j \in F \ {i} : before(i, j)
<1>1. DOMAIN preopens = 1..Len(preopens) /\ Len(preopens) \in Nat
  BY DEF PathInv
<1>2. \A i \in DOMAIN preopens : guest(i) \in Normal
  BY PreopenType
<1>3. \A i \in DOMAIN preopens : len(guest(i)) \in Nat
  BY <1>2, LenPositive
<1> DEFINE L(i) == len(guest(i))
           S == {n \in Nat : \A G \in SUBSET F :
                   G # {} /\ (\A i \in G : i <= n)
                     => \E i \in G : \A j \in G \ {i} : before(i, j)}
<1>4. 0 \in S
  BY <1>1
<1>5. ASSUME NEW n \in Nat, n \in S PROVE n + 1 \in S
  <2> SUFFICES ASSUME NEW G \in SUBSET F, G # {}, \A i \in G : i <= n + 1
               PROVE  \E i \in G : \A j \in G \ {i} : before(i, j)
    OBVIOUS
  <2>1. \A i \in G : i \in Nat /\ L(i) \in Nat /\ (i = n + 1 \/ i <= n)
    BY <1>1, <1>3
  <2>2. CASE G \ {n + 1} = {}
    BY <2>2, Zenon
  <2>3. CASE G \ {n + 1} # {}
    <3>1. PICK i \in G \ {n + 1} : \A j \in (G \ {n + 1}) \ {i} : before(i, j)
      <4> DEFINE H == G \ {n + 1}
      <4>1. H \in SUBSET F /\ H # {} /\ \A i \in H : i <= n
        BY <2>1, <2>3
      <4> HIDE DEF H
      <4>2. \E i \in H : \A j \in H \ {i} : before(i, j)
        BY <1>5, <4>1
      <4> QED
        BY <4>2 DEF H
    <3>2. CASE n + 1 \notin G \/ L(i) >= L(n + 1)
      <4>1. \A j \in G \ {i} : before(i, j)
        BY <2>1, <3>1, <3>2 DEF before
      <4> QED
        BY <4>1
    <3>3. CASE n + 1 \in G /\ L(n + 1) > L(i)
      <4>1. \A j \in G \ {n + 1} : before(n + 1, j)
        BY <2>1, <3>1, <3>3 DEF before
      <4> QED
        BY <3>3, <4>1
    <3> QED
      BY <2>1, <3>2, <3>3
  <2> QED
    BY <2>2, <2>3
<1> HIDE DEF S
<1>6. Len(preopens) \in S
  BY <1>1, <1>4, <1>5, Induction
<1> QED
  BY <1>1, <1>6 DEF S

(* Preopen i is the one that resolve's loop stops at. *)
First(i, n) ==
  /\ i \in DOMAIN preopens /\ matches(i, n)
  /\ \A j \in DOMAIN preopens \ {i} : matches(j, n) => before(i, j)

ServedBy(i, n) ==
  [by |-> i, host |-> preopens[i].host
                        \o SubSeq(n.parts, Len(guest(i).parts) + 1, Len(n.parts))]

(* Only one comes first. *)
LEMMA FirstIsOne ==
  ASSUME PathInv, NEW n, NEW i, NEW j, First(i, n), First(j, n)
  PROVE  i = j
<1>1. i \in DOMAIN preopens /\ j \in DOMAIN preopens
  BY DEF First
<1>2. len(guest(i)) \in Nat /\ len(guest(j)) \in Nat /\ i \in Nat /\ j \in Nat
  BY <1>1, PreopenType, LenPositive DEF PathInv
<1>3. i # j => before(i, j) /\ before(j, i)
  BY DEF First
<1> QED
  BY <1>2, <1>3 DEF before

(* resolve answers with the first preopen that matches. *)
LEMMA ResolveFirst ==
  ASSUME PathInv, NEW p, ~Failed(normalize_guest_path(p)),
         NEW i, First(i, normalize_guest_path(p))
  PROVE  resolve(p) = ServedBy(i, normalize_guest_path(p)) /\ ~Failed(resolve(p))
<1> DEFINE n == normalize_guest_path(p)
           found == {k \in DOMAIN preopens : matches(k, n)}
           c == CHOOSE k \in found : \A j \in found \ {k} : before(k, j)
<1>1. i \in found /\ \A j \in found \ {i} : before(i, j)
  BY DEF First
<1>2. c \in found /\ \A j \in found \ {c} : before(c, j)
  BY <1>1, Zenon
<1>3. First(c, n)
  BY <1>2 DEF First
<1>4. c = i
  BY <1>3, FirstIsOne
<1>5. resolve(p) = ServedBy(c, n)
  <2>1. found # {}
    BY <1>1, Zenon
  <2> QED
    BY <2>1, Zenon DEF resolve, ServedBy, join_suffix
<1>6. ~Failed(ServedBy(i, n))
  BY Zenon DEF Failed, ServedBy
<1> QED
  BY <1>4, <1>5, <1>6, Zenon

(* An answer of resolve comes from the first preopen that matches. *)
LEMMA ResolveServes ==
  ASSUME PathInv, NEW p, ~Failed(resolve(p))
  PROVE  /\ ~Failed(normalize_guest_path(p))
         /\ First(resolve(p).by, normalize_guest_path(p))
         /\ resolve(p) = ServedBy(resolve(p).by, normalize_guest_path(p))
<1> DEFINE n == normalize_guest_path(p)
           found == {k \in DOMAIN preopens : matches(k, n)}
<1>1. ~Failed(n) /\ found # {}
  BY StackOrError DEF resolve
<1>2. found \in SUBSET DOMAIN preopens
  OBVIOUS
<1>3. PICK i \in found : \A j \in found \ {i} : before(i, j)
  <2> HIDE DEF found
  <2> QED
    BY <1>1, <1>2, Minimum, Zenon
<1>4. First(i, n)
  BY <1>3 DEF First
<1>5. resolve(p) = ServedBy(i, n)
  BY <1>1, <1>4, ResolveFirst, Zenon
<1>6. ServedBy(i, n).by = i
  BY DEF ServedBy
<1> QED
  BY <1>1, <1>4, <1>5, <1>6, Zenon

(* The order by length puts the inner one of two preopens on a path first. *)
LEMMA Innermost ==
  ASSUME PathInv PROVE InnermostPreopenServes
<1> DEFINE n == normalize_guest_path(path)
           r == resolve(path)
<1> SUFFICES ASSUME ~Failed(r), NEW i \in DOMAIN preopens, Covers(i, n),
                    ~(Len(guest(i).parts) <= Len(guest(r.by).parts))
             PROVE  guest(r.by).parts = <<>> /\ len(guest(i)) = 1 /\ r.by < i
  BY DEF InnermostPreopenServes
<1>1. First(r.by, n) /\ ~Failed(n)
  BY ResolveServes
<1> DEFINE b == r.by
<1> HIDE DEF b
<1>2. First(b, n)
  BY <1>1 DEF b
<1>3. b \in DOMAIN preopens /\ matches(b, n)
  BY <1>2 DEF First
<1>4. guest(b) \in Normal /\ guest(i) \in Normal /\ b \in Nat /\ i \in Nat
  BY <1>3, PreopenType DEF PathInv
<1>5. n \in Normal
  BY <1>1, NormalizeType DEF PathInv
<1>6. len(guest(b)) \in Nat \ {0} /\ len(guest(i)) \in Nat \ {0}
  BY <1>4, LenPositive
<1>7. Len(guest(i).parts) > Len(guest(b).parts) /\ guest(i).parts # <<>>
      /\ b # i
  <2>1. ~(Len(guest(i).parts) <= Len(guest(b).parts))
    BY DEF b
  <2>2. guest(b).parts \in Seq(Names) /\ guest(i).parts \in Seq(Names)
    BY <1>4 DEF Normal
  <2> QED
    BY <2>1, <2>2
<1>8. matches(i, n)
  BY <1>7, Zenon DEF matches, Covers
<1>9. before(b, i)
  BY <1>2, <1>7, <1>8, Zenon DEF First
<1>10. CASE guest(b).parts = <<>>
  <2>1. len(guest(b)) = 1
    BY <1>10, Zenon DEF len
  <2> QED
    BY <1>4, <1>6, <1>9, <1>10, <2>1 DEF before, b
<1>11. CASE guest(b).parts # <<>>
  <2>1. guest(b).abs = n.abs /\ starts_with(n.parts, guest(b).parts)
    BY <1>3, <1>11 DEF matches
  <2>2. guest(i).abs = n.abs /\ starts_with(n.parts, guest(i).parts)
    BY DEF Covers
  <2>3. guest(b).parts \in Seq(Names) /\ guest(i).parts \in Seq(Names) /\ n.parts \in Seq(Names)
    BY <1>4, <1>5 DEF Normal
  <2>4. starts_with(guest(i).parts, guest(b).parts)
    BY <1>7, <2>1, <2>2, <2>3, Prefix
  <2>5. len(guest(b)) < len(guest(i))
    BY <1>4, <1>7, <1>11, <2>1, <2>2, <2>4, LenGrows, Zenon
  <2> QED
    BY <1>4, <1>6, <1>9, <2>5 DEF before
<1> QED
  BY <1>10, <1>11, Zenon

(* A sequence without its last element. *)
LEMMA PopOf ==
  ASSUME NEW S, NEW q \in Seq(S), q # <<>>
  PROVE  /\ pop(q) \in Seq(S)
         /\ Len(pop(q)) = Len(q) - 1
         /\ \A k \in 1..Len(q) - 1 : pop(q)[k] = q[k]
  BY DEF pop

(* The prefixes of a path without its last component are the proper ones. *)
LEMMA PrefixPop ==
  ASSUME NEW S, NEW a \in Seq(S), NEW b \in Seq(S), b # <<>>
  PROVE  starts_with(pop(b), a) <=> starts_with(b, a) /\ Len(a) < Len(b)
<1>1. /\ pop(b) \in Seq(S) /\ Len(pop(b)) = Len(b) - 1
      /\ \A k \in 1..Len(b) - 1 : pop(b)[k] = b[k]
  BY PopOf
<1>2. starts_with(pop(b), a) <=> Len(a) <= Len(pop(b))
                                /\ \A i \in 1..Len(a) : a[i] = pop(b)[i]
  BY <1>1, Prefix
<1>3. starts_with(b, a) <=> Len(a) <= Len(b) /\ \A i \in 1..Len(a) : a[i] = b[i]
  BY Prefix
<1> QED
  BY <1>1, <1>2, <1>3

(* Cutting off the last component of a host path. *)
LEMMA PopConcat ==
  ASSUME NEW S, NEW h \in Seq(S), NEW x \in Seq(S), x # <<>>
  PROVE  pop(h \o x) = h \o pop(x) /\ h \o x # <<>>
<1>1. /\ pop(x) \in Seq(S) /\ Len(pop(x)) = Len(x) - 1
      /\ \A k \in 1..Len(x) - 1 : pop(x)[k] = x[k]
  BY PopOf
<1>2. /\ h \o x \in Seq(S) /\ Len(h \o x) = Len(h) + Len(x)
      /\ \A i \in 1..Len(h) + Len(x) :
           (h \o x)[i] = IF i <= Len(h) THEN h[i] ELSE x[i - Len(h)]
  BY ConcatProperties
<1>3. /\ h \o pop(x) \in Seq(S) /\ Len(h \o pop(x)) = Len(h) + Len(x) - 1
      /\ \A i \in 1..Len(h) + Len(x) - 1 :
           (h \o pop(x))[i] = IF i <= Len(h) THEN h[i] ELSE pop(x)[i - Len(h)]
  <2> DEFINE z == pop(x)
  <2> HIDE DEF z
  <2>1. z \in Seq(S) /\ Len(z) = Len(x) - 1
    BY <1>1 DEF z
  <2>2. /\ h \o z \in Seq(S) /\ Len(h \o z) = Len(h) + Len(z)
        /\ \A i \in 1..Len(h) + Len(z) :
             (h \o z)[i] = IF i <= Len(h) THEN h[i] ELSE z[i - Len(h)]
    BY <2>1, ConcatProperties, Zenon
  <2>3. Len(h) + Len(z) = Len(h) + Len(x) - 1
    BY <2>1
  <2> QED
    BY <2>2, <2>3, Zenon DEF z
<1>4. Len(h) \in Nat /\ Len(x) \in Nat \ {0} /\ Len(<<>>) = 0
  OBVIOUS
<1>5. h \o x # <<>>
  BY <1>2, <1>4
<1>6. /\ pop(h \o x) \in Seq(S) /\ Len(pop(h \o x)) = Len(h) + Len(x) - 1
      /\ \A k \in 1..Len(h) + Len(x) - 1 : pop(h \o x)[k] = (h \o x)[k]
  <2> DEFINE z == h \o x
  <2> HIDE DEF z
  <2>1. z \in Seq(S) /\ z # <<>> /\ Len(z) = Len(h) + Len(x)
    BY <1>2, <1>5 DEF z
  <2>2. /\ pop(z) \in Seq(S) /\ Len(pop(z)) = Len(z) - 1
        /\ \A k \in 1..Len(z) - 1 : pop(z)[k] = z[k]
    BY <2>1, PopOf, Zenon
  <2> QED
    BY <2>1, <2>2 DEF z
<1>7. ASSUME NEW i \in 1..Len(h) + Len(x) - 1
      PROVE  pop(h \o x)[i] = (h \o pop(x))[i]
  <2>1. i \in 1..Len(h) + Len(x) /\ (i <= Len(h) \/ i - Len(h) \in 1..Len(x) - 1)
    BY <1>4
  <2> QED
    BY <1>1, <1>2, <1>3, <1>6, <2>1, Zenon
<1> DEFINE a == pop(h \o x)
           b == h \o pop(x)
<1>8. a \in Seq(S) /\ b \in Seq(S) /\ Len(a) = Len(b) /\ \A i \in 1..Len(a) : a[i] = b[i]
  BY <1>3, <1>6, <1>7, Zenon
<1> HIDE DEF a, b
<1>9. a = b
  BY <1>8, SeqEqual
<1> QED
  BY <1>5, <1>9, Zenon DEF a, b

(* Cutting off the last component of what is below a preopen. *)
LEMMA PopSubSeq ==
  ASSUME NEW S, NEW q \in Seq(S), q # <<>>, NEW m \in 0..Len(q) - 1
  PROVE  /\ SubSeq(q, m + 1, Len(q)) \in Seq(S) /\ SubSeq(q, m + 1, Len(q)) # <<>>
         /\ pop(SubSeq(q, m + 1, Len(q))) = SubSeq(pop(q), m + 1, Len(pop(q)))
<1> DEFINE x == SubSeq(q, m + 1, Len(q))
           y == SubSeq(pop(q), m + 1, Len(pop(q)))
<1>1. /\ pop(q) \in Seq(S) /\ Len(pop(q)) = Len(q) - 1
      /\ \A k \in 1..Len(q) - 1 : pop(q)[k] = q[k]
  BY PopOf, Zenon
<1>2. /\ x \in Seq(S) /\ Len(x) = Len(q) - m
      /\ \A k \in 1..Len(q) - m : x[k] = q[m + k]
  OBVIOUS
<1>3. /\ y \in Seq(S) /\ Len(y) = Len(q) - 1 - m
      /\ \A k \in 1..Len(q) - 1 - m : y[k] = pop(q)[m + k]
  BY <1>1
<1> HIDE DEF x, y
<1>4. x # <<>>
  BY <1>2
<1>5. /\ pop(x) \in Seq(S) /\ Len(pop(x)) = Len(x) - 1
      /\ \A k \in 1..Len(x) - 1 : pop(x)[k] = x[k]
  BY <1>2, <1>4, PopOf, Zenon
<1>6. Len(pop(x)) = Len(y) /\ \A k \in 1..Len(y) : pop(x)[k] = y[k]
  <2>1. Len(q) \in Nat /\ m \in Nat
    OBVIOUS
  <2>2. Len(pop(x)) = Len(y)
    BY <2>1, <1>2, <1>3, <1>5
  <2>3. ASSUME NEW k \in 1..Len(y) PROVE pop(x)[k] = y[k]
    <3>1. k \in 1..Len(q) - 1 - m /\ k \in 1..Len(q) - m /\ m + k \in 1..Len(q) - 1
          /\ k \in 1..Len(x) - 1
      BY <2>1, <1>2, <1>3
    <3>2. pop(x)[k] = q[m + k]
      BY <3>1, <1>2, <1>5, Zenon
    <3>3. y[k] = q[m + k]
      BY <3>1, <1>1, <1>3, Zenon
    <3> QED
      BY <3>2, <3>3
  <2> QED
    BY <2>2, <2>3
<1>7. pop(x) = y
  BY <1>3, <1>5, <1>6, SeqEqual, Zenon
<1> QED
  BY <1>2, <1>4, <1>7, Zenon DEF x, y

(* What normalize_guest_path makes of the path above a normalized one. *)
LEMMA NormalizeUp ==
  ASSUME NEW n \in Normal, n.parts # <<>>
  PROVE  LET above == [abs |-> n.abs, parts |-> IF Len(n.parts) = 1 /\ ~n.abs THEN <<".">>
                                             ELSE pop(n.parts)]
         IN /\ normalize_guest_path(above) = [abs |-> n.abs, parts |-> pop(n.parts)]
            /\ ~Failed(normalize_guest_path(above))
<1>1. n.parts \in Seq(Names) /\ n.abs \in BOOLEAN
  BY DEF Normal
<1>2. pop(n.parts) \in Seq(Names) /\ Len(pop(n.parts)) = Len(n.parts) - 1
  BY <1>1, PopOf
<1>3. CASE Len(n.parts) = 1 /\ ~n.abs
  <2> DEFINE s == <<".">>
  <2>1. Len(s) = 1 /\ s[1] = "." /\ s # <<>>
    OBVIOUS
  <2> HIDE DEF s
  <2>2. loop(s)[0] = [parts |-> <<>>] /\ loop(s)[1] = step(loop(s)[0], s[1])
    BY <2>1, LoopTurns
  <2>3. loop(s)[1] = [parts |-> <<>>]
    BY <2>1, <2>2 DEF step
  <2>4. normalize_guest_path([abs |-> n.abs, parts |-> s])
          = [abs |-> n.abs, parts |-> <<>>]
    <3>1. ~Failed([parts |-> <<>>]) /\ [parts |-> <<>>].parts = <<>>
      BY StackOrError
    <3> HIDE DEF Failed
    <3> QED
      BY <2>1, <2>3, <3>1, Zenon DEF normalize_guest_path
  <2>5. pop(n.parts) = <<>>
    BY <1>2, <1>3
  <2> QED
    BY <1>3, <2>4, <2>5, StackOrError DEF s
<1>4. CASE ~(Len(n.parts) = 1 /\ ~n.abs)
  <2> DEFINE u == [abs |-> n.abs, parts |-> pop(n.parts)]
  <2>1. u \in Normal /\ u.abs = n.abs /\ u.parts = pop(n.parts)
    BY <1>1, <1>2, Zenon DEF Normal
  <2>2. u.abs \/ u.parts # <<>>
    <3>1. ~n.abs => Len(pop(n.parts)) # 0
      BY <1>1, <1>2, <1>4
    <3> QED
      BY <2>1, <3>1
  <2> HIDE DEF u
  <2>3. normalize_guest_path(u) = u /\ ~Failed(u)
    BY <2>1, <2>2, NormalizeIdle, Zenon
  <2> QED
    BY <1>4, <2>3, Zenon DEF u
<1> QED
  BY <1>3, <1>4

(* The parent of a host path is the host path of the parent. *)
LEMMA Parent ==
  ASSUME PathInv PROVE ParentIsGuestParent
<1> DEFINE n == normalize_guest_path(path)
           r == resolve(path)
           b == r.by
           u == [abs |-> n.abs, parts |-> pop(n.parts)]
           above == [abs |-> n.abs, parts |-> IF Len(n.parts) = 1 /\ ~n.abs THEN <<".">>
                                           ELSE pop(n.parts)]
<1> SUFFICES ASSUME ~Failed(r), Len(n.parts) > Len(guest(b).parts)
             PROVE  /\ ~Failed(resolve_parent(path)) /\ ~Failed(resolve(above))
                    /\ resolve_parent(path).host = resolve(above).host
  BY DEF ParentIsGuestParent
<1>1. First(b, n) /\ ~Failed(n) /\ r = ServedBy(b, n)
  BY ResolveServes, Zenon
<1>2. n \in Normal
  BY <1>1, NormalizeType, Zenon DEF PathInv
<1> HIDE DEF n, r, b
<1>3. b \in DOMAIN preopens /\ matches(b, n)
  BY <1>1 DEF First
<1>4. /\ n.parts \in Seq(Names) /\ guest(b).parts \in Seq(Names)
      /\ preopens[b].host \in Seq(STRING)
  BY <1>2, <1>3, PreopenType, Zenon DEF Normal
<1>5. Len(n.parts) > Len(guest(b).parts) /\ n.parts # <<>>
      /\ Len(guest(b).parts) \in Nat /\ Len(n.parts) \in Nat
  BY <1>4
<1>6. /\ pop(n.parts) \in Seq(Names) /\ Len(pop(n.parts)) = Len(n.parts) - 1
      /\ \A k \in 1..Len(n.parts) - 1 : pop(n.parts)[k] = n.parts[k]
  BY <1>4, <1>5, PopOf, Zenon
<1>7. u.abs = n.abs /\ u.parts = pop(n.parts)
  OBVIOUS
<1>8. normalize_guest_path(above) = u /\ ~Failed(u)
  BY <1>2, <1>5, NormalizeUp
<1> HIDE DEF u, above
<1>9. ASSUME NEW j \in DOMAIN preopens, matches(j, u) PROVE matches(j, n)
  <2>1. guest(j).parts \in Seq(Names)
    BY PreopenType DEF Normal
  <2>2. CASE guest(j).parts = <<>>
    BY <1>7, <1>9, <2>2, Zenon DEF matches
  <2>3. CASE guest(j).parts # <<>>
    <3>1. n.abs = guest(j).abs /\ starts_with(pop(n.parts), guest(j).parts)
      BY <1>7, <1>9, <2>3 DEF matches
    <3>2. starts_with(n.parts, guest(j).parts)
      BY <1>4, <1>5, <2>1, <3>1, PrefixPop
    <3> QED
      BY <2>3, <3>1, <3>2, Zenon DEF matches
  <2> QED
    BY <2>2, <2>3
<1>10. matches(b, u)
  <2>1. CASE guest(b).parts = <<>>
    BY <1>3, <1>7, <2>1 DEF matches
  <2>2. CASE guest(b).parts # <<>>
    <3>1. n.abs = guest(b).abs /\ starts_with(n.parts, guest(b).parts)
      BY <1>3, <2>2 DEF matches
    <3>2. starts_with(pop(n.parts), guest(b).parts)
      BY <1>4, <1>5, <3>1, PrefixPop
    <3> QED
      BY <1>7, <2>2, <3>1, <3>2, Zenon DEF matches
  <2> QED
    BY <2>1, <2>2
<1>11. First(b, u)
  BY <1>1, <1>9, <1>10 DEF First
<1>12. resolve(above) = ServedBy(b, u) /\ ~Failed(resolve(above))
  BY <1>8, <1>11, ResolveFirst, Zenon
<1> DEFINE H == preopens[b].host
           X == SubSeq(n.parts, Len(guest(b).parts) + 1, Len(n.parts))
           C == STRING \cup Names
<1>13. r.host = H \o X
  BY <1>1, Zenon DEF ServedBy
<1>14. X \in Seq(Names) /\ X # <<>>
       /\ pop(X) = SubSeq(u.parts, Len(guest(b).parts) + 1, Len(u.parts))
  <2>1. Len(guest(b).parts) \in 0..Len(n.parts) - 1
    BY <1>5
  <2> QED
    BY <1>4, <1>5, <1>7, <2>1, PopSubSeq, Zenon
<1>15. H \in Seq(C) /\ X \in Seq(C) /\ pop(X) \in Seq(C)
  <2> HIDE DEF X, H
  <2>1. pop(X) \in Seq(Names)
    BY <1>14, PopOf, Zenon
  <2> QED
    BY <1>4, <1>14, <2>1 DEF H
<1>16. resolve(above).host = H \o pop(X)
  <2>1. ServedBy(b, u).host
          = H \o SubSeq(u.parts, Len(guest(b).parts) + 1, Len(u.parts))
    BY Zenon DEF ServedBy
  <2> QED
    BY <1>12, <1>14, <2>1, Zenon
<1> HIDE DEF X, H, C
<1>17. pop(H \o X) = H \o pop(X) /\ H \o X # <<>>
  BY <1>14, <1>15, PopConcat, Zenon
<1>18. starts_with(H \o pop(X), H)
  <2>1. /\ H \o pop(X) \in Seq(C) /\ Len(H) <= Len(H \o pop(X))
        /\ \A i \in 1..Len(H) : (H \o pop(X))[i] = H[i]
    BY <1>15, ConcatProperties
  <2> QED
    BY <1>15, <2>1, Prefix, Zenon
<1>19. resolve_parent(path) = [host |-> pop(r.host)]
  BY <1>3, <1>13, <1>17, <1>18, Zenon DEF resolve_parent, r, H
<1>20. ~Failed([host |-> pop(r.host)])
  BY DEF Failed
<1> QED
  BY <1>12, <1>13, <1>19, <1>20, <1>16, <1>17

(* The options and the path keep their types. *)
LEMMA PathsAlways == PathSpec => []PathInv
<1>1. PathInit => PathInv
  <2> SUFFICES ASSUME PathInit PROVE PathInv
    OBVIOUS
  <2>1. PICK cli \in Clis :
          /\ \A i \in DOMAIN cli : ~Failed(normalize_guest_path(cli[i].guest))
          /\ preopens = new(cli)
    BY DEF PathInit
  <2> DEFINE R == [host : Seq(STRING), guest : Paths]
             Q == [host : Seq(STRING), guest : Normal]
  <2>2. cli \in Seq(R)
    BY ClisAssumption, Zenon
  <2> HIDE DEF R, Q
  <2>3. Len(cli) \in Nat /\ DOMAIN cli = 1..Len(cli) /\ \A i \in DOMAIN cli : cli[i] \in R
    BY <2>2
  <2>4. ASSUME NEW i \in DOMAIN cli
        PROVE  [host |-> cli[i].host, guest |-> normalize_guest_path(cli[i].guest)] \in Q
    <3>1. cli[i].host \in Seq(STRING) /\ cli[i].guest \in Paths
      BY <2>3 DEF R
    <3>2. normalize_guest_path(cli[i].guest) \in Normal
      BY <2>1, <3>1, NormalizeType
    <3> QED
      BY <3>1, <3>2 DEF Q
  <2>5. preopens \in Seq(Q)
    <3>1. preopens \in [1..Len(cli) -> Q]
      BY <2>1, <2>3, <2>4 DEF new
    <3> QED
      BY <2>3, <3>1
  <2>6. path \in Paths
    <3>1. path.abs \in BOOLEAN /\ path.parts = <<>>
          /\ path = [abs |-> path.abs, parts |-> path.parts]
      BY DEF PathInit
    <3>2. <<>> \in Seq(Components)
      OBVIOUS
    <3> QED
      BY <3>1, <3>2, Zenon DEF Paths
  <2> QED
    BY <2>5, <2>6 DEF PathInv, Q
<1>2. PathInv /\ [Extend]_pathVars => PathInv'
  <2> SUFFICES ASSUME PathInv, [Extend]_pathVars PROVE PathInv'
    OBVIOUS
  <2>1. CASE UNCHANGED pathVars
    BY <2>1 DEF PathInv, pathVars
  <2>2. CASE Extend
    <3>1. PICK c \in Components : path' = [path EXCEPT !.parts = Append(path.parts, c)]
      BY <2>2, Zenon DEF Extend
    <3>2. path' \in Paths
      <4>1. path.abs \in BOOLEAN /\ path.parts \in Seq(Components)
            /\ path = [abs |-> path.abs, parts |-> path.parts]
        BY DEF PathInv, Paths
      <4>2. path' = [abs |-> path.abs, parts |-> Append(path.parts, c)]
        BY <3>1, <4>1, Zenon
      <4>3. Append(path.parts, c) \in Seq(Components)
        BY <4>1
      <4> QED
        BY <4>1, <4>2, <4>3 DEF Paths
    <3> QED
      BY <2>2, <3>2, Zenon DEF PathInv, Extend
  <2> QED
    BY <2>1, <2>2
<1> QED
  BY <1>1, <1>2, PTL DEF PathSpec

(* resolve, for any preopens of any command line: the innermost preopen on *)
(* the way to the guest's path serves it, up to a name of one byte beside  *)
(* "." or "/" (InnermostPreopenServes).                                    *)
THEOREM InnermostServes == PathSpec => []InnermostPreopenServes
  BY PathsAlways, Innermost, PTL

(* resolve_parent, for any preopens and any path inside one of them: the   *)
(* host directory that sync_parent syncs is the one the guest sees above the *)
(* path (ParentIsGuestParent).                                             *)
THEOREM ParentsAreGuestParents == PathSpec => []ParentIsGuestParent
  BY PathsAlways, Parent, PTL

------------------------------------------------------------------------------
(* The components i..j of s that are in C. *)
Count(s, C, i, j) == Cardinality({k \in i..j : s[k] \in C})

(* One component more counts one more, if it is in C. *)
LEMMA Counted ==
  ASSUME NEW i \in Nat \ {0}, NEW m \in Nat, NEW s, NEW C
  PROVE  /\ Count(s, C, i, m) \in Nat
         /\ m < i => Count(s, C, i, m) = 0
         /\ i <= m + 1 => Count(s, C, i, m + 1)
                            = Count(s, C, i, m) + (IF s[m + 1] \in C THEN 1 ELSE 0)
<1> DEFINE A == {k \in i..m : s[k] \in C}
           B == {k \in i..m + 1 : s[k] \in C}
<1>1. IsFiniteSet(A)
  <2>1. IsFiniteSet(i..m)
    <3>1. i \in Int /\ m \in Int
      OBVIOUS
    <3> QED
      BY <3>1, FS_Interval, Zenon
  <2>2. A \in SUBSET (i..m)
    OBVIOUS
  <2> HIDE DEF A
  <2> QED
    BY <2>1, <2>2, FS_Subset, Zenon
<1>2. m < i => A = {}
  OBVIOUS
<1>3. i <= m + 1 => B = IF s[m + 1] \in C THEN A \cup {m + 1} ELSE A
  <2> SUFFICES ASSUME i <= m + 1
               PROVE  B = IF s[m + 1] \in C THEN A \cup {m + 1} ELSE A
    OBVIOUS
  <2>1. i..m + 1 = (i..m) \cup {m + 1}
    OBVIOUS
  <2> QED
    BY <2>1, Zenon
<1>4. m + 1 \notin A
  OBVIOUS
<1> HIDE DEF A, B
<1>5. Cardinality(A) \in Nat
  BY <1>1, FS_CardinalityType
<1>6. Cardinality(A \cup {m + 1}) = Cardinality(A) + 1
  BY <1>1, <1>4, FS_AddElement, Zenon
<1>7. m < i => Cardinality(A) = 0
  BY <1>2, FS_EmptySet
<1>8. i <= m + 1 => Cardinality(B) = Cardinality(A) + (IF s[m + 1] \in C THEN 1 ELSE 0)
  <2>1. CASE s[m + 1] \in C
    BY <1>3, <1>6, <2>1, Zenon
  <2>2. CASE s[m + 1] \notin C
    BY <1>3, <1>5, <2>2
  <2> QED
    BY <2>1, <2>2
<1>9. Count(s, C, i, m) = Cardinality(A) /\ Count(s, C, i, m + 1) = Cardinality(B)
  BY Zenon DEF Count, A, B
<1> QED
  BY <1>5, <1>7, <1>8, <1>9

(* What one component more does to the balance. *)
LEMMA Balances ==
  ASSUME NEW i \in Nat \ {0}, NEW m \in Nat, NEW s
  PROVE  /\ Balance(s, i, m) \in Int
         /\ m < i => Balance(s, i, m) = 0
         /\ i <= m + 1 /\ s[m + 1] \in Names =>
              Balance(s, i, m + 1) = Balance(s, i, m) + 1
         /\ i <= m + 1 /\ s[m + 1] = ".." =>
              Balance(s, i, m + 1) = Balance(s, i, m) - 1
         /\ i <= m + 1 /\ s[m + 1] \notin Names /\ s[m + 1] # ".." =>
              Balance(s, i, m + 1) = Balance(s, i, m)
<1> DEFINE N == Count(s, Names, i, m)
           U == Count(s, {".."}, i, m)
           N1 == Count(s, Names, i, m + 1)
           U1 == Count(s, {".."}, i, m + 1)
           B == Balance(s, i, m)
           B1 == Balance(s, i, m + 1)
<1>1. ASSUME NEW n
      PROVE Balance(s, i, n) = Count(s, Names, i, n) - Count(s, {".."}, i, n)
  <2>1. {k \in i..n : s[k] = ".."} = {k \in i..n : s[k] \in {".."}}
    OBVIOUS
  <2> QED
    BY <2>1, Zenon DEF Balance, Count
<1>2. /\ N \in Nat /\ (m < i => N = 0)
      /\ i <= m + 1 => N1 = N + (IF s[m + 1] \in Names THEN 1 ELSE 0)
  BY Counted
<1>3. /\ U \in Nat /\ (m < i => U = 0)
      /\ i <= m + 1 => U1 = U + (IF s[m + 1] \in {".."} THEN 1 ELSE 0)
  BY Counted
<1>4. B = N - U /\ B1 = N1 - U1
  BY <1>1
<1>5. /\ s[m + 1] \in Names => s[m + 1] \notin {".."}
      /\ s[m + 1] = ".." => s[m + 1] \in {".."} /\ s[m + 1] \notin Names
  BY ComponentsAssumption, Zenon
<1> HIDE DEF N, U, N1, U1, B, B1
<1>6. B \in Int /\ (m < i => B = 0)
  BY <1>2, <1>3, <1>4
<1>7. i <= m + 1 /\ s[m + 1] \in Names => B1 = B + 1
  <2> SUFFICES ASSUME i <= m + 1, s[m + 1] \in Names PROVE B1 = B + 1
    OBVIOUS
  <2>1. N1 = N + 1 /\ U1 = U + 0
    BY <1>2, <1>3, <1>5
  <2> QED
    BY <1>2, <1>3, <1>4, <2>1
<1>8. i <= m + 1 /\ s[m + 1] = ".." => B1 = B - 1
  <2> SUFFICES ASSUME i <= m + 1, s[m + 1] = ".." PROVE B1 = B - 1
    OBVIOUS
  <2>1. N1 = N + 0 /\ U1 = U + 1
    BY <1>2, <1>3, <1>5
  <2> QED
    BY <1>2, <1>3, <1>4, <2>1
<1>9. i <= m + 1 /\ s[m + 1] \notin Names /\ s[m + 1] # ".." => B1 = B
  <2> SUFFICES ASSUME i <= m + 1, s[m + 1] \notin Names, s[m + 1] # ".." PROVE B1 = B
    OBVIOUS
  <2>1. s[m + 1] \notin {".."} /\ s[m + 1] \notin Names
    OBVIOUS
  <2>2. N1 = N + 0 /\ U1 = U + 0
    BY <1>2, <1>3, <2>1, Zenon
  <2> QED
    BY <1>2, <1>3, <1>4, <2>2
<1> QED
  BY <1>6, <1>7, <1>8, <1>9 DEF B, B1

------------------------------------------------------------------------------
(* NormalizeIsLexical for the first m components. *)
Climbs(s, m) == \E j \in 1..m : Balance(s, 1, j) < 0
Kept(s, m) ==
  {i \in 1..m : s[i] \in Names /\ \A j \in 1..m : j > i => Balance(s, i + 1, j) >= 0}

(* The stack w of the loop after m turns holds the components at the       *)
(* places pos, which are the kept ones, and the balance after each of them *)
(* is the number of those above it.                                        *)
Stacked(s, m, w, pos) ==
  /\ pos \in Seq(1..m)
  /\ w \in Stacks /\ Len(w.parts) = Len(pos)
  /\ \A k \in 1..Len(pos) : w.parts[k] = s[pos[k]]
  /\ \A j, k \in 1..Len(pos) : j < k => pos[j] < pos[k]
  /\ \A i : i \in Kept(s, m) <=> \E k \in 1..Len(pos) : i = pos[k]
  /\ Balance(s, 1, m) = Len(pos)
  /\ \A k \in 1..Len(pos) : Balance(s, pos[k] + 1, m) = Len(pos) - k

(* A turn with "" or "." changes neither stack nor balance. *)
LEMMA KeptIdle ==
  ASSUME NEW s, NEW m \in Nat, s[m + 1] \notin Names, s[m + 1] # "..", ~Climbs(s, m),
         NEW w, NEW pos, Stacked(s, m, w, pos)
  PROVE  ~Climbs(s, m + 1) /\ Stacked(s, m + 1, w, pos)
<1>1. \A i \in 1..m + 1 : Balance(s, i, m + 1) = Balance(s, i, m) /\ Balance(s, i, m) \in Int
  BY Balances
<1>2. pos \in Seq(1..m) /\ Len(pos) \in Nat
      /\ \A k \in 1..Len(pos) : pos[k] \in 1..m
  BY DEF Stacked
<1>3. Balance(s, 1, m + 1) = Len(pos)
  BY <1>1 DEF Stacked
<1>4. ~Climbs(s, m + 1)
  BY <1>2, <1>3 DEF Climbs
<1>5. \A k \in 1..Len(pos) : Balance(s, pos[k] + 1, m + 1) = Len(pos) - k
  BY <1>1, <1>2 DEF Stacked
<1>6. Kept(s, m + 1) = Kept(s, m)
  <2>1. ASSUME NEW i \in Kept(s, m + 1) PROVE i \in Kept(s, m)
    BY <2>1 DEF Kept
  <2>2. ASSUME NEW i \in Kept(s, m) PROVE i \in Kept(s, m + 1)
    <3>1. PICK k \in 1..Len(pos) : i = pos[k]
      BY <2>2 DEF Stacked
    <3>2. Balance(s, i + 1, m + 1) >= 0
      BY <1>2, <1>5, <3>1
    <3> QED
      BY <2>2, <3>2 DEF Kept
  <2> QED
    BY <2>1, <2>2, Zenon
<1>7. pos \in Seq(1..m + 1)
  BY <1>2
<1> QED
  BY <1>3, <1>4, <1>5, <1>6, <1>7, Zenon DEF Stacked

(* A turn with a name pushes its place. *)
LEMMA KeptName ==
  ASSUME NEW s, NEW m \in Nat, s[m + 1] \in Names, ~Climbs(s, m),
         NEW w, NEW pos, Stacked(s, m, w, pos)
  PROVE  /\ ~Climbs(s, m + 1)
         /\ Stacked(s, m + 1, [parts |-> Append(w.parts, s[m + 1])], Append(pos, m + 1))
<1> DEFINE L == Len(pos)
           pos1 == Append(pos, m + 1)
           q == Append(w.parts, s[m + 1])
           w1 == [parts |-> q]
<1>1. \A i \in 1..m + 1 : /\ Balance(s, i, m + 1) = Balance(s, i, m) + 1
                          /\ Balance(s, i, m) \in Int
  BY Balances
<1>2. pos \in Seq(1..m) /\ L \in Nat /\ \A k \in 1..L : pos[k] \in 1..m
  BY DEF Stacked
<1>3. /\ pos1 \in Seq(1..m + 1) /\ Len(pos1) = L + 1
      /\ pos1[L + 1] = m + 1 /\ \A k \in 1..L : pos1[k] = pos[k]
  BY <1>2
<1>4. w.parts \in Seq(Names) /\ Len(w.parts) = L
  BY DEF Stacked, Stacks
<1>5. /\ q \in Seq(Names) /\ Len(q) = L + 1
      /\ q[L + 1] = s[m + 1] /\ \A k \in 1..L : q[k] = w.parts[k]
  BY <1>4
<1> HIDE DEF pos1, q, L
<1>6. w1 \in Stacks /\ w1.parts = q
  BY <1>5 DEF Stacks
<1>7. Balance(s, 1, m + 1) = L + 1
  BY <1>1, <1>2 DEF Stacked, L
<1>8. ~Climbs(s, m + 1)
  BY <1>2, <1>7 DEF Climbs
<1>9. \A k \in 1..L + 1 : Balance(s, pos1[k] + 1, m + 1) = L + 1 - k
  <2>1. ASSUME NEW k \in 1..L PROVE Balance(s, pos1[k] + 1, m + 1) = L + 1 - k
    <3>1. Balance(s, pos[k] + 1, m) = L - k /\ pos[k] + 1 \in 1..m + 1
      BY <1>2 DEF Stacked, L
    <3>2. Balance(s, pos[k] + 1, m + 1) = Balance(s, pos[k] + 1, m) + 1
      BY <1>1, <3>1
    <3>3. pos1[k] = pos[k]
      BY <1>3, Zenon
    <3> QED
      BY <1>2, <3>1, <3>2, <3>3
  <2>2. Balance(s, m + 1 + 1, m + 1) = 0
    BY Balances
  <2> QED
    BY <1>2, <1>3, <2>1, <2>2
<1>10. ASSUME NEW i PROVE i \in Kept(s, m + 1) <=> i \in Kept(s, m) \/ i = m + 1
  <2>1. i \in Kept(s, m + 1) => i \in Kept(s, m) \/ i = m + 1
    BY DEF Kept
  <2>2. ASSUME i \in Kept(s, m) PROVE i \in Kept(s, m + 1)
    <3>1. PICK k \in 1..L : i = pos[k]
      BY <2>2 DEF Stacked, L
    <3>2. k \in 1..L + 1 /\ pos1[k] = i /\ L + 1 - k >= 0
      BY <1>2, <1>3, <3>1
    <3>3. Balance(s, i + 1, m + 1) >= 0
      BY <1>9, <3>2, Zenon
    <3> QED
      BY <2>2, <3>3 DEF Kept
  <2>3. m + 1 \in Kept(s, m + 1)
    BY DEF Kept
  <2> QED
    BY <2>1, <2>2, <2>3, Zenon
<1>11. ASSUME NEW i PROVE i \in Kept(s, m + 1) <=> \E k \in 1..L + 1 : i = pos1[k]
  <2>1. i \in Kept(s, m) <=> \E k \in 1..L : i = pos[k]
    BY DEF Stacked, L
  <2>2. (\E k \in 1..L + 1 : i = pos1[k]) <=> (\E k \in 1..L : i = pos[k]) \/ i = m + 1
    <3>1. 1..L + 1 = (1..L) \cup {L + 1}
      BY <1>2
    <3> QED
      BY <1>3, <3>1, Zenon
  <2> QED
    BY <1>10, <2>1, <2>2, Zenon
<1>12. \A j, k \in 1..L + 1 : j < k => pos1[j] < pos1[k]
  <2>1. \A j, k \in 1..L : j < k => pos[j] < pos[k]
    BY DEF Stacked, L
  <2> SUFFICES ASSUME NEW j \in 1..L + 1, NEW k \in 1..L + 1, j < k
               PROVE  pos1[j] < pos1[k]
    OBVIOUS
  <2>2. j \in 1..L /\ pos1[j] = pos[j] /\ pos[j] \in 1..m /\ (k \in 1..L \/ k = L + 1)
    BY <1>2, <1>3
  <2>3. CASE k \in 1..L
    <3>1. pos[j] < pos[k] /\ pos1[k] = pos[k]
      BY <1>3, <2>1, <2>2, <2>3
    <3> QED
      BY <2>2, <3>1
  <2>4. CASE k = L + 1
    BY <1>3, <2>2, <2>4
  <2> QED
    BY <2>2, <2>3, <2>4, Zenon
<1>13. \A k \in 1..L + 1 : q[k] = s[pos1[k]]
  <2>1. \A k \in 1..L : w.parts[k] = s[pos[k]]
    BY DEF Stacked, L
  <2>2. 1..L + 1 = (1..L) \cup {L + 1}
    BY <1>2
  <2> QED
    BY <1>3, <1>5, <2>1, <2>2, Zenon
<1>14. Stacked(s, m + 1, w1, pos1)
  <2> HIDE DEF w1
  <2>1. /\ Len(w1.parts) = Len(pos1)
        /\ \A k \in 1..Len(pos1) : w1.parts[k] = s[pos1[k]]
    BY <1>3, <1>5, <1>6, <1>13, Zenon
  <2>2. \A j, k \in 1..Len(pos1) : j < k => pos1[j] < pos1[k]
    BY <1>3, <1>12
  <2>3. \A i : i \in Kept(s, m + 1) <=> \E k \in 1..Len(pos1) : i = pos1[k]
    BY <1>3, <1>11, Zenon
  <2>4. /\ Balance(s, 1, m + 1) = Len(pos1)
        /\ \A k \in 1..Len(pos1) : Balance(s, pos1[k] + 1, m + 1) = Len(pos1) - k
    <3>1. Balance(s, 1, m + 1) = Len(pos1) /\ Len(pos1) = L + 1
      BY <1>3, <1>7, Zenon
    <3>2. ASSUME NEW k \in 1..Len(pos1)
          PROVE  Balance(s, pos1[k] + 1, m + 1) = Len(pos1) - k
      <4>1. k \in 1..L + 1
        BY <3>1, Zenon
      <4>2. Balance(s, pos1[k] + 1, m + 1) = L + 1 - k
        BY <1>9, <4>1, Zenon
      <4> QED
        BY <1>2, <3>1, <4>2
    <3> QED
      BY <3>1, <3>2
  <2> QED
    BY <1>3, <1>6, <2>1, <2>2, <2>3, <2>4, Zenon DEF Stacked
<1> QED
  BY <1>8, <1>14, Zenon DEF pos1, q

(* A turn with ".." pops the last place, or climbs if there is none. *)
LEMMA KeptUp ==
  ASSUME NEW s, NEW m \in Nat, s[m + 1] = "..", ~Climbs(s, m),
         NEW w, NEW pos, Stacked(s, m, w, pos)
  PROVE  /\ w.parts = <<>> <=> Climbs(s, m + 1)
         /\ w.parts # <<>> =>
              Stacked(s, m + 1, [parts |-> pop(w.parts)], pop(pos))
<1> DEFINE L == Len(pos)
           pos1 == pop(pos)
           q == pop(w.parts)
           w1 == [parts |-> q]
<1>1. \A i \in 1..m + 1 : /\ Balance(s, i, m + 1) = Balance(s, i, m) - 1
                          /\ Balance(s, i, m) \in Int
  BY Balances
<1>2. pos \in Seq(1..m) /\ L \in Nat /\ \A k \in 1..L : pos[k] \in 1..m
  BY DEF Stacked
<1>3. w.parts \in Seq(Names) /\ Len(w.parts) = L
  BY Zenon DEF Stacked, Stacks
<1>4. Balance(s, 1, m + 1) = L - 1
  BY <1>1, <1>2 DEF Stacked
<1>5. L = 0 <=> Climbs(s, m + 1)
  BY <1>2, <1>4 DEF Climbs
<1>6. w.parts = <<>> <=> L = 0
  BY <1>3
<1> SUFFICES ASSUME w.parts # <<>> PROVE Stacked(s, m + 1, w1, pos1)
  BY <1>5, <1>6, Zenon
<1>7. L >= 1 /\ pos # <<>>
  BY <1>2, <1>6
<1>8. /\ pos1 \in Seq(1..m) /\ Len(pos1) = L - 1
      /\ \A k \in 1..L - 1 : pos1[k] = pos[k]
  BY <1>2, <1>7, PopOf, Zenon
<1>9. pos1 \in Seq(1..m + 1)
  BY <1>8
<1>10. /\ q \in Seq(Names) /\ Len(q) = L - 1
      /\ \A k \in 1..L - 1 : q[k] = w.parts[k]
  BY <1>3, PopOf
<1> HIDE DEF pos1, q, L
<1>11. w1 \in Stacks /\ w1.parts = q
  BY <1>10 DEF Stacks
<1>12. ASSUME NEW k \in 1..L PROVE Balance(s, pos[k] + 1, m + 1) = L - 1 - k
  <2>1. Balance(s, pos[k] + 1, m) = L - k /\ pos[k] + 1 \in 1..m + 1
    BY <1>2 DEF Stacked, L
  <2>2. Balance(s, pos[k] + 1, m + 1) = Balance(s, pos[k] + 1, m) - 1
    BY <1>1, <2>1, Zenon
  <2> QED
    BY <1>2, <2>1, <2>2
<1>13. ASSUME NEW k \in 1..L - 1
       PROVE  k \in 1..L /\ pos1[k] = pos[k] /\ Balance(s, pos1[k] + 1, m + 1) = L - 1 - k
  <2>1. k \in 1..L /\ pos1[k] = pos[k]
    BY <1>2, <1>8
  <2> QED
    BY <1>12, <2>1, Zenon
<1>14. ASSUME NEW i \in Kept(s, m + 1) PROVE \E k \in 1..L - 1 : i = pos1[k]
  <2>1. i # m + 1
    BY ComponentsAssumption, Zenon DEF Kept
  <2>2. i \in Kept(s, m) /\ Balance(s, i + 1, m + 1) >= 0
    BY <2>1 DEF Kept
  <2>3. PICK k \in 1..L : i = pos[k]
    BY <2>2, Zenon DEF Stacked, L
  <2>4. L - 1 - k >= 0
    BY <1>12, <2>2, <2>3, Zenon
  <2>5. k \in 1..L - 1
    BY <1>2, <2>4
  <2> QED
    BY <1>13, <2>3, <2>5
<1>15. ASSUME NEW k \in 1..L - 1 PROVE pos1[k] \in Kept(s, m + 1)
  <2>1. pos1[k] \in Kept(s, m)
    <3>1. k \in 1..L /\ pos1[k] = pos[k]
      BY <1>13
    <3> QED
      BY <3>1, Zenon DEF Stacked, L
  <2>2. Balance(s, pos1[k] + 1, m + 1) >= 0
    BY <1>2, <1>13
  <2> QED
    BY <2>1, <2>2 DEF Kept
<1>16. ASSUME NEW i PROVE i \in Kept(s, m + 1) <=> \E k \in 1..L - 1 : i = pos1[k]
  BY <1>14, <1>15, Zenon
<1>17. \A j, k \in 1..L - 1 : j < k => pos1[j] < pos1[k]
  <2>1. \A j, k \in 1..L : j < k => pos[j] < pos[k]
    BY Zenon DEF Stacked, L
  <2> QED
    BY <1>13, <2>1, Zenon
<1>18. \A k \in 1..L - 1 : q[k] = s[pos1[k]]
  <2>1. \A k \in 1..L : w.parts[k] = s[pos[k]]
    BY Zenon DEF Stacked, L
  <2> QED
    BY <1>10, <1>13, <2>1, Zenon
<1>19. Stacked(s, m + 1, w1, pos1)
  <2> HIDE DEF w1
  <2>1. /\ Len(w1.parts) = Len(pos1)
        /\ \A k \in 1..Len(pos1) : w1.parts[k] = s[pos1[k]]
    BY <1>8, <1>10, <1>11, <1>18, Zenon
  <2>2. \A j, k \in 1..Len(pos1) : j < k => pos1[j] < pos1[k]
    BY <1>8, <1>17, Zenon
  <2>3. \A i : i \in Kept(s, m + 1) <=> \E k \in 1..Len(pos1) : i = pos1[k]
    BY <1>8, <1>16, Zenon
  <2>4. /\ Balance(s, 1, m + 1) = Len(pos1)
        /\ \A k \in 1..Len(pos1) : Balance(s, pos1[k] + 1, m + 1) = Len(pos1) - k
    BY <1>8, <1>4, <1>13, Zenon
  <2> QED
    BY <1>11, <1>9, <2>1, <2>2, <2>3, <2>4, Zenon DEF Stacked
<1> QED
  BY <1>19, Zenon

(* The loop after m turns, for every path. *)
LEMMA LoopIsLexical ==
  ASSUME NEW s \in Seq(Components), NEW m \in 0..Len(s)
  PROVE  IF Climbs(s, m) THEN Failed(loop(s)[m])
         ELSE \E pos : Stacked(s, m, loop(s)[m], pos)
<1> DEFINE Lexical(k) == IF Climbs(s, k) THEN Failed(loop(s)[k])
                         ELSE \E pos : Stacked(s, k, loop(s)[k], pos)
           S == {k \in Nat : k <= Len(s) => Lexical(k)}
<1>1. 0 \in S
  <2>1. ~Climbs(s, 0) /\ Kept(s, 0) = {}
    BY DEF Climbs, Kept
  <2>2. loop(s)[0] = [parts |-> <<>>]
    BY LoopTurns
  <2>3. [parts |-> <<>>] \in Stacks
    BY DEF Stacks
  <2>4. Balance(s, 1, 0) = 0
    BY Balances
  <2>5. Stacked(s, 0, loop(s)[0], <<>>)
    BY <2>1, <2>2, <2>3, <2>4 DEF Stacked
  <2> QED
    BY <2>1, <2>5, Zenon
<1>2. ASSUME NEW k \in Nat, k \in S PROVE k + 1 \in S
  <2> SUFFICES ASSUME k + 1 <= Len(s) PROVE Lexical(k + 1)
    OBVIOUS
  <2>1. Lexical(k) /\ s[k + 1] \in Components
    BY <1>2
  <2>2. loop(s)[k + 1] = step(loop(s)[k], s[k + 1])
    BY LoopTurns
  <2>3. CASE Climbs(s, k)
    <3>1. Failed(loop(s)[k])
      BY <2>1, <2>3, Zenon
    <3>2. Failed(loop(s)[k + 1])
      BY <2>2, <3>1, Zenon DEF step
    <3>3. Climbs(s, k + 1)
      BY <2>3 DEF Climbs
    <3> QED
      BY <3>2, <3>3, Zenon
  <2>4. CASE ~Climbs(s, k)
    <3>1. PICK pos : Stacked(s, k, loop(s)[k], pos)
      BY <2>1, <2>4, Zenon
    <3> DEFINE w == loop(s)[k]
    <3>2. ~Failed(w) /\ w.parts \in Seq(Names)
      BY <3>1, StackOrError, Zenon DEF Stacked
    <3> HIDE DEF w
    <3>3. CASE s[k + 1] \in Names
      <4>1. loop(s)[k + 1] = [parts |-> Append(w.parts, s[k + 1])]
        BY <2>2, <3>2, <3>3, ComponentsAssumption, Zenon DEF step, w
      <4> QED
        BY <2>4, <3>1, <3>3, <4>1, KeptName, Zenon DEF w
    <3>4. CASE s[k + 1] \in {"", "."}
      <4>1. loop(s)[k + 1] = w
        BY <2>2, <3>4, Zenon DEF step, w
      <4>2. s[k + 1] \notin Names /\ s[k + 1] # ".."
        BY <3>4, ComponentsAssumption, Zenon
      <4> QED
        BY <2>4, <3>1, <4>1, <4>2, KeptIdle DEF w
    <3>5. CASE s[k + 1] = ".."
      <4>1. loop(s)[k + 1] = IF w.parts = <<>> THEN Error("ENOTCAPABLE")
                             ELSE [parts |-> pop(w.parts)]
        BY <2>2, <3>2, <3>5, Zenon DEF step, w
      <4>2. /\ w.parts = <<>> <=> Climbs(s, k + 1)
            /\ w.parts # <<>> => Stacked(s, k + 1, [parts |-> pop(w.parts)], pop(pos))
        BY <2>4, <3>1, <3>5, KeptUp, Zenon DEF w
      <4> QED
        BY <4>1, <4>2, StackOrError, Zenon
    <3> QED
      BY <2>1, <3>3, <3>4, <3>5, Zenon DEF Components
  <2> QED
    BY <2>3, <2>4, Zenon
<1> HIDE DEF S
<1>3. m \in S
  BY <1>1, <1>2, Induction
<1> QED
  BY <1>3 DEF S

(* The first r of the places are r. *)
LEMMA Ranks ==
  ASSUME NEW pos \in Seq(Nat),
         \A j, k \in 1..Len(pos) : j < k => pos[j] < pos[k]
  PROVE  \A r \in 0..Len(pos) : Cardinality({pos[k] : k \in 1..r}) = r
<1> DEFINE P(r) == {pos[k] : k \in 1..r}
           S == {r \in Nat : r <= Len(pos) => IsFiniteSet(P(r)) /\ Cardinality(P(r)) = r}
<1>1. 0 \in S
  <2>1. P(0) = {}
    OBVIOUS
  <2> QED
    BY <2>1, FS_EmptySet, Zenon
<1>2. ASSUME NEW r \in Nat, r \in S PROVE r + 1 \in S
  <2> SUFFICES ASSUME r + 1 <= Len(pos)
               PROVE  IsFiniteSet(P(r + 1)) /\ Cardinality(P(r + 1)) = r + 1
    OBVIOUS
  <2>1. IsFiniteSet(P(r)) /\ Cardinality(P(r)) = r
    BY <1>2
  <2>2. 1..r + 1 = (1..r) \cup {r + 1}
    OBVIOUS
  <2>3. P(r + 1) = P(r) \cup {pos[r + 1]}
    BY <2>2, Zenon
  <2>4. pos[r + 1] \notin P(r)
    <3>1. \A k \in 1..r : k \in 1..Len(pos) /\ r + 1 \in 1..Len(pos) /\ k < r + 1
      OBVIOUS
    <3>2. ASSUME NEW k \in 1..r PROVE pos[k] # pos[r + 1]
      <4>1. pos[k] < pos[r + 1]
        BY <3>1
      <4>2. pos[k] \in Nat /\ pos[r + 1] \in Nat
        BY <3>1
      <4> QED
        BY <4>1, <4>2
    <3> QED
      BY <3>2
  <2> HIDE DEF P
  <2> QED
    <3>1. /\ IsFiniteSet(P(r) \cup {pos[r + 1]})
          /\ Cardinality(P(r) \cup {pos[r + 1]}) = Cardinality(P(r)) + 1
      BY <2>1, <2>4, FS_AddElement, Zenon
    <3> QED
      BY <2>1, <2>3, <3>1, Zenon
<1> HIDE DEF S
<1>3. \A r \in Nat : r \in S
  BY <1>1, <1>2, Induction, Zenon
<1> SUFFICES ASSUME NEW r \in 0..Len(pos) PROVE Cardinality(P(r)) = r
  BY Zenon
<1>4. r \in S /\ r <= Len(pos)
  BY <1>3
<1> HIDE DEF P
<1> QED
  BY <1>4, Zenon DEF S

(* After the last turn. *)
LEMMA Lexical ==
  ASSUME PathInv PROVE NormalizeIsLexical
<1> DEFINE parts == path.parts
           N == Len(parts)
           w == loop(parts)[N]
           n == normalize_guest_path(path)
           kept == Kept(parts, N)
<1>1. parts \in Seq(Components) /\ N \in Nat /\ DOMAIN parts = 1..N
  BY DEF PathInv, Paths
<1>2. kept = {i \in DOMAIN parts : parts[i] \in Names
                /\ \A j \in DOMAIN parts : j > i => Balance(parts, i + 1, j) >= 0}
  BY <1>1, Zenon DEF Kept
<1>3. Climbs(parts, N) <=> \E j \in DOMAIN parts : Balance(parts, 1, j) < 0
  BY <1>1, Zenon DEF Climbs
<1>4. IF Climbs(parts, N) THEN Failed(w) ELSE \E pos : Stacked(parts, N, w, pos)
  BY <1>1, LoopIsLexical
<1>5. ASSUME path.abs \/ parts # <<>>
      PROVE  n = IF Failed(w) THEN w ELSE [abs |-> path.abs, parts |-> w.parts]
  BY <1>5, Zenon DEF normalize_guest_path
<1> HIDE DEF parts, N, w, n, kept
<1>6. ASSUME path.abs \/ parts # <<>>, Climbs(parts, N) PROVE Failed(n)
  BY <1>4, <1>5, <1>6, Zenon
<1>7. ASSUME path.abs \/ parts # <<>>, ~Climbs(parts, N)
      PROVE  /\ ~Failed(n) /\ n.abs = path.abs
             /\ Len(n.parts) = Cardinality(kept)
             /\ \A i \in kept : n.parts[Cardinality({k \in kept : k <= i})] = parts[i]
  <2>1. PICK pos : Stacked(parts, N, w, pos)
    BY <1>4, <1>7, Zenon
  <2>2. ~Failed(w)
    BY <2>1, StackOrError, Zenon DEF Stacked
  <2>3. n = [abs |-> path.abs, parts |-> w.parts]
    BY <1>5, <1>7, <2>2, Zenon
  <2>4. ~Failed(n) /\ n.abs = path.abs /\ n.parts = w.parts
    BY <2>3, StackOrError, Zenon
  <2> DEFINE L == Len(pos)
             P(r) == {pos[k] : k \in 1..r}
  <2>5. /\ pos \in Seq(Nat) /\ L \in Nat /\ Len(w.parts) = L
        /\ \A k \in 1..L : w.parts[k] = parts[pos[k]]
        /\ \A j, k \in 1..L : j < k => pos[j] < pos[k]
        /\ \A i : i \in kept <=> \E k \in 1..L : i = pos[k]
        /\ \A k \in 1..L : pos[k] \in Nat
    <3>1. pos \in Seq(1..N)
      BY <2>1, Zenon DEF Stacked
    <3>2. pos \in Seq(Nat) /\ L \in Nat /\ \A k \in 1..L : pos[k] \in Nat
      BY <1>1, <3>1
    <3>3. /\ Len(w.parts) = L
          /\ \A k \in 1..L : w.parts[k] = parts[pos[k]]
          /\ \A j, k \in 1..L : j < k => pos[j] < pos[k]
          /\ \A i : i \in kept <=> \E k \in 1..L : i = pos[k]
      BY <2>1, Zenon DEF Stacked, kept
    <3> QED
      BY <3>2, <3>3, Zenon
  <2>6. ASSUME NEW r \in 0..L PROVE Cardinality(P(r)) = r
    BY <2>5, Ranks, Zenon
  <2>7. kept = P(L)
    BY <2>5, Zenon
  <2>8. Len(n.parts) = Cardinality(kept)
    <3> HIDE DEF P, L
    <3>1. L \in 0..L
      BY <2>5
    <3> QED
      BY <2>4, <2>5, <2>6, <2>7, <3>1, Zenon
  <2>9. ASSUME NEW i \in kept
        PROVE  n.parts[Cardinality({k \in kept : k <= i})] = parts[i]
    <3>1. PICK r \in 1..L : i = pos[r]
      BY <2>5, Zenon
    <3>2. ASSUME NEW j \in 1..L PROVE pos[j] <= i <=> j <= r
      <4>1. pos[j] \in Nat /\ pos[r] \in Nat /\ j \in Nat /\ r \in Nat
        BY <2>5
      <4>2. j < r => pos[j] < pos[r]
        BY <2>5, Zenon
      <4>3. r < j => pos[r] < pos[j]
        BY <2>5, Zenon
      <4> QED
        BY <3>1, <4>1, <4>2, <4>3
    <3>3. {k \in kept : k <= i} = P(r)
      <4>1. ASSUME NEW x \in kept, x <= i PROVE x \in P(r)
        <5>1. PICK j \in 1..L : x = pos[j]
          BY <2>5, <4>1, Zenon
        <5>2. j \in 1..r
          BY <3>2, <4>1, <5>1
        <5> QED
          BY <5>1, <5>2, Zenon
      <4>2. ASSUME NEW x \in P(r) PROVE x \in kept /\ x <= i
        <5>1. PICK j \in 1..r : x = pos[j]
          BY <4>2, Zenon
        <5>2. j \in 1..L /\ j <= r
          BY <2>5
        <5> QED
          BY <2>5, <3>2, <5>1, <5>2, Zenon
      <4> HIDE DEF P
      <4> QED
        BY <4>1, <4>2, Zenon
    <3> HIDE DEF P
    <3>4. Cardinality({k \in kept : k <= i}) = r
      <4>1. r \in 0..L
        BY <2>5
      <4>2. Cardinality(P(r)) = r
        BY <2>6, <4>1, Zenon
      <4> QED
        BY <3>3, <4>2, Zenon
    <3> QED
      BY <2>4, <2>5, <3>1, <3>4, Zenon
  <2> QED
    BY <2>4, <2>8, <2>9, Zenon
<1> QED
  BY <1>2, <1>3, <1>6, <1>7, Zenon DEF NormalizeIsLexical, parts, n

(* normalize_guest_path, for paths of any length over any names: the stack *)
(* of the loop is the definition by balances, and it refuses exactly the   *)
(* paths that climb above their start (NormalizeIsLexical).                *)
THEOREM NormalizationIsLexical == PathSpec => []NormalizeIsLexical
  BY PathsAlways, Lexical, PTL
===============================================================================
