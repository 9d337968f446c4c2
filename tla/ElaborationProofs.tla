-------------------------- MODULE ElaborationProofs --------------------------
(***************************************************************************)
(* Proofs about elaboration, for every program: the network under          *)
(* construction is consistent after every turn of every loop, and the      *)
(* removal of replaced edges changes nothing that is bound.                *)
(***************************************************************************)
EXTENDS Elaboration, FiniteSetTheorems, SequenceTheorems, WellFoundedInduction, TLAPS

(* Induction over the naturals, for a set. *)
LEMMA CountingUp ==
    ASSUME NEW S \in SUBSET Nat, 0 \in S, \A n \in S : n + 1 \in S
    PROVE  S = Nat
<1> SUFFICES ASSUME Nat \ S # {} PROVE FALSE
  OBVIOUS
<1>1. \E k \in Nat \ S : \A l \in Nat \ S : <<l, k>> \notin OpToRel(<, Nat)
  BY NatLessThanWellFounded, WFMin, Zenon
<1>2. PICK k \in Nat \ S : \A l \in Nat \ S : ~(l < k)
  BY <1>1 DEF OpToRel
<1>3. k # 0 /\ k - 1 \in S
  BY <1>2
<1> QED
  BY <1>2, <1>3

LEMMA MaxOfPrefix == \A k \in Nat : Max(1 .. k + 1) = k + 1 /\ (1 .. k + 1) \ {k + 1} = 1 .. k
<1> TAKE k \in Nat
<1>1. \A x \in 1 .. k + 1 : (\A y \in 1 .. k + 1 : x >= y) => x = k + 1
  OBVIOUS
<1>2. k + 1 \in 1 .. k + 1 /\ \A y \in 1 .. k + 1 : k + 1 >= y
  OBVIOUS
<1>3. Max(1 .. k + 1) = k + 1
  BY <1>1, <1>2 DEF Max
<1> QED
  BY <1>3

LEMMA MaxIsIn ==
    ASSUME NEW n \in Nat, NEW S \in SUBSET (1 .. n), S # {}
    PROVE  Max(S) \in S /\ \A y \in S : Max(S) >= y
<1>1. \E x \in S : \A y \in S : x >= y
  <2> SUFFICES ASSUME \A x \in S : \E y \in S : y > x PROVE FALSE
    OBVIOUS
  <2> DEFINE U == {k \in Nat : \E x \in S : x >= k}
  <2>1. 0 \in U
    <3>1. PICK x \in S : TRUE
      OBVIOUS
    <3>2. x \in Nat /\ x >= 0
      OBVIOUS
    <3> QED
      BY <3>2
  <2>2. ASSUME NEW k \in U PROVE k + 1 \in U
    <3>1. PICK x \in S : x >= k
      OBVIOUS
    <3>2. PICK y \in S : y > x
      OBVIOUS
    <3>3. x \in Nat /\ y \in Nat /\ k \in Nat
      OBVIOUS
    <3>4. y >= k + 1
      BY <3>1, <3>2, <3>3
    <3> QED
      BY <3>3, <3>4
  <2> HIDE DEF U
  <2>3. U \subseteq Nat
    BY DEF U
  <2>4. U = Nat
    BY <2>1, <2>2, <2>3, CountingUp
  <2>5. n + 1 \in U
    BY <2>4
  <2> QED
    BY <2>5 DEF U
<1> QED
  BY <1>1 DEF Max

(* A fold from the left is a function of the positions folded: the last of *)
(* them is the last step.                                                  *)
FoldOf(n, base, step, h) ==
    \A S \in SUBSET (1 .. n) :
        h[S] = IF S = {} THEN base ELSE step[<<Max(S), h[S \ {Max(S)}]>>]

LEMMA Folding ==
    ASSUME NEW n \in Nat, NEW A, NEW base \in A, NEW step \in [(1 .. n) \X A -> A]
    PROVE  \E h \in [SUBSET (1 .. n) -> A] : FoldOf(n, base, step, h)
<1> DEFINE Value(g, S) == IF S = {} THEN base ELSE step[<<Max(S), g[S \ {Max(S)}]>>]
           Good(m, g) == g \in [SUBSET (1 .. m) -> A] /\ \A S \in SUBSET (1 .. m) : g[S] = Value(g, S)
           M == {m \in Nat : m <= n => \E g : Good(m, g)}
<1>1. 0 \in M
  <2> DEFINE g == [S \in SUBSET (1 .. 0) |-> base]
  <2>1. SUBSET (1 .. 0) = {{}}
    OBVIOUS
  <2>2. Good(0, g)
    BY <2>1
  <2> HIDE DEF Good
  <2> QED
    BY <2>2
<1>2. ASSUME NEW m \in M, m + 1 <= n
      PROVE  \E h : Good(m + 1, h)
  <2>0. m \in Nat /\ m <= n /\ 1 .. m \subseteq 1 .. m + 1 /\ 1 .. m + 1 \subseteq 1 .. n
    BY <1>2
  <2>1. PICK g : Good(m, g)
    BY <1>2, <2>0
  <2> DEFINE h == [S \in SUBSET (1 .. m + 1) |-> Value(g, S)]
  <2>2. ASSUME NEW S \in SUBSET (1 .. m + 1), S # {}
        PROVE  /\ Max(S) \in 1 .. n /\ S \ {Max(S)} \in SUBSET (1 .. m)
    <3>1. Max(S) \in S /\ \A y \in S : Max(S) >= y
      BY <2>0, <2>2, MaxIsIn
    <3>2. ASSUME NEW y \in S, y # Max(S)
          PROVE  y \in 1 .. m
      <4>1. y \in 1 .. m + 1 /\ Max(S) \in 1 .. m + 1 /\ Max(S) >= y
        BY <3>1
      <4> HIDE <3>1
      <4> QED
        BY <2>0, <3>2, <4>1
    <3> QED
      BY <2>0, <3>1, <3>2
  <2>3. \A S \in SUBSET (1 .. m + 1) : Value(g, S) \in A
    <3> TAKE S \in SUBSET (1 .. m + 1)
    <3>1. CASE S = {}
      BY <3>1
    <3>2. CASE S # {}
      <4>1. g[S \ {Max(S)}] \in A
        BY <2>1, <2>2, <3>2
      <4> QED
        BY <2>2, <3>2, <4>1
    <3> QED
      BY <3>1, <3>2
  <2>4. \A S \in SUBSET (1 .. m) : S \in SUBSET (1 .. m + 1) /\ h[S] = g[S]
    <3> TAKE S \in SUBSET (1 .. m)
    <3>1. S \in SUBSET (1 .. m + 1)
      BY <2>0
    <3>2. h[S] = Value(g, S)
      BY <3>1
    <3>3. g[S] = Value(g, S)
      BY <2>1
    <3> QED
      BY <3>1, <3>2, <3>3
  <2>5. \A S \in SUBSET (1 .. m + 1) : h[S] = Value(h, S)
    <3> TAKE S \in SUBSET (1 .. m + 1)
    <3>1. h[S] = Value(g, S)
      OBVIOUS
    <3>2. S # {} => h[S \ {Max(S)}] = g[S \ {Max(S)}]
      BY <2>2, <2>4
    <3> HIDE DEF h
    <3> QED
      BY <3>1, <3>2
  <2>6. h \in [SUBSET (1 .. m + 1) -> A]
    <3> HIDE DEF Value
    <3> QED
      BY <2>3
  <2>7. Good(m + 1, h)
    <3> HIDE DEF h, Value
    <3> QED
      BY <2>5, <2>6
  <2> HIDE DEF Good, h
  <2> QED
    BY <2>7
<1> HIDE DEF Good
<1>3. \A m \in M : m + 1 \in M
  BY <1>2
<1> HIDE DEF M
<1>4. M = Nat
  BY <1>1, <1>3, CountingUp DEF M
<1>5. PICK g : Good(n, g)
  BY <1>4 DEF M
<1> QED
  BY <1>5 DEF Good, FoldOf

LEMMA PrefixIsPart ==
    \A n, k \in Nat : k + 1 <= n => 1 .. k + 1 \in SUBSET (1 .. n) /\ 1 .. k + 1 # {}
<1> TAKE n, k \in Nat
<1>1. 1 \in 1 .. k + 1
  OBVIOUS
<1>2. k + 1 <= n => \A i \in 1 .. k + 1 : i \in 1 .. n
  OBVIOUS
<1> QED
  BY <1>1, <1>2

(* A fold whose every turn stays in A ends in A. *)
LEMMA FoldStays ==
    ASSUME NEW n \in Nat, NEW A, NEW base \in A, NEW g, g[{}] = base,
           \A S \in SUBSET (1 .. n) : S # {} /\ g[S \ {Max(S)}] \in A => g[S] \in A
    PROVE  g[1 .. n] \in A
<1> DEFINE M == {k \in Nat : k <= n => g[1 .. k] \in A}
<1>1. 0 \in M
  <2>1. 1 .. 0 = {}
    OBVIOUS
  <2> QED
    BY <2>1
<1>2. ASSUME NEW k \in M PROVE k + 1 \in M
  <2> SUFFICES ASSUME k + 1 <= n PROVE g[1 .. k + 1] \in A
    OBVIOUS
  <2>1. k \in Nat /\ g[1 .. k] \in A
    OBVIOUS
  <2>2. 1 .. k + 1 \in SUBSET (1 .. n) /\ 1 .. k + 1 # {}
    BY <2>1, PrefixIsPart
  <2>3. (1 .. k + 1) \ {Max(1 .. k + 1)} = 1 .. k
    BY <2>1, MaxOfPrefix
  <2> QED
    BY <2>1, <2>2, <2>3
<1> HIDE DEF M
<1>3. M = Nat
  BY <1>1, <1>2, CountingUp DEF M
<1> QED
  BY <1>3 DEF M

LEMMA MinIsIn ==
    ASSUME NEW T \in SUBSET Nat, T # {}
    PROVE  Min(T) \in T /\ \A l \in T : Min(T) <= l
<1>1. \E k \in T : \A l \in T : <<l, k>> \notin OpToRel(<, Nat)
  BY NatLessThanWellFounded, WFMin, Zenon
<1>2. PICK k \in T : \A l \in T : <<l, k>> \notin OpToRel(<, Nat)
  BY <1>1
<1>3. \A l \in T : ~(l < k) /\ l \in Nat /\ k \in Nat
  BY <1>2 DEF OpToRel
<1>4. \A l \in T : k <= l
  BY <1>3
<1> QED
  BY <1>4 DEF Min

(* Sequences built place by place. *)
LEMMA SameLength ==
    ASSUME NEW S, NEW T, NEW s \in Seq(S), NEW f \in [DOMAIN s -> T]
    PROVE  f \in Seq(T) /\ Len(f) = Len(s) /\ DOMAIN f = DOMAIN s
<1>1. Len(s) \in Nat /\ DOMAIN s = 1 .. Len(s)
  OBVIOUS
<1>2. f \in [1 .. Len(s) -> T]
  BY <1>1
<1> QED
  BY <1>1, <1>2

-----------------------------------------------------------------------------
(* The types of a network under construction.                              *)

(* Functions on some set of names. *)
Maps(R) == UNION {[S -> R] : S \in SUBSET Names}

Ports    == [name : STRING, kind : STRING, bound : Nat]
Nodes    == [name : Names, process : Parts, stub : BOOLEAN, ports : Seq(Ports)]
Edges    == [name : Names, src : Nat, dst : Nat, elem : Names, kind : STRING \union {"cell"},
             depth : Nat, init : Nat, ext : BOOLEAN, peekers : Seq(Names)]
Pendings == [edge : Nat, data : Edges, writer : Names, reader : Names]

Works ==
    [nodes : Seq(Nodes), edges : Seq(Edges), instances : Maps(Nat), childDomains : Maps(STRING),
     domainMap : Maps(STRING), subs : Seq(Names \X Names), pending : Maps(Pendings),
     queueEdge : Maps(Nat), dead : SUBSET Nat, failed : BOOLEAN, warned : BOOLEAN]

LEMMA MapsIn ==
    ASSUME NEW R, NEW f
    PROVE  f \in Maps(R) <=> /\ f = [x \in DOMAIN f |-> f[x]]
                             /\ DOMAIN f \subseteq Names
                             /\ \A x \in DOMAIN f : f[x] \in R
<1>1. ASSUME f \in Maps(R)
      PROVE  /\ f = [x \in DOMAIN f |-> f[x]]
             /\ DOMAIN f \subseteq Names
             /\ \A x \in DOMAIN f : f[x] \in R
  <2>1. PICK S \in SUBSET Names : f \in [S -> R]
    BY <1>1 DEF Maps
  <2> QED
    BY <2>1
<1>2. ASSUME f = [x \in DOMAIN f |-> f[x]], DOMAIN f \subseteq Names, \A x \in DOMAIN f : f[x] \in R
      PROVE  f \in Maps(R)
  <2>1. f \in [DOMAIN f -> R]
    BY <1>2
  <2> QED
    BY <1>2, <2>1 DEF Maps
<1> QED
  BY <1>1, <1>2

LEMMA OverIn ==
    ASSUME NEW R, NEW f \in Maps(R), NEW g \in Maps(R)
    PROVE  /\ Over(f, g) \in Maps(R)
           /\ DOMAIN Over(f, g) = DOMAIN f \union DOMAIN g
           /\ \A x \in DOMAIN f : Over(f, g)[x] = f[x]
           /\ \A x \in DOMAIN g \ DOMAIN f : Over(f, g)[x] = g[x]
<1>1. /\ DOMAIN f \subseteq Names /\ \A x \in DOMAIN f : f[x] \in R
      /\ DOMAIN g \subseteq Names /\ \A x \in DOMAIN g : g[x] \in R
  BY MapsIn
<1> DEFINE h == Over(f, g)
<1>2. /\ h = [x \in DOMAIN h |-> h[x]] /\ DOMAIN h = DOMAIN f \union DOMAIN g
      /\ \A x \in DOMAIN h : h[x] = IF x \in DOMAIN f THEN f[x] ELSE g[x]
  BY DEF Over
<1> HIDE DEF h
<1>3. h \in Maps(R)
  BY <1>1, <1>2, MapsIn
<1> QED
  BY <1>2, <1>3 DEF h

LEMMA WithIn ==
    ASSUME NEW R, NEW f \in Maps(R), NEW x \in Names, NEW value \in R
    PROVE  /\ With(f, x, value) \in Maps(R)
           /\ DOMAIN With(f, x, value) = DOMAIN f \union {x}
           /\ With(f, x, value)[x] = value
           /\ \A y \in DOMAIN f : y # x => With(f, x, value)[y] = f[y]
<1> DEFINE one == [y \in {x} |-> value]
<1>1. one \in Maps(R) /\ DOMAIN one = {x} /\ one[x] = value
  <2>1. one \in [{x} -> R] /\ {x} \in SUBSET Names
    OBVIOUS
  <2> QED
    BY <2>1 DEF Maps
<1>2. With(f, x, value) = Over(one, f)
  BY DEF With
<1> HIDE DEF one
<1> QED
  BY <1>1, <1>2, OverIn

LEMMA WithNumber ==
    ASSUME NEW f \in Maps(Nat), NEW x \in Names, NEW n \in Nat
    PROVE  /\ With(f, x, n) \in Maps(Nat)
           /\ DOMAIN With(f, x, n) = DOMAIN f \union {x}
           /\ With(f, x, n)[x] = n
           /\ \A y \in DOMAIN f : y # x => With(f, x, n)[y] = f[y]
<1>1. ASSUME NEW k, k \in Nat PROVE With(f, x, k) \in Maps(Nat)
  BY <1>1, WithIn
<1>2. DOMAIN With(f, x, n) = DOMAIN f \union {x}
  BY DEF With, Over
<1>3. With(f, x, n)[x] = n
  BY DEF With, Over
<1>4. \A y \in DOMAIN f : y # x => With(f, x, n)[y] = f[y]
  BY DEF With, Over
<1> QED
  BY <1>1, <1>2, <1>3, <1>4

LEMMA NothingIsAMap == ASSUME NEW R PROVE <<>> \in Maps(R) /\ DOMAIN <<>> = {}
<1>1. <<>> = [x \in {} |-> x] /\ DOMAIN <<>> = {}
  OBVIOUS
<1>2. <<>> \in [{} -> R]
  BY <1>1
<1> QED
  BY <1>1, <1>2 DEF Maps

-----------------------------------------------------------------------------
(* What is consistent about it.                                            *)

NamesRight(w) ==
    \A name \in DOMAIN w.instances :
        w.instances[name] \in DOMAIN w.nodes /\ w.nodes[w.instances[name]].name = name

PortsRight(w) ==
    \A n \in DOMAIN w.nodes : \A k \in DOMAIN w.nodes[n].ports :
        w.nodes[n].ports[k].bound \in 0 .. Len(w.edges)

EndsRight(w) ==
    \A e \in DOMAIN w.edges : w.edges[e].src \in DOMAIN w.nodes /\ w.edges[e].dst \in DOMAIN w.nodes

QueuesNamed(w) == \A q \in DOMAIN w.pending : w.pending[q].data.name = q

(* The edge of a declared queue has its name, which is one part long.      *)
QueuesRight(w) ==
    \A q \in DOMAIN w.queueEdge :
        /\ Len(q) = 1
        /\ w.queueEdge[q] \in DOMAIN w.edges
        /\ w.edges[w.queueEdge[q]].name = q

(* An edge of a child pipe has a longer one. *)
SubsNamed(w) == \A k \in DOMAIN w.subs : Len(w.subs[k][1]) >= 2

DeadRight(w) ==
    \A e \in w.dead :
        /\ e \in DOMAIN w.edges /\ Len(w.edges[e].name) >= 2
        /\ \A n \in DOMAIN w.nodes : \A k \in DOMAIN w.nodes[n].ports : w.nodes[n].ports[k].bound # e

Sound(w) ==
    /\ w \in Works
    /\ NamesRight(w) /\ PortsRight(w) /\ EndsRight(w)
    /\ QueuesNamed(w) /\ QueuesRight(w) /\ SubsNamed(w) /\ DeadRight(w)

(* The Cells of this pipe have edges. *)
CellsRight(w) == \A q \in DOMAIN w.pending : w.pending[q].edge \in 0 .. Len(w.edges)

LEMMA BlankIsSound == Sound(Blank) /\ CellsRight(Blank) /\ Blank.dead = {} /\ Blank.failed = FALSE
<1>1. /\ <<>> \in Seq(Nodes) /\ <<>> \in Seq(Edges) /\ <<>> \in Seq(Names \X Names)
      /\ DOMAIN <<>> = {}
  BY EmptySeq, NothingIsAMap
<1>2. Blank \in Works
  BY <1>1, NothingIsAMap DEF Blank, Works
<1> QED
  BY <1>1, <1>2 DEF Blank, Sound, NamesRight, PortsRight, EndsRight, QueuesNamed, QueuesRight,
     SubsNamed, DeadRight, CellsRight

-----------------------------------------------------------------------------
(* Looking up.                                                             *)

LEMMA PortNamedIn ==
    ASSUME NEW ports, Len(ports) \in Nat, NEW port
    PROVE  /\ PortNamed(ports, port) \in 0 .. Len(ports)
           /\ PortNamed(ports, port) # 0 => ports[PortNamed(ports, port)].name = port
<1> DEFINE I == {i \in 1 .. Len(ports) : ports[i].name = port}
<1>1. PortNamed(ports, port) = IF I # {} THEN Min(I) ELSE 0
  BY DEF PortNamed, SelectInSeq
<1>2. I \subseteq 1 .. Len(ports) /\ I \in SUBSET Nat /\ \A i \in I : ports[i].name = port
  OBVIOUS
<1> HIDE DEF I
<1>3. CASE I = {}
  BY <1>1, <1>3
<1>4. CASE I # {}
  <2>1. Min(I) \in I
    BY <1>2, <1>4, MinIsIn
  <2>2. PortNamed(ports, port) = Min(I)
    BY <1>1, <1>4
  <2>3. Min(I) \in 0 .. Len(ports)
    <3>1. Min(I) \in 1 .. Len(ports)
      BY <1>2, <2>1
    <3> QED
      BY <3>1
  <2>4. ports[Min(I)].name = port
    BY <1>2, <2>1
  <2> QED
    BY <2>2, <2>3, <2>4
<1> QED
  BY <1>3, <1>4

LEMMA EdgeNamedIn ==
    ASSUME NEW w, Len(w.edges) \in Nat, NEW name
    PROVE  /\ EdgeNamed(w, name) \in 0 .. Len(w.edges)
           /\ EdgeNamed(w, name) # 0 => w.edges[EdgeNamed(w, name)].name = name
<1> DEFINE I == {i \in 1 .. Len(w.edges) : w.edges[i].name = name}
<1>1. EdgeNamed(w, name) = IF I # {} THEN Min(I) ELSE 0
  BY DEF EdgeNamed, SelectInSeq
<1>2. I \subseteq 1 .. Len(w.edges) /\ I \in SUBSET Nat /\ \A i \in I : w.edges[i].name = name
  OBVIOUS
<1> HIDE DEF I
<1>3. CASE I = {}
  BY <1>1, <1>3
<1>4. CASE I # {}
  <2>1. Min(I) \in I
    BY <1>2, <1>4, MinIsIn
  <2>2. EdgeNamed(w, name) = Min(I)
    BY <1>1, <1>4
  <2>3. Min(I) \in 0 .. Len(w.edges)
    <3>1. Min(I) \in 1 .. Len(w.edges)
      BY <1>2, <2>1
    <3> QED
      BY <3>1
  <2>4. w.edges[Min(I)].name = name
    BY <1>2, <2>1
  <2> QED
    BY <2>2, <2>3, <2>4
<1> QED
  BY <1>3, <1>4

LEMMA NodeNamedIn ==
    ASSUME NEW w, Sound(w), NEW name
    PROVE  /\ NodeNamed(w, name) \in 0 .. Len(w.nodes)
           /\ NodeNamed(w, name) # 0 => w.nodes[NodeNamed(w, name)].name = name
  BY DEF Sound, NamesRight, NodeNamed, Works

LEMMA Single == ASSUME NEW S, NEW a \in S PROVE <<a>> \in Seq(S) /\ Len(<<a>>) = 1
  OBVIOUS

LEMMA Pair == ASSUME NEW S, NEW a \in S, NEW b \in S PROVE <<a, b>> \in Seq(S)
  OBVIOUS

LEMMA Joined ==
    ASSUME NEW S, NEW s \in Seq(S), NEW t \in Seq(S)
    PROVE  s \o t \in Seq(S) /\ Len(s \o t) = Len(s) + Len(t)
  OBVIOUS

LEMMA NumberedIn ==
    ASSUME NEW of \in STRING, NEW i \in Nat \ {0}
    PROVE  Numbered(of, i) \in Names /\ Len(Numbered(of, i)) = i
<1>1. PICK n \in Nat : n = i - 1
  OBVIOUS
<1>2. "_" \in Parts /\ of \in Parts
  BY DEF Parts
<1> DEFINE marks == [k \in 1 .. n |-> "_"]
<1>3. marks \in [1 .. n -> Parts]
  BY <1>2
<1>4. Numbered(of, i) = <<of>> \o marks
  BY <1>1 DEF Numbered
<1> HIDE DEF marks
<1>5. <<of>> \in Seq(Parts) /\ Len(<<of>>) = 1
  BY <1>2, Single
<1>6. marks \in Seq(Parts) /\ Len(marks) = n
  BY <1>3
<1> DEFINE first == <<of>>
<1> HIDE DEF first
<1>7. first \o marks \in Seq(Parts) /\ Len(first \o marks) = Len(first) + Len(marks)
  BY <1>5, <1>6, Joined DEF first
<1>8. Len(first) + Len(marks) = i
  BY <1>1, <1>5, <1>6 DEF first
<1> QED
  BY <1>4, <1>7, <1>8 DEF Names, first

-----------------------------------------------------------------------------
(* Ports that are bound to other edges.                                    *)

(* r is w with its ports bound otherwise. *)
Rebinds(w, r) ==
    /\ r.nodes \in Seq(Nodes) /\ Len(r.nodes) = Len(w.nodes)
    /\ \A n \in DOMAIN w.nodes : r.nodes[n].name = w.nodes[n].name
    /\ r = [w EXCEPT !.nodes = r.nodes]

LEMMA RebindsIsSound ==
    ASSUME NEW w, Sound(w), w.dead = {}, NEW r, Rebinds(w, r), PortsRight(r)
    PROVE  Sound(r)
<1>1. r \in Works
  BY DEF Sound, Works, Rebinds
<1>2. /\ r.edges = w.edges /\ r.instances = w.instances /\ r.subs = w.subs /\ r.pending = w.pending
      /\ r.queueEdge = w.queueEdge /\ r.dead = {} /\ DOMAIN r.nodes = DOMAIN w.nodes
  <2>1. /\ r.edges = w.edges /\ r.instances = w.instances /\ r.subs = w.subs /\ r.pending = w.pending
        /\ r.queueEdge = w.queueEdge /\ r.dead = {}
    BY SMTT(30) DEF Sound, Works, Rebinds
  <2>2. r.nodes \in Seq(Nodes) /\ w.nodes \in Seq(Nodes) /\ Len(r.nodes) = Len(w.nodes)
    BY SMTT(30) DEF Sound, Works, Rebinds
  <2> QED
    BY <2>1, <2>2
<1>3. NamesRight(r)
  BY <1>2 DEF Sound, NamesRight, Rebinds
<1> QED
  BY <1>1, <1>2, <1>3 DEF Sound, EndsRight, QueuesNamed, QueuesRight, SubsNamed, DeadRight

LEMMA RebindGives ==
    ASSUME NEW w \in Works, NEW old, NEW new \in Nat
    PROVE  LET r == Rebind(w, old, new) IN
           /\ Rebinds(w, r)
           /\ \A n \in DOMAIN w.nodes :
                 /\ DOMAIN r.nodes[n].ports = DOMAIN w.nodes[n].ports
                 /\ \A k \in DOMAIN w.nodes[n].ports :
                       r.nodes[n].ports[k].bound = IF w.nodes[n].ports[k].bound \in old THEN new
                                                   ELSE w.nodes[n].ports[k].bound
<1> DEFINE r == Rebind(w, old, new)
           moved(port) == IF port.bound \in old THEN [port EXCEPT !.bound = new] ELSE port
           ports(n) == [k \in DOMAIN w.nodes[n].ports |-> moved(w.nodes[n].ports[k])]
           node(n) == [w.nodes[n] EXCEPT !.ports = ports(n)]
           nodes == [n \in DOMAIN w.nodes |-> node(n)]
<1>1. r = [w EXCEPT !.nodes = nodes]
  BY DEF Rebind
<1>2. w.nodes \in Seq(Nodes)
  BY DEF Works
<1>3. ASSUME NEW port \in Ports
      PROVE  /\ moved(port) \in Ports
             /\ moved(port).bound = IF port.bound \in old THEN new ELSE port.bound
  BY DEF Ports
<1> HIDE DEF moved
<1>4. ASSUME NEW n \in DOMAIN w.nodes
      PROVE  /\ w.nodes[n] \in Nodes /\ ports(n) \in Seq(Ports)
             /\ DOMAIN ports(n) = DOMAIN w.nodes[n].ports
             /\ \A k \in DOMAIN w.nodes[n].ports :
                   ports(n)[k].bound = IF w.nodes[n].ports[k].bound \in old THEN new
                                       ELSE w.nodes[n].ports[k].bound
  <2>1. w.nodes[n] \in Nodes
    BY <1>2
  <2>a. w.nodes[n].ports \in Seq(Ports)
    BY <2>1 DEF Nodes
  <2>2. \A k \in DOMAIN w.nodes[n].ports : w.nodes[n].ports[k] \in Ports
    BY <2>a
  <2>3. ports(n) \in [DOMAIN w.nodes[n].ports -> Ports]
    BY <1>3, <2>2
  <2>4. ports(n) \in Seq(Ports)
    <3> HIDE DEF ports
    <3> QED
      BY <2>a, <2>3, SameLength
  <2> QED
    BY <1>3, <2>1, <2>2, <2>4
<1> HIDE DEF ports
<1>5. ASSUME NEW n \in DOMAIN w.nodes
      PROVE  node(n) \in Nodes /\ node(n).name = w.nodes[n].name /\ node(n).ports = ports(n)
  BY <1>4 DEF Nodes
<1> HIDE DEF node
<1>6. nodes \in Seq(Nodes) /\ Len(nodes) = Len(w.nodes) /\ \A n \in DOMAIN w.nodes : nodes[n] = node(n)
  <2>1. nodes \in [DOMAIN w.nodes -> Nodes]
    BY <1>5
  <2>2. \A n \in DOMAIN w.nodes : nodes[n] = node(n)
    OBVIOUS
  <2> HIDE DEF nodes
  <2> QED
    BY <1>2, <2>1, <2>2, SameLength
<1> HIDE DEF nodes
<1>7. r.nodes = nodes /\ r = [w EXCEPT !.nodes = r.nodes]
  BY <1>1 DEF Works
<1> HIDE DEF r
<1>8. Rebinds(w, r)
  BY <1>5, <1>6, <1>7 DEF Rebinds
<1> QED
  BY <1>4, <1>5, <1>6, <1>7, <1>8 DEF r

LEMMA RebindIsSound ==
    ASSUME NEW w, Sound(w), w.dead = {}, NEW old, NEW new \in DOMAIN w.edges
    PROVE  Sound(Rebind(w, old, new)) /\ Rebinds(w, Rebind(w, old, new))
<1> DEFINE r == Rebind(w, old, new)
<1>0. w \in Works /\ new \in Nat /\ new \in 0 .. Len(w.edges)
  BY DEF Sound, Works
<1>1. /\ Rebinds(w, r)
      /\ \A n \in DOMAIN w.nodes :
            /\ DOMAIN r.nodes[n].ports = DOMAIN w.nodes[n].ports
            /\ \A k \in DOMAIN w.nodes[n].ports :
                  r.nodes[n].ports[k].bound = IF w.nodes[n].ports[k].bound \in old THEN new
                                              ELSE w.nodes[n].ports[k].bound
  BY <1>0, RebindGives
<1> HIDE DEF r
<1>2. r.edges = w.edges /\ DOMAIN r.nodes = DOMAIN w.nodes
  BY <1>0, <1>1 DEF Rebinds, Works
<1>3. PortsRight(r)
  BY <1>0, <1>1, <1>2 DEF Sound, PortsRight
<1>4. Sound(r)
  BY <1>1, <1>3, RebindsIsSound
<1> QED
  BY <1>1, <1>4 DEF r

-----------------------------------------------------------------------------
(* A turn keeps what there is.                                             *)

(* v has all of w and is sound. *)
Grows(w, v) ==
    /\ Sound(v) /\ v.dead = {}
    /\ DOMAIN w.pending \subseteq DOMAIN v.pending
    /\ CellsRight(w) => CellsRight(v)

LEMMA GrowsOn ==
    ASSUME NEW w, NEW v, NEW u, Grows(w, v), Grows(v, u)
    PROVE  Grows(w, u)
  BY DEF Grows

LEMMA GrowsSame == ASSUME NEW w, Sound(w), w.dead = {} PROVE Grows(w, w)
  BY DEF Grows

LEMMA RebindsGrows ==
    ASSUME NEW w, Sound(w), w.dead = {}, NEW r, Rebinds(w, r), PortsRight(r)
    PROVE  Grows(w, r)
<1>1. r.edges = w.edges /\ r.pending = w.pending /\ r.dead = {}
  BY DEF Sound, Works, Rebinds
<1> QED
  BY <1>1, RebindsIsSound DEF Grows, CellsRight

LEMMA BindPortGives ==
    ASSUME NEW w \in Works, NEW node \in DOMAIN w.nodes, NEW port, NEW edge \in Nat
    PROVE  LET r == BindPort(w, node, port, edge) IN
           /\ Rebinds(w, r)
           /\ \A n \in DOMAIN w.nodes :
                 /\ DOMAIN r.nodes[n].ports = DOMAIN w.nodes[n].ports
                 /\ \A k \in DOMAIN w.nodes[n].ports :
                       r.nodes[n].ports[k].bound \in {edge, w.nodes[n].ports[k].bound}
<1> DEFINE r == BindPort(w, node, port, edge)
           ports == w.nodes[node].ports
           k == PortNamed(ports, port)
           port1 == [ports[k] EXCEPT !.bound = edge]
           ports1 == [ports EXCEPT ![k] = port1]
           node1 == [w.nodes[node] EXCEPT !.ports = ports1]
           nodes1 == [w.nodes EXCEPT ![node] = node1]
<1>1. r = IF k = 0 THEN w ELSE [w EXCEPT !.nodes = nodes1]
  BY DEF BindPort
<1>2. w.nodes \in Seq(Nodes)
  BY DEF Works
<1>3. w.nodes[node] \in Nodes
  BY <1>2
<1>4. ports \in Seq(Ports)
  BY <1>3 DEF Nodes
<1>5. k \in 0 .. Len(ports)
  BY <1>4, PortNamedIn
<1>6. CASE k = 0
  <2>1. r = w /\ w = [w EXCEPT !.nodes = w.nodes]
    BY <1>1, <1>6 DEF Works
  <2> HIDE DEF r, k, ports
  <2>2. Rebinds(w, r)
    BY <1>2, <2>1 DEF Rebinds
  <2> QED
    BY <2>1, <2>2 DEF r
<1>7. CASE k # 0
  <2>0. k \in DOMAIN ports
    BY <1>4, <1>5, <1>7
  <2>1. r = [w EXCEPT !.nodes = nodes1]
    BY <1>1, <1>7
  <2> HIDE DEF r, k
  <2>2. ports[k] \in Ports
    BY <1>4, <2>0
  <2>3. port1 \in Ports /\ port1.bound = edge
    BY <2>2 DEF Ports
  <2> HIDE DEF port1
  <2>4. ports1 \in Seq(Ports) /\ DOMAIN ports1 = DOMAIN ports
    BY <1>4, <2>0, <2>3
  <2>5. \A l \in DOMAIN ports : ports1[l].bound \in {edge, ports[l].bound}
    BY <1>4, <2>0, <2>3
  <2> HIDE DEF ports1
  <2>6. node1 \in Nodes /\ node1.ports = ports1 /\ node1.name = w.nodes[node].name
    BY <1>3, <2>4 DEF Nodes
  <2> HIDE DEF node1
  <2>7. /\ nodes1 \in Seq(Nodes) /\ Len(nodes1) = Len(w.nodes)
        /\ \A n \in DOMAIN w.nodes : nodes1[n] = IF n = node THEN node1 ELSE w.nodes[n]
    BY <1>2, <2>6
  <2> HIDE DEF nodes1
  <2>8. r.nodes = nodes1 /\ r = [w EXCEPT !.nodes = r.nodes]
    BY <2>1 DEF Works
  <2>9. Rebinds(w, r)
    BY <2>6, <2>7, <2>8 DEF Rebinds
  <2> QED
    BY <2>4, <2>5, <2>6, <2>7, <2>8, <2>9 DEF r
<1> QED
  BY <1>6, <1>7

LEMMA BindPortGrows ==
    ASSUME NEW w, Sound(w), w.dead = {}, NEW node \in DOMAIN w.nodes, NEW port,
           NEW edge \in 0 .. Len(w.edges)
    PROVE  Grows(w, BindPort(w, node, port, edge)) /\ Rebinds(w, BindPort(w, node, port, edge))
<1> DEFINE r == BindPort(w, node, port, edge)
<1>0. w \in Works /\ edge \in Nat /\ Len(w.edges) \in Nat
  BY DEF Sound, Works
<1>1. /\ Rebinds(w, r)
      /\ \A n \in DOMAIN w.nodes :
            /\ DOMAIN r.nodes[n].ports = DOMAIN w.nodes[n].ports
            /\ \A k \in DOMAIN w.nodes[n].ports :
                  r.nodes[n].ports[k].bound \in {edge, w.nodes[n].ports[k].bound}
  BY <1>0, BindPortGives
<1> HIDE DEF r
<1>2. r.edges = w.edges /\ DOMAIN r.nodes = DOMAIN w.nodes
  BY SMTT(30), <1>0, <1>1 DEF Rebinds, Works
<1>3. PortsRight(r)
  BY <1>0, <1>1, <1>2 DEF Sound, PortsRight
<1> QED
  BY <1>1, <1>3, RebindsGrows DEF r

LEMMA RebindGrows ==
    ASSUME NEW w, Sound(w), w.dead = {}, NEW old, NEW new \in DOMAIN w.edges
    PROVE  Grows(w, Rebind(w, old, new))
  BY RebindIsSound, RebindsGrows DEF Sound

(* What is neither node, edge nor queue does not matter. *)
LEMMA ErrorGrows ==
    ASSUME NEW w, Sound(w), w.dead = {} PROVE Grows(w, Error(w))
<1> DEFINE v == Error(w)
<1>1. /\ v \in Works /\ v.nodes = w.nodes /\ v.edges = w.edges /\ v.instances = w.instances
      /\ v.subs = w.subs /\ v.pending = w.pending /\ v.queueEdge = w.queueEdge /\ v.dead = {}
  BY DEF Sound, Works, Error
<1> HIDE DEF v
<1>2. Grows(w, v)
  BY <1>1 DEF Grows, Sound, NamesRight, PortsRight, EndsRight, QueuesNamed, QueuesRight, SubsNamed,
     DeadRight, CellsRight
<1> QED
  BY <1>2 DEF v

Longer(s, t) == Len(s) <= Len(t) /\ \A i \in DOMAIN s : t[i] = s[i]

(* Nodes and edges are added, and may have names. *)
LEMMA MoreIsConsistent ==
    ASSUME NEW w, Sound(w), NEW v \in Works, Longer(w.nodes, v.nodes), Longer(w.edges, v.edges),
           \A n \in DOMAIN v.nodes \ DOMAIN w.nodes : \A k \in DOMAIN v.nodes[n].ports :
               v.nodes[n].ports[k].bound \in 0 .. Len(v.edges),
           \A e \in DOMAIN v.edges \ DOMAIN w.edges :
               v.edges[e].src \in DOMAIN v.nodes /\ v.edges[e].dst \in DOMAIN v.nodes,
           \A name \in DOMAIN v.instances :
               \/ name \in DOMAIN w.instances /\ v.instances[name] = w.instances[name]
               \/ v.instances[name] \in DOMAIN v.nodes /\ v.nodes[v.instances[name]].name = name
    PROVE  /\ NamesRight(v) /\ PortsRight(v) /\ EndsRight(v)
           /\ v.queueEdge = w.queueEdge => QueuesRight(v)
           /\ v.pending = w.pending => (CellsRight(w) => CellsRight(v))
<1>1. /\ w.nodes \in Seq(Nodes) /\ w.edges \in Seq(Edges) /\ v.nodes \in Seq(Nodes) /\ v.edges \in Seq(Edges)
  BY DEF Sound, Works
<1>2. Len(w.nodes) <= Len(v.nodes) /\ Len(w.edges) <= Len(v.edges)
  BY DEF Longer
<1>3. DOMAIN w.nodes \subseteq DOMAIN v.nodes /\ DOMAIN w.edges \subseteq DOMAIN v.edges
  BY <1>1, <1>2
<1>4. 0 .. Len(w.edges) \subseteq 0 .. Len(v.edges)
  BY <1>1, <1>2
<1>5. /\ \A n \in DOMAIN w.nodes : v.nodes[n] = w.nodes[n]
      /\ \A e \in DOMAIN w.edges : v.edges[e] = w.edges[e]
  BY DEF Longer
<1>6. NamesRight(v)
  BY <1>3, <1>5 DEF Sound, NamesRight
<1>7. PortsRight(v)
  BY <1>3, <1>4, <1>5 DEF Sound, PortsRight
<1>8. EndsRight(v)
  BY <1>3, <1>5 DEF Sound, EndsRight
<1>9. ASSUME v.queueEdge = w.queueEdge PROVE QueuesRight(v)
  BY <1>3, <1>5, <1>9 DEF Sound, QueuesRight
<1>10. ASSUME v.pending = w.pending, CellsRight(w) PROVE CellsRight(v)
  BY <1>4, <1>10 DEF CellsRight
<1> QED
  BY <1>6, <1>7, <1>8, <1>9, <1>10

LEMMA AppendIsLonger ==
    ASSUME NEW S, NEW s \in Seq(S), NEW x \in S
    PROVE  /\ Append(s, x) \in Seq(S) /\ Longer(s, Append(s, x))
           /\ Len(Append(s, x)) = Len(s) + 1 /\ Append(s, x)[Len(s) + 1] = x
           /\ DOMAIN Append(s, x) = DOMAIN s \union {Len(s) + 1}
           /\ Len(s) + 1 \in DOMAIN Append(s, x)
  BY DEF Longer

LEMMA SameIsLonger == ASSUME NEW S, NEW s \in Seq(S) PROVE Longer(s, s)
  BY DEF Longer

LEMMA ConcatIsLonger ==
    ASSUME NEW S, NEW s \in Seq(S), NEW t \in Seq(S)
    PROVE  /\ s \o t \in Seq(S) /\ Longer(s, s \o t)
           /\ Len(s \o t) = Len(s) + Len(t)
           /\ \A i \in DOMAIN (s \o t) \ DOMAIN s :
                 i - Len(s) \in DOMAIN t /\ (s \o t)[i] = t[i - Len(s)]
           /\ \A k \in DOMAIN t : k + Len(s) \in DOMAIN (s \o t) /\ (s \o t)[k + Len(s)] = t[k]
<1>1. s \o t \in Seq(S) /\ Len(s \o t) = Len(s) + Len(t)
  OBVIOUS
<1>2. /\ DOMAIN s = 1 .. Len(s) /\ DOMAIN t = 1 .. Len(t) /\ DOMAIN (s \o t) = 1 .. Len(s) + Len(t)
      /\ Len(s) \in Nat /\ Len(t) \in Nat
  BY <1>1
<1>3. \A i \in 1 .. Len(s) + Len(t) : (s \o t)[i] = IF i <= Len(s) THEN s[i] ELSE t[i - Len(s)]
  OBVIOUS
<1>4. Longer(s, s \o t)
  BY <1>1, <1>2, <1>3 DEF Longer
<1>5. ASSUME NEW i \in DOMAIN (s \o t) \ DOMAIN s
      PROVE  i - Len(s) \in DOMAIN t /\ (s \o t)[i] = t[i - Len(s)]
  BY <1>2, <1>3
<1>6. ASSUME NEW k \in DOMAIN t
      PROVE  k + Len(s) \in DOMAIN (s \o t) /\ (s \o t)[k + Len(s)] = t[k]
  <2>1. k + Len(s) \in 1 .. Len(s) + Len(t) /\ ~(k + Len(s) <= Len(s)) /\ (k + Len(s)) - Len(s) = k
    BY <1>2
  <2> QED
    BY <1>2, <1>3, <2>1
<1> QED
  BY <1>1, <1>4, <1>5, <1>6

-----------------------------------------------------------------------------
(* Phases 1 and 2: nodes.                                                  *)

Networks ==
    [nodes : Seq(Nodes), edges : Seq(Edges), instances : Maps(Nat), domains : Seq(STRING),
     domainMap : Maps(STRING)]

(* A finished network. *)
NetworkSound(nw) == nw \in Networks /\ NamesRight(nw) /\ PortsRight(nw) /\ EndsRight(nw)

(* A pipe is being elaborated, after its children. *)
Elaborating ==
    /\ IsProgram(program)
    /\ pipe \in Pipes
    /\ \A p \in DOMAIN networks : networks[p] = Failed \/ NetworkSound(networks[p])
    /\ Children(pipe) \ {pipe} \subseteq DOMAIN networks

Binds == [port : STRING, target : Names]

LEMMA InstTyped ==
    ASSUME Elaborating, NEW i \in DOMAIN insts
    PROVE  /\ i \in Nat \ {0}
           /\ insts[i].of \in STRING /\ insts[i].of \in Parts
           /\ insts[i].domain \in STRING
           /\ insts[i].bind \in Seq(Binds)
<1>1. insts \in Seq(InstDecls)
  BY DEF Elaborating, IsProgram, insts, Pipes
<1>2. insts[i] \in InstDecls
  BY <1>1
<1>3. i \in 1 .. Len(insts) /\ Len(insts) \in Nat
  BY <1>1
<1>4. i \in Nat \ {0}
  BY <1>3
<1>5. /\ insts[i].of \in STRING /\ insts[i].domain \in STRING
      /\ insts[i].bind \in Seq(Binds)
  BY <1>2 DEF InstDecls, Binds
<1>6. insts[i].of \in Parts
  BY <1>5 DEF Parts
<1> QED
  BY <1>4, <1>5, <1>6

LEMMA PrefixTyped ==
    ASSUME NEW w, NEW of \in STRING, NEW i \in Nat \ {0}
    PROVE  Suffixed(w, of, i) \in Names /\ Len(Suffixed(w, of, i)) >= 1
<1>1. of \in Parts
  BY DEF Parts
<1>2. <<of>> \in Seq(Parts) /\ Len(<<of>>) = 1
  BY <1>1, Single
<1>3. Numbered(of, i) \in Names /\ Len(Numbered(of, i)) = i
  BY NumberedIn
<1>4. CASE <<of>> \in DOMAIN w.instances
  BY <1>3, <1>4 DEF Suffixed
<1>5. CASE <<of>> \notin DOMAIN w.instances
  BY <1>2, <1>5 DEF Suffixed, Names
<1> QED
  BY <1>4, <1>5

(* f is w.instances, and names the next node. *)
NextNamed(w, name, f) ==
    /\ f \in Maps(Nat)
    /\ DOMAIN f = DOMAIN w.instances \union {name}
    /\ f[name] = Len(w.nodes) + 1
    /\ \A x \in DOMAIN w.instances : x # name => f[x] = w.instances[x]

LEMMA NextIsNamed ==
    ASSUME NEW w, Sound(w), NEW name \in Names
    PROVE  NextNamed(w, name, With(w.instances, name, Len(w.nodes) + 1))
<1>1. w.instances \in Maps(Nat) /\ Len(w.nodes) \in Nat
  BY DEF Sound, Works
<1>2. PICK n \in Nat : n = Len(w.nodes) + 1
  BY <1>1
<1>3. NextNamed(w, name, With(w.instances, name, n))
  BY ZenonT(30), <1>1, <1>2, WithNumber DEF NextNamed
<1> QED
  BY <1>2, <1>3

LEMMA NodeAddedGrows ==
    ASSUME NEW w, Sound(w), w.dead = {}, NEW name \in Names, NEW node \in Nodes, node.name = name,
           \A k \in DOMAIN node.ports : node.ports[k].bound = 0,
           NEW added, NextNamed(w, name, added),
           NEW v, v = [w EXCEPT !.nodes = Append(w.nodes, node), !.instances = added]
    PROVE  /\ Grows(w, v)
           /\ v.nodes = Append(w.nodes, node) /\ v.edges = w.edges /\ v.pending = w.pending
           /\ v.queueEdge = w.queueEdge
<1>1. w.nodes \in Seq(Nodes) /\ w.instances \in Maps(Nat) /\ w.edges \in Seq(Edges)
  BY DEF Sound, Works
<1>2. /\ Append(w.nodes, node) \in Seq(Nodes) /\ Longer(w.nodes, Append(w.nodes, node))
      /\ Append(w.nodes, node)[Len(w.nodes) + 1] = node
      /\ DOMAIN Append(w.nodes, node) = DOMAIN w.nodes \union {Len(w.nodes) + 1}
  BY <1>1, AppendIsLonger
<1>4. /\ added \in Maps(Nat)
      /\ DOMAIN added = DOMAIN w.instances \union {name}
      /\ added[name] = Len(w.nodes) + 1
      /\ \A y \in DOMAIN w.instances : y # name => added[y] = w.instances[y]
  BY DEF NextNamed
<1>9. /\ v.nodes = Append(w.nodes, node) /\ v.edges = w.edges
       /\ v.instances = added
       /\ v.subs = w.subs /\ v.pending = w.pending /\ v.queueEdge = w.queueEdge /\ v.dead = {}
  BY DEF Sound, Works
<1>10. v \in Works
  BY <1>2, <1>4 DEF Sound, Works
<1>11. Longer(w.nodes, v.nodes) /\ Longer(w.edges, v.edges)
  BY <1>1, <1>2, <1>9, SameIsLonger
<1>12. 0 \in 0 .. Len(v.edges)
  BY <1>1, <1>9
<1>13. \A n \in DOMAIN v.nodes \ DOMAIN w.nodes : \A k \in DOMAIN v.nodes[n].ports :
               v.nodes[n].ports[k].bound \in 0 .. Len(v.edges)
  BY <1>2, <1>9, <1>12
<1>14. \A e \in DOMAIN v.edges \ DOMAIN w.edges :
               v.edges[e].src \in DOMAIN v.nodes /\ v.edges[e].dst \in DOMAIN v.nodes
  BY <1>9
<1>15. \A x \in DOMAIN v.instances :
               \/ x \in DOMAIN w.instances /\ v.instances[x] = w.instances[x]
               \/ v.instances[x] \in DOMAIN v.nodes /\ v.nodes[v.instances[x]].name = x
  <2>1. Len(w.nodes) + 1 \in DOMAIN v.nodes /\ v.nodes[Len(w.nodes) + 1] = node
    BY <1>2, <1>9
  <2> QED
    BY <1>4, <1>9, <2>1
<1>16. /\ NamesRight(v) /\ PortsRight(v) /\ EndsRight(v)
       /\ v.queueEdge = w.queueEdge => QueuesRight(v)
       /\ v.pending = w.pending => (CellsRight(w) => CellsRight(v))
  BY <1>10, <1>11, <1>13, <1>14, <1>15, MoreIsConsistent
<1> QED
  BY <1>9, <1>10, <1>16 DEF Grows, Sound, QueuesNamed, SubsNamed, DeadRight

LEMMA AddProcessGrows ==
    ASSUME Elaborating, NEW w, Sound(w), w.dead = {}, NEW i \in DOMAIN insts, insts[i].of \in Processes
    PROVE  Grows(w, AddProcess(w, i))
<1> DEFINE of == insts[i].of
           name == Suffixed(w, of, i)
           decls == program.procs[of].ports
           unbound(port) == [name |-> port.name, kind |-> port.kind, bound |-> 0]
           ports == [k \in DOMAIN decls |-> unbound(decls[k])]
           node == [name |-> name, process |-> of, stub |-> program.procs[of].memory, ports |-> ports]
           v == AddProcess(w, i)
<1>1. v = [w EXCEPT !.nodes = Append(w.nodes, node),
                    !.instances = With(w.instances, name, Len(w.nodes) + 1)]
  BY DEF AddProcess
<1>2. name \in Names /\ of \in Parts
  BY InstTyped, PrefixTyped
<1>3. decls \in Seq(PortDecls) /\ program.procs[of].memory \in BOOLEAN
  BY DEF Elaborating, IsProgram, Processes
<1> HIDE DEF decls
<1>4. ASSUME NEW port \in PortDecls
      PROVE  unbound(port) \in Ports /\ unbound(port).bound = 0
  BY DEF PortDecls, Ports
<1> HIDE DEF unbound
<1>5. ports \in Seq(Ports) /\ \A k \in DOMAIN ports : ports[k].bound = 0
  <2>1. \A k \in DOMAIN decls : decls[k] \in PortDecls
    BY <1>3
  <2>2. ports \in [DOMAIN decls -> Ports] /\ \A k \in DOMAIN ports : ports[k].bound = 0
    BY <1>4, <2>1
  <2> HIDE DEF ports
  <2> QED
    BY <1>3, <2>2, SameLength
<1> HIDE DEF ports
<1>6. node \in Nodes /\ node.name = name /\ node.ports = ports
  BY <1>2, <1>3, <1>5 DEF Nodes
<1>7. \A k \in DOMAIN node.ports : node.ports[k].bound = 0
  BY <1>5, <1>6
<1> DEFINE added == With(w.instances, name, Len(w.nodes) + 1)
<1>8. v = [w EXCEPT !.nodes = Append(w.nodes, node), !.instances = added]
  BY <1>1
<1> HIDE DEF node, name, of, v
<1>9. NextNamed(w, name, added)
  BY <1>2, NextIsNamed
<1> HIDE DEF added
<1>10. Grows(w, v)
  BY <1>2, <1>6, <1>7, <1>8, <1>9, NodeAddedGrows
<1> QED
  BY <1>10 DEF v

(* The nodes ns, the edges es, the names im of the nodes and the           *)
(* substitutions ss can be put after those of w.                           *)
Merging(w, ns, es, im, ss) ==
    /\ \A k \in DOMAIN ns : \A p \in DOMAIN ns[k].ports :
          ns[k].ports[p].bound \in 0 .. Len(w.edges) + Len(es)
    /\ \A e \in DOMAIN es : /\ \E k \in DOMAIN ns : es[e].src = k + Len(w.nodes)
                            /\ \E k \in DOMAIN ns : es[e].dst = k + Len(w.nodes)
    /\ \A name \in DOMAIN im :
          \E k \in DOMAIN ns : im[name] = k + Len(w.nodes) /\ ns[k].name = name
    /\ \A k \in DOMAIN ss : Len(ss[k][1]) >= 2

LEMMA MergedGrows ==
    ASSUME NEW w, Sound(w), w.dead = {},
           NEW ns \in Seq(Nodes), NEW es \in Seq(Edges), NEW im \in Maps(Nat),
           NEW dm \in Maps(STRING), NEW ss \in Seq(Names \X Names), Merging(w, ns, es, im, ss)
    PROVE  Grows(w, [w EXCEPT !.nodes = w.nodes \o ns, !.edges = w.edges \o es,
                              !.instances = Over(im, w.instances),
                              !.childDomains = Over(dm, w.childDomains), !.subs = w.subs \o ss])
<1>1. /\ w.nodes \in Seq(Nodes) /\ w.edges \in Seq(Edges) /\ w.instances \in Maps(Nat)
      /\ w.childDomains \in Maps(STRING) /\ w.subs \in Seq(Names \X Names)
  BY DEF Sound, Works
<1> DEFINE nodes == w.nodes \o ns
           edges == w.edges \o es
           subs == w.subs \o ss
           im1 == Over(im, w.instances)
           dm1 == Over(dm, w.childDomains)
           v == [w EXCEPT !.nodes = nodes, !.edges = edges, !.instances = im1, !.childDomains = dm1,
                          !.subs = subs]
<1>2. /\ nodes \in Seq(Nodes) /\ Longer(w.nodes, nodes)
      /\ \A i \in DOMAIN nodes \ DOMAIN w.nodes :
            i - Len(w.nodes) \in DOMAIN ns /\ nodes[i] = ns[i - Len(w.nodes)]
      /\ \A k \in DOMAIN ns : k + Len(w.nodes) \in DOMAIN nodes /\ nodes[k + Len(w.nodes)] = ns[k]
  BY SMTT(30), <1>1, ConcatIsLonger
<1>3. /\ edges \in Seq(Edges) /\ Longer(w.edges, edges) /\ Len(edges) = Len(w.edges) + Len(es)
      /\ \A i \in DOMAIN edges \ DOMAIN w.edges :
            i - Len(w.edges) \in DOMAIN es /\ edges[i] = es[i - Len(w.edges)]
  BY <1>1, ConcatIsLonger
<1>4. /\ subs \in Seq(Names \X Names) /\ Longer(w.subs, subs)
      /\ \A i \in DOMAIN subs \ DOMAIN w.subs :
            i - Len(w.subs) \in DOMAIN ss /\ subs[i] = ss[i - Len(w.subs)]
  BY <1>1, ConcatIsLonger
<1>5. /\ im1 \in Maps(Nat) /\ DOMAIN im1 = DOMAIN im \union DOMAIN w.instances
      /\ \A x \in DOMAIN im : im1[x] = im[x]
      /\ \A x \in DOMAIN w.instances \ DOMAIN im : im1[x] = w.instances[x]
  <2>1. im1 \in Maps(Nat)
    BY <1>1, OverIn
  <2> QED
    BY <2>1 DEF Over
<1>6. dm1 \in Maps(STRING)
  BY <1>1, OverIn
<1> HIDE DEF nodes, edges, subs, im1, dm1
<1>8. /\ v.nodes = nodes /\ v.edges = edges /\ v.instances = im1 /\ v.subs = subs
      /\ v.pending = w.pending /\ v.queueEdge = w.queueEdge /\ v.dead = {}
  BY DEF Sound, Works
<1>9. v \in Works
  BY <1>2, <1>3, <1>4, <1>5, <1>6 DEF Sound, Works
<1> HIDE DEF v
<1>10. \A n \in DOMAIN v.nodes \ DOMAIN w.nodes : \A k \in DOMAIN v.nodes[n].ports :
               v.nodes[n].ports[k].bound \in 0 .. Len(v.edges)
  BY SMTT(30), <1>2, <1>3, <1>8 DEF Merging
<1>11. \A e \in DOMAIN v.edges \ DOMAIN w.edges :
               v.edges[e].src \in DOMAIN v.nodes /\ v.edges[e].dst \in DOMAIN v.nodes
  <2> TAKE e \in DOMAIN v.edges \ DOMAIN w.edges
  <2>1. PICK x \in DOMAIN es : v.edges[e] = es[x]
    BY <1>3, <1>8
  <2>2. /\ \E k \in DOMAIN ns : v.edges[e].src = k + Len(w.nodes)
        /\ \E k \in DOMAIN ns : v.edges[e].dst = k + Len(w.nodes)
    BY <2>1 DEF Merging
  <2>3. \A k \in DOMAIN ns : k + Len(w.nodes) \in DOMAIN v.nodes
    BY <1>2, <1>8
  <2> QED
    BY <2>2, <2>3
<1>12. \A x \in DOMAIN v.instances :
               \/ x \in DOMAIN w.instances /\ v.instances[x] = w.instances[x]
               \/ v.instances[x] \in DOMAIN v.nodes /\ v.nodes[v.instances[x]].name = x
  BY <1>2, <1>5, <1>8 DEF Merging
<1>13. Longer(w.nodes, v.nodes) /\ Longer(w.edges, v.edges)
  BY <1>2, <1>3, <1>8
<1>14. SubsNamed(v)
  BY <1>4, <1>8 DEF Sound, SubsNamed, Longer, Merging
<1>15. /\ NamesRight(v) /\ PortsRight(v) /\ EndsRight(v)
       /\ v.queueEdge = w.queueEdge => QueuesRight(v)
       /\ v.pending = w.pending => (CellsRight(w) => CellsRight(v))
  BY <1>9, <1>10, <1>11, <1>12, <1>13, MoreIsConsistent
<1> QED
  <2>1. Grows(w, v)
    BY <1>8, <1>9, <1>14, <1>15 DEF Grows, Sound, QueuesNamed, DeadRight
  <2> QED
    BY <2>1 DEF v, nodes, edges, subs, im1, dm1

LEMMA PrefixedIn == ASSUME NEW p \in Names, NEW x \in Names PROVE p \o x \in Names
  BY DEF Names

LEMMA AppendedIn ==
    ASSUME NEW p \in Names, Len(p) >= 1, NEW x \in Parts
    PROVE  Append(p, x) \in Names /\ Len(Append(p, x)) >= 2
<1>1. p \in Seq(Parts)
  BY DEF Names
<1>2. Append(p, x) \in Seq(Parts) /\ Len(Append(p, x)) = Len(p) + 1 /\ Len(p) \in Nat
  BY <1>1
<1> QED
  BY <1>2 DEF Names

(* A node and an edge of a child pipe, after n nodes and e edges. *)
MergedNode(x, prefix, e) ==
    LET port(p) == [p EXCEPT !.bound = IF p.bound = 0 THEN 0 ELSE p.bound + e]
    IN  [x EXCEPT !.name = prefix \o x.name,
                  !.ports = [k \in DOMAIN x.ports |-> port(x.ports[k])]]
MergedEdge(x, prefix, n) ==
    [x EXCEPT !.name = prefix \o x.name, !.src = x.src + n, !.dst = x.dst + n,
              !.peekers = [k \in DOMAIN x.peekers |-> prefix \o x.peekers[k]]]

LEMMA NodeMerged ==
    ASSUME NEW x \in Nodes, NEW prefix \in Names, NEW e \in Nat, NEW m \in Nat,
           \A k \in DOMAIN x.ports : x.ports[k].bound \in 0 .. m
    PROVE  LET y == MergedNode(x, prefix, e) IN
           /\ y \in Nodes /\ y.name = prefix \o x.name
           /\ \A k \in DOMAIN y.ports : y.ports[k].bound \in 0 .. e + m
<1> DEFINE port(p) == [p EXCEPT !.bound = IF p.bound = 0 THEN 0 ELSE p.bound + e]
           ports == [k \in DOMAIN x.ports |-> port(x.ports[k])]
           name == prefix \o x.name
           y == [x EXCEPT !.name = name, !.ports = ports]
<1>1. x.ports \in Seq(Ports) /\ x.name \in Names
  BY DEF Nodes
<1>2. \A k \in DOMAIN x.ports : x.ports[k] \in Ports
  BY <1>1
<1>3. ASSUME NEW p \in Ports PROVE port(p) \in Ports /\ port(p).bound = IF p.bound = 0 THEN 0 ELSE p.bound + e
  BY DEF Ports
<1>4. \A k \in DOMAIN x.ports : port(x.ports[k]) \in Ports /\ port(x.ports[k]).bound \in 0 .. e + m
  <2> TAKE k \in DOMAIN x.ports
  <2>1. x.ports[k] \in Ports /\ x.ports[k].bound \in 0 .. m
    BY <1>2
  <2>2. /\ port(x.ports[k]) \in Ports
        /\ port(x.ports[k]).bound = IF x.ports[k].bound = 0 THEN 0 ELSE x.ports[k].bound + e
    BY <1>3, <2>1
  <2> HIDE DEF port
  <2> QED
    BY <2>1, <2>2
<1> HIDE DEF port
<1>5. /\ ports \in [DOMAIN x.ports -> Ports]
      /\ \A k \in DOMAIN ports : ports[k].bound \in 0 .. e + m
  BY <1>4
<1> HIDE DEF ports
<1>6. ports \in Seq(Ports)
  BY <1>1, <1>5, SameLength
<1>7. name \in Names
  BY <1>1, PrefixedIn
<1> HIDE DEF name
<1>8. y \in Nodes /\ y.name = name /\ y.ports = ports
  BY <1>6, <1>7 DEF Nodes
<1> HIDE DEF y
<1>9. y \in Nodes /\ y.name = name /\ \A k \in DOMAIN y.ports : y.ports[k].bound \in 0 .. e + m
  BY <1>5, <1>8
<1> QED
  BY <1>9 DEF y, name, ports, port, MergedNode

LEMMA EdgeMerged ==
    ASSUME NEW x \in Edges, NEW prefix \in Names, NEW n \in Nat
    PROVE  LET y == MergedEdge(x, prefix, n) IN
           y \in Edges /\ y.src = x.src + n /\ y.dst = x.dst + n
<1> DEFINE peekers == [k \in DOMAIN x.peekers |-> prefix \o x.peekers[k]]
           name == prefix \o x.name
           y == [x EXCEPT !.name = name, !.src = x.src + n, !.dst = x.dst + n, !.peekers = peekers]
<1>1. x.peekers \in Seq(Names) /\ x.name \in Names /\ x.src \in Nat /\ x.dst \in Nat
  BY DEF Edges
<1>2. \A k \in DOMAIN x.peekers : x.peekers[k] \in Names
  BY <1>1
<1>3. \A k \in DOMAIN x.peekers : prefix \o x.peekers[k] \in Names
  BY <1>2, PrefixedIn
<1>4. peekers \in [DOMAIN x.peekers -> Names]
  BY <1>3
<1> HIDE DEF peekers
<1>5. peekers \in Seq(Names)
  BY <1>1, <1>4, SameLength
<1>6. name \in Names
  BY <1>1, PrefixedIn
<1> HIDE DEF name
<1>7. x.src + n \in Nat /\ x.dst + n \in Nat
  BY <1>1
<1>8. y \in Edges /\ y.src = x.src + n /\ y.dst = x.dst + n
  BY <1>5, <1>6, <1>7 DEF Edges
<1> QED
  BY <1>8 DEF y, name, peekers, MergedEdge

LEMMA MergeChildGrows ==
    ASSUME Elaborating, NEW w, Sound(w), w.dead = {}, NEW i \in DOMAIN insts,
           insts[i].of \in Pipes, insts[i].of # pipe, networks[insts[i].of] # Failed
    PROVE  Grows(w, MergeChild(w, i))
<1> DEFINE child  == networks[insts[i].of]
           prefix == Suffixed(w, insts[i].of, i)
           n == Len(w.nodes)
           e == Len(w.edges)
           m == Len(child.edges)
           node(x) == MergedNode(x, prefix, e)
           edge(x) == MergedEdge(x, prefix, n)
           domain(name) == IF insts[i].domain # "" THEN insts[i].domain ELSE child.domainMap[name]
           ns == [k \in DOMAIN child.nodes |-> node(child.nodes[k])]
           es == [k \in DOMAIN child.edges |-> edge(child.edges[k])]
           imOf(name) == CHOOSE x \in DOMAIN child.instances : prefix \o x = name
           dmOf(name) == CHOOSE x \in DOMAIN child.domainMap : prefix \o x = name
           im == [name \in {prefix \o x : x \in DOMAIN child.instances} |->
                     child.instances[imOf(name)] + n]
           dm == [name \in {prefix \o x : x \in DOMAIN child.domainMap} |-> domain(dmOf(name))]
           bind == insts[i].bind
           ss == [b \in DOMAIN bind |-> <<Append(prefix, bind[b].port), bind[b].target>>]
<1>1. MergeChild(w, i) = [w EXCEPT !.nodes = w.nodes \o ns, !.edges = w.edges \o es,
                                   !.instances = Over(im, w.instances),
                                   !.childDomains = Over(dm, w.childDomains), !.subs = w.subs \o ss]
  BY DEF MergeChild, MergedNode, MergedEdge
<1>2. NetworkSound(child)
  <2>1. insts[i].of \in Children(pipe) \ {pipe}
    BY DEF Children, insts
  <2> QED
    BY <2>1 DEF Elaborating
<1>3. prefix \in Names /\ Len(prefix) >= 1
  BY InstTyped, PrefixTyped
<1>4. /\ child.nodes \in Seq(Nodes) /\ child.edges \in Seq(Edges) /\ child.instances \in Maps(Nat)
      /\ child.domainMap \in Maps(STRING)
  BY <1>2 DEF NetworkSound, Networks
<1>5. NamesRight(child) /\ PortsRight(child) /\ EndsRight(child)
  BY <1>2 DEF NetworkSound
<1>6. n \in Nat /\ e \in Nat /\ m \in Nat
  <2>1. w.nodes \in Seq(Nodes) /\ w.edges \in Seq(Edges)
    BY DEF Sound, Works
  <2> QED
    BY <1>4, <2>1
<1>7. insts[i].domain \in STRING /\ bind \in Seq(Binds)
  BY InstTyped
<1> HIDE DEF child, prefix, n, e, m, bind
<1>8. ASSUME NEW k \in DOMAIN child.nodes
      PROVE  /\ node(child.nodes[k]) \in Nodes
             /\ node(child.nodes[k]).name = prefix \o child.nodes[k].name
             /\ \A p \in DOMAIN node(child.nodes[k]).ports :
                   node(child.nodes[k]).ports[p].bound \in 0 .. e + m
  <2>1. child.nodes[k] \in Nodes
    BY <1>4
  <2>2. \A p \in DOMAIN child.nodes[k].ports : child.nodes[k].ports[p].bound \in 0 .. m
    BY <1>5 DEF PortsRight, m
  <2> QED
    BY <1>3, <1>6, <2>1, <2>2, NodeMerged
<1> HIDE DEF node
<1>9. /\ ns \in Seq(Nodes) /\ DOMAIN ns = DOMAIN child.nodes
      /\ \A k \in DOMAIN child.nodes : ns[k] = node(child.nodes[k])
  <2>1. ns \in [DOMAIN child.nodes -> Nodes]
    BY <1>8
  <2>2. \A k \in DOMAIN child.nodes : ns[k] = node(child.nodes[k])
    OBVIOUS
  <2> HIDE DEF ns
  <2> QED
    BY <1>4, <2>1, <2>2, SameLength
<1>10. ASSUME NEW k \in DOMAIN child.edges
       PROVE  /\ edge(child.edges[k]) \in Edges
              /\ edge(child.edges[k]).src = child.edges[k].src + n
              /\ edge(child.edges[k]).dst = child.edges[k].dst + n
  <2>1. child.edges[k] \in Edges
    BY <1>4
  <2> QED
    BY <1>3, <1>6, <2>1, EdgeMerged
<1> HIDE DEF edge
<1>11. /\ es \in Seq(Edges) /\ DOMAIN es = DOMAIN child.edges /\ Len(es) = m
       /\ \A k \in DOMAIN child.edges : es[k] = edge(child.edges[k])
  <2>1. es \in [DOMAIN child.edges -> Edges]
    BY <1>10
  <2>2. \A k \in DOMAIN child.edges : es[k] = edge(child.edges[k])
    OBVIOUS
  <2> HIDE DEF es
  <2> QED
    BY <1>4, <2>1, <2>2, SameLength DEF m
<1> HIDE DEF ns, es
<1>12. /\ DOMAIN child.instances \subseteq Names /\ DOMAIN child.domainMap \subseteq Names
       /\ \A x \in DOMAIN child.instances : child.instances[x] \in Nat
       /\ \A x \in DOMAIN child.domainMap : child.domainMap[x] \in STRING
  BY <1>4, MapsIn
<1>13. ASSUME NEW name \in {prefix \o x : x \in DOMAIN child.instances}
       PROVE  /\ imOf(name) \in DOMAIN child.instances /\ prefix \o imOf(name) = name
              /\ name \in Names /\ child.instances[imOf(name)] + n \in Nat
  <2>1. imOf(name) \in DOMAIN child.instances /\ prefix \o imOf(name) = name
    OBVIOUS
  <2> HIDE DEF imOf
  <2>2. name \in Names
    BY <1>3, <1>12, <2>1, PrefixedIn
  <2> QED
    BY <1>6, <1>12, <2>1, <2>2
<1> HIDE DEF imOf
<1>14. im \in Maps(Nat)
  <2> DEFINE D == {prefix \o x : x \in DOMAIN child.instances}
  <2>1. D \subseteq Names /\ \A name \in D : child.instances[imOf(name)] + n \in Nat
    BY <1>13
  <2> HIDE DEF D
  <2>2. [name \in D |-> child.instances[imOf(name)] + n] \in [D -> Nat]
    BY <2>1
  <2> QED
    BY <2>1, <2>2 DEF Maps, D
<1>15. ASSUME NEW name \in {prefix \o x : x \in DOMAIN child.domainMap}
       PROVE  name \in Names /\ domain(dmOf(name)) \in STRING
  <2>1. dmOf(name) \in DOMAIN child.domainMap /\ prefix \o dmOf(name) = name
    OBVIOUS
  <2> HIDE DEF dmOf
  <2>2. name \in Names
    BY <1>3, <1>12, <2>1, PrefixedIn
  <2> QED
    BY <1>7, <1>12, <2>1, <2>2
<1> HIDE DEF dmOf, domain
<1>16. dm \in Maps(STRING)
  <2> DEFINE D == {prefix \o x : x \in DOMAIN child.domainMap}
  <2>1. D \subseteq Names /\ \A name \in D : domain(dmOf(name)) \in STRING
    BY <1>15
  <2> HIDE DEF D
  <2>2. [name \in D |-> domain(dmOf(name))] \in [D -> STRING]
    BY <2>1
  <2> QED
    BY <2>1, <2>2 DEF Maps, D
<1>17. ASSUME NEW b \in DOMAIN bind
       PROVE  /\ <<Append(prefix, bind[b].port), bind[b].target>> \in Names \X Names
              /\ Len(Append(prefix, bind[b].port)) >= 2
  <2>1. bind[b] \in Binds
    BY <1>7
  <2>2. bind[b].port \in STRING /\ bind[b].target \in Names
    BY <2>1 DEF Binds
  <2>4. bind[b].port \in Parts
    BY <2>2 DEF Parts
  <2>3. Append(prefix, bind[b].port) \in Names /\ Len(Append(prefix, bind[b].port)) >= 2
    BY <1>3, <2>4, AppendedIn
  <2> QED
    BY <2>2, <2>3
<1>18. ss \in Seq(Names \X Names) /\ \A b \in DOMAIN ss : Len(ss[b][1]) >= 2
  <2>1. ss \in [DOMAIN bind -> Names \X Names] /\ \A b \in DOMAIN ss : Len(ss[b][1]) >= 2
    BY <1>17
  <2> HIDE DEF ss
  <2> QED
    BY <1>7, <2>1, SameLength
<1>19. \A name \in DOMAIN im : \E k \in DOMAIN ns : im[name] = k + n /\ ns[k].name = name
  <2> TAKE name \in DOMAIN im
  <2>1. /\ imOf(name) \in DOMAIN child.instances /\ prefix \o imOf(name) = name
        /\ im[name] = child.instances[imOf(name)] + n
    BY <1>13
  <2> HIDE DEF im
  <2> DEFINE k == child.instances[imOf(name)]
  <2>2. k \in DOMAIN child.nodes /\ child.nodes[k].name = imOf(name)
    BY <1>5, <2>1 DEF NamesRight
  <2>3. ns[k].name = name
    BY <1>8, <1>9, <2>1, <2>2
  <2> QED
    BY <1>9, <2>1, <2>2, <2>3
<1> HIDE DEF im, dm, ss
<1>20. \A k \in DOMAIN ns : \A p \in DOMAIN ns[k].ports : ns[k].ports[p].bound \in 0 .. e + Len(es)
  BY <1>8, <1>9, <1>11
<1>21. \A x \in DOMAIN es : /\ \E k \in DOMAIN ns : es[x].src = k + n
                            /\ \E k \in DOMAIN ns : es[x].dst = k + n
  <2> TAKE x \in DOMAIN es
  <2>1. es[x].src = child.edges[x].src + n /\ es[x].dst = child.edges[x].dst + n
    BY <1>10, <1>11
  <2>2. child.edges[x].src \in DOMAIN ns /\ child.edges[x].dst \in DOMAIN ns
    BY <1>5, <1>9, <1>11 DEF EndsRight
  <2> QED
    BY <2>1, <2>2
<1>22. Merging(w, ns, es, im, ss)
  BY <1>18, <1>19, <1>20, <1>21 DEF Merging, n, e
<1>23. Grows(w, [w EXCEPT !.nodes = w.nodes \o ns, !.edges = w.edges \o es,
                          !.instances = Over(im, w.instances),
                          !.childDomains = Over(dm, w.childDomains), !.subs = w.subs \o ss])
  BY <1>9, <1>11, <1>14, <1>16, <1>18, <1>22, MergedGrows, Zenon
<1> QED
  BY <1>1, <1>23, Zenon

LEMMA AddInstanceGrows ==
    ASSUME Elaborating, NEW w, Sound(w), w.dead = {}, NEW i \in DOMAIN insts
    PROVE  Grows(w, AddInstance(w, i))
<1> DEFINE of == insts[i].of
<1>1. CASE of \in Pipes /\ (of = pipe \/ networks[of] = Failed)
  BY <1>1, ErrorGrows DEF AddInstance
<1>2. CASE of \in Pipes /\ of # pipe /\ networks[of] # Failed
  BY <1>2, MergeChildGrows DEF AddInstance
<1>3. CASE of \in Processes \ Pipes
  BY <1>3, AddProcessGrows DEF AddInstance
<1>4. CASE of \notin Pipes /\ of \notin Processes
  BY <1>4, ErrorGrows DEF AddInstance
<1> QED
  BY <1>1, <1>2, <1>3, <1>4

-----------------------------------------------------------------------------
(* Clock domains, and queues.                                              *)

LEMMA SameNetworkGrows ==
    ASSUME NEW w, Sound(w), w.dead = {}, NEW v \in Works, v.nodes = w.nodes, v.edges = w.edges,
           v.instances = w.instances, v.subs = w.subs, v.pending = w.pending,
           v.queueEdge = w.queueEdge, v.dead = {}
    PROVE  Grows(w, v)
  BY DEF Grows, Sound, NamesRight, PortsRight, EndsRight, QueuesNamed, QueuesRight, SubsNamed,
     DeadRight, CellsRight

LEMMA InstanceFound ==
    ASSUME NEW w, Sound(w), NEW of, NEW i, find_instance_name(w, of, i) # None
    PROVE  LET name == find_instance_name(w, of, i) IN
           /\ name \in DOMAIN w.instances /\ name \in Names
           /\ w.instances[name] \in DOMAIN w.nodes
<1>1. find_instance_name(w, of, i) \in DOMAIN w.instances
  BY DEF find_instance_name
<1>2. DOMAIN w.instances \subseteq Names
  BY MapsIn DEF Sound, Works
<1> QED
  BY <1>1, <1>2 DEF Sound, NamesRight

LEMMA CollectDomainsGrows ==
    ASSUME Elaborating, NEW w, Sound(w), w.dead = {}
    PROVE  Grows(w, CollectDomains(w))
<1> DEFINE name(i) == find_instance_name(w, insts[i].of, i)
           found   == {i \in DOMAIN insts : name(i) # None}
           unknown == {i \in found : insts[i].domain \notin {""} \union ToSet(domainDecls)}
           those(x) == {i \in found \ unknown : name(i) = x}
           own == [x \in {name(i) : i \in found \ unknown} |-> insts[Max(those(x))].domain]
           failed == \/ w.failed \/ unknown # {}
                     \/ Cardinality(ToSet(domainDecls)) < Len(domainDecls)
           dm == Over(w.childDomains, own)
           v == [w EXCEPT !.domainMap = dm, !.failed = failed]
<1>1. CollectDomains(w) = v
  BY DEF CollectDomains
<1>2. found \ unknown \subseteq DOMAIN insts
  OBVIOUS
<1>3. \A i \in found \ unknown : name(i) \in Names
  BY InstanceFound
<1> HIDE DEF found, unknown, name
<1>4. ASSUME NEW x \in {name(i) : i \in found \ unknown}
      PROVE  x \in Names /\ insts[Max(those(x))].domain \in STRING
  <2>1. x \in Names
    BY <1>3
  <2>2. those(x) # {} /\ those(x) \subseteq DOMAIN insts
    BY <1>2
  <2>3. Max(those(x)) \in DOMAIN insts
    <3>1. insts \in Seq(InstDecls)
      BY DEF Elaborating, IsProgram, insts, Pipes
    <3>2. DOMAIN insts = 1 .. Len(insts) /\ Len(insts) \in Nat
      BY <3>1
    <3> HIDE DEF those
    <3>3. Max(those(x)) \in those(x)
      BY <2>2, <3>2, MaxIsIn
    <3> QED
      BY <2>2, <3>3
  <2> QED
    BY <2>1, <2>3, InstTyped
<1> HIDE DEF those
<1>5. own \in Maps(STRING)
  <2> DEFINE D == {name(i) : i \in found \ unknown}
  <2>1. D \subseteq Names /\ \A x \in D : insts[Max(those(x))].domain \in STRING
    BY <1>4
  <2> HIDE DEF D
  <2>2. [x \in D |-> insts[Max(those(x))].domain] \in [D -> STRING]
    BY <2>1
  <2> QED
    BY <2>1, <2>2 DEF Maps, D
<1> HIDE DEF own
<1>6. w.childDomains \in Maps(STRING)
  BY DEF Sound, Works
<1>7. dm \in Maps(STRING)
  BY <1>5, <1>6, OverIn
<1> HIDE DEF dm
<1>8. failed \in BOOLEAN
  BY DEF Sound, Works
<1> HIDE DEF failed
<1>9. /\ v \in Works /\ v.nodes = w.nodes /\ v.edges = w.edges /\ v.instances = w.instances
      /\ v.subs = w.subs /\ v.pending = w.pending /\ v.queueEdge = w.queueEdge /\ v.dead = {}
  BY <1>7, <1>8 DEF Sound, Works
<1> HIDE DEF v
<1>10. Grows(w, v)
  BY <1>9, SameNetworkGrows
<1> QED
  BY <1>1, <1>10

LEMMA PendingGrows ==
    ASSUME NEW w, Sound(w), w.dead = {}, NEW pm \in Maps(Pendings),
           DOMAIN w.pending \subseteq DOMAIN pm,
           \A q \in DOMAIN pm : pm[q].data.name = q,
           CellsRight(w) => \A q \in DOMAIN pm : pm[q].edge \in 0 .. Len(w.edges)
    PROVE  LET v == [w EXCEPT !.pending = pm] IN
           Grows(w, v) /\ v.pending = pm /\ v.nodes = w.nodes
<1> DEFINE v == [w EXCEPT !.pending = pm]
<1>1. /\ v \in Works /\ v.nodes = w.nodes /\ v.edges = w.edges /\ v.instances = w.instances
      /\ v.subs = w.subs /\ v.pending = pm /\ v.queueEdge = w.queueEdge /\ v.dead = {}
  BY DEF Sound, Works
<1> HIDE DEF v
<1>2. Grows(w, v)
  BY <1>1 DEF Grows, Sound, NamesRight, PortsRight, EndsRight, QueuesNamed, QueuesRight, SubsNamed,
     DeadRight, CellsRight
<1> QED
  BY <1>1, <1>2 DEF v

LEMMA PendingPut ==
    ASSUME NEW w, Sound(w), w.dead = {}, NEW q \in Names, NEW p \in Pendings, p.data.name = q,
           NEW m \in Nat, Len(w.edges) <= m, p.edge \in 0 .. m
    PROVE  LET pm == With(w.pending, q, p) IN
           /\ pm \in Maps(Pendings) /\ DOMAIN pm = DOMAIN w.pending \union {q}
           /\ \A x \in DOMAIN pm : pm[x].data.name = x
           /\ CellsRight(w) => \A x \in DOMAIN pm : pm[x].edge \in 0 .. m
<1> DEFINE pm == With(w.pending, q, p)
<1>1. w.pending \in Maps(Pendings)
  BY DEF Sound, Works
<1>2. /\ pm \in Maps(Pendings) /\ DOMAIN pm = DOMAIN w.pending \union {q}
      /\ pm[q] = p /\ \A x \in DOMAIN w.pending : x # q => pm[x] = w.pending[x]
  <2>1. pm \in Maps(Pendings)
    BY ZenonT(30), <1>1, WithIn
  <2> QED
    BY <2>1 DEF With, Over
<1> HIDE DEF pm
<1>3. \A x \in DOMAIN pm : pm[x].data.name = x
  BY <1>2 DEF Sound, QueuesNamed
<1>4. CellsRight(w) => \A x \in DOMAIN pm : pm[x].edge \in 0 .. m
  <2>1. \A x : x \in 0 .. Len(w.edges) => x \in 0 .. m
    BY DEF Sound, Works
  <2> QED
    BY <1>2, <2>1 DEF CellsRight
<1> QED
  BY <1>2, <1>3, <1>4 DEF pm

LEMMA DeclTyped ==
    ASSUME Elaborating, NEW k \in DOMAIN queueDecls
    PROVE  /\ queueDecls[k] \in QueueDecls
           /\ <<queueDecls[k].name>> \in Names /\ Len(<<queueDecls[k].name>>) = 1
<1>1. queueDecls \in Seq(QueueDecls)
  BY DEF Elaborating, IsProgram, queueDecls, Pipes
<1>2. queueDecls[k] \in QueueDecls
  BY <1>1
<1>3. queueDecls[k].name \in Parts
  BY <1>2 DEF QueueDecls, Parts
<1> QED
  BY <1>2, <1>3, Single DEF Names

LEMMA DeclareQueueGrows ==
    ASSUME Elaborating, NEW w, Sound(w), w.dead = {}, NEW k \in DOMAIN queueDecls
    PROVE  /\ Grows(w, DeclareQueue(w, k))
           /\ \/ DeclareQueue(w, k).failed
              \/ <<queueDecls[k].name>> \in DOMAIN DeclareQueue(w, k).pending
           /\ w.failed => DeclareQueue(w, k).failed
<1> DEFINE decl == queueDecls[k]
           q == <<decl.name>>
           data == [name |-> q, src |-> 0, dst |-> 0, elem |-> decl.elem,
                    kind |-> decl.kind, depth |-> IF decl.depth = 0 THEN 1 ELSE decl.depth,
                    init |-> decl.init, ext |-> decl.ext, peekers |-> <<>>]
           p == [edge |-> 0, data |-> data, writer |-> None, reader |-> None]
           pm == With(w.pending, q, p)
           v == [w EXCEPT !.pending = pm]
<1>1. DeclareQueue(w, k) = IF decl.kind = "async" /\ ~PowerOfTwo(decl.depth) THEN Error(w) ELSE v
  BY DEF DeclareQueue
<1>2. CASE decl.kind = "async" /\ ~PowerOfTwo(decl.depth)
  <2>1. Error(w).failed
    BY DEF Error, Sound, Works
  <2> QED
    BY <1>1, <1>2, <2>1, ErrorGrows
<1>3. CASE ~ (decl.kind = "async" /\ ~PowerOfTwo(decl.depth))
  <2>1. decl \in QueueDecls /\ q \in Names
    BY DeclTyped
  <2> HIDE DEF decl, q
  <2>2. /\ decl.elem \in Names /\ decl.kind \in STRING \union {"cell"} /\ decl.init \in Nat
        /\ decl.ext \in BOOLEAN /\ decl.depth \in Nat
    BY <2>1 DEF QueueDecls
  <2>3. <<>> \in Seq(Names) /\ None \in Names
    BY EmptySeq DEF Names, None
  <2>4. data \in Edges /\ data.name = q
    BY <2>1, <2>2, <2>3 DEF Edges
  <2> HIDE DEF data
  <2>5. p \in Pendings /\ p.data.name = q /\ p.edge = 0
    BY <2>3, <2>4 DEF Pendings
  <2> HIDE DEF p
  <2>6. p.edge \in 0 .. Len(w.edges) /\ Len(w.edges) \in Nat /\ Len(w.edges) <= Len(w.edges)
    BY <2>5 DEF Sound, Works
  <2>7. /\ pm \in Maps(Pendings) /\ DOMAIN pm = DOMAIN w.pending \union {q}
        /\ \A x \in DOMAIN pm : pm[x].data.name = x
        /\ CellsRight(w) => \A x \in DOMAIN pm : pm[x].edge \in 0 .. Len(w.edges)
    BY <2>1, <2>5, <2>6, PendingPut
  <2> HIDE DEF pm
  <2>8. Grows(w, v) /\ v.pending = pm
    BY <2>7, PendingGrows
  <2>9. v.failed = w.failed
    BY DEF Sound, Works
  <2>10. DeclareQueue(w, k) = v /\ q = <<queueDecls[k].name>>
    BY <1>1, <1>3 DEF decl, q
  <2> HIDE DEF v
  <2> QED
    BY <2>7, <2>8, <2>9, <2>10
<1> QED
  BY <1>2, <1>3

-----------------------------------------------------------------------------
(* Edges that are added.                                                   *)

EdgeAdded(w, data, pm, qe) ==
    [w EXCEPT !.edges = Append(w.edges, data), !.pending = pm, !.queueEdge = qe]

LEMMA EdgeAddedGrows ==
    ASSUME NEW w, Sound(w), w.dead = {}, NEW data \in Edges,
           data.src \in DOMAIN w.nodes, data.dst \in DOMAIN w.nodes,
           NEW pm \in Maps(Pendings), DOMAIN w.pending \subseteq DOMAIN pm,
           \A q \in DOMAIN pm : pm[q].data.name = q,
           CellsRight(w) => \A q \in DOMAIN pm : pm[q].edge \in 0 .. Len(w.edges) + 1,
           NEW qe \in Maps(Nat),
           \A q \in DOMAIN qe : \/ q \in DOMAIN w.queueEdge /\ qe[q] = w.queueEdge[q]
                                \/ Len(q) = 1 /\ qe[q] = Len(w.edges) + 1 /\ data.name = q
    PROVE  LET v == EdgeAdded(w, data, pm, qe) IN
           /\ Grows(w, v)
           /\ v.nodes = w.nodes /\ v.pending = pm /\ v.queueEdge = qe /\ v.subs = w.subs
           /\ v.instances = w.instances
           /\ Len(v.edges) = Len(w.edges) + 1 /\ Len(w.edges) + 1 \in DOMAIN v.edges
<1> DEFINE edges == Append(w.edges, data)
           v == [w EXCEPT !.edges = edges, !.pending = pm, !.queueEdge = qe]
<1>1. w.edges \in Seq(Edges) /\ w.nodes \in Seq(Nodes)
  BY DEF Sound, Works
<1>2. /\ edges \in Seq(Edges) /\ Longer(w.edges, edges)
      /\ Len(edges) = Len(w.edges) + 1 /\ edges[Len(w.edges) + 1] = data
      /\ DOMAIN edges = DOMAIN w.edges \union {Len(w.edges) + 1}
      /\ Len(w.edges) + 1 \in DOMAIN edges
  BY <1>1, AppendIsLonger
<1> HIDE DEF edges
<1>3. /\ v.nodes = w.nodes /\ v.edges = edges /\ v.instances = w.instances /\ v.subs = w.subs
      /\ v.pending = pm /\ v.queueEdge = qe /\ v.dead = {}
  BY DEF Sound, Works
<1>4. v \in Works
  BY <1>2 DEF Sound, Works
<1> HIDE DEF v
<1>5. Longer(w.nodes, v.nodes) /\ Longer(w.edges, v.edges)
  BY <1>1, <1>2, <1>3, SameIsLonger
<1>6. \A n \in DOMAIN v.nodes \ DOMAIN w.nodes : \A k \in DOMAIN v.nodes[n].ports :
               v.nodes[n].ports[k].bound \in 0 .. Len(v.edges)
  BY <1>3
<1>7. \A e \in DOMAIN v.edges \ DOMAIN w.edges :
               v.edges[e].src \in DOMAIN v.nodes /\ v.edges[e].dst \in DOMAIN v.nodes
  BY <1>2, <1>3
<1>8. \A x \in DOMAIN v.instances :
               \/ x \in DOMAIN w.instances /\ v.instances[x] = w.instances[x]
               \/ v.instances[x] \in DOMAIN v.nodes /\ v.nodes[v.instances[x]].name = x
  BY <1>3
<1>9. NamesRight(v) /\ PortsRight(v) /\ EndsRight(v)
  BY <1>4, <1>5, <1>6, <1>7, <1>8, MoreIsConsistent
<1>10. QueuesRight(v)
  <2> SUFFICES ASSUME NEW q \in DOMAIN qe
               PROVE  Len(q) = 1 /\ qe[q] \in DOMAIN edges /\ edges[qe[q]].name = q
    BY <1>3 DEF QueuesRight
  <2>1. CASE q \in DOMAIN w.queueEdge /\ qe[q] = w.queueEdge[q]
    BY <1>2, <2>1 DEF Sound, QueuesRight, Longer
  <2>2. CASE Len(q) = 1 /\ qe[q] = Len(w.edges) + 1 /\ data.name = q
    BY <1>2, <2>2
  <2> QED
    BY <2>1, <2>2
<1>11. CellsRight(w) => CellsRight(v)
  BY <1>2, <1>3 DEF CellsRight
<1>12. QueuesNamed(v) /\ SubsNamed(v) /\ DeadRight(v)
  BY <1>3 DEF Sound, QueuesNamed, SubsNamed, DeadRight
<1>13. Grows(w, v)
  BY <1>3, <1>4, <1>9, <1>10, <1>11, <1>12 DEF Grows, Sound
<1> QED
  BY <1>2, <1>3, <1>13 DEF v, edges, EdgeAdded

LEMMA NextIsBound ==
    ASSUME NEW w, Sound(w), NEW q \in Names
    PROVE  LET qe == With(w.queueEdge, q, Len(w.edges) + 1) IN
           /\ qe \in Maps(Nat) /\ DOMAIN qe = DOMAIN w.queueEdge \union {q}
           /\ qe[q] = Len(w.edges) + 1
           /\ \A x \in DOMAIN w.queueEdge : x # q => qe[x] = w.queueEdge[x]
<1>1. w.queueEdge \in Maps(Nat) /\ Len(w.edges) \in Nat
  BY DEF Sound, Works
<1>2. PICK n \in Nat : n = Len(w.edges) + 1
  BY <1>1
<1>3. LET f == With(w.queueEdge, q, n) IN
        /\ f \in Maps(Nat) /\ DOMAIN f = DOMAIN w.queueEdge \union {q}
        /\ f[q] = n /\ \A x \in DOMAIN w.queueEdge : x # q => f[x] = w.queueEdge[x]
  BY ZenonT(30), <1>1, <1>2, WithNumber
<1> QED
  BY <1>2, <1>3

LEMMA AddQueueEdgeGrows ==
    ASSUME NEW w, Sound(w), w.dead = {}, NEW q \in DOMAIN w.pending, Len(q) = 1,
           NEW src \in DOMAIN w.nodes, NEW dst \in DOMAIN w.nodes
    PROVE  LET v == AddQueueEdge(w, q, src, dst) IN
           /\ Grows(w, v)
           /\ v.nodes = w.nodes /\ Len(w.edges) + 1 \in DOMAIN v.edges
<1> DEFINE data == [w.pending[q].data EXCEPT !.src = src, !.dst = dst]
           qe == With(w.queueEdge, q, Len(w.edges) + 1)
<1>1. /\ w.pending \in Maps(Pendings) /\ w.nodes \in Seq(Nodes) /\ w.edges \in Seq(Edges)
      /\ w.queueEdge \in Maps(Nat)
      /\ w = [w EXCEPT !.pending = w.pending]
  BY DEF Sound, Works
<1>2. w.pending[q] \in Pendings /\ q \in Names
  BY <1>1, MapsIn
<1>3. w.pending[q].data \in Edges /\ w.pending[q].data.name = q /\ src \in Nat /\ dst \in Nat
  BY <1>1, <1>2 DEF Pendings, Sound, QueuesNamed
<1>4. data \in Edges /\ data.name = q /\ data.src = src /\ data.dst = dst
  BY <1>3 DEF Edges
<1> HIDE DEF data
<1>5. /\ qe \in Maps(Nat) /\ DOMAIN qe = DOMAIN w.queueEdge \union {q}
      /\ qe[q] = Len(w.edges) + 1
      /\ \A x \in DOMAIN w.queueEdge : x # q => qe[x] = w.queueEdge[x]
  BY <1>2, NextIsBound
<1> DEFINE pm == w.pending
<1>6. AddQueueEdge(w, q, src, dst) = EdgeAdded(w, data, pm, qe)
  BY <1>1 DEF AddQueueEdge, data, Sound, Works, EdgeAdded
<1> HIDE DEF qe
<1>7. \A x \in DOMAIN qe : \/ x \in DOMAIN w.queueEdge /\ qe[x] = w.queueEdge[x]
                           \/ Len(x) = 1 /\ qe[x] = Len(w.edges) + 1 /\ data.name = x
  BY <1>4, <1>5
<1>8. \A x \in DOMAIN w.pending : w.pending[x].data.name = x
  BY DEF Sound, QueuesNamed
<1>9. CellsRight(w) => \A x \in DOMAIN w.pending : w.pending[x].edge \in 0 .. Len(w.edges) + 1
  BY <1>1 DEF CellsRight
<1>10. data.src \in DOMAIN w.nodes /\ data.dst \in DOMAIN w.nodes
  BY <1>4
<1> HIDE DEF pm
<1> DEFINE v == EdgeAdded(w, data, pm, qe)
<1>11. /\ Grows(w, v)
       /\ v.nodes = w.nodes /\ Len(w.edges) + 1 \in DOMAIN v.edges
  <2>1. pm \in Maps(Pendings) /\ qe \in Maps(Nat) /\ DOMAIN w.pending \subseteq DOMAIN pm
    BY <1>1, <1>5 DEF pm
  <2>2. \A x \in DOMAIN pm : pm[x].data.name = x
    BY <1>8 DEF pm
  <2>3. CellsRight(w) => \A x \in DOMAIN pm : pm[x].edge \in 0 .. Len(w.edges) + 1
    BY <1>9 DEF pm
  <2> QED
    BY <1>4, <1>7, <1>10, <2>1, <2>2, <2>3, EdgeAddedGrows
<1> QED
  BY <1>6, <1>11

LEMMA SelfLoopGrows ==
    ASSUME NEW w, Sound(w), w.dead = {}, NEW name \in DOMAIN w.instances, NEW port \in PortDecls
    PROVE  Grows(w, SelfLoop(w, name, port)) /\ SelfLoop(w, name, port).instances = w.instances
<1> DEFINE loop == name \o <<".", port.name>>
           node == w.instances[name]
           edge == Len(w.edges) + 1
           data == [name |-> loop, src |-> node, dst |-> node, elem |-> port.elem,
                    kind |-> "cell", depth |-> 1, init |-> port.init, ext |-> FALSE, peekers |-> <<>>]
           p == [edge |-> edge, data |-> data, writer |-> name, reader |-> name]
           pm == With(w.pending, loop, p)
           qe == w.queueEdge
           added == EdgeAdded(w, data, pm, qe)
           v == BindPort(added, node, port.name, edge)
<1>1. SelfLoop(w, name, port) = v
  BY DEF SelfLoop, EdgeAdded, Sound, Works
<1>2. /\ w.nodes \in Seq(Nodes) /\ w.edges \in Seq(Edges) /\ w.instances \in Maps(Nat)
      /\ qe \in Maps(Nat)
  BY DEF Sound, Works
<1>3. name \in Names /\ node \in Nat
  BY <1>2, MapsIn
<1>4. node \in DOMAIN w.nodes
  BY DEF Sound, NamesRight
<1>5. port.name \in Parts /\ "." \in Parts /\ port.elem \in Names /\ port.init \in Nat
  BY DEF PortDecls, Parts
<1>6. loop \in Names
  <2>1. <<".", port.name>> \in Seq(Parts)
    BY <1>5, Pair
  <2> QED
    BY <1>3, <2>1, Joined DEF Names
<1> HIDE DEF loop
<1>7. <<>> \in Seq(Names)
  BY EmptySeq
<1>8. data \in Edges /\ data.name = loop /\ data.src = node /\ data.dst = node
  BY <1>3, <1>5, <1>6, <1>7 DEF Edges
<1> HIDE DEF data, node
<1>9. edge \in Nat /\ Len(w.edges) <= edge /\ edge \in 0 .. edge
  BY <1>2
<1>10. p \in Pendings /\ p.data.name = loop /\ p.edge = edge
  BY <1>3, <1>8, <1>9 DEF Pendings
<1> HIDE DEF p, edge
<1>11. /\ pm \in Maps(Pendings) /\ DOMAIN pm = DOMAIN w.pending \union {loop}
       /\ \A x \in DOMAIN pm : pm[x].data.name = x
       /\ CellsRight(w) => \A x \in DOMAIN pm : pm[x].edge \in 0 .. edge
  BY <1>6, <1>9, <1>10, PendingPut
<1> HIDE DEF pm
<1>12. \A q \in DOMAIN qe : qe[q] = w.queueEdge[q] /\ q \in DOMAIN w.queueEdge
  OBVIOUS
<1> HIDE DEF qe
<1>13. /\ Grows(w, added) /\ added.nodes = w.nodes /\ added.instances = w.instances
       /\ Len(added.edges) = edge
  BY <1>2, <1>4, <1>8, <1>11, <1>12, EdgeAddedGrows DEF edge
<1> HIDE DEF added
<1>14. Sound(added) /\ added.dead = {} /\ node \in DOMAIN added.nodes /\ edge \in 0 .. Len(added.edges)
  BY <1>4, <1>9, <1>13 DEF Grows
<1>15. Grows(added, v) /\ Rebinds(added, v)
  BY <1>14, BindPortGrows
<1>16. v.instances = added.instances
  BY <1>14, <1>15 DEF Rebinds, Sound, Works
<1> HIDE DEF v
<1>17. Grows(w, v) /\ v.instances = w.instances
  BY <1>13, <1>15, <1>16, GrowsOn
<1> QED
  BY <1>1, <1>17

LEMMA SelfLoopsGrows ==
    ASSUME Elaborating, NEW w, Sound(w), w.dead = {}, NEW i \in DOMAIN insts
    PROVE  Grows(w, SelfLoops(w, i))
<1> DEFINE name == find_instance_name(w, insts[i].of, i)
           bound == {insts[i].bind[b].port : b \in DOMAIN insts[i].bind}
           loop(x, port) ==
               IF port.kind = "state" /\ port.name \notin bound THEN SelfLoop(x, name, port) ELSE x
           seq == program.procs[insts[i].of].ports
<1>1. CASE name = None \/ insts[i].of \notin Processes
  BY <1>1, GrowsSame DEF SelfLoops
<1>2. CASE name # None /\ insts[i].of \in Processes
  <2> DEFINE n == Len(seq)
             A == {x \in Works : Grows(w, x) /\ x.instances = w.instances}
             iter[S \in SUBSET DOMAIN seq] ==
                 IF S = {} THEN w ELSE loop(iter[S \ {Max(S)}], seq[Max(S)])
             step == [x \in (1 .. n) \X A |-> loop(x[2], seq[x[1]])]
             Turns1(g) == g = [S \in SUBSET DOMAIN seq |->
                                 IF S = {} THEN w ELSE loop(g[S \ {Max(S)}], seq[Max(S)])]
  <2>1. SelfLoops(w, i) = iter[DOMAIN seq]
    BY <1>2 DEF SelfLoops, FoldLeft, MapThenFoldSet
  <2>2. seq \in Seq(PortDecls)
    BY <1>2 DEF Elaborating, IsProgram, Processes
  <2>3. name \in DOMAIN w.instances
    BY <1>2, InstanceFound
  <2> HIDE DEF name, bound, seq
  <2>4. n \in Nat /\ DOMAIN seq = 1 .. n /\ \A k \in 1 .. n : seq[k] \in PortDecls
    BY <2>2
  <2> HIDE DEF n
  <2>5. w \in A
    BY GrowsSame DEF Sound
  <2>6. ASSUME NEW x \in A, NEW k \in 1 .. n PROVE loop(x, seq[k]) \in A
    <3>1. Grows(w, x) /\ x.instances = w.instances /\ Sound(x) /\ x.dead = {} /\ seq[k] \in PortDecls
      BY <2>4 DEF Grows
    <3>2. /\ Grows(x, SelfLoop(x, name, seq[k]))
          /\ SelfLoop(x, name, seq[k]).instances = w.instances
      BY <2>3, <3>1, SelfLoopGrows
    <3>3. Grows(w, SelfLoop(x, name, seq[k])) /\ SelfLoop(x, name, seq[k]) \in Works
      BY <3>1, <3>2, GrowsOn DEF Grows, Sound
    <3> QED
      BY <3>2, <3>3
  <2> HIDE DEF A, loop
  <2>7. step \in [(1 .. n) \X A -> A]
    BY <2>6
  <2>8. PICK h \in [SUBSET (1 .. n) -> A] : FoldOf(n, w, step, h)
    <3> HIDE DEF step
    <3> QED
      BY <2>4, <2>5, <2>7, Folding
  <2>9. ASSUME NEW S \in SUBSET (1 .. n)
        PROVE  h[S] = IF S = {} THEN w ELSE loop(h[S \ {Max(S)}], seq[Max(S)])
    <3>1. CASE S = {}
      BY <2>8, <3>1 DEF FoldOf
    <3>2. CASE S # {}
      <4>1. Max(S) \in 1 .. n /\ h[S \ {Max(S)}] \in A
        BY <2>4, <3>2, MaxIsIn
      <4>2. h[S] = step[<<Max(S), h[S \ {Max(S)}]>>]
        BY <2>8, <3>2 DEF FoldOf
      <4> QED
        BY <3>2, <4>1, <4>2
    <3> QED
      BY <3>1, <3>2
  <2>10. Turns1(iter)
    <3>1. Turns1(h)
      BY <2>4, <2>9
    <3> QED
      BY <3>1
  <2> HIDE DEF iter, step
  <2>11. iter[{}] = w
    BY <2>10
  <2>12. ASSUME NEW S \in SUBSET (1 .. n), S # {}, iter[S \ {Max(S)}] \in A
         PROVE  iter[S] \in A
    <3>1. iter[S] = loop(iter[S \ {Max(S)}], seq[Max(S)])
      BY <2>4, <2>10, <2>12
    <3>2. Max(S) \in 1 .. n
      BY <2>4, <2>12, MaxIsIn
    <3> HIDE DEF Turns1
    <3> QED
      BY <2>6, <2>12, <3>1, <3>2
  <2> HIDE DEF Turns1
  <2>13. iter[1 .. n] \in A
    BY <2>4, <2>5, <2>11, <2>12, FoldStays
  <2> QED
    BY <2>1, <2>4, <2>13 DEF A
<1> QED
  BY <1>1, <1>2

-----------------------------------------------------------------------------
(* The ends of a queue, and what peeks a Cell.                             *)

(* Only ends of queues are other in v. *)
Claims(w, v) ==
    /\ Grows(w, v)
    /\ v.nodes = w.nodes /\ v.edges = w.edges /\ v.instances = w.instances
    /\ DOMAIN v.pending = DOMAIN w.pending

LEMMA ClaimsOn ==
    ASSUME NEW w, NEW v, NEW u, Claims(w, v), Claims(v, u)
    PROVE  Claims(w, u)
  BY GrowsOn DEF Claims

LEMMA ClaimsSame == ASSUME NEW w, Sound(w), w.dead = {} PROVE Claims(w, w)
  BY GrowsSame DEF Claims

LEMMA PendingChanged ==
    ASSUME NEW w, Sound(w), w.dead = {}, NEW q \in DOMAIN w.pending, NEW p \in Pendings,
           p.data = w.pending[q].data, p.edge = w.pending[q].edge
    PROVE  Claims(w, [w EXCEPT !.pending = [w.pending EXCEPT ![q] = p]])
<1> DEFINE pm == [w.pending EXCEPT ![q] = p]
           v == [w EXCEPT !.pending = pm]
<1>1. w.pending \in Maps(Pendings)
  BY DEF Sound, Works
<1>2. /\ w.pending = [x \in DOMAIN w.pending |-> w.pending[x]] /\ DOMAIN w.pending \subseteq Names
      /\ \A x \in DOMAIN w.pending : w.pending[x] \in Pendings
  BY <1>1, MapsIn
<1>3. /\ pm = [x \in DOMAIN pm |-> pm[x]] /\ DOMAIN pm = DOMAIN w.pending
      /\ \A x \in DOMAIN pm : pm[x] = IF x = q THEN p ELSE w.pending[x]
  OBVIOUS
<1>4. v.edges = w.edges /\ v.instances = w.instances /\ v.nodes = w.nodes
  BY DEF Sound, Works
<1> HIDE DEF pm
<1>5. pm \in Maps(Pendings)
  BY <1>2, <1>3, MapsIn
<1>6. \A x \in DOMAIN pm : pm[x].data.name = x
  BY <1>3 DEF Sound, QueuesNamed
<1>7. CellsRight(w) => \A x \in DOMAIN pm : pm[x].edge \in 0 .. Len(w.edges)
  BY <1>3 DEF CellsRight
<1>8. Grows(w, v) /\ v.pending = pm
  BY <1>3, <1>5, <1>6, <1>7, PendingGrows
<1> HIDE DEF v
<1>9. Claims(w, v)
  BY <1>3, <1>4, <1>8 DEF Claims
<1> QED
  BY <1>9 DEF v, pm

LEMMA ClaimClaims ==
    ASSUME NEW w, Sound(w), w.dead = {}, NEW q \in DOMAIN w.pending, NEW name \in Names
    PROVE  Claims(w, Claim(w, q, "writer", name)) /\ Claims(w, Claim(w, q, "reader", name))
<1> DEFINE pw == [w.pending[q] EXCEPT !.writer = name]
           pr == [w.pending[q] EXCEPT !.reader = name]
<1>1. w.pending[q] \in Pendings
  BY MapsIn DEF Sound, Works
<1>2. /\ pw \in Pendings /\ pw.data = w.pending[q].data /\ pw.edge = w.pending[q].edge
      /\ pr \in Pendings /\ pr.data = w.pending[q].data /\ pr.edge = w.pending[q].edge
  BY <1>1 DEF Pendings
<1>3. /\ Claim(w, q, "writer", name) = [w EXCEPT !.pending = [w.pending EXCEPT ![q] = pw]]
      /\ Claim(w, q, "reader", name) = [w EXCEPT !.pending = [w.pending EXCEPT ![q] = pr]]
  BY DEF Claim
<1> HIDE DEF pw, pr
<1>4. Claims(w, [w EXCEPT !.pending = [w.pending EXCEPT ![q] = pw]])
  BY <1>2, PendingChanged
<1>5. Claims(w, [w EXCEPT !.pending = [w.pending EXCEPT ![q] = pr]])
  BY <1>2, PendingChanged
<1> QED
  BY <1>3, <1>4, <1>5

LEMMA JoinQueueClaims ==
    ASSUME NEW w, Sound(w), w.dead = {}, NEW q \in DOMAIN w.pending, NEW name \in Names, NEW kind
    PROVE  Grows(w, JoinQueue(w, q, name, kind)) /\ JoinQueue(w, q, name, kind).instances = w.instances
<1>1. Grows(w, Error(w)) /\ Error(w).instances = w.instances
  BY ErrorGrows DEF Error, Sound, Works
<1>2. Claims(w, Claim(w, q, "writer", name)) /\ Claims(w, Claim(w, q, "reader", name))
  BY ClaimClaims
<1>3. Claims(w, w)
  BY ClaimsSame
<1>4. CASE kind = "state"
  <2> DEFINE v == IF Empty(w, q, "writer") THEN Claim(w, q, "writer", name) ELSE w
             u == IF Empty(v, q, "reader") THEN Claim(v, q, "reader", name) ELSE v
  <2>1. Claims(w, v)
    BY <1>2, <1>3
  <2>2. JoinQueue(w, q, name, kind) = u
    BY <1>4 DEF JoinQueue
  <2> HIDE DEF v
  <2>3. Sound(v) /\ v.dead = {} /\ q \in DOMAIN v.pending
    BY <2>1 DEF Claims, Grows
  <2>4. Claims(v, Claim(v, q, "reader", name)) /\ Claims(v, v)
    BY <2>3, ClaimClaims, ClaimsSame
  <2>5. Claims(v, u)
    BY <2>4
  <2> HIDE DEF u
  <2>6. Claims(w, u)
    BY <2>1, <2>5, ClaimsOn
  <2> QED
    BY <2>2, <2>6 DEF Claims
<1>5. CASE kind = "produces"
  BY <1>1, <1>2, <1>5 DEF JoinQueue, Claims
<1>6. CASE kind = "consumes"
  BY <1>1, <1>2, <1>6 DEF JoinQueue, Claims
<1>7. CASE kind \notin {"state", "produces", "consumes"}
  BY <1>3, <1>7 DEF JoinQueue, Claims
<1> QED
  BY <1>4, <1>5, <1>6, <1>7

LEMMA PeekedGrows ==
    ASSUME NEW w, Sound(w), w.dead = {}, NEW edge \in DOMAIN w.edges, NEW name \in Names
    PROVE  LET v == [w EXCEPT !.edges[edge].peekers = Append(@, name)] IN
           Grows(w, v) /\ v.nodes = w.nodes /\ v.instances = w.instances /\ Len(v.edges) = Len(w.edges)
<1> DEFINE x == [w.edges[edge] EXCEPT !.peekers = Append(w.edges[edge].peekers, name)]
           es == [w.edges EXCEPT ![edge] = x]
           v == [w EXCEPT !.edges = es]
<1>1. w.edges \in Seq(Edges)
  BY DEF Sound, Works
<1>2. w.edges[edge] \in Edges
  BY <1>1
<1>3. w.edges[edge].peekers \in Seq(Names)
  BY <1>2 DEF Edges
<1>4. Append(w.edges[edge].peekers, name) \in Seq(Names)
  BY <1>3
<1>5. /\ x \in Edges /\ x.name = w.edges[edge].name /\ x.src = w.edges[edge].src
      /\ x.dst = w.edges[edge].dst
  BY <1>2, <1>4 DEF Edges
<1>6. [w EXCEPT !.edges[edge].peekers = Append(@, name)] = v
  OBVIOUS
<1> HIDE DEF x
<1>7. /\ es \in Seq(Edges) /\ Len(es) = Len(w.edges) /\ DOMAIN es = DOMAIN w.edges
      /\ \A e \in DOMAIN w.edges : es[e] = IF e = edge THEN x ELSE w.edges[e]
  BY <1>1, <1>5
<1> HIDE DEF es
<1>8. /\ v.nodes = w.nodes /\ v.edges = es /\ v.instances = w.instances /\ v.subs = w.subs
      /\ v.pending = w.pending /\ v.queueEdge = w.queueEdge /\ v.dead = {}
  BY DEF Sound, Works
<1>9. v \in Works
  BY <1>7 DEF Sound, Works
<1> HIDE DEF v
<1>10. EndsRight(v) /\ QueuesRight(v)
  BY <1>5, <1>7, <1>8 DEF Sound, EndsRight, QueuesRight
<1>11. Grows(w, v)
  BY <1>7, <1>8, <1>9, <1>10 DEF Grows, Sound, NamesRight, PortsRight, QueuesNamed, SubsNamed,
     DeadRight, CellsRight
<1> QED
  BY <1>6, <1>7, <1>8, <1>11

LEMMA BindPeekGrows ==
    ASSUME NEW w, Sound(w), w.dead = {}, CellsRight(w), NEW name \in DOMAIN w.instances,
           NEW port, NEW target
    PROVE  Grows(w, BindPeek(w, name, port, target)) /\ BindPeek(w, name, port, target).instances = w.instances
<1> DEFINE edge == IF target \in DOMAIN w.pending THEN w.pending[target].edge ELSE 0
           x == [w EXCEPT !.edges[edge].peekers = Append(@, name)]
           v == BindPort(x, w.instances[name], port.name, edge)
<1>1. BindPeek(w, name, port, target) \in {Error(w), w} \union (IF edge = 0 THEN {} ELSE {v})
  BY DEF BindPeek
<1>2. Grows(w, Error(w)) /\ Error(w).instances = w.instances
  BY ErrorGrows DEF Error, Sound, Works
<1>3. Grows(w, w)
  BY GrowsSame
<1>4. ASSUME edge # 0 PROVE Grows(w, v) /\ v.instances = w.instances
  <2>1. edge \in DOMAIN w.edges
    BY <1>4 DEF CellsRight, Sound, Works
  <2>2. name \in Names /\ w.instances[name] \in DOMAIN w.nodes
    BY MapsIn DEF Sound, Works, NamesRight
  <2> HIDE DEF edge
  <2>3. Grows(w, x) /\ x.nodes = w.nodes /\ x.instances = w.instances /\ Len(x.edges) = Len(w.edges)
    BY <2>1, <2>2, PeekedGrows
  <2> HIDE DEF x
  <2>4. Sound(x) /\ x.dead = {} /\ w.instances[name] \in DOMAIN x.nodes
    BY <2>2, <2>3 DEF Grows
  <2>5. edge \in 0 .. Len(x.edges)
    BY <2>1, <2>3 DEF Sound, Works
  <2>6. Grows(x, v) /\ Rebinds(x, v)
    BY <2>4, <2>5, BindPortGrows
  <2>7. v.instances = x.instances
    BY <2>4, <2>6 DEF Rebinds, Sound, Works
  <2> QED
    BY <2>3, <2>6, <2>7, GrowsOn
<1> HIDE DEF edge, v
<1> QED
  BY <1>1, <1>2, <1>3, <1>4

LEMMA WireBindingGrows ==
    ASSUME Elaborating, NEW w, Sound(w), w.dead = {}, CellsRight(w), NEW i \in DOMAIN insts, NEW b,
           find_instance_name(w, insts[i].of, i) # None
    PROVE  Grows(w, WireBinding(w, i, b)) /\ WireBinding(w, i, b).instances = w.instances
<1> DEFINE name == find_instance_name(w, insts[i].of, i)
           ports == program.procs[insts[i].of].ports
           k == PortNamed(ports, b.port)
<1>1. WireBinding(w, i, b) \in {Error(w), BindPeek(w, name, ports[k], b.target)}
          \union (IF b.target \in DOMAIN w.pending THEN {JoinQueue(w, b.target, name, ports[k].kind)} ELSE {})
  BY DEF WireBinding
<1>2. Grows(w, Error(w)) /\ Error(w).instances = w.instances
  BY ErrorGrows DEF Error, Sound, Works
<1>3. name \in DOMAIN w.instances /\ name \in Names
  BY InstanceFound
<1> HIDE DEF name, ports, k
<1>4. /\ Grows(w, BindPeek(w, name, ports[k], b.target))
      /\ BindPeek(w, name, ports[k], b.target).instances = w.instances
  BY <1>3, BindPeekGrows
<1>5. b.target \in DOMAIN w.pending =>
          /\ Grows(w, JoinQueue(w, b.target, name, ports[k].kind))
          /\ JoinQueue(w, b.target, name, ports[k].kind).instances = w.instances
  BY <1>3, JoinQueueClaims
<1> QED
  BY <1>1, <1>2, <1>4, <1>5

LEMMA WireInstanceGrows ==
    ASSUME Elaborating, NEW w, Sound(w), w.dead = {}, CellsRight(w), NEW i \in DOMAIN insts
    PROVE  Grows(w, WireInstance(w, i))
<1> DEFINE name == find_instance_name(w, insts[i].of, i)
           seq == insts[i].bind
           next(x, b) == WireBinding(x, i, b)
<1>1. CASE name = None \/ insts[i].of \notin Processes
  BY <1>1, GrowsSame DEF WireInstance
<1>2. CASE name # None /\ insts[i].of \in Processes
  <2> DEFINE n == Len(seq)
             A == {x \in Works : Grows(w, x) /\ x.instances = w.instances}
             iter[S \in SUBSET DOMAIN seq] ==
                 IF S = {} THEN w ELSE next(iter[S \ {Max(S)}], seq[Max(S)])
             step == [x \in (1 .. n) \X A |-> next(x[2], seq[x[1]])]
             Turns1(g) == g = [S \in SUBSET DOMAIN seq |->
                                 IF S = {} THEN w ELSE next(g[S \ {Max(S)}], seq[Max(S)])]
  <2>1. WireInstance(w, i) = iter[DOMAIN seq]
    BY <1>2 DEF WireInstance, FoldLeft, MapThenFoldSet
  <2>2. seq \in Seq(Binds)
    BY InstTyped
  <2> HIDE DEF seq
  <2>4. n \in Nat /\ DOMAIN seq = 1 .. n
    BY <2>2
  <2> HIDE DEF n
  <2>5. w \in A
    BY GrowsSame DEF Sound
  <2>6. ASSUME NEW x \in A, NEW k \in 1 .. n PROVE next(x, seq[k]) \in A
    <3>1. Grows(w, x) /\ x.instances = w.instances /\ Sound(x) /\ x.dead = {} /\ CellsRight(x)
      BY DEF Grows
    <3>2. find_instance_name(x, insts[i].of, i) = name
      BY <3>1 DEF find_instance_name
    <3>3. find_instance_name(x, insts[i].of, i) # None
      BY <1>2, <3>2
    <3> DEFINE y == WireBinding(x, i, seq[k])
    <3>4. Grows(x, y) /\ y.instances = w.instances
      BY <3>1, <3>3, WireBindingGrows
    <3> HIDE DEF y
    <3>5. Grows(w, y) /\ y \in Works
      BY <3>1, <3>4, GrowsOn DEF Grows, Sound
    <3>6. y \in A
      BY <3>4, <3>5
    <3> QED
      BY <3>6 DEF y
  <2> HIDE DEF A, next, name
  <2>7. step \in [(1 .. n) \X A -> A]
    BY <2>6
  <2>8. PICK h \in [SUBSET (1 .. n) -> A] : FoldOf(n, w, step, h)
    <3> HIDE DEF step
    <3> QED
      BY <2>4, <2>5, <2>7, Folding
  <2>9. ASSUME NEW S \in SUBSET (1 .. n)
        PROVE  h[S] = IF S = {} THEN w ELSE next(h[S \ {Max(S)}], seq[Max(S)])
    <3>1. CASE S = {}
      BY <2>8, <3>1 DEF FoldOf
    <3>2. CASE S # {}
      <4>1. Max(S) \in 1 .. n /\ h[S \ {Max(S)}] \in A
        BY <2>4, <3>2, MaxIsIn
      <4>2. h[S] = step[<<Max(S), h[S \ {Max(S)}]>>]
        BY <2>8, <3>2 DEF FoldOf
      <4> QED
        BY <3>2, <4>1, <4>2
    <3> QED
      BY <3>1, <3>2
  <2>10. Turns1(iter)
    <3>1. Turns1(h)
      BY <2>4, <2>9
    <3> QED
      BY <3>1
  <2> HIDE DEF iter, step
  <2>11. iter[{}] = w
    BY <2>10
  <2>12. ASSUME NEW S \in SUBSET (1 .. n), S # {}, iter[S \ {Max(S)}] \in A
         PROVE  iter[S] \in A
    <3>1. iter[S] = next(iter[S \ {Max(S)}], seq[Max(S)])
      BY <2>4, <2>10, <2>12
    <3>2. Max(S) \in 1 .. n
      BY <2>4, <2>12, MaxIsIn
    <3> HIDE DEF Turns1
    <3> QED
      BY <2>6, <2>12, <3>1, <3>2
  <2> HIDE DEF Turns1
  <2>13. iter[1 .. n] \in A
    BY <2>4, <2>5, <2>11, <2>12, FoldStays
  <2> QED
    BY <2>1, <2>4, <2>13 DEF A
<1> QED
  BY <1>1, <1>2

-----------------------------------------------------------------------------
(* Phase 4: edges.                                                         *)

(* The queue declared k-th is known, unless there was an error. *)
QueueKnown(w, k) == <<queueDecls[k].name>> \in DOMAIN w.pending

LEMMA AddStubGrows ==
    ASSUME NEW w, Sound(w), w.dead = {}, NEW q \in Names
    PROVE  LET v == AddStub(w, q) IN
           /\ Grows(w, v)
           /\ Len(w.nodes) + 1 \in DOMAIN v.nodes /\ DOMAIN w.nodes \subseteq DOMAIN v.nodes
<1> DEFINE name == <<"_Ext">> \o q
           node == [name |-> name, process |-> "_Ext", stub |-> TRUE, ports |-> <<>>]
           added == With(w.instances, name, Len(w.nodes) + 1)
           v == AddStub(w, q)
<1>1. "_Ext" \in Parts
  BY DEF Parts
<1>2. name \in Names
  BY <1>1, Single, Joined DEF Names
<1>3. v = [w EXCEPT !.nodes = Append(w.nodes, node), !.instances = added]
  BY DEF AddStub
<1> HIDE DEF name, v
<1>4. <<>> \in Seq(Ports) /\ DOMAIN <<>> = {}
  BY EmptySeq, NothingIsAMap
<1>5. node \in Nodes /\ node.name = name /\ node.ports = <<>>
  BY <1>1, <1>2, <1>4 DEF Nodes
<1> HIDE DEF node
<1>6. \A k \in DOMAIN node.ports : node.ports[k].bound = 0
  BY <1>4, <1>5
<1>7. NextNamed(w, name, added)
  BY <1>2, NextIsNamed
<1> HIDE DEF added
<1>8. Grows(w, v) /\ v.nodes = Append(w.nodes, node)
  <2>1. node \in Nodes /\ node.name = name
    BY <1>5
  <2>2. Grows(w, v)
    BY <1>2, <1>3, <1>6, <1>7, <2>1, NodeAddedGrows
  <2>3. v.nodes = Append(w.nodes, node)
    BY <1>3 DEF Sound, Works
  <2> QED
    BY <2>2, <2>3
<1>9. w.nodes \in Seq(Nodes)
  BY DEF Sound, Works
<1>10. Len(w.nodes) + 1 \in DOMAIN v.nodes /\ DOMAIN w.nodes \subseteq DOMAIN v.nodes
  BY <1>5, <1>8, <1>9, AppendIsLonger
<1> QED
  BY <1>8, <1>10 DEF v

LEMMA CreateEdgeGrows ==
    ASSUME Elaborating, NEW w, Sound(w), w.dead = {}, NEW k \in DOMAIN queueDecls, QueueKnown(w, k)
    PROVE  Grows(w, CreateEdge(w, k))
<1> DEFINE q    == <<queueDecls[k].name>>
           src  == NodeNamed(w, w.pending[q].writer)
           dst  == NodeNamed(w, w.pending[q].reader)
           end  == IF src # 0 THEN src ELSE dst
           stub == Len(w.nodes) + 1
           s    == AddStub(w, q)
<1>1. q \in Names /\ Len(q) = 1 /\ q \in DOMAIN w.pending
  BY DeclTyped DEF QueueKnown
<1>2. /\ src \in 0 .. Len(w.nodes) /\ dst \in 0 .. Len(w.nodes)
      /\ DOMAIN w.nodes = 1 .. Len(w.nodes) /\ Len(w.nodes) \in Nat
  BY NodeNamedIn DEF Sound, Works
<1>3. /\ Grows(w, s) /\ Sound(s) /\ s.dead = {} /\ q \in DOMAIN s.pending
      /\ stub \in DOMAIN s.nodes /\ DOMAIN w.nodes \subseteq DOMAIN s.nodes
  BY <1>1, AddStubGrows DEF Grows
<1>4. Grows(w, w)
  BY GrowsSame
<1>5. ASSUME NEW a \in DOMAIN w.nodes, NEW b \in DOMAIN w.nodes
      PROVE  Grows(w, AddQueueEdge(w, q, a, b))
  BY <1>1, AddQueueEdgeGrows
<1>6. ASSUME NEW a \in DOMAIN s.nodes, NEW b \in DOMAIN s.nodes
      PROVE  Grows(w, AddQueueEdge(s, q, a, b))
  <2>1. Grows(s, AddQueueEdge(s, q, a, b))
    BY <1>1, <1>3, AddQueueEdgeGrows
  <2> QED
    BY <1>3, <2>1, GrowsOn
<1>7. \/ CreateEdge(w, k) = w
      \/ src # 0 /\ dst # 0 /\ CreateEdge(w, k) = AddQueueEdge(w, q, src, dst)
      \/ end # 0 /\ CreateEdge(w, k) = AddQueueEdge(w, q, end, end)
      \/ src # 0 /\ CreateEdge(w, k) = AddQueueEdge(s, q, src, stub)
      \/ dst # 0 /\ CreateEdge(w, k) = AddQueueEdge(s, q, stub, dst)
  BY DEF CreateEdge
<1>8. /\ src # 0 => src \in DOMAIN w.nodes /\ src \in DOMAIN s.nodes
      /\ dst # 0 => dst \in DOMAIN w.nodes /\ dst \in DOMAIN s.nodes
      /\ end # 0 => end \in DOMAIN w.nodes
  <2> HIDE DEF src, dst, s
  <2> QED
    BY <1>2, <1>3
<1> HIDE DEF q, src, dst, end, stub, s
<1> QED
  BY <1>3, <1>4, <1>5, <1>6, <1>7, <1>8

LEMMA InheritClaims ==
    ASSUME NEW w, Sound(w), w.dead = {}, NEW q \in DOMAIN w.pending, NEW edge \in DOMAIN w.edges
    PROVE  Grows(w, Inherit(w, q, edge))
<1> DEFINE a == w.edges[edge].src
           b == w.edges[edge].dst
           v == IF Empty(w, q, "writer") THEN Claim(w, q, "writer", w.nodes[a].name) ELSE w
           u == IF Empty(v, q, "reader") THEN Claim(v, q, "reader", v.nodes[b].name) ELSE v
           u1 == IF Empty(v, q, "reader") THEN Claim(v, q, "reader", w.nodes[b].name) ELSE v
<1>1. Inherit(w, q, edge) = u1
  BY DEF Inherit
<1>2. a \in DOMAIN w.nodes /\ b \in DOMAIN w.nodes
  BY DEF Sound, EndsRight
<1>3. \A n \in DOMAIN w.nodes : w.nodes[n].name \in Names
  <2>1. w.nodes \in Seq(Nodes)
    BY DEF Sound, Works
  <2>2. \A n \in DOMAIN w.nodes : w.nodes[n] \in Nodes
    BY <2>1
  <2> QED
    BY <2>2 DEF Nodes
<1> HIDE DEF a, b
<1>4. Claims(w, v)
  BY <1>2, <1>3, ClaimClaims, ClaimsSame
<1> HIDE DEF v
<1>5. Sound(v) /\ v.dead = {} /\ q \in DOMAIN v.pending
  BY <1>4 DEF Claims, Grows
<1>6. Claims(v, u1)
  BY <1>2, <1>3, <1>5, ClaimClaims, ClaimsSame
<1> HIDE DEF u1
<1>7. Claims(w, u1)
  BY <1>4, <1>6, ClaimsOn
<1> QED
  BY <1>1, <1>7 DEF Claims

LEMMA SubstituteGrows ==
    ASSUME NEW w, Sound(w), w.dead = {}, NEW k \in DOMAIN w.subs
    PROVE  Grows(w, Substitute(w, k))
<1> DEFINE edge == EdgeNamed(w, w.subs[k][1])
           q == w.subs[k][2]
<1>1. edge \in 0 .. Len(w.edges) /\ DOMAIN w.edges = 1 .. Len(w.edges)
  <2>1. Len(w.edges) \in Nat /\ DOMAIN w.edges = 1 .. Len(w.edges)
    BY DEF Sound, Works
  <2> QED
    BY <2>1, EdgeNamedIn
<1>2. edge # 0 => edge \in DOMAIN w.edges
  <2> HIDE DEF edge
  <2> QED
    BY <1>1
<1>3. Substitute(w, k) = IF edge = 0 THEN w
                         ELSE IF q \in DOMAIN w.queueEdge THEN Rebind(w, {edge}, w.queueEdge[q])
                         ELSE IF q \notin DOMAIN w.pending THEN w
                         ELSE Inherit(w, q, edge)
  BY DEF Substitute
<1> HIDE DEF edge, q
<1>4. Grows(w, w)
  BY GrowsSame
<1>5. q \in DOMAIN w.queueEdge => Grows(w, Rebind(w, {edge}, w.queueEdge[q]))
  BY RebindGrows DEF Sound, QueuesRight
<1>6. q \in DOMAIN w.pending /\ edge # 0 => Grows(w, Inherit(w, q, edge))
  BY <1>2, InheritClaims
<1> QED
  BY <1>3, <1>4, <1>5, <1>6

LEMMA RecreateGrows ==
    ASSUME Elaborating, NEW w, Sound(w), w.dead = {}, NEW k \in DOMAIN queueDecls, QueueKnown(w, k)
    PROVE  Grows(w, Recreate(w, k))
<1> DEFINE q == <<queueDecls[k].name>>
           src == NodeNamed(w, w.pending[q].writer)
           dst == NodeNamed(w, w.pending[q].reader)
           replaced == {EdgeNamed(w, w.subs[n][1]) : n \in {m \in DOMAIN w.subs : w.subs[m][2] = q}}
           v == AddQueueEdge(w, q, src, dst)
           new == Len(w.edges) + 1
<1>1. q \in Names /\ Len(q) = 1 /\ q \in DOMAIN w.pending
  BY DeclTyped DEF QueueKnown
<1>2. /\ src \in 0 .. Len(w.nodes) /\ dst \in 0 .. Len(w.nodes)
      /\ DOMAIN w.nodes = 1 .. Len(w.nodes) /\ Len(w.nodes) \in Nat
  BY NodeNamedIn DEF Sound, Works
<1>3. Recreate(w, k) = IF q \in DOMAIN w.queueEdge \/ src = 0 \/ dst = 0 THEN w
                       ELSE Rebind(v, replaced \ {0}, new)
  BY DEF Recreate
<1>4. Grows(w, w)
  BY GrowsSame
<1> HIDE DEF q, src, dst
<1>5. ASSUME src # 0, dst # 0 PROVE Grows(w, Rebind(v, replaced \ {0}, new))
  <2>1. src \in DOMAIN w.nodes /\ dst \in DOMAIN w.nodes
    BY <1>2, <1>5
  <2>2. Grows(w, v) /\ new \in DOMAIN v.edges
    BY <1>1, <2>1, AddQueueEdgeGrows
  <2> HIDE DEF v, new, replaced
  <2>3. Grows(v, Rebind(v, replaced \ {0}, new))
    BY <2>2, RebindGrows DEF Grows
  <2> QED
    BY <2>2, <2>3, GrowsOn
<1> QED
  BY <1>3, <1>4, <1>5

LEMMA BoundAreReferenced ==
    ASSUME NEW w, NEW n \in DOMAIN w.nodes, NEW k \in DOMAIN w.nodes[n].ports
    PROVE  w.nodes[n].ports[k].bound \in Referenced(w)
  BY DEF Referenced, ToSet

LEMMA FindDeadIsSound ==
    ASSUME NEW w, Sound(w), w.dead = {}
    PROVE  /\ Sound(FindDead(w)) /\ FindDead(w).pending = w.pending
<1> DEFINE replaced == {w.subs[k][1] : k \in DOMAIN w.subs}
           dead == {e \in DOMAIN w.edges : w.edges[e].name \in replaced} \ Referenced(w)
           v == [w EXCEPT !.dead = dead]
<1>1. FindDead(w) = v
  BY DEF FindDead
<1>2. dead \subseteq DOMAIN w.edges /\ \A e \in dead : Len(w.edges[e].name) >= 2 /\ e \notin Referenced(w)
  BY DEF Sound, SubsNamed
<1> HIDE DEF dead
<1>3. dead \in SUBSET Nat
  BY <1>2 DEF Sound, Works
<1>4. /\ v.nodes = w.nodes /\ v.edges = w.edges /\ v.instances = w.instances /\ v.subs = w.subs
      /\ v.pending = w.pending /\ v.queueEdge = w.queueEdge /\ v.dead = dead
  BY DEF Sound, Works
<1>5. v \in Works
  BY <1>3 DEF Sound, Works
<1> HIDE DEF v
<1>6. DeadRight(v)
  BY <1>2, <1>4, BoundAreReferenced DEF DeadRight
<1> QED
  BY <1>1, <1>4, <1>5, <1>6 DEF Sound, NamesRight, PortsRight, EndsRight, QueuesNamed, QueuesRight,
     SubsNamed

LEMMA BindDeferredGrows ==
    ASSUME Elaborating, NEW w, Sound(w), w.dead = {}, NEW i \in DOMAIN insts
    PROVE  Grows(w, BindDeferred(w, i))
<1> DEFINE name  == find_instance_name(w, insts[i].of, i)
           node  == w.instances[name]
           bind  == insts[i].bind
           ports == w.nodes[node].ports
           for(k) == {b \in DOMAIN bind : /\ PortNamed(ports, bind[b].port) = k
                                          /\ ~Dotted(bind[b].target)
                                          /\ bind[b].target \in DOMAIN w.queueEdge}
           bound(k) == IF ports[k].bound = 0 /\ for(k) # {} THEN w.queueEdge[bind[Min(for(k))].target]
                       ELSE ports[k].bound
           ports1 == [k \in DOMAIN ports |-> [ports[k] EXCEPT !.bound = bound(k)]]
           node1 == [w.nodes[node] EXCEPT !.ports = ports1]
           nodes1 == [w.nodes EXCEPT ![node] = node1]
           v == [w EXCEPT !.nodes = nodes1]
<1>1. BindDeferred(w, i) = IF name = None THEN w ELSE v
  BY DEF BindDeferred
<1>2. Grows(w, w)
  BY GrowsSame
<1>3. CASE name # None
  <2>1. node \in DOMAIN w.nodes
    BY <1>3, InstanceFound
  <2>2. w.nodes \in Seq(Nodes)
    BY DEF Sound, Works
  <2>3. bind \in Seq(Binds)
    BY InstTyped
  <2> HIDE DEF name, node, bind
  <2>4. w.nodes[node] \in Nodes
    BY <2>1, <2>2
  <2>5. ports \in Seq(Ports)
    BY <2>4 DEF Nodes
  <2>6. \A k \in DOMAIN ports : ports[k].bound \in 0 .. Len(w.edges)
    BY <2>1 DEF Sound, PortsRight
  <2> HIDE DEF ports
  <2>7. DOMAIN bind \subseteq Nat
    BY <2>3
  <2>8. ASSUME NEW k \in DOMAIN ports PROVE bound(k) \in 0 .. Len(w.edges)
    <3>1. CASE ports[k].bound = 0 /\ for(k) # {}
      <4>1. for(k) \in SUBSET Nat
        BY <2>7
      <4>2. Min(for(k)) \in for(k)
        <5> HIDE DEF for
        <5> QED
          BY <3>1, <4>1, MinIsIn
      <4>3. bind[Min(for(k))].target \in DOMAIN w.queueEdge
        BY <4>2
      <4>4. w.queueEdge[bind[Min(for(k))].target] \in DOMAIN w.edges
        BY <4>3 DEF Sound, QueuesRight
      <4>5. \A e \in DOMAIN w.edges : e \in 0 .. Len(w.edges)
        BY DEF Sound, Works
      <4> HIDE DEF for
      <4> QED
        BY <3>1, <4>4, <4>5
    <3>2. CASE ~(ports[k].bound = 0 /\ for(k) # {})
      BY <2>6, <3>2
    <3> QED
      BY <3>1, <3>2
  <2> HIDE DEF bound
  <2>9. ports1 \in Seq(Ports) /\ \A k \in DOMAIN ports1 : ports1[k].bound \in 0 .. Len(w.edges)
    <3>1. Len(w.edges) \in Nat
      BY DEF Sound, Works
    <3>2. ASSUME NEW k \in DOMAIN ports
          PROVE  [ports[k] EXCEPT !.bound = bound(k)] \in Ports /\ [ports[k] EXCEPT !.bound = bound(k)].bound = bound(k)
      <4>1. ports[k] \in Ports
        BY <2>5
      <4>2. bound(k) \in Nat
        BY <2>8, <3>1
      <4> QED
        BY <4>1, <4>2 DEF Ports
    <3>3. ports1 \in [DOMAIN ports -> Ports] /\ \A k \in DOMAIN ports1 : ports1[k].bound \in 0 .. Len(w.edges)
      BY <2>8, <3>2
    <3> HIDE DEF ports1
    <3> QED
      BY <2>5, <3>3, SameLength
  <2> HIDE DEF ports1
  <2>10. node1 \in Nodes /\ node1.name = w.nodes[node].name /\ node1.ports = ports1
    BY <2>4, <2>9 DEF Nodes
  <2> HIDE DEF node1
  <2>11. /\ nodes1 \in Seq(Nodes) /\ Len(nodes1) = Len(w.nodes) /\ DOMAIN nodes1 = DOMAIN w.nodes
         /\ \A n \in DOMAIN w.nodes : nodes1[n] = IF n = node THEN node1 ELSE w.nodes[n]
    BY <2>1, <2>2, <2>10
  <2> HIDE DEF nodes1
  <2>12. v.nodes = nodes1 /\ v = [w EXCEPT !.nodes = v.nodes] /\ v.edges = w.edges
    BY DEF Sound, Works
  <2> HIDE DEF v
  <2>13. Rebinds(w, v)
    BY <2>10, <2>11, <2>12 DEF Rebinds
  <2>14. PortsRight(v)
    BY <2>9, <2>10, <2>11, <2>12 DEF PortsRight, Sound
  <2>15. Grows(w, v)
    BY <2>13, <2>14, RebindsGrows
  <2> QED
    BY <1>1, <1>3, <2>15 DEF name
<1> HIDE DEF v, name
<1> QED
  BY <1>1, <1>2, <1>3

LEMMA ChecksGrow ==
    ASSUME NEW w, Sound(w), w.dead = {}
    PROVE  Grows(w, CheckWiring(w)) /\ Grows(w, CheckDomains(w))
<1>1. Grows(w, Error(w)) /\ Grows(w, w)
  BY ErrorGrows, GrowsSame
<1>2. Grows(w, CheckWiring(w))
  BY <1>1 DEF CheckWiring
<1>3. ASSUME NEW a \in BOOLEAN, NEW b \in BOOLEAN
      PROVE  Grows(w, [w EXCEPT !.failed = a, !.warned = b])
  <2> DEFINE v == [w EXCEPT !.failed = a, !.warned = b]
  <2>1. /\ v \in Works /\ v.nodes = w.nodes /\ v.edges = w.edges /\ v.instances = w.instances
        /\ v.subs = w.subs /\ v.pending = w.pending /\ v.queueEdge = w.queueEdge /\ v.dead = {}
    BY DEF Sound, Works
  <2> HIDE DEF v
  <2>2. Grows(w, v)
    BY <2>1, SameNetworkGrows
  <2> QED
    BY <2>2 DEF v
<1>4. Grows(w, CheckDomains(w))
  <2> DEFINE checked == {e \in DOMAIN w.edges :
                            ~w.nodes[w.edges[e].src].stub /\ ~w.nodes[w.edges[e].dst].stub}
             of(kind) == {e \in checked : w.edges[e].kind = kind}
             peeked(e) == \E p \in ToSet(w.edges[e].peekers) :
                             DomainIn(w, p) # NodeDomain(w, w.edges[e].src)
             a == \/ w.failed
                  \/ \E e \in of("queue") : Crosses(w, e)
                  \/ \E e \in of("cell") : peeked(e)
             b == \E e \in of("async") : ~Crosses(w, e)
  <2>1. CheckDomains(w) = IF domainDecls = <<>> THEN w ELSE [w EXCEPT !.failed = a, !.warned = b]
    BY DEF CheckDomains
  <2>2. w.failed \in BOOLEAN
    BY DEF Sound, Works
  <2>3. a \in BOOLEAN /\ b \in BOOLEAN
    <3> HIDE DEF of, peeked
    <3> QED
      BY <2>2
  <2> HIDE DEF a, b
  <2>4. Grows(w, [w EXCEPT !.failed = a, !.warned = b])
    BY <1>3, <2>3
  <2> QED
    BY <1>1, <2>1, <2>4
<1> QED
  BY <1>2, <1>4

-----------------------------------------------------------------------------
(* The removal of an edge.                                                 *)

LEMMA LastMoved ==
    ASSUME NEW S, NEW s \in Seq(S), NEW e \in DOMAIN s
    PROVE  LET t == Front(ReplaceAt(s, e, s[Len(s)])) IN
           /\ t \in Seq(S) /\ Len(t) = Len(s) - 1
           /\ \A i \in DOMAIN t : t[i] = IF i = e THEN s[Len(s)] ELSE s[i]
<1> DEFINE r == ReplaceAt(s, e, s[Len(s)])
           t == Front(r)
<1>1. Len(s) \in Nat /\ DOMAIN s = 1 .. Len(s) /\ e \in 1 .. Len(s) /\ s[Len(s)] \in S
  OBVIOUS
<1>2. /\ r \in Seq(S) /\ Len(r) = Len(s)
      /\ \A i \in 1 .. Len(s) : r[i] = IF i = e THEN s[Len(s)] ELSE s[i]
  BY <1>1 DEF ReplaceAt
<1> HIDE DEF r
<1>3. t = SubSeq(r, 1, Len(s) - 1)
  BY <1>2 DEF Front
<1>4. Len(s) - 1 \in Nat /\ Len(s) - 1 <= Len(r)
  BY <1>1, <1>2
<1>5. /\ SubSeq(r, 1, Len(s) - 1) \in Seq(S) /\ Len(SubSeq(r, 1, Len(s) - 1)) = Len(s) - 1
      /\ \A i \in 1 .. Len(s) - 1 : SubSeq(r, 1, Len(s) - 1)[i] = r[i]
  BY <1>1, <1>2, <1>4
<1> HIDE DEF t
<1>6. t \in Seq(S) /\ Len(t) = Len(s) - 1 /\ \A i \in 1 .. Len(s) - 1 : t[i] = r[i]
  BY <1>3, <1>5
<1>7. DOMAIN t = 1 .. Len(s) - 1 /\ \A i \in 1 .. Len(s) - 1 : i \in 1 .. Len(s)
  BY <1>1, <1>6
<1> QED
  BY <1>2, <1>6, <1>7 DEF t, r

(* What is bound keeps its name. *)
BindingsKept(w, v) ==
    /\ \A n \in DOMAIN w.nodes : \A k \in DOMAIN w.nodes[n].ports :
          EdgeName(v, v.nodes[n].ports[k].bound) = EdgeName(w, w.nodes[n].ports[k].bound)
    /\ \A q \in DOMAIN w.queueEdge : EdgeName(v, v.queueEdge[q]) = q

(* The parts of w of which v has what RemoveEdge makes of them. *)
Removed(w, e, v) ==
    /\ v \in Works
    /\ v.instances = w.instances /\ v.subs = w.subs /\ v.pending = w.pending
    /\ v.dead = w.dead \ {e}
    /\ v.edges = Front(ReplaceAt(w.edges, e, w.edges[Len(w.edges)]))
    /\ DOMAIN v.nodes = DOMAIN w.nodes
    /\ \A n \in DOMAIN w.nodes :
          /\ v.nodes[n].name = w.nodes[n].name
          /\ DOMAIN v.nodes[n].ports = DOMAIN w.nodes[n].ports
          /\ \A k \in DOMAIN w.nodes[n].ports :
                v.nodes[n].ports[k].bound = IF w.nodes[n].ports[k].bound = Len(w.edges) /\ e # Len(w.edges)
                                            THEN e ELSE w.nodes[n].ports[k].bound
    /\ DOMAIN v.queueEdge = DOMAIN w.queueEdge
    /\ \A q \in DOMAIN w.queueEdge :
          v.queueEdge[q] = IF w.queueEdge[q] = Len(w.edges) /\ e # Len(w.edges) THEN e ELSE w.queueEdge[q]

LEMMA RemovedKeeps ==
    ASSUME NEW w, Sound(w), NEW e \in w.dead, \A d \in w.dead : d <= e, NEW v, Removed(w, e, v)
    PROVE  Sound(v) /\ BindingsKept(w, v)
<1> DEFINE last == Len(w.edges)
<1>1. /\ w.edges \in Seq(Edges) /\ last \in Nat /\ DOMAIN w.edges = 1 .. last
      /\ w.dead \in SUBSET Nat
  BY DEF Sound, Works
<1>2. e \in 1 .. last /\ Len(w.edges[e].name) >= 2
  BY <1>1 DEF Sound, DeadRight
<1>3. /\ Len(v.edges) = last - 1 /\ DOMAIN v.edges = 1 .. last - 1
      /\ \A i \in 1 .. last - 1 : v.edges[i] = IF i = e THEN w.edges[last] ELSE w.edges[i]
  <2>1. /\ v.edges \in Seq(Edges) /\ Len(v.edges) = last - 1
        /\ \A i \in DOMAIN v.edges : v.edges[i] = IF i = e THEN w.edges[last] ELSE w.edges[i]
    BY <1>1, <1>2, LastMoved DEF Removed
  <2> QED
    BY <1>1, <2>1
<1> HIDE DEF last
<1>4. ASSUME NEW n \in DOMAIN w.nodes, NEW k \in DOMAIN w.nodes[n].ports
      PROVE  /\ w.nodes[n].ports[k].bound \in 0 .. last /\ w.nodes[n].ports[k].bound # e
             /\ v.nodes[n].ports[k].bound = IF w.nodes[n].ports[k].bound = last /\ e # last
                                            THEN e ELSE w.nodes[n].ports[k].bound
  BY DEF Sound, PortsRight, DeadRight, Removed, last
<1>5. ASSUME NEW q \in DOMAIN w.queueEdge
      PROVE  /\ w.queueEdge[q] \in 1 .. last /\ w.queueEdge[q] # e
             /\ Len(q) = 1 /\ w.edges[w.queueEdge[q]].name = q
             /\ v.queueEdge[q] = IF w.queueEdge[q] = last /\ e # last THEN e ELSE w.queueEdge[q]
  <2>1. w.queueEdge[q] \in 1 .. last /\ Len(q) = 1 /\ w.edges[w.queueEdge[q]].name = q
    BY <1>1 DEF Sound, QueuesRight
  <2>2. w.queueEdge[q] # e
    <3> SUFFICES ASSUME w.queueEdge[q] = e PROVE FALSE
      OBVIOUS
    <3>1. w.edges[e].name = q
      BY <2>1
    <3>2. Len(q) >= 2
      BY <1>2, <3>1
    <3> QED
      BY <2>1, <3>2
  <2> QED
    BY <2>1, <2>2 DEF Removed, last
<1>6. ASSUME NEW b \in 0 .. last, b # e,
             NEW c, c = IF b = last /\ e # last THEN e ELSE b
      PROVE  /\ c \in 0 .. last - 1 /\ (c = 0 <=> b = 0)
             /\ c # 0 => v.edges[c] = w.edges[b]
             /\ \A d \in w.dead \ {e} : b # d => c # d
  <2>1. CASE b = last /\ e # last
    BY <1>1, <1>2, <1>3, <1>6, <2>1
  <2>2. CASE ~(b = last /\ e # last)
    <3>1. c = b /\ b # last
      BY <1>6, <2>2
    <3> QED
      BY <1>1, <1>2, <1>3, <1>6, <3>1
  <2> QED
    BY <2>1, <2>2
<1>7. PortsRight(v)
  BY <1>3, <1>4, <1>6 DEF PortsRight, Removed
<1>8. QueuesRight(v)
  <2> SUFFICES ASSUME NEW q \in DOMAIN w.queueEdge
               PROVE  Len(q) = 1 /\ v.queueEdge[q] \in DOMAIN v.edges /\ v.edges[v.queueEdge[q]].name = q
    BY DEF QueuesRight, Removed
  <2>1. w.queueEdge[q] \in 0 .. last /\ w.queueEdge[q] # 0
    BY <1>1, <1>5
  <2>2. /\ v.queueEdge[q] \in 0 .. last - 1 /\ v.queueEdge[q] # 0
        /\ v.edges[v.queueEdge[q]] = w.edges[w.queueEdge[q]]
    BY <1>5, <1>6, <2>1
  <2> QED
    BY <1>1, <1>3, <1>5, <2>2
<1>9. EndsRight(v)
  <2> SUFFICES ASSUME NEW i \in 1 .. last - 1
               PROVE  v.edges[i].src \in DOMAIN w.nodes /\ v.edges[i].dst \in DOMAIN w.nodes
    BY <1>3 DEF EndsRight, Removed
  <2>1. i \in DOMAIN w.edges /\ last \in DOMAIN w.edges
    BY <1>1
  <2> QED
    BY <1>3, <2>1 DEF Sound, EndsRight
<1>10. DeadRight(v)
  <2> SUFFICES ASSUME NEW d \in w.dead \ {e}
               PROVE  /\ d \in DOMAIN v.edges /\ Len(v.edges[d].name) >= 2
                      /\ \A n \in DOMAIN w.nodes : \A k \in DOMAIN w.nodes[n].ports :
                            v.nodes[n].ports[k].bound # d
    BY DEF DeadRight, Removed
  <2>1. d \in 1 .. last /\ Len(w.edges[d].name) >= 2 /\ d <= e /\ d # e
    BY <1>1 DEF Sound, DeadRight
  <2>2. d \in 1 .. last - 1 /\ v.edges[d] = w.edges[d]
    BY <1>1, <1>2, <1>3, <2>1
  <2>3. ASSUME NEW n \in DOMAIN w.nodes, NEW k \in DOMAIN w.nodes[n].ports
        PROVE  v.nodes[n].ports[k].bound # d
    <3>1. w.nodes[n].ports[k].bound # d
      BY DEF Sound, DeadRight
    <3> QED
      BY <1>4, <1>6, <3>1
  <2> QED
    BY <1>3, <2>1, <2>2, <2>3
<1>11. NamesRight(v) /\ QueuesNamed(v) /\ SubsNamed(v)
  BY DEF Sound, Removed, NamesRight, QueuesNamed, SubsNamed
<1>12. Sound(v)
  BY <1>7, <1>8, <1>9, <1>10, <1>11 DEF Sound, Removed
<1>13. ASSUME NEW n \in DOMAIN w.nodes, NEW k \in DOMAIN w.nodes[n].ports
       PROVE  EdgeName(v, v.nodes[n].ports[k].bound) = EdgeName(w, w.nodes[n].ports[k].bound)
  <2> DEFINE b == w.nodes[n].ports[k].bound
             c == v.nodes[n].ports[k].bound
  <2>1. /\ b \in 0 .. last /\ c \in 0 .. last - 1 /\ (c = 0 <=> b = 0)
        /\ c # 0 => v.edges[c] = w.edges[b]
    BY SMTT(30), <1>4, <1>6
  <2> HIDE DEF b, c
  <2>2. CASE c = 0
    <3>1. c \notin DOMAIN v.edges /\ b \notin DOMAIN w.edges
      BY <1>1, <1>3, <2>1, <2>2
    <3>2. EdgeName(v, c) = EdgeName(w, b)
      BY <3>1 DEF EdgeName
    <3> QED
      BY <3>2 DEF b, c
  <2>3. CASE c # 0
    <3>1. c \in DOMAIN v.edges /\ b \in DOMAIN w.edges /\ v.edges[c] = w.edges[b]
      BY <1>1, <1>3, <2>1, <2>3
    <3>2. EdgeName(v, c) = EdgeName(w, b)
      BY <3>1 DEF EdgeName
    <3> QED
      BY <3>2 DEF b, c
  <2> QED
    BY <2>2, <2>3
<1>14. \A q \in DOMAIN w.queueEdge : EdgeName(v, v.queueEdge[q]) = q
  BY <1>8 DEF QueuesRight, EdgeName, Removed
<1> QED
  BY <1>12, <1>13, <1>14 DEF BindingsKept

LEMMA RemoveEdgeRemoves ==
    ASSUME NEW w, Sound(w), NEW e \in w.dead
    PROVE  Removed(w, e, RemoveEdge(w, e))
<1> DEFINE last == Len(w.edges)
           edges == Front(ReplaceAt(w.edges, e, w.edges[last]))
           removed == [w EXCEPT !.edges = edges, !.dead = w.dead \ {e}]
           moved == {q \in DOMAIN w.queueEdge : w.queueEdge[q] = last}
           followed == Rebind(removed, {last}, e)
           it == CHOOSE q \in moved : TRUE
           qe == [w.queueEdge EXCEPT ![it] = e]
           v == RemoveEdge(w, e)
<1>1. /\ w.edges \in Seq(Edges) /\ w.queueEdge \in Maps(Nat) /\ w.nodes \in Seq(Nodes) /\ w.dead \in SUBSET Nat
  BY DEF Sound, Works
<1>2. e \in DOMAIN w.edges /\ e \in Nat /\ Len(w.edges[e].name) >= 2
  BY <1>1 DEF Sound, DeadRight
<1>3. v = IF e = last THEN removed ELSE IF moved = {} THEN followed
          ELSE [followed EXCEPT !.queueEdge = [followed.queueEdge EXCEPT ![it] = e]]
  BY DEF RemoveEdge
<1>4. edges \in Seq(Edges)
  BY <1>1, <1>2, LastMoved
<1>5. /\ removed \in Works
      /\ removed.nodes = w.nodes /\ removed.instances = w.instances /\ removed.subs = w.subs
      /\ removed.pending = w.pending /\ removed.queueEdge = w.queueEdge
      /\ removed.dead = w.dead \ {e} /\ removed.edges = edges
  <2> HIDE DEF edges
  <2> QED
    BY <1>1, <1>4 DEF Sound, Works
<1> HIDE DEF removed, edges, v
<1>6. CASE e = last
  <2>1. v = removed
    BY <1>3, <1>6
  <2>2. /\ \A n \in DOMAIN w.nodes : \A k \in DOMAIN w.nodes[n].ports :
              v.nodes[n].ports[k].bound = IF w.nodes[n].ports[k].bound = Len(w.edges) /\ e # Len(w.edges)
                                          THEN e ELSE w.nodes[n].ports[k].bound
        /\ \A q \in DOMAIN w.queueEdge :
              v.queueEdge[q] = IF w.queueEdge[q] = Len(w.edges) /\ e # Len(w.edges) THEN e ELSE w.queueEdge[q]
    BY <1>5, <1>6, <2>1
  <2>3. Removed(w, e, v)
    BY <1>5, <2>1, <2>2 DEF Removed, edges
  <2> QED
    BY <2>3 DEF v
<1>7. CASE e # last
  <2>1. /\ Rebinds(removed, followed)
        /\ \A n \in DOMAIN w.nodes :
              /\ DOMAIN followed.nodes[n].ports = DOMAIN w.nodes[n].ports
              /\ \A k \in DOMAIN w.nodes[n].ports :
                    followed.nodes[n].ports[k].bound = IF w.nodes[n].ports[k].bound \in {last} THEN e
                                                       ELSE w.nodes[n].ports[k].bound
    BY SMTT(30), <1>2, <1>5, RebindGives
  <2> HIDE DEF followed
  <2>2. /\ followed \in Works /\ DOMAIN followed.nodes = DOMAIN w.nodes
        /\ \A n \in DOMAIN w.nodes : followed.nodes[n].name = w.nodes[n].name
        /\ followed.instances = w.instances /\ followed.subs = w.subs
        /\ followed.pending = w.pending /\ followed.queueEdge = w.queueEdge
        /\ followed.dead = w.dead \ {e} /\ followed.edges = edges
    <3>1. followed = [removed EXCEPT !.nodes = followed.nodes] /\ followed.nodes \in Seq(Nodes)
      BY <2>1 DEF Rebinds
    <3>2. followed \in Works
      BY <1>5, <3>1 DEF Works
    <3>3. DOMAIN followed.nodes = DOMAIN w.nodes
      BY <1>1, <1>5, <2>1, <3>1 DEF Rebinds
    <3>4. \A n \in DOMAIN w.nodes : followed.nodes[n].name = w.nodes[n].name
      BY <1>5, <2>1 DEF Rebinds
    <3>5. /\ followed.instances = removed.instances /\ followed.subs = removed.subs
          /\ followed.pending = removed.pending /\ followed.queueEdge = removed.queueEdge
          /\ followed.dead = removed.dead /\ followed.edges = removed.edges
      <4>1. removed \in Works
        BY <1>5
      <4> QED
        BY <3>1, <4>1 DEF Works
    <3> QED
      BY <1>5, <3>2, <3>3, <3>4, <3>5
  <2>3. CASE moved = {}
    <3>1. v = followed
      BY <1>3, <1>7, <2>3
    <3>2. \A q \in DOMAIN w.queueEdge : w.queueEdge[q] # last
      BY <2>3
    <3>3. Removed(w, e, v)
      BY <1>7, <2>1, <2>2, <3>1, <3>2 DEF Removed, edges
    <3> QED
      BY <3>3 DEF v
  <2>4. CASE moved # {}
    <3>1. it \in DOMAIN w.queueEdge /\ w.queueEdge[it] = last
      BY <2>4
    <3>2. \A q \in DOMAIN w.queueEdge : w.queueEdge[q] = last => q = it
      BY <3>1 DEF Sound, QueuesRight
    <3> HIDE DEF it, moved
    <3>3. v = [followed EXCEPT !.queueEdge = qe]
      BY <1>3, <1>7, <2>2, <2>4
    <3>4. /\ qe = [x \in DOMAIN qe |-> qe[x]] /\ DOMAIN qe = DOMAIN w.queueEdge
          /\ \A q \in DOMAIN w.queueEdge : qe[q] = IF q = it THEN e ELSE w.queueEdge[q]
      OBVIOUS
    <3> HIDE DEF qe
    <3>5. qe \in Maps(Nat)
      <4>1. DOMAIN w.queueEdge \subseteq Names /\ \A q \in DOMAIN w.queueEdge : w.queueEdge[q] \in Nat
        BY <1>1, MapsIn
      <4>2. \A q \in DOMAIN qe : qe[q] \in Nat
        BY <1>2, <3>4, <4>1
      <4> QED
        BY <3>4, <4>1, <4>2, MapsIn
    <3>6. /\ v \in Works /\ v.nodes = followed.nodes /\ v.edges = followed.edges
          /\ v.instances = followed.instances /\ v.subs = followed.subs
          /\ v.pending = followed.pending /\ v.dead = followed.dead /\ v.queueEdge = qe
      BY <2>2, <3>3, <3>5 DEF Works
    <3>7. \A q \in DOMAIN w.queueEdge :
              v.queueEdge[q] = IF w.queueEdge[q] = Len(w.edges) /\ e # Len(w.edges) THEN e ELSE w.queueEdge[q]
      BY <1>7, <3>1, <3>2, <3>4, <3>6
    <3>8. Removed(w, e, v)
      BY <1>7, <2>1, <2>2, <3>4, <3>6, <3>7 DEF Removed, edges
    <3> QED
      BY <3>8 DEF v
  <2> QED
    BY <2>3, <2>4
<1> QED
  BY <1>6, <1>7

LEMMA RemoveEdgeKeeps ==
    ASSUME NEW w, Sound(w), w.dead # {}
    PROVE  LET v == RemoveEdge(w, Max(w.dead)) IN
           Sound(v) /\ BindingsKept(w, v) /\ v.pending = w.pending
<1>1. w.dead \in SUBSET (1 .. Len(w.edges)) /\ Len(w.edges) \in Nat
  BY DEF Sound, Works, DeadRight
<1>2. Max(w.dead) \in w.dead /\ \A d \in w.dead : Max(w.dead) >= d
  BY <1>1, MaxIsIn
<1> DEFINE e == Max(w.dead)
           v == RemoveEdge(w, e)
<1> HIDE DEF e, v
<1>3. e \in w.dead /\ \A d \in w.dead : d <= e
  BY <1>1, <1>2 DEF e
<1>4. Removed(w, e, v)
  BY <1>3, RemoveEdgeRemoves DEF v
<1>5. Sound(v) /\ BindingsKept(w, v)
  BY <1>3, <1>4, RemovedKeeps
<1> QED
  BY <1>4, <1>5 DEF v, e, Removed

-----------------------------------------------------------------------------
(* The phases, one after the other.                                        *)

LEMMA PhaseSet ==
    ToSet(Phases) = {"instances", "domains", "queues", "selfloops", "wire", "create", "substitute",
                     "recreate", "finddead", "remove", "bind", "checkwiring", "checkdomains", "finish"}
<1>1. DOMAIN Phases = 1 .. 14
  BY DEF Phases
<1>2. /\ Phases[1] = "instances" /\ Phases[2] = "domains" /\ Phases[3] = "queues"
      /\ Phases[4] = "selfloops" /\ Phases[5] = "wire" /\ Phases[6] = "create"
      /\ Phases[7] = "substitute" /\ Phases[8] = "recreate" /\ Phases[9] = "finddead"
      /\ Phases[10] = "remove" /\ Phases[11] = "bind" /\ Phases[12] = "checkwiring"
      /\ Phases[13] = "checkdomains" /\ Phases[14] = "finish"
  BY DEF Phases
<1>3. \A k \in 1 .. 14 : k \in {1, 2, 3, 4, 5, 6, 7, 8, 9, 10, 11, 12, 13, 14}
  OBVIOUS
<1>4. {1, 2, 3, 4, 5, 6, 7, 8, 9, 10, 11, 12, 13, 14} \subseteq 1 .. 14
  OBVIOUS
<1> QED
  BY <1>1, <1>2, <1>3, <1>4 DEF ToSet

(* The place of a phase. *)
PhaseAfter(current) == Phases[CHOOSE k \in DOMAIN Phases : k > 1 /\ Phases[k - 1] = current]

LEMMA PhasesInTurn ==
    /\ PhaseAfter("instances") = "domains" /\ PhaseAfter("domains") = "queues"
    /\ PhaseAfter("queues") = "selfloops" /\ PhaseAfter("selfloops") = "wire"
    /\ PhaseAfter("wire") = "create" /\ PhaseAfter("create") = "substitute"
    /\ PhaseAfter("substitute") = "recreate" /\ PhaseAfter("recreate") = "finddead"
    /\ PhaseAfter("finddead") = "remove" /\ PhaseAfter("remove") = "bind"
    /\ PhaseAfter("bind") = "checkwiring" /\ PhaseAfter("checkwiring") = "checkdomains"
    /\ PhaseAfter("checkdomains") = "finish"
<1>1. DOMAIN Phases = 1 .. 14
  BY DEF Phases
<1>2. /\ Phases[1] = "instances" /\ Phases[2] = "domains" /\ Phases[3] = "queues"
      /\ Phases[4] = "selfloops" /\ Phases[5] = "wire" /\ Phases[6] = "create"
      /\ Phases[7] = "substitute" /\ Phases[8] = "recreate" /\ Phases[9] = "finddead"
      /\ Phases[10] = "remove" /\ Phases[11] = "bind" /\ Phases[12] = "checkwiring"
      /\ Phases[13] = "checkdomains" /\ Phases[14] = "finish"
  BY DEF Phases
<1>3. \A k \in 1 .. 14 : k \in {1, 2, 3, 4, 5, 6, 7, 8, 9, 10, 11, 12, 13, 14}
  OBVIOUS
<1>4. ASSUME NEW i \in 1 .. 13 PROVE PhaseAfter(Phases[i]) = Phases[i + 1]
  <2>1. \A j \in 1 .. 14 : Phases[j] = Phases[i] => j = i
    BY <1>2, <1>3
  <2> DEFINE k == CHOOSE k \in 1 .. 14 : k > 1 /\ Phases[k - 1] = Phases[i]
  <2>2. i + 1 \in 1 .. 14 /\ i + 1 > 1 /\ (i + 1) - 1 = i
    OBVIOUS
  <2>3. k \in 1 .. 14 /\ k > 1 /\ Phases[k - 1] = Phases[i]
    BY <2>2
  <2> HIDE DEF k
  <2>4. k = i + 1
    BY <2>1, <2>3
  <2> QED
    BY <1>1, <2>4 DEF PhaseAfter, k
<1>5. \A i \in {1, 2, 3, 4, 5, 6, 7, 8, 9, 10, 11, 12, 13} : i \in 1 .. 13
  OBVIOUS
<1>6. /\ PhaseAfter(Phases[1]) = Phases[2] /\ PhaseAfter(Phases[2]) = Phases[3]
      /\ PhaseAfter(Phases[3]) = Phases[4] /\ PhaseAfter(Phases[4]) = Phases[5]
      /\ PhaseAfter(Phases[5]) = Phases[6] /\ PhaseAfter(Phases[6]) = Phases[7]
      /\ PhaseAfter(Phases[7]) = Phases[8] /\ PhaseAfter(Phases[8]) = Phases[9]
      /\ PhaseAfter(Phases[9]) = Phases[10] /\ PhaseAfter(Phases[10]) = Phases[11]
      /\ PhaseAfter(Phases[11]) = Phases[12] /\ PhaseAfter(Phases[12]) = Phases[13]
      /\ PhaseAfter(Phases[13]) = Phases[14]
  BY <1>4, <1>5
<1> QED
  BY <1>2, <1>6

LEMMA TurnsAre ==
    /\ phase \in {"instances", "selfloops", "wire", "bind"} => Turns = Len(insts)
    /\ phase \in {"queues", "create", "recreate"} => Turns = Len(queueDecls)
    /\ phase = "substitute" => Turns = Len(work.subs)
    /\ phase = "remove" => Turns = IF work.dead = {} THEN 0 ELSE turn
    /\ phase \in {"domains", "finddead", "checkwiring", "checkdomains", "finish"} => Turns = 1
  BY DEF Turns

-----------------------------------------------------------------------------
(* The inductive invariant: the network under construction and those that  *)
(* are finished are sound; the children of the pipe are elaborated; the    *)
(* queues declared are known once they are needed; and edges are dead only *)
(* from where they are found to where they are removed.                    *)

AllQueues   == \A k \in DOMAIN queueDecls : QueueKnown(work, k)
QueuesSoFar == work.failed \/ \A k \in DOMAIN queueDecls : k < turn => QueueKnown(work, k)

(* What a turn of a loop leaves as it is. *)
Settled ==
    /\ IsProgram(program)
    /\ diagnostics \in BOOLEAN
    /\ DOMAIN networks \subseteq Pipes
    /\ \A p \in DOMAIN networks : networks[p] = Failed \/ NetworkSound(networks[p])
    /\ phase \in {"idle"} \union ToSet(Phases)
    /\ (pipe = "") <=> (phase = "idle")
    /\ phase # "idle" => pipe \in Pipes /\ Children(pipe) \ {pipe} \subseteq DOMAIN networks

IInv ==
    /\ Settled
    /\ Sound(work)
    /\ turn \in Nat
    /\ phase # "idle" => turn > 0
    /\ work.dead # {} => phase = "remove" \/ (phase = "finddead" /\ turn > 1)
    /\ phase \in {"instances", "domains", "queues", "selfloops", "wire"} => CellsRight(work)
    /\ phase = "queues" => QueuesSoFar
    /\ phase \in {"selfloops", "wire", "create", "substitute", "recreate"} => AllQueues

LEMMA ElaborationInit == Init => IInv
<1> SUFFICES ASSUME Init PROVE IInv
  OBVIOUS
<1>1. IsProgram(program)
  BY ProgramsAssumption DEF Init
<1>2. networks = <<>> /\ DOMAIN networks = {}
  BY NothingIsAMap DEF Init
<1>3. Settled
  BY <1>1, <1>2 DEF Init, Settled
<1>4. Sound(work) /\ work.dead = {} /\ phase = "idle" /\ turn = 0
  BY BlankIsSound DEF Init
<1> QED
  BY <1>3, <1>4 DEF IInv

LEMMA InPhase ==
    ASSUME IInv, phase # "idle"
    PROVE  /\ Elaborating /\ pipe # "" /\ turn \in Nat \ {0} /\ Sound(work)
           /\ turn <= Len(insts) => turn \in DOMAIN insts
           /\ turn <= Len(queueDecls) => turn \in DOMAIN queueDecls
           /\ turn <= Len(work.subs) => turn \in DOMAIN work.subs
<1>1. Elaborating
  BY DEF IInv, Settled, Elaborating
<1>2. pipe # ""
  BY DEF IInv, Settled
<1>3. turn \in Nat \ {0} /\ Sound(work)
  BY DEF IInv
<1>4. insts \in Seq(InstDecls) /\ queueDecls \in Seq(QueueDecls)
  BY <1>1 DEF Elaborating, IsProgram, insts, queueDecls, Pipes
<1>5. work.subs \in Seq(Names \X Names)
  BY <1>3 DEF Sound, Works
<1>6. ASSUME NEW S, NEW s \in Seq(S), turn <= Len(s)
      PROVE  turn \in DOMAIN s
  BY <1>3, <1>6
<1> QED
  BY <1>1, <1>2, <1>3, <1>4, <1>5, <1>6

LEMMA SettledStays ==
    ASSUME Settled, UNCHANGED <<program, networks, diagnostics, pipe, phase>>
    PROVE  Settled'
<1>1. Pipes' = Pipes
  BY DEF Pipes
<1>2. Children(pipe)' = Children(pipe)
  BY DEF Children, Pipes
<1>3. (\A p \in DOMAIN networks : networks[p] = Failed \/ NetworkSound(networks[p]))'
  BY DEF Settled
<1>4. /\ IsProgram(program)' /\ (diagnostics \in BOOLEAN)'
      /\ (phase \in {"idle"} \union ToSet(Phases))'
      /\ ((pipe = "") <=> (phase = "idle"))'
  BY DEF Settled
<1>5. /\ (DOMAIN networks \subseteq Pipes)'
      /\ (phase # "idle" => pipe \in Pipes /\ Children(pipe) \ {pipe} \subseteq DOMAIN networks)'
  BY <1>1, <1>2 DEF Settled
<1> QED
  BY <1>3, <1>4, <1>5 DEF Settled

LEMMA TurnKeeps ==
    ASSUME IInv, UNCHANGED <<program, networks, diagnostics, pipe, phase>>, turn' = turn + 1,
           phase \notin {"idle", "finddead", "remove"}, Grows(work, work'),
           phase = "queues" => QueuesSoFar'
    PROVE  IInv'
<1>1. Sound(work') /\ work'.dead = {} /\ DOMAIN work.pending \subseteq DOMAIN work'.pending
  BY DEF Grows
<1>2. AllQueues => AllQueues'
  BY <1>1 DEF AllQueues, QueueKnown, queueDecls
<1>3. CellsRight(work) => CellsRight(work')
  BY DEF Grows
<1>4. Settled'
  BY SettledStays DEF IInv
<1>5. turn' \in Nat /\ turn' > 0
  BY DEF IInv
<1>6. phase' \in {"instances", "domains", "queues", "selfloops", "wire"} => CellsRight(work')
  BY <1>3 DEF IInv
<1>7. phase' \in {"selfloops", "wire", "create", "substitute", "recreate"} => AllQueues'
  BY <1>2 DEF IInv
<1> QED
  BY <1>1, <1>4, <1>5, <1>6, <1>7 DEF IInv

LEMMA Stuttering == IInv /\ UNCHANGED elaborationVars => IInv'
<1> SUFFICES ASSUME IInv, UNCHANGED elaborationVars PROVE IInv'
  OBVIOUS
<1>1. Settled'
  BY SettledStays DEF IInv, elaborationVars
<1>2. AllQueues => AllQueues'
  BY DEF AllQueues, QueueKnown, queueDecls, elaborationVars
<1>3. QueuesSoFar => QueuesSoFar'
  BY DEF QueuesSoFar, QueueKnown, queueDecls, elaborationVars
<1> QED
  BY <1>1, <1>2, <1>3 DEF IInv, elaborationVars


(* Every turn of a loop but those that find and remove dead edges. *)
LoopTurn ==
    \/ AddInstances \/ CollectDomain \/ DeclareQueues \/ AddSelfLoops \/ WireInstances
    \/ CreateEdges \/ SubstituteEdge \/ RecreateEdges
    \/ BindInstances \/ CheckPorts \/ CheckCrossings

LEMMA NoneDead == ASSUME IInv, phase \notin {"finddead", "remove"} PROVE work.dead = {}
  BY DEF IInv

LEMMA QueuesGoOn ==
    ASSUME IInv, DeclareQueues, turn \in DOMAIN queueDecls, Elaborating, work.dead = {}
    PROVE  QueuesSoFar'
<1>1. /\ work' = DeclareQueue(work, turn) /\ queueDecls' = queueDecls /\ turn' = turn + 1
      /\ turn \in Nat /\ Sound(work) /\ QueuesSoFar
  BY DEF DeclareQueues, Turn, queueDecls, IInv
<1>2. /\ Grows(work, work')
      /\ work.failed => work'.failed
      /\ work'.failed \/ QueueKnown(work', turn)
  BY <1>1, DeclareQueueGrows DEF QueueKnown
<1>3. \A k \in DOMAIN queueDecls : QueueKnown(work, k) => QueueKnown(work', k)
  BY <1>2 DEF Grows, QueueKnown
<1>4. \A k \in DOMAIN queueDecls : k \in Nat
  <2>1. queueDecls \in Seq(QueueDecls)
    BY DEF Elaborating, IsProgram, queueDecls, Pipes
  <2> QED
    BY <2>1
<1>5. \A k \in DOMAIN queueDecls : k < turn + 1 => k < turn \/ k = turn
  BY <1>1, <1>4
<1>6. work'.failed \/ \A k \in DOMAIN queueDecls : k < turn + 1 => QueueKnown(work', k)
  <2>1. CASE work.failed
    BY <1>2, <2>1
  <2>2. CASE ~work.failed
    <3>1. \A k \in DOMAIN queueDecls : k < turn => QueueKnown(work', k)
      BY <1>1, <1>3, <2>2 DEF QueuesSoFar
    <3> QED
      BY <1>2, <1>5, <3>1
  <2> QED
    BY <2>1, <2>2
<1>7. \A k \in DOMAIN queueDecls : QueueKnown(work, k)' <=> QueueKnown(work', k)
  BY <1>1 DEF QueueKnown
<1> QED
  BY <1>1, <1>6, <1>7 DEF QueuesSoFar

LEMMA LoopTurns == IInv /\ LoopTurn => IInv'
<1> SUFFICES ASSUME IInv, LoopTurn PROVE IInv'
  OBVIOUS
<1>1. /\ phase \in {"instances", "domains", "queues", "selfloops", "wire", "create", "substitute",
                    "recreate", "bind", "checkwiring", "checkdomains"}
      /\ turn' = turn + 1 /\ UNCHANGED <<program, networks, diagnostics, pipe, phase>>
      /\ turn <= Turns
  BY DEF LoopTurn, Turn, AddInstances, CollectDomain, DeclareQueues, AddSelfLoops, WireInstances,
     CreateEdges, SubstituteEdge, RecreateEdges, BindInstances, CheckPorts, CheckCrossings
<1>2. /\ Elaborating /\ Sound(work)
      /\ turn <= Len(insts) => turn \in DOMAIN insts
      /\ turn <= Len(queueDecls) => turn \in DOMAIN queueDecls
      /\ turn <= Len(work.subs) => turn \in DOMAIN work.subs
  BY <1>1, InPhase
<1>3. work.dead = {}
  BY <1>1, NoneDead
<1>4. phase \in {"instances", "selfloops", "wire", "bind"} => turn \in DOMAIN insts
  BY <1>1, <1>2, TurnsAre
<1>5. phase \in {"queues", "create", "recreate"} => turn \in DOMAIN queueDecls
  BY <1>1, <1>2, TurnsAre
<1>6. phase \in {"create", "recreate"} => QueueKnown(work, turn)
  BY <1>5 DEF IInv, AllQueues
<1>7. phase = "substitute" => turn \in DOMAIN work.subs
  BY <1>1, <1>2, TurnsAre
<1>8. phase = "wire" => CellsRight(work)
  BY DEF IInv
<1>9. Grows(work, work')
  <2>1. CASE AddInstances
    BY <1>2, <1>3, <1>4, <2>1, AddInstanceGrows DEF AddInstances, Turn
  <2>2. CASE CollectDomain
    BY <1>2, <1>3, <2>2, CollectDomainsGrows DEF CollectDomain, Turn
  <2>3. CASE DeclareQueues
    BY <1>2, <1>3, <1>5, <2>3, DeclareQueueGrows DEF DeclareQueues, Turn
  <2>4. CASE AddSelfLoops
    BY <1>2, <1>3, <1>4, <2>4, SelfLoopsGrows DEF AddSelfLoops, Turn
  <2>5. CASE WireInstances
    BY <1>2, <1>3, <1>4, <1>8, <2>5, WireInstanceGrows DEF WireInstances, Turn
  <2>6. CASE CreateEdges
    BY <1>2, <1>3, <1>5, <1>6, <2>6, CreateEdgeGrows DEF CreateEdges, Turn
  <2>7. CASE SubstituteEdge
    BY <1>2, <1>3, <1>7, <2>7, SubstituteGrows DEF SubstituteEdge, Turn
  <2>8. CASE RecreateEdges
    BY <1>2, <1>3, <1>5, <1>6, <2>8, RecreateGrows DEF RecreateEdges, Turn
  <2>9. CASE BindInstances
    BY <1>2, <1>3, <1>4, <2>9, BindDeferredGrows DEF BindInstances, Turn
  <2>10. CASE CheckPorts
    BY <1>2, <1>3, <2>10, ChecksGrow DEF CheckPorts, Turn
  <2>11. CASE CheckCrossings
    BY <1>2, <1>3, <2>11, ChecksGrow DEF CheckCrossings, Turn
  <2> QED
    BY <2>1, <2>2, <2>3, <2>4, <2>5, <2>6, <2>7, <2>8, <2>9, <2>10, <2>11 DEF LoopTurn
<1>10. phase = "queues" => QueuesSoFar'
  <2> SUFFICES ASSUME phase = "queues" PROVE QueuesSoFar'
    OBVIOUS
  <2>1. DeclareQueues
    BY DEF LoopTurn, Turn, AddInstances, CollectDomain, AddSelfLoops, WireInstances,
       CreateEdges, SubstituteEdge, RecreateEdges, BindInstances, CheckPorts, CheckCrossings
  <2> QED
    BY <1>2, <1>3, <1>5, <2>1, QueuesGoOn
<1> QED
  BY <1>1, <1>9, <1>10, TurnKeeps

(* The turns that find and remove dead edges. *)
LEMMA DeadTurns == IInv /\ (FindDeadEdges \/ RemoveEdges) => IInv'
<1> SUFFICES ASSUME IInv, FindDeadEdges \/ RemoveEdges PROVE IInv'
  OBVIOUS
<1>1. /\ phase \in {"finddead", "remove"}
      /\ turn' = turn + 1 /\ UNCHANGED <<program, networks, diagnostics, pipe, phase>>
      /\ turn <= Turns
  BY DEF FindDeadEdges, RemoveEdges, Turn
<1>2. Settled'
  BY <1>1, SettledStays DEF IInv
<1>3. turn \in Nat /\ turn > 0 /\ Sound(work)
  BY <1>1 DEF IInv
<1>4. turn' \in Nat /\ turn' > 1
  BY <1>1, <1>3
<1>5. Sound(work')
  <2>1. CASE FindDeadEdges
    <3>1. phase = "finddead" /\ work' = FindDead(work) /\ turn <= 1
      BY <1>1, <2>1, TurnsAre DEF FindDeadEdges, Turn
    <3>2. work.dead = {}
      BY <1>3, <3>1 DEF IInv
    <3> QED
      BY <1>3, <3>1, <3>2, FindDeadIsSound
  <2>2. CASE RemoveEdges
    <3>1. phase = "remove" /\ work' = RemoveEdge(work, Max(work.dead))
      BY <2>2 DEF RemoveEdges, Turn
    <3>2. work.dead # {}
      BY <1>1, <1>3, <3>1, TurnsAre
    <3> QED
      BY <1>3, <3>1, <3>2, RemoveEdgeKeeps
  <2> QED
    BY <2>1, <2>2
<1> QED
  BY <1>1, <1>2, <1>4, <1>5 DEF IInv

LEMMA ToNextPhase == IInv /\ NextPhase => IInv'
<1> SUFFICES ASSUME IInv, NextPhase PROVE IInv'
  OBVIOUS
<1>1. /\ phase \in ToSet(Phases) \ {"finish"} /\ turn > Turns
      /\ ~(phase \in GivesUp /\ work.failed)
      /\ phase' = PhaseAfter(phase) /\ turn' = 1
      /\ UNCHANGED <<program, networks, diagnostics, pipe, work>>
  BY DEF NextPhase, PhaseAfter
<1>2. phase \in {"instances", "domains", "queues", "selfloops", "wire", "create", "substitute",
                 "recreate", "finddead", "remove", "bind", "checkwiring", "checkdomains"}
  BY <1>1, PhaseSet
<1>3. /\ phase' \in ToSet(Phases) /\ phase' # "idle" /\ phase # "idle" /\ phase' # "instances"
      /\ phase' \in {"domains", "queues", "selfloops", "wire"}
            => phase \in {"instances", "domains", "queues", "selfloops"}
      /\ phase' = "selfloops" => phase = "queues"
      /\ phase' \in {"wire", "create", "substitute", "recreate"}
            => phase \in {"selfloops", "wire", "create", "substitute"}
      /\ phase' = "remove" <=> phase = "finddead"
      /\ phase = "remove" => phase' = "bind"
  BY <1>1, <1>2, PhasesInTurn, PhaseSet
<1>4. Settled'
  <2>1. Pipes' = Pipes
    BY <1>1 DEF Pipes
  <2>2. Children(pipe)' = Children(pipe)
    BY <1>1 DEF Children, Pipes
  <2>3. (\A p \in DOMAIN networks : networks[p] = Failed \/ NetworkSound(networks[p]))'
    BY <1>1 DEF IInv, Settled
  <2>4. IsProgram(program)' /\ (diagnostics \in BOOLEAN)' /\ pipe' # ""
    BY <1>1, <1>3 DEF IInv, Settled
  <2>5. /\ (DOMAIN networks \subseteq Pipes)'
        /\ (pipe \in Pipes /\ Children(pipe) \ {pipe} \subseteq DOMAIN networks)'
    BY <1>1, <1>3, <2>1, <2>2 DEF IInv, Settled
  <2> QED
    BY <1>3, <2>3, <2>4, <2>5 DEF Settled
<1>5. work.dead # {} => phase = "finddead"
  <2>1. phase = "remove" => work.dead = {}
    <3> SUFFICES ASSUME phase = "remove", work.dead # {} PROVE FALSE
      OBVIOUS
    <3>1. Turns = turn
      BY TurnsAre
    <3> QED
      BY <1>1, <3>1 DEF IInv
  <2> QED
    BY <2>1 DEF IInv
<1>6. AllQueues' <=> AllQueues
  BY <1>1 DEF AllQueues, QueueKnown, queueDecls
<1>7. phase = "queues" => AllQueues
  <2> SUFFICES ASSUME phase = "queues" PROVE AllQueues
    OBVIOUS
  <2>1. ~work.failed /\ QueuesSoFar
    BY <1>1 DEF GivesUp, IInv
  <2>2. turn > Len(queueDecls) /\ turn \in Nat
    BY <1>1, TurnsAre DEF IInv
  <2>3. queueDecls \in Seq(QueueDecls)
    BY <1>3, InPhase DEF Elaborating, IsProgram, queueDecls, Pipes
  <2>4. \A k \in DOMAIN queueDecls : k < turn
    BY <2>2, <2>3
  <2> QED
    BY <2>1, <2>4 DEF QueuesSoFar, AllQueues
<1>8. phase' = "queues" => QueuesSoFar'
  <2> SUFFICES ASSUME phase' = "queues" PROVE QueuesSoFar'
    OBVIOUS
  <2>1. queueDecls \in Seq(QueueDecls)
    BY <1>3, InPhase DEF Elaborating, IsProgram, queueDecls, Pipes
  <2>2. queueDecls' = queueDecls
    BY <1>1 DEF queueDecls
  <2>3. \A k \in DOMAIN queueDecls : ~(k < 1)
    BY <2>1
  <2> QED
    BY <1>1, <2>2, <2>3 DEF QueuesSoFar
<1>9. phase' \in {"selfloops", "wire", "create", "substitute", "recreate"} => AllQueues'
  BY <1>3, <1>6, <1>7 DEF IInv
<1>10. phase' \in {"instances", "domains", "queues", "selfloops", "wire"} => CellsRight(work')
  BY <1>1, <1>3 DEF IInv
<1>11. work'.dead # {} => phase' = "remove"
  BY <1>1, <1>3, <1>5
<1>12. Sound(work') /\ turn' \in Nat /\ turn' > 0
  BY <1>1 DEF IInv
<1> QED
  BY <1>4, <1>8, <1>9, <1>10, <1>11, <1>12 DEF IInv


LEMMA FirstTurn ==
    ASSUME IInv, StartPipe PROVE IInv'
<1> DEFINE ready == {p \in WithChildren(TopPipes) \ DOMAIN networks :
                        Children(p) \ {p} \subseteq DOMAIN networks}
<1>1. /\ ready # {} /\ pipe' = (CHOOSE p \in ready : TRUE)
      /\ phase' = "instances" /\ turn' = 1 /\ work' = Blank
      /\ UNCHANGED <<program, networks, diagnostics>>
  BY DEF StartPipe
<1>2. pipe' \in ready
  BY <1>1
<1>3. pipe' \in Pipes /\ Children(pipe') \ {pipe'} \subseteq DOMAIN networks
  BY <1>2 DEF WithChildren
<1> HIDE DEF ready
<1>4. Pipes' = Pipes
  BY <1>1 DEF Pipes
<1>5. (Children(pipe))' = Children(pipe')
  BY <1>1 DEF Children, Pipes
<1>6. IsProgram(program) /\ pipe' # ""
  BY <1>3 DEF IInv, Settled, IsProgram, Pipes
<1>7. (\A p \in DOMAIN networks : networks[p] = Failed \/ NetworkSound(networks[p]))'
  BY <1>1 DEF IInv, Settled
<1>8. /\ IsProgram(program)' /\ (diagnostics \in BOOLEAN)'
      /\ (phase \in {"idle"} \union ToSet(Phases))' /\ phase' # "idle"
  BY <1>1, <1>6, PhaseSet DEF IInv, Settled
<1>9. /\ (DOMAIN networks \subseteq Pipes)'
      /\ (pipe \in Pipes /\ Children(pipe) \ {pipe} \subseteq DOMAIN networks)'
  BY <1>1, <1>3, <1>4, <1>5 DEF IInv, Settled
<1>10. Settled'
  BY <1>6, <1>7, <1>8, <1>9 DEF Settled
<1> QED
  BY <1>1, <1>10, BlankIsSound DEF IInv

(* A pipe is done when it has a network, or has failed. *)
LEMMA DoneKeeps ==
    ASSUME IInv, phase # "idle", NEW STATE network, network = Failed \/ NetworkSound(network),
           PipeDone(network), diagnostics' \in BOOLEAN
    PROVE  IInv'
<1>1. /\ networks' = With(networks, pipe, network) /\ program' = program
      /\ pipe' = "" /\ phase' = "idle" /\ turn' = 0 /\ work' = Blank
  BY DEF PipeDone
<1>2. /\ DOMAIN networks' = DOMAIN networks \union {pipe} /\ networks'[pipe] = network
      /\ \A p \in DOMAIN networks : p # pipe => networks'[p] = networks[p]
  <2> DEFINE f == With(networks, pipe, network)
  <2>1. f = Over([y \in {pipe} |-> network], networks)
    BY DEF With
  <2>2. DOMAIN f = DOMAIN networks \union {pipe} /\ f[pipe] = network
    BY <2>1 DEF Over
  <2>3. \A p \in DOMAIN networks : p # pipe => f[p] = networks[p]
    BY <2>1 DEF Over
  <2> HIDE DEF f
  <2>4. networks' = f
    BY <1>1 DEF f
  <2> QED
    BY <2>2, <2>3, <2>4
<1>3. Pipes' = Pipes
  BY <1>1 DEF Pipes
<1>4. (\A p \in DOMAIN networks : networks[p] = Failed \/ NetworkSound(networks[p]))'
  BY <1>2 DEF IInv, Settled
<1>5. (DOMAIN networks \subseteq Pipes)'
  BY <1>2, <1>3 DEF IInv, Settled
<1>6. Settled'
  BY <1>1, <1>4, <1>5 DEF IInv, Settled
<1> QED
  BY <1>1, <1>6, BlankIsSound DEF IInv

LEMMA Fails == ASSUME IInv, PipeFails PROVE IInv'
<1>1. phase # "idle" /\ PipeDone(Failed) /\ diagnostics' \in BOOLEAN
  BY DEF PipeFails, GivesUp
<1> QED
  BY <1>1, DoneKeeps

LEMMA Finishes == ASSUME IInv, FinishPipe PROVE IInv'
<1> DEFINE network == [nodes |-> work.nodes, edges |-> work.edges, instances |-> work.instances,
                       domains |-> domainDecls, domainMap |-> work.domainMap]
<1>1. phase = "finish" /\ PipeDone(network) /\ diagnostics' = (diagnostics \/ work.warned)
  BY DEF FinishPipe
<1>2. Elaborating /\ Sound(work)
  BY <1>1, InPhase
<1>3. domainDecls \in Seq(STRING)
  BY <1>2 DEF Elaborating, IsProgram, domainDecls, Pipes
<1>4. NetworkSound(network)
  BY <1>2, <1>3 DEF NetworkSound, Networks, Sound, Works, NamesRight, PortsRight, EndsRight
<1>5. diagnostics' \in BOOLEAN
  BY <1>1
<1> HIDE DEF network
<1> QED
  BY <1>1, <1>4, <1>5, DoneKeeps

LEMMA ElaborationStep == IInv /\ [Elaborate]_elaborationVars => IInv'
<1> SUFFICES ASSUME IInv, [Elaborate]_elaborationVars PROVE IInv'
  OBVIOUS
<1>1. CASE StartPipe
  BY <1>1, FirstTurn
<1>2. CASE LoopTurn
  BY <1>2, LoopTurns
<1>3. CASE FindDeadEdges \/ RemoveEdges
  BY <1>3, DeadTurns
<1>4. CASE NextPhase
  BY <1>4, ToNextPhase
<1>5. CASE PipeFails
  BY <1>5, Fails
<1>6. CASE FinishPipe
  BY <1>6, Finishes
<1>7. CASE UNCHANGED elaborationVars
  BY <1>7, Stuttering
<1> QED
  BY <1>1, <1>2, <1>3, <1>4, <1>5, <1>6, <1>7 DEF Elaborate, LoopTurn

(* Soundness of a network is more than consistency. *)
LEMMA SoundIsConsistent ==
    ASSUME NEW w, NamesRight(w), PortsRight(w), EndsRight(w), NEW S, w.edges \in Seq(S)
    PROVE  Consistent(w)
<1>1. ASSUME NEW b \in Referenced(w) PROVE b \in {0} \union DOMAIN w.edges
  <2>1. PICK n \in DOMAIN w.nodes : \E port \in ToSet(w.nodes[n].ports) : b = port.bound
    BY DEF Referenced
  <2>2. PICK k \in DOMAIN w.nodes[n].ports : b = w.nodes[n].ports[k].bound
    BY <2>1 DEF ToSet
  <2>3. b \in 0 .. Len(w.edges)
    BY <2>2 DEF PortsRight
  <2> QED
    BY <2>3
<1>2. \A e \in DOMAIN w.edges : {w.edges[e].src, w.edges[e].dst} \subseteq DOMAIN w.nodes
  BY DEF EndsRight
<1> QED
  BY <1>1, <1>2 DEF Consistent, NamesRight

LEMMA ElaborationImplies == IInv => ElaborationTypeOK
<1> SUFFICES ASSUME IInv PROVE ElaborationTypeOK
  OBVIOUS
<1>1. Consistent(work)
  BY SoundIsConsistent DEF IInv, Sound, Works
<1>2. \A q \in DOMAIN work.queueEdge : work.queueEdge[q] \in DOMAIN work.edges
  BY DEF IInv, Sound, QueuesRight
<1>3. ASSUME NEW p \in DOMAIN networks PROVE networks[p] = Failed \/ Consistent(networks[p])
  <2>1. networks[p] = Failed \/ NetworkSound(networks[p])
    BY DEF IInv, Settled
  <2>2. ASSUME NetworkSound(networks[p]) PROVE Consistent(networks[p])
    <3>1. networks[p].edges \in Seq(Edges)
      BY <2>2 DEF NetworkSound, Networks
    <3> QED
      BY <2>2, <3>1, SoundIsConsistent DEF NetworkSound
  <2> QED
    BY <2>1, <2>2
<1> QED
  BY <1>1, <1>2, <1>3 DEF ElaborationTypeOK, IInv, Settled

(* Elaboration of any program keeps its networks consistent: no port has   *)
(* an edge, no edge a node, no name a node and no queue an edge that is    *)
(* not there, whatever is merged, replaced, renumbered and removed.        *)
THEOREM ElaborationIsConsistent == ElaborationSpec => []ElaborationTypeOK
<1>1. Init => IInv
  BY ElaborationInit
<1>2. IInv /\ [Elaborate]_elaborationVars => IInv'
  BY ElaborationStep
<1>3. IInv => ElaborationTypeOK
  BY ElaborationImplies
<1> QED
  BY <1>1, <1>2, <1>3, PTL DEF ElaborationSpec

Kept ==
    phase = "remove" /\ phase' = phase => BindingsKept(work, work')

LEMMA RemovalStep == IInv /\ [Elaborate]_elaborationVars => [Kept]_elaborationVars
<1> SUFFICES ASSUME IInv, Elaborate, phase = "remove", phase' = phase
             PROVE  BindingsKept(work, work')
  BY DEF Kept
<1>1. RemoveEdges
  <2>1. ~NextPhase
    <3> SUFFICES ASSUME NextPhase PROVE FALSE
      OBVIOUS
    <3>1. phase' = PhaseAfter(phase)
      BY DEF NextPhase, PhaseAfter
    <3> QED
      BY <3>1, PhasesInTurn
  <2>2. ~StartPipe /\ ~PipeFails /\ ~FinishPipe
    BY DEF StartPipe, PipeFails, FinishPipe, GivesUp
  <2> QED
    BY <2>1, <2>2 DEF Elaborate, AddInstances, CollectDomain, DeclareQueues, AddSelfLoops,
       WireInstances, CreateEdges, SubstituteEdge, RecreateEdges, FindDeadEdges, BindInstances,
       CheckPorts, CheckCrossings, Turn
<1>2. work' = RemoveEdge(work, Max(work.dead)) /\ turn <= Turns
  BY <1>1 DEF RemoveEdges, Turn
<1>3. Sound(work) /\ turn \in Nat /\ turn > 0
  BY DEF IInv
<1>4. work.dead # {}
  BY <1>2, <1>3, TurnsAre
<1> QED
  BY <1>2, <1>3, <1>4, RemoveEdgeKeeps

(* Removing replaced edges, from the highest number down, leaves every     *)
(* port and every queue of any program bound to what it was bound to.      *)
THEOREM RemovalKeepsEveryBinding == ElaborationSpec => RemovalKeepsBindings
<1>1. Init => IInv
  BY ElaborationInit
<1>2. IInv /\ [Elaborate]_elaborationVars => IInv'
  BY ElaborationStep
<1>3. IInv /\ [Elaborate]_elaborationVars => [Kept]_elaborationVars
  BY RemovalStep
<1>4. ElaborationSpec => [][Kept]_elaborationVars
  BY <1>1, <1>2, <1>3, PTL DEF ElaborationSpec
<1> QED
  BY <1>4 DEF Kept, BindingsKept, RemovalKeepsBindings

=============================================================================
