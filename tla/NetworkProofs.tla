---------------------------- MODULE NetworkProofs ---------------------------
(***************************************************************************)
(* Proofs about the hardware of a process network, for every network whose *)
(* rules access their own ends of the edges, whatever its depths, number   *)
(* of rules, values and functions computed: nothing is written or read     *)
(* twice in one cycle, the rules that fire together do what they would     *)
(* have done one at a time, and the hardware of the two back ends is the   *)
(* same.  An accepted ring never deadlocks.                                *)
(***************************************************************************)
EXTENDS ChiselNetwork, FiniteSetTheorems, SequenceTheorems, WellFoundedInduction, TLAPS

(* Induction over the naturals, for a set. *)
LEMMA CountingUp ==
    ASSUME NEW S \in SUBSET Nat, 0 \in S, \A n \in S : n + 1 \in S
    PROVE  S = Nat
<1> SUFFICES ASSUME Nat \ S # {} PROVE FALSE
  OBVIOUS
<1>1. \E k \in Nat \ S : \A l \in Nat \ S : <<l, k>> \notin OpToRel(<, Nat)
  BY NatLessThanWellFounded, WFMin, Zenon
<1>2. PICK k \in Nat \ S : \A l \in Nat \ S : ~(l < k)
  BY <1>1 DEF OpToRel
<1>3. k # 0 /\ k - 1 \in S
  BY <1>2
<1> QED
  BY <1>2, <1>3

-----------------------------------------------------------------------------
(* The schedule of a process.                                              *)

(* No two rules of a group share a mutable edge. *)
Apart(mutable, gs) ==
    \A k \in DOMAIN gs : \A i, j \in gs[k] : i # j => mutable[i] \intersect mutable[j] = {}

(* The first n rules are all in some group. *)
AllPlaced(n, gs) == \A r \in 0 .. n - 1 : \E k \in DOMAIN gs : r \in gs[k]

(* There is a group for the rule, an old one or a new one. *)
LEMMA PlaceExists ==
    ASSUME NEW c, NEW S, NEW gs \in Seq(S), NEW r
    PROVE  \E k \in 1 .. Len(gs) + 1 : IsPlace(c, gs, r, k)
<1> DEFINE fits(k) == k \in DOMAIN gs => Fits(c, gs[k], r)
           T == {k \in Nat : k \in 1 .. Len(gs) + 1 => \E m \in 1 .. k : fits(m) /\ \A l \in 1 .. m - 1 : ~fits(l)}
           U == {k \in Nat : (\E m \in 1 .. k : fits(m)) => \E m \in 1 .. k : fits(m) /\ \A l \in 1 .. m - 1 : ~fits(l)}
<1>0. Len(gs) \in Nat /\ DOMAIN gs = 1 .. Len(gs)
  OBVIOUS
<1>1. fits(Len(gs) + 1)
  BY <1>0
<1> HIDE DEF fits
<1>2. 0 \in U
  OBVIOUS
<1>3. ASSUME NEW k \in U
      PROVE  k + 1 \in U
  <2>1. CASE \E m \in 1 .. k : fits(m)
    BY <2>1
  <2>2. CASE ~ \E m \in 1 .. k : fits(m)
    <3>1. ASSUME fits(k + 1)
          PROVE  \A l \in 1 .. (k + 1) - 1 : ~fits(l)
      BY <2>2
    <3>2. \A m \in 1 .. k + 1 : m = k + 1 \/ m \in 1 .. k
      OBVIOUS
    <3> QED
      BY <2>2, <3>1, <3>2
  <2> QED
    BY <2>1, <2>2
<1> HIDE DEF U
<1>4. U = Nat
  BY <1>2, <1>3, CountingUp DEF U
<1>5. PICK m \in 1 .. Len(gs) + 1 : fits(m) /\ \A l \in 1 .. m - 1 : ~fits(l)
  BY <1>0, <1>1, <1>4 DEF U
<1>6. \A l \in 1 .. m - 1 : ~Fits(c, gs[l], r)
  BY <1>0, <1>5 DEF fits
<1> QED
  BY <1>5, <1>6 DEF IsPlace, fits

(* One turn of the loop. *)
LEMMA PlacingKeepsApart ==
    ASSUME NEW n \in Nat, NEW mutable, DOMAIN mutable = 0 .. n - 1,
           NEW r \in 0 .. n - 1, NEW gs \in Seq(SUBSET (0 .. r - 1)), Apart(mutable, gs),
           AllPlaced(r, gs), NEW new, new = Placed(Conflicts(mutable), gs, r)
    PROVE  new \in Seq(SUBSET (0 .. r)) /\ Apart(mutable, new) /\ AllPlaced(r + 1, new)
<1> DEFINE T == 0 .. r
<1>0. /\ Len(gs) \in Nat /\ DOMAIN gs = 1 .. Len(gs) /\ gs \in [1 .. Len(gs) -> SUBSET T]
      /\ \A l \in DOMAIN gs : gs[l] \subseteq 0 .. r - 1
  <2>1. \A l \in 1 .. Len(gs) : gs[l] \in SUBSET (0 .. r - 1)
    OBVIOUS
  <2>2. 0 .. r - 1 \subseteq T
    OBVIOUS
  <2>3. gs \in [1 .. Len(gs) -> SUBSET (0 .. r - 1)]
    OBVIOUS
  <2> QED
    BY <2>1, <2>2, <2>3
<1>1. PICK k \in 1 .. Len(gs) + 1 : IsPlace(Conflicts(mutable), gs, r, k) /\ new = PutIn(gs, r, k)
  BY PlaceExists DEF Placed
<1>2. k \in DOMAIN gs => \A e \in gs[k] : mutable[e] \intersect mutable[r] = {}
  <2> SUFFICES ASSUME k \in DOMAIN gs, NEW e \in gs[k], mutable[e] \intersect mutable[r] # {}
               PROVE  FALSE
    OBVIOUS
  <2>1. e \in 0 .. r - 1 /\ e < r /\ e \in DOMAIN mutable /\ r \in DOMAIN mutable
    BY <1>0
  <2>2. <<e, r>> \in Conflicts(mutable)
    BY <2>1 DEF Conflicts
  <2> QED
    BY <1>1, <2>2 DEF IsPlace, Fits, Conflict
<1>3. CASE k \in DOMAIN gs
  <2>1. new = [gs EXCEPT ![k] = gs[k] \union {r}]
    BY <1>1, <1>3 DEF PutIn
  <2>2. new \in [1 .. Len(gs) -> SUBSET T]
    BY <1>0, <1>3, <2>1
  <2>3. new \in Seq(SUBSET T)
    BY <1>0, <2>2, SeqDef
  <2>4. Apart(mutable, new)
    <3> SUFFICES ASSUME NEW l \in DOMAIN new, NEW i \in new[l], NEW j \in new[l], i # j
                 PROVE  mutable[i] \intersect mutable[j] = {}
      BY DEF Apart
    <3>1. CASE l = k
      BY <3>1, <1>2, <1>3, <2>1 DEF Apart
    <3>2. CASE l # k
      BY <3>2, <1>3, <2>1 DEF Apart
    <3> QED
      BY <3>1, <3>2
  <2>5. AllPlaced(r + 1, new)
    <3>1. DOMAIN new = DOMAIN gs /\ r \in new[k] /\ \A l \in DOMAIN gs : gs[l] \subseteq new[l]
      BY <1>0, <1>3, <2>1
    <3>2. \A i \in 0 .. (r + 1) - 1 : i = r \/ i \in 0 .. r - 1
      OBVIOUS
    <3> QED
      BY <1>3, <3>1, <3>2 DEF AllPlaced
  <2> QED
    BY <2>3, <2>4, <2>5
<1>4. CASE k \notin DOMAIN gs
  <2>1. new = Append(gs, {r})
    BY <1>1, <1>4 DEF PutIn
  <2>2. gs \in Seq(SUBSET T) /\ {r} \in SUBSET T
    BY <1>0, SeqDef
  <2>3. /\ new \in Seq(SUBSET T) /\ DOMAIN new = 1 .. Len(gs) + 1
        /\ new[Len(gs) + 1] = {r} /\ \A l \in 1 .. Len(gs) : new[l] = gs[l]
    BY <2>1, <2>2
  <2>4. Apart(mutable, new)
    <3> SUFFICES ASSUME NEW l \in DOMAIN new, NEW i \in new[l], NEW j \in new[l], i # j
                 PROVE  mutable[i] \intersect mutable[j] = {}
      BY DEF Apart
    <3>1. l = Len(gs) + 1 \/ l \in DOMAIN gs
      BY <1>0, <2>3
    <3> QED
      BY <3>1, <1>0, <2>3 DEF Apart
  <2>5. AllPlaced(r + 1, new)
    <3>1. \A i \in 0 .. (r + 1) - 1 : i = r \/ i \in 0 .. r - 1
      OBVIOUS
    <3>2. Len(gs) + 1 \in DOMAIN new /\ \A l \in DOMAIN gs : l \in DOMAIN new
      BY <1>0, <2>3
    <3> QED
      BY <1>0, <2>3, <3>1, <3>2 DEF AllPlaced
  <2> QED
    BY <2>3, <2>4, <2>5
<1> QED
  BY <1>3, <1>4

(* The whole loop. *)
LEMMA ScheduleIsConflictFree ==
    ASSUME NEW n \in Nat, NEW mutable, DOMAIN mutable = 0 .. n - 1
    PROVE  /\ GroupRules(n, Conflicts(mutable)) \in Seq(SUBSET (0 .. n - 1))
           /\ Apart(mutable, GroupRules(n, Conflicts(mutable)))
           /\ AllPlaced(n, GroupRules(n, Conflicts(mutable)))
<1> DEFINE c == Conflicts(mutable)
           Turns(m, g) == g = [k \in 0 .. m |-> IF k = 0 THEN <<>> ELSE Placed(c, g[k - 1], k - 1)]
           good(k, gs) == gs \in Seq(SUBSET (0 .. k - 1)) /\ Apart(mutable, gs) /\ AllPlaced(k, gs)
           S == {m \in Nat : \E g : Turns(m, g)}
<1> HIDE DEF c
<1>1. 0 \in S
  <2>1. Turns(0, [k \in 0 .. 0 |-> <<>>])
    OBVIOUS
  <2> QED
    BY <2>1
<1>2. ASSUME NEW m \in S
      PROVE  m + 1 \in S
  <2>1. PICK g : Turns(m, g)
    OBVIOUS
  <2> DEFINE h == [k \in 0 .. m + 1 |-> IF k = m + 1 THEN Placed(c, g[m], m) ELSE g[k]]
  <2>2. Turns(m + 1, h)
    <3>1. \A k \in 0 .. m + 1 : h[k] = IF k = 0 THEN <<>> ELSE Placed(c, h[k - 1], k - 1)
      <4> TAKE k \in 0 .. m + 1
      <4>1. CASE k = m + 1
        BY <4>1
      <4>2. CASE k # m + 1
        <5>1. k \in 0 .. m /\ h[k] = g[k] /\ (k # 0 => k - 1 \in 0 .. m + 1 /\ k - 1 # m + 1)
          BY <4>2
        <5>2. k # 0 => h[k - 1] = g[k - 1]
          BY <5>1
        <5>3. g[k] = IF k = 0 THEN <<>> ELSE Placed(c, g[k - 1], k - 1)
          BY <2>1, <5>1
        <5> QED
          BY <5>1, <5>2, <5>3
      <4> QED
        BY <4>1, <4>2
    <3>2. h = [k \in 0 .. m + 1 |-> h[k]]
      OBVIOUS
    <3> HIDE DEF h
    <3> QED
      BY <3>1, <3>2
  <2> HIDE DEF h, Turns
  <2>3. m + 1 \in Nat /\ \E g2 : Turns(m + 1, g2)
    BY <2>2
  <2> QED
    BY <2>3
<1> HIDE DEF S
<1>3. S = Nat
  BY <1>1, <1>2, CountingUp DEF S
<1> DEFINE placed[k \in 0 .. n] == IF k = 0 THEN <<>> ELSE Placed(c, placed[k - 1], k - 1)
<1>4. Turns(n, placed)
  <2>1. \E g : Turns(n, g)
    BY <1>3 DEF S
  <2> QED
    BY <2>1
<1>5. GroupRules(n, c) = placed[n]
  BY DEF GroupRules
<1> HIDE DEF placed
<1> DEFINE R == {k \in Nat : k <= n => good(k, placed[k])}
<1>6. 0 \in R
  <2>1. placed[0] = <<>>
    BY <1>4
  <2>2. <<>> \in Seq(SUBSET (0 .. 0 - 1)) /\ DOMAIN <<>> = {}
    OBVIOUS
  <2>3. Apart(mutable, <<>>) /\ AllPlaced(0, <<>>)
    BY <2>2 DEF Apart, AllPlaced
  <2> QED
    BY <2>1, <2>2, <2>3
<1>7. ASSUME NEW k \in R
      PROVE  k + 1 \in R
  <2> SUFFICES ASSUME k + 1 <= n
               PROVE  good(k + 1, placed[k + 1])
    OBVIOUS
  <2>1. placed[k + 1] = Placed(c, placed[k], k)
    BY <1>4
  <2>2. good(k, placed[k]) /\ k \in 0 .. n - 1
    OBVIOUS
  <2>3. /\ placed[k + 1] \in Seq(SUBSET (0 .. k)) /\ Apart(mutable, placed[k + 1])
        /\ AllPlaced(k + 1, placed[k + 1])
    BY <2>1, <2>2, PlacingKeepsApart DEF c
  <2>4. (k + 1) - 1 = k
    OBVIOUS
  <2> QED
    BY <2>3, <2>4
<1> HIDE DEF R
<1>8. R = Nat
  BY <1>6, <1>7, CountingUp DEF R
<1>9. good(n, placed[n])
  <2> HIDE DEF good
  <2> QED
    BY <1>8 DEF R
<1> QED
  BY <1>5, <1>9 DEF c

-----------------------------------------------------------------------------
(* The accesses of the rules that fire.                                    *)

(* Inductive invariant: the network and its schedules are those of the     *)
(* start, and queues and Cells hold tokens.                                *)
NetInv ==
    /\ net \in Networks
    /\ groups = [p \in Procs(net) |-> ScheduleOf(net, p)]
    /\ queue \in [Internal -> Seq(Data)]
    /\ cell \in [Cells(net) -> Data]

TakesOf(id, path) == Takes(RuleAt(id)) \union path.some
InsOf(p)  == {q \in Queues(net) : net.queues[q].dst = p}
OutsOf(p) == {q \in Queues(net) : net.queues[q].src = p}
OwnOf(p)  == {c \in Cells(net) : net.cells[c].owner = p}

(* What a rule of a network accesses on a path. *)
LEMMA Accesses ==
    ASSUME net \in Networks, NEW p \in Procs(net), NEW i \in DOMAIN net.rules[p],
           NEW id, id = <<p, i>>,
           NEW path \in RuleAt(id).paths \union {NoAccess}
    PROVE  /\ RuleAt(id) = net.rules[p][i] /\ RuleAt(id) \in AllRules(net)
           /\ Takes(RuleAt(id)) \subseteq InsOf(p) \union OwnOf(p)
           /\ path.some \union path.none \subseteq InsOf(p)
           /\ Writes(id, path) \subseteq OutsOf(p) \union OwnOf(p)
           /\ Takes(RuleAt(id)) \union path.some \union path.none \union Writes(id, path)
                  \subseteq MutableEdges(RuleAt(id))
           /\ RuleAt(id).top.takes \union path.takes \subseteq Takes(RuleAt(id))
           /\ RuleAt(id).top.peeks \union path.peeks \subseteq Cells(net)
           /\ Reads(RuleAt(id), path)
                = RuleAt(id).top.takes \union path.takes \union path.some
                    \union RuleAt(id).top.peeks \union path.peeks
<1> DEFINE rule == RuleAt(id)
<1>1. rule = net.rules[p][i] /\ rule \in RulesOf(net, p) /\ rule \in AllRules(net)
  BY DEF RuleAt, RulesOf, AllRules
<1>2. /\ rule.top.some = {} /\ rule.top.none = {}
      /\ \A body \in Bodies(rule) : AtItsEnds(net, p, body)
  BY <1>1, NetworksAssumption DEF WellFormed
<1> HIDE DEF rule
<1>3. /\ NoAccess.takes = {} /\ NoAccess.some = {} /\ NoAccess.none = {}
      /\ NoAccess.puts = {} /\ NoAccess.peeks = {}
  BY DEF NoAccess
<1>4. AtItsEnds(net, p, rule.top) /\ AtItsEnds(net, p, path)
  BY <1>2, <1>3 DEF Bodies, AtItsEnds, rule
<1>5. path = NoAccess \/ path \in Bodies(rule)
  BY DEF Bodies, rule
<1>6. rule.top \in Bodies(rule)
  BY DEF Bodies
<1>7. Takes(rule) \subseteq InsOf(p) \union OwnOf(p)
  BY <1>2 DEF Takes, AtItsEnds, InsOf, OwnOf
<1>8. path.some \union path.none \subseteq InsOf(p)
  BY <1>4 DEF AtItsEnds, InsOf
<1>9. Writes(id, path) \subseteq OutsOf(p) \union OwnOf(p)
  BY <1>4 DEF Writes, AtItsEnds, OutsOf, OwnOf, rule
<1>10. rule.top.takes \union path.takes \subseteq Takes(rule)
  BY <1>3, <1>5, <1>6 DEF Takes
<1>11. path.some \union path.none \subseteq TryTakes(rule)
  BY <1>3, <1>5 DEF TryTakes
<1>12. Writes(id, path) \subseteq Puts(rule)
  BY <1>3, <1>5, <1>6 DEF Writes, Puts, rule
<1>13. rule.top.peeks \union path.peeks \subseteq Cells(net)
  BY <1>4 DEF AtItsEnds
<1>14. Reads(rule, path)
         = rule.top.takes \union path.takes \union path.some \union rule.top.peeks \union path.peeks
  BY <1>2 DEF Reads
<1> QED
  BY <1>1, <1>7, <1>8, <1>9, <1>10, <1>11, <1>12, <1>13, <1>14 DEF MutableEdges, rule

(* The rules of a process that fire. *)
Fires(s, p) == WillFire(groups[p], {i \in DOMAIN net.rules[p] : can_fire(s, <<p, i>>)})

LEMMA FiringRule ==
    ASSUME NEW s, NEW f \in Followed(s), NEW id \in DOMAIN f
    PROVE  /\ \E p \in Procs(net) : \E i \in Fires(s, p) :
                 id = <<p, i>> /\ i \in DOMAIN net.rules[p]
           /\ can_fire(s, id)
           /\ f[id] \in RuleAt(id).paths \union {NoAccess}
           /\ Matches(s, f[id])
<1>1. DOMAIN f = Firing(s) /\ f[id] \in Followable(s, id)
  BY DEF Followed
<1>2. PICK p \in Procs(net) : id \in {p} \X Fires(s, p)
  BY <1>1 DEF Firing, Fires
<1>3. PICK i \in Fires(s, p) : id = <<p, i>>
  BY <1>2
<1>4. i \in DOMAIN net.rules[p] /\ can_fire(s, id)
  BY <1>3 DEF WillFire, Fires
<1>5. f[id] \in RuleAt(id).paths \union {NoAccess}
  BY <1>1 DEF Followable
<1>6. Matches(s, f[id])
  <2>1. Matches(s, NoAccess)
    BY DEF Matches, NoAccess
  <2> QED
    BY <1>1, <2>1 DEF Followable
<1> QED
  BY <1>3, <1>4, <1>5, <1>6

(* Every rule of a process has a place in its schedule. *)
LEMMA GroupsOfRules ==
    ASSUME NetInv, NEW p \in Procs(net)
    PROVE  /\ groups[p] \in Seq(SUBSET DOMAIN net.rules[p])
           /\ \A i \in DOMAIN net.rules[p] : \E k \in DOMAIN groups[p] : i \in groups[p][k]
<1> DEFINE rules == DOMAIN net.rules[p]
           n == Cardinality(rules)
           mutable == [k \in rules |-> MutableEdges(net.rules[p][k])]
<1>1. n \in Nat /\ rules = 0 .. n - 1
  <2>1. WellFormed(net)
    BY NetworksAssumption DEF NetInv
  <2> QED
    BY <2>1, FS_CardinalityType DEF WellFormed
<1>2. groups[p] = GroupRules(n, Conflicts(mutable))
  BY DEF NetInv, ScheduleOf
<1>3. DOMAIN mutable = 0 .. n - 1
  BY <1>1
<1> HIDE DEF n, rules, mutable
<1>4. /\ GroupRules(n, Conflicts(mutable)) \in Seq(SUBSET rules)
      /\ AllPlaced(n, GroupRules(n, Conflicts(mutable)))
  BY <1>1, <1>3, ScheduleIsConflictFree
<1> QED
  BY <1>1, <1>2, <1>4 DEF rules, AllPlaced

(* A process with a rule that can fire fires one (emit_rule_enables lets   *)
(* the first group with such a rule through).                              *)
LEMMA ReadyProcessFires ==
    ASSUME NetInv, NEW s, NEW p \in Procs(net), NEW i \in DOMAIN net.rules[p], can_fire(s, <<p, i>>)
    PROVE  \E j \in DOMAIN net.rules[p] : <<p, j>> \in Firing(s)
<1> DEFINE gs == groups[p]
           enabled == {j \in DOMAIN net.rules[p] : can_fire(s, <<p, j>>)}
           some == {k \in DOMAIN gs : gs[k] \intersect enabled # {}}
<1>1. /\ gs \in Seq(SUBSET DOMAIN net.rules[p])
      /\ \E k \in DOMAIN gs : i \in gs[k]
  BY GroupsOfRules
<1>2. DOMAIN gs = 1 .. Len(gs) /\ Len(gs) \in Nat
  BY <1>1
<1> HIDE DEF gs
<1>3. some # {} /\ some \subseteq Nat
  BY <1>1, <1>2
<1>4. PICK k \in some : \A l \in some : ~(l < k)
  <2> HIDE DEF some
  <2>1. \E k \in some : \A l \in some : <<l, k>> \notin OpToRel(<, Nat)
    BY <1>3, NatLessThanWellFounded, WFMin, Zenon
  <2> QED
    BY <1>3, <2>1 DEF OpToRel
<1>5. \A l \in 1 .. k - 1 : gs[l] \intersect enabled = {}
  BY <1>2, <1>4
<1>6. PICK j \in gs[k] : j \in enabled
  BY <1>4
<1>7. j \in WillFire(gs, enabled) /\ j \in DOMAIN net.rules[p]
  BY <1>4, <1>5, <1>6 DEF WillFire
<1>8. <<p, j>> \in {p} \X WillFire(groups[p], enabled)
  BY <1>7 DEF gs
<1> DEFINE all == {{x} \X WillFire(groups[x], {y \in DOMAIN net.rules[x] : can_fire(s, <<x, y>>)})
                      : x \in Procs(net)}
<1>9. {p} \X WillFire(groups[p], enabled) \in all /\ Firing(s) = UNION all
  BY DEF Firing
<1> HIDE DEF all, enabled, some
<1>10. <<p, j>> \in Firing(s)
  BY <1>8, <1>9
<1> QED
  BY <1>7, <1>10

(* Two rules of one process fire together only if they share no edge. *)
LEMMA FiringTogether ==
    ASSUME NetInv, NEW p \in Procs(net), NEW enabled,
           NEW i \in WillFire(groups[p], enabled), NEW j \in WillFire(groups[p], enabled), i # j
    PROVE  MutableEdges(net.rules[p][i]) \intersect MutableEdges(net.rules[p][j]) = {}
<1> DEFINE rules == DOMAIN net.rules[p]
           n == Cardinality(rules)
           mutable == [k \in rules |-> MutableEdges(net.rules[p][k])]
           gs == groups[p]
<1>1. n \in Nat /\ rules = 0 .. n - 1
  <2>1. WellFormed(net)
    BY NetworksAssumption DEF NetInv
  <2> QED
    BY <2>1, FS_CardinalityType DEF WellFormed
<1>2. gs = GroupRules(n, Conflicts(mutable))
  BY DEF NetInv, ScheduleOf
<1> HIDE DEF n, rules, gs
<1>3. gs \in Seq(SUBSET rules) /\ Apart(mutable, gs)
  <2>1. DOMAIN mutable = 0 .. n - 1
    BY <1>1
  <2> HIDE DEF mutable
  <2> QED
    BY <1>1, <1>2, <2>1, ScheduleIsConflictFree
<1>4. PICK k \in DOMAIN gs : i \in gs[k] /\ \A l \in 1 .. k - 1 : gs[l] \intersect enabled = {}
  BY DEF WillFire, gs
<1>5. PICK m \in DOMAIN gs : j \in gs[m] /\ \A l \in 1 .. m - 1 : gs[l] \intersect enabled = {}
  BY DEF WillFire, gs
<1>6. i \in enabled /\ j \in enabled
  BY DEF WillFire
<1>7. k = m
  BY <1>3, <1>4, <1>5, <1>6
<1>8. i \in rules /\ j \in rules
  BY <1>3, <1>4, <1>5
<1> QED
  BY <1>3, <1>4, <1>5, <1>7, <1>8 DEF Apart

(* Different firing rules access different ends.                           *)
LEMMA FiringApart ==
    ASSUME NetInv, NEW s, NEW f \in Followed(s),
           NEW g \in DOMAIN f, NEW h \in DOMAIN f, g # h
    PROVE  /\ Writes(g, f[g]) \intersect Writes(h, f[h]) = {}
           /\ (TakesOf(g, f[g]) \union f[g].none) \intersect (TakesOf(h, f[h]) \union f[h].none) = {}
           /\ Writes(g, f[g]) \intersect TakesOf(h, f[h]) \intersect Cells(net) = {}
<1>0. net \in Networks /\ Queues(net) \intersect Cells(net) = {}
  BY NetworksAssumption DEF NetInv, WellFormed
<1>1. PICK p \in Procs(net) : \E i \in Fires(s, p) : g = <<p, i>> /\ i \in DOMAIN net.rules[p]
  BY FiringRule
<1>11. PICK i \in Fires(s, p) : g = <<p, i>> /\ i \in DOMAIN net.rules[p]
  BY <1>1
<1>2. PICK r \in Procs(net) : \E j \in Fires(s, r) : h = <<r, j>> /\ j \in DOMAIN net.rules[r]
  BY FiringRule
<1>12. PICK j \in Fires(s, r) : h = <<r, j>> /\ j \in DOMAIN net.rules[r]
  BY <1>2
<1>3. /\ TakesOf(g, f[g]) \union f[g].none \subseteq InsOf(p) \union OwnOf(p)
      /\ Writes(g, f[g]) \subseteq OutsOf(p) \union OwnOf(p)
      /\ TakesOf(g, f[g]) \union f[g].none \union Writes(g, f[g]) \subseteq MutableEdges(net.rules[p][i])
  BY <1>0, <1>11, FiringRule, Accesses DEF TakesOf
<1>4. /\ TakesOf(h, f[h]) \union f[h].none \subseteq InsOf(r) \union OwnOf(r)
      /\ Writes(h, f[h]) \subseteq OutsOf(r) \union OwnOf(r)
      /\ TakesOf(h, f[h]) \union f[h].none \union Writes(h, f[h]) \subseteq MutableEdges(net.rules[r][j])
  BY SMTT(30), <1>0, <1>12, FiringRule, Accesses DEF TakesOf
<1>5. CASE p = r
  <2>1. i # j
    BY <1>11, <1>12, <1>5
  <2>2. MutableEdges(net.rules[p][i]) \intersect MutableEdges(net.rules[r][j]) = {}
    BY <1>11, <1>12, <1>5, <2>1, FiringTogether DEF Fires
  <2> QED
    BY <1>3, <1>4, <2>2
<1>6. CASE p # r
  <2>1. /\ (InsOf(p) \union OwnOf(p)) \intersect (InsOf(r) \union OwnOf(r)) = {}
        /\ (OutsOf(p) \union OwnOf(p)) \intersect (OutsOf(r) \union OwnOf(r)) = {}
        /\ (OutsOf(p) \union OwnOf(p)) \intersect (InsOf(r) \union OwnOf(r)) \intersect Cells(net) = {}
    BY <1>0, <1>6 DEF InsOf, OutsOf, OwnOf
  <2> QED
    BY <1>3, <1>4, <2>1
<1> QED
  BY <1>5, <1>6

(* Nothing is written twice or taken twice in one cycle: of two rules that *)
(* fire, of one process or of two, no edge is written by both nor taken    *)
(* from by both (schedule.rs, group_rules; lower.rs, deq_ready wiring).    *)
LEMMA OneOfEach == NetInv => OneWriterOneReader
BY FiringApart DEF OneWriterOneReader, TakesOf

-----------------------------------------------------------------------------
(* Types.                                                                  *)

Typed(s) == s.queue \in [Queues(net) -> Seq(Data)] /\ s.cell \in [Cells(net) -> Data]

LEMMA NowTyped ==
    ASSUME NetInv, NEW env \in Environments
    PROVE  Typed(Now(env))
<1>1. \A q \in External : env[q] \in Seq(Data)
  <2> TAKE q \in External
  <2>1. env[q] \in {<<>>} \union {<<d>> : d \in Data}
    BY DEF Environments
  <2>2. env[q] = <<>> \/ \E d \in Data : env[q] = <<d>>
    BY <2>1
  <2>3. \A d \in Data : <<d>> \in Seq(Data)
    OBVIOUS
  <2>4. <<>> \in Seq(Data)
    OBVIOUS
  <2> QED
    BY <2>2, <2>3, <2>4
<1>2. \A q \in Queues(net) : q \notin External => queue[q] \in Seq(Data)
  BY DEF NetInv, Internal
<1> QED
  BY <1>1, <1>2 DEF Typed, Now, NetInv

(* What a firing rule takes from holds a token. *)
LEMMA TokensToTake ==
    ASSUME NetInv, NEW s, NEW f \in Followed(s), NEW id \in DOMAIN f
    PROVE  /\ \A q \in TakesOf(id, f[id]) \intersect Queues(net) : deq_valid(s, q)
           /\ TakesOf(id, f[id]) \subseteq Edges(net)
           /\ Writes(id, f[id]) \subseteq Edges(net)
<1>0. net \in Networks
  BY DEF NetInv
<1>1. PICK p \in Procs(net) : \E i \in Fires(s, p) : id = <<p, i>> /\ i \in DOMAIN net.rules[p]
  BY FiringRule
<1>2. PICK i \in Fires(s, p) : id = <<p, i>> /\ i \in DOMAIN net.rules[p]
  BY <1>1
<1>3. /\ TakesOf(id, f[id]) \subseteq InsOf(p) \union OwnOf(p)
      /\ Writes(id, f[id]) \subseteq OutsOf(p) \union OwnOf(p)
  BY <1>0, <1>2, FiringRule, Accesses DEF TakesOf
<1>4. \A q \in TakesOf(id, f[id]) \intersect Queues(net) : deq_valid(s, q)
  BY FiringRule DEF TakesOf, can_fire, Matches
<1> QED
  BY <1>3, <1>4 DEF InsOf, OutsOf, OwnOf, Edges

LEMMA OutputIsData ==
    ASSUME NetInv, NEW s, Typed(s), NEW f \in Followed(s), NEW id \in DOMAIN f, NEW e \in Edges(net)
    PROVE  Output(s, id, f[id], e) \in Data
<1> DEFINE rule == RuleAt(id)
           path == f[id]
<1>0. net \in Networks
  BY DEF NetInv
<1>1. PICK p \in Procs(net) : \E i \in Fires(s, p) : id = <<p, i>> /\ i \in DOMAIN net.rules[p]
  BY FiringRule
<1>2. PICK i \in Fires(s, p) : id = <<p, i>> /\ i \in DOMAIN net.rules[p]
  BY <1>1
<1>3. path \in rule.paths \union {NoAccess} /\ rule \in AllRules(net)
  BY <1>0, <1>2, FiringRule, Accesses
<1>4. Reads(rule, path) \subseteq TakesOf(id, path) \union Cells(net)
  BY <1>0, <1>2, FiringRule, Accesses DEF TakesOf
<1>5. \A e2 \in Reads(rule, path) \ Cells(net) : s.queue[e2] \in Seq(Data) /\ s.queue[e2] # <<>>
  BY <1>4, TokensToTake DEF Typed, Edges, deq_valid
<1>6. Read(s, id, path) \in [Reads(rule, path) -> Data]
  <2>1. \A e2 \in Reads(rule, path) : e2 \in Cells(net) => s.cell[e2] \in Data
    BY DEF Typed
  <2>2. \A q \in Seq(Data) : q # <<>> => Head(q) \in Data
    OBVIOUS
  <2> QED
    BY <1>5, <2>1, <2>2 DEF Read
<1>7. Computed(rule, path, e, Read(s, id, path)) \in Nat
  BY <1>0, <1>3, <1>6, NetworksAssumption
<1> QED
  BY <1>7, NetworksAssumption DEF Output, Data

(* What is written is what a rule that writes it computes.                 *)
LEMMA DrivenByWriter ==
    ASSUME NEW s, NEW f, NEW e, Written(f, e)
    PROVE  \E id \in DOMAIN f : e \in Writes(id, f[id]) /\ Driven(s, f, e) = Output(s, id, f[id], e)
<1> DEFINE writer == CHOOSE id \in DOMAIN f : e \in Writes(id, f[id])
<1>1. writer \in DOMAIN f /\ e \in Writes(writer, f[writer])
  BY DEF Written
<1>2. Driven(s, f, e) = Output(s, writer, f[writer], e)
  BY DEF Driven
<1> QED
  BY <1>1, <1>2

LEMMA AfterTyped ==
    ASSUME NetInv, NEW s, Typed(s), NEW f \in Followed(s)
    PROVE  /\ \A q \in Queues(net) : QueueAfter(s, f, q) \in Seq(Data)
           /\ \A c \in Cells(net) : CellAfter(s, f, c) \in Data
<1>1. ASSUME NEW e \in Edges(net), Written(f, e)
      PROVE  Driven(s, f, e) \in Data
  BY <1>1, DrivenByWriter, OutputIsData
<1>2. ASSUME NEW q \in Queues(net)
      PROVE  QueueAfter(s, f, q) \in Seq(Data)
  <2> DEFINE left == IF deq_ready(f, q) /\ deq_valid(s, q) THEN Tail(s.queue[q]) ELSE s.queue[q]
  <2>1. left \in Seq(Data)
    BY DEF Typed, deq_valid
  <2>2. Written(f, q) => Append(left, Driven(s, f, q)) \in Seq(Data)
    <3> HIDE DEF left
    <3> QED
      BY <1>1, <2>1 DEF Edges
  <2> QED
    BY <2>1, <2>2 DEF QueueAfter
<1>3. ASSUME NEW c \in Cells(net)
      PROVE  CellAfter(s, f, c) \in Data
  BY <1>1 DEF CellAfter, Typed, Edges
<1> QED
  BY <1>2, <1>3

LEMMA InitNetInv == Init => NetInv
<1> SUFFICES ASSUME Init PROVE NetInv
  OBVIOUS
<1>1. 0 \in Data /\ \A n \in Nat : n % Values \in Data
  BY NetworksAssumption DEF Data
<1>2. \A q \in Internal : Preloaded(net.queues[q].init) \in Seq(Data)
  <2>1. \A q \in Queues(net) : net.queues[q].init \in Nat
    BY NetworksAssumption DEF Init, WellFormed
  <2> QED
    BY <1>1, <2>1 DEF Internal, Preloaded
<1> QED
  BY <1>1, <1>2 DEF Init, NetInv

LEMMA NextNetInv == NetInv /\ [Next]_vars => NetInv'
<1> SUFFICES ASSUME NetInv, [Next]_vars PROVE NetInv'
  OBVIOUS
<1>1. CASE Cycle
  <2>1. PICK env \in Environments : \E f \in Followed(Now(env)) :
            /\ queue' = [q \in Internal |-> QueueAfter(Now(env), f, q)]
            /\ cell' = [c \in Cells(net) |-> CellAfter(Now(env), f, c)]
            /\ UNCHANGED <<net, groups>>
    BY <1>1 DEF Cycle
  <2>2. PICK f \in Followed(Now(env)) :
            /\ queue' = [q \in Internal |-> QueueAfter(Now(env), f, q)]
            /\ cell' = [c \in Cells(net) |-> CellAfter(Now(env), f, c)]
            /\ UNCHANGED <<net, groups>>
    BY <2>1
  <2>3. /\ \A q \in Queues(net) : QueueAfter(Now(env), f, q) \in Seq(Data)
        /\ \A c \in Cells(net) : CellAfter(Now(env), f, c) \in Data
    BY NowTyped, AfterTyped
  <2>4. queue' \in [Internal -> Seq(Data)] /\ cell' \in [Cells(net) -> Data]
    BY <2>2, <2>3 DEF Internal
  <2>5. Internal' = Internal
    BY <2>2 DEF Internal, External
  <2> QED
    BY <2>2, <2>4, <2>5 DEF NetInv
<1>2. CASE UNCHANGED vars
  BY <1>2 DEF vars, NetInv, Internal, External
<1> QED
  BY <1>1, <1>2 DEF Next

LEMMA NetworkInvariant == Spec => []NetInv
BY InitNetInv, NextNetInv, PTL DEF Spec

-----------------------------------------------------------------------------
(* Rules that fire together, one at a time.                                *)

(* The cycle cut short: only the rules of ids have fired. *)
Part(s, f, ids) == After(s, [id \in ids |-> f[id]])

SomeTakes(f, ids, q)  == \E id \in ids : q \in TakesOf(id, f[id])
SomeWrites(f, ids, e) == \E id \in ids : e \in Writes(id, f[id])

(* No token is lost in the cycle. *)
Lossless(s, f) == ~DropsToken(s, f) /\ ~ConsumesUnread(f)

LEMMA DrivenByThe ==
    ASSUME NetInv, NEW s, NEW f \in Followed(s), NEW ids \in SUBSET DOMAIN f,
           NEW id \in ids, NEW e \in Writes(id, f[id])
    PROVE  Driven(s, [i \in ids |-> f[i]], e) = Output(s, id, f[id], e)
<1> DEFINE part == [i \in ids |-> f[i]]
<1>1. Written(part, e)
  BY DEF Written
<1>2. PICK w \in DOMAIN part : e \in Writes(w, part[w]) /\ Driven(s, part, e) = Output(s, w, part[w], e)
  BY <1>1, DrivenByWriter
<1>3. w = id
  BY <1>2, FiringApart
<1> QED
  BY <1>2, <1>3

LEMMA RoomToPut ==
    ASSUME NetInv, NEW s, NEW f \in Followed(s), ~DropsToken(s, f),
           NEW id \in DOMAIN f, NEW q \in Writes(id, f[id]) \intersect Queues(net)
    PROVE  enq_ready(s, q)
<1>1. CASE q \in RuleAt(id).top.puts
  BY <1>1, FiringRule DEF can_fire
<1>2. CASE q \in f[id].puts
  BY <1>2 DEF DropsToken
<1> QED
  BY <1>1, <1>2 DEF Writes

(* What a rule takes it reads. *)
LEMMA TakesWhatItReads ==
    ASSUME NetInv, NEW s, NEW f \in Followed(s), ~ConsumesUnread(f), NEW id \in DOMAIN f
    PROVE  TakesOf(id, f[id]) \intersect Queues(net)
             = (RuleAt(id).top.takes \union f[id].takes \union f[id].some) \intersect Queues(net)
<1>0. net \in Networks
  BY DEF NetInv
<1>1. PICK p \in Procs(net) : \E i \in Fires(s, p) : id = <<p, i>> /\ i \in DOMAIN net.rules[p]
  BY FiringRule
<1>2. PICK i \in Fires(s, p) : id = <<p, i>> /\ i \in DOMAIN net.rules[p]
  BY <1>1
<1>3. RuleAt(id).top.takes \union f[id].takes \subseteq Takes(RuleAt(id))
  BY <1>0, <1>2, FiringRule, Accesses
<1>4. (Takes(RuleAt(id)) \ (RuleAt(id).top.takes \union f[id].takes)) \intersect Queues(net) = {}
  BY DEF ConsumesUnread
<1> QED
  BY <1>3, <1>4 DEF TakesOf

(* The queues and Cells of the cycle cut short. *)
LEMMA PartOfCycle ==
    ASSUME NetInv, NEW s, Typed(s), NEW f \in Followed(s), Lossless(s, f),
           NEW ids \in SUBSET DOMAIN f
    PROVE  /\ \A q \in Queues(net) :
                  /\ Part(s, f, ids).queue[q] =
                        LET left == IF SomeTakes(f, ids, q) THEN Tail(s.queue[q]) ELSE s.queue[q]
                        IN  IF SomeWrites(f, ids, q) THEN Append(left, Driven(s, [i \in ids |-> f[i]], q))
                            ELSE left
                  /\ SomeTakes(f, ids, q) => s.queue[q] # <<>>
                  /\ SomeWrites(f, ids, q) => enq_ready(s, q)
           /\ \A c \in Cells(net) :
                  Part(s, f, ids).cell[c] =
                        IF SomeWrites(f, ids, c) THEN Driven(s, [i \in ids |-> f[i]], c) ELSE s.cell[c]
<1> DEFINE part == [i \in ids |-> f[i]]
<1>1. \A e : Written(part, e) <=> SomeWrites(f, ids, e)
  BY DEF Written, SomeWrites
<1>2. \A q : deq_ready(part, q) <=> SomeTakes(f, ids, q)
  BY DEF deq_ready, SomeTakes, TakesOf
<1>3. \A q \in Queues(net) : SomeTakes(f, ids, q) => deq_valid(s, q)
  BY TokensToTake DEF SomeTakes
<1>4. \A q \in Queues(net) : SomeWrites(f, ids, q) => enq_ready(s, q)
  BY RoomToPut DEF SomeWrites, Lossless
<1>5. /\ \A q \in Queues(net) : Part(s, f, ids).queue[q] = QueueAfter(s, part, q)
      /\ \A c \in Cells(net) : Part(s, f, ids).cell[c] = CellAfter(s, part, c)
  BY DEF Part, After
<1> HIDE DEF part
<1>6. \A q \in Queues(net) :
        QueueAfter(s, part, q) =
            LET left == IF SomeTakes(f, ids, q) THEN Tail(s.queue[q]) ELSE s.queue[q]
            IN  IF SomeWrites(f, ids, q) THEN Append(left, Driven(s, part, q)) ELSE left
  <2> TAKE q \in Queues(net)
  <2>1. deq_ready(part, q) /\ deq_valid(s, q) <=> SomeTakes(f, ids, q)
    BY <1>2, <1>3
  <2>2. Written(part, q) /\ enq_ready(s, q) <=> SomeWrites(f, ids, q)
    BY <1>1, <1>4
  <2> HIDE DEF SomeTakes, SomeWrites
  <2>3. CASE SomeTakes(f, ids, q)
    BY <2>1, <2>2, <2>3 DEF QueueAfter
  <2>4. CASE ~SomeTakes(f, ids, q)
    BY <2>1, <2>2, <2>4 DEF QueueAfter
  <2> QED
    BY <2>3, <2>4
<1>7. \A c \in Cells(net) :
        CellAfter(s, part, c) = IF SomeWrites(f, ids, c) THEN Driven(s, part, c) ELSE s.cell[c]
  BY <1>1 DEF CellAfter
<1> QED
  BY <1>3, <1>4, <1>5, <1>6, <1>7 DEF part, deq_valid

(* None of ids has changed what h sees. *)
Unseen(f, ids, h) == h \in DOMAIN f \ ids /\ \A id \in ids : ~SawBefore(f, h, id)

(* What h takes from or writes to, none of ids takes from or writes to. *)
LEMMA UntouchedEnds ==
    ASSUME NetInv, NEW s, NEW f \in Followed(s), NEW ids \in SUBSET DOMAIN f, NEW h \in DOMAIN f \ ids
    PROVE  /\ \A q \in TakesOf(h, f[h]) : ~SomeTakes(f, ids, q)
           /\ \A e \in Writes(h, f[h]) : ~SomeWrites(f, ids, e)
BY FiringApart DEF SomeTakes, SomeWrites

(* Before its turn a rule still reads what the cycle started from. *)
LEMMA ReadsTheSame ==
    ASSUME NetInv, NEW s, Typed(s), NEW f \in Followed(s), Lossless(s, f),
           NEW ids \in SUBSET DOMAIN f, NEW h, Unseen(f, ids, h)
    PROVE  Read(Part(s, f, ids), h, f[h]) = Read(s, h, f[h])
<1> DEFINE u == Part(s, f, ids)
           path == f[h]
           rule == RuleAt(h)
<1>0. net \in Networks /\ Queues(net) \intersect Cells(net) = {} /\ h \in DOMAIN f /\ h \notin ids
  BY NetworksAssumption DEF NetInv, WellFormed, Unseen
<1>1. PICK p \in Procs(net) : \E i \in Fires(s, p) : h = <<p, i>> /\ i \in DOMAIN net.rules[p]
  BY <1>0, FiringRule
<1>2. PICK i \in Fires(s, p) : h = <<p, i>> /\ i \in DOMAIN net.rules[p]
  BY <1>1
<1>3. /\ Reads(rule, path) = rule.top.takes \union path.takes \union path.some
                                \union rule.top.peeks \union path.peeks
      /\ rule.top.peeks \union path.peeks \subseteq Cells(net)
      /\ rule.top.takes \union path.takes \subseteq Takes(rule)
  BY <1>0, <1>2, FiringRule, Accesses
<1>4. TakesOf(h, path) \subseteq Edges(net) /\ \A q \in TakesOf(h, path) \intersect Queues(net) : s.queue[q] # <<>>
  BY <1>0, TokensToTake DEF deq_valid
<1>5. ASSUME NEW c \in Reads(rule, path) \intersect Cells(net)
      PROVE  u.cell[c] = s.cell[c]
  <2>1. ASSUME NEW id \in ids, c \in Writes(id, f[id])
        PROVE  FALSE
    <3>1. id \in DOMAIN f /\ id # h
      BY <1>0
    <3>2. Writes(id, f[id]) \intersect TakesOf(h, f[h]) \intersect Cells(net) = {}
      BY <1>0, <3>1, FiringApart
    <3>3. c \notin rule.top.takes \union path.takes \union path.some
      BY <1>3, <2>1, <3>2 DEF TakesOf
    <3>4. c \in rule.top.peeks \union path.peeks
      BY <1>3, <3>3
    <3>5. ~SawBefore(f, h, id)
      BY DEF Unseen
    <3> QED
      BY <2>1, <3>1, <3>4, <3>5 DEF SawBefore
  <2>2. ~SomeWrites(f, ids, c)
    BY <2>1 DEF SomeWrites
  <2> QED
    BY <2>2, PartOfCycle
<1>6. ASSUME NEW q \in Reads(rule, path) \ Cells(net)
      PROVE  Head(u.queue[q]) = Head(s.queue[q])
  <2>1. q \in TakesOf(h, path)
    BY <1>3 DEF TakesOf
  <2>2. q \in Queues(net) /\ s.queue[q] # <<>> /\ s.queue[q] \in Seq(Data)
    BY <1>4, <2>1 DEF Edges, Typed
  <2>3. ~SomeTakes(f, ids, q)
    BY <1>0, <2>1, UntouchedEnds
  <2>4. u.queue[q] = IF SomeWrites(f, ids, q) THEN Append(s.queue[q], Driven(s, [k \in ids |-> f[k]], q))
                     ELSE s.queue[q]
    BY <2>2, <2>3, PartOfCycle
  <2>5. SomeWrites(f, ids, q) => Driven(s, [k \in ids |-> f[k]], q) \in Data
    <3> SUFFICES ASSUME SomeWrites(f, ids, q)
                 PROVE  Driven(s, [k \in ids |-> f[k]], q) \in Data
      OBVIOUS
    <3>1. PICK id \in ids : q \in Writes(id, f[id])
      BY DEF SomeWrites
    <3>2. Driven(s, [k \in ids |-> f[k]], q) = Output(s, id, f[id], q)
      BY <3>1, DrivenByThe
    <3> QED
      BY <2>2, <3>2, OutputIsData DEF Edges
  <2>6. \A d \in Data : Head(Append(s.queue[q], d)) = Head(s.queue[q])
    BY <2>2
  <2> QED
    BY <2>4, <2>5, <2>6
<1> HIDE DEF u
<1> QED
  BY <1>5, <1>6 DEF Read, u

(* The rule h may fire alone after ids, and that adds h to the cycle.      *)
LEMMA OneMore ==
    ASSUME NetInv, NEW s, Typed(s), NEW f \in Followed(s), Lossless(s, f),
           NEW ids \in SUBSET DOMAIN f, NEW h, Unseen(f, ids, h)
    PROVE  /\ AtomicallyEnabled(Part(s, f, ids), h, f[h])
           /\ FiredAlone(Part(s, f, ids), h, f[h]) = Part(s, f, ids \union {h})
<1> DEFINE u == Part(s, f, ids)
           more == ids \union {h}
           v == Part(s, f, more)
           path == f[h]
           rule == RuleAt(h)
           taken == rule.top.takes \union path.takes \union path.some
<1>0. /\ net \in Networks /\ Queues(net) \intersect Cells(net) = {}
      /\ h \in DOMAIN f /\ h \notin ids /\ more \in SUBSET DOMAIN f
  BY NetworksAssumption DEF NetInv, WellFormed, Unseen
<1>1. TakesOf(h, path) \intersect Queues(net) = taken \intersect Queues(net)
  BY <1>0, TakesWhatItReads DEF Lossless
<1>2. /\ \A e : SomeWrites(f, more, e) <=> SomeWrites(f, ids, e) \/ e \in Writes(h, path)
      /\ \A q \in Queues(net) : SomeTakes(f, more, q) <=> SomeTakes(f, ids, q) \/ q \in taken
  BY <1>1 DEF SomeWrites, SomeTakes
<1>3. /\ \A q \in taken \intersect Queues(net) : ~SomeTakes(f, ids, q)
      /\ \A e \in Writes(h, path) : ~SomeWrites(f, ids, e)
  BY <1>0, <1>1, UntouchedEnds
<1>4. \A e \in Edges(net) : SomeWrites(f, more, e) =>
          /\ Driven(s, [k \in more |-> f[k]], e) \in Data
          /\ e \in Writes(h, path) => Driven(s, [k \in more |-> f[k]], e) = Output(u, h, path, e)
          /\ e \notin Writes(h, path) =>
                 Driven(s, [k \in more |-> f[k]], e) = Driven(s, [k \in ids |-> f[k]], e)
  <2> SUFFICES ASSUME NEW e \in Edges(net), SomeWrites(f, more, e)
               PROVE  /\ Driven(s, [k \in more |-> f[k]], e) \in Data
                      /\ e \in Writes(h, path) => Driven(s, [k \in more |-> f[k]], e) = Output(u, h, path, e)
                      /\ e \notin Writes(h, path) =>
                             Driven(s, [k \in more |-> f[k]], e) = Driven(s, [k \in ids |-> f[k]], e)
    OBVIOUS
  <2>1. PICK id \in more : e \in Writes(id, f[id])
    BY DEF SomeWrites
  <2>2. Driven(s, [k \in more |-> f[k]], e) = Output(s, id, f[id], e)
    BY <1>0, <2>1, DrivenByThe
  <2>3. Output(s, id, f[id], e) \in Data
    BY <1>0, OutputIsData
  <2>4. ASSUME e \in Writes(h, path)
        PROVE  Driven(s, [k \in more |-> f[k]], e) = Output(u, h, path, e)
    <3>1. Driven(s, [k \in more |-> f[k]], e) = Output(s, h, f[h], e)
      BY <1>0, <2>4, DrivenByThe
    <3>2. Output(u, h, path, e) = Output(s, h, path, e)
      BY ReadsTheSame DEF Output
    <3> QED
      BY <3>1, <3>2
  <2>5. ASSUME e \notin Writes(h, path)
        PROVE  Driven(s, [k \in more |-> f[k]], e) = Driven(s, [k \in ids |-> f[k]], e)
    <3>1. id \in ids
      BY <2>1, <2>5
    <3>2. Driven(s, [k \in ids |-> f[k]], e) = Output(s, id, f[id], e)
      BY <2>1, <3>1, DrivenByThe
    <3> QED
      BY <2>2, <3>2
  <2> QED
    BY <2>2, <2>3, <2>4, <2>5
<1> DEFINE left(q) == IF q \in taken THEN Tail(u.queue[q]) ELSE u.queue[q]
           old(q) == IF SomeTakes(f, ids, q) THEN Tail(s.queue[q]) ELSE s.queue[q]
           dI(e) == Driven(s, [k \in ids |-> f[k]], e)
           dM(e) == Driven(s, [k \in more |-> f[k]], e)
<1>5. ASSUME NEW q \in Queues(net)
      PROVE  /\ u.queue[q] = IF SomeWrites(f, ids, q) THEN Append(old(q), dI(q)) ELSE old(q)
             /\ v.queue[q] = IF SomeWrites(f, more, q)
                             THEN Append(IF SomeTakes(f, more, q) THEN Tail(s.queue[q]) ELSE s.queue[q], dM(q))
                             ELSE IF SomeTakes(f, more, q) THEN Tail(s.queue[q]) ELSE s.queue[q]
             /\ SomeTakes(f, more, q) => s.queue[q] # <<>>
             /\ SomeWrites(f, more, q) => enq_ready(s, q)
             /\ s.queue[q] \in Seq(Data)
  <2>1. u.queue[q] = IF SomeWrites(f, ids, q) THEN Append(old(q), dI(q)) ELSE old(q)
    BY PartOfCycle
  <2>2. /\ v.queue[q] = IF SomeWrites(f, more, q)
                         THEN Append(IF SomeTakes(f, more, q) THEN Tail(s.queue[q]) ELSE s.queue[q], dM(q))
                         ELSE IF SomeTakes(f, more, q) THEN Tail(s.queue[q]) ELSE s.queue[q]
        /\ SomeTakes(f, more, q) => s.queue[q] # <<>>
        /\ SomeWrites(f, more, q) => enq_ready(s, q)
    <3> HIDE DEF more
    <3> QED
      BY <1>0, PartOfCycle
  <2>3. s.queue[q] \in Seq(Data)
    BY DEF Typed
  <2> QED
    BY <2>1, <2>2, <2>3
<1>6. ASSUME NEW c \in Cells(net)
      PROVE  /\ u.cell[c] = IF SomeWrites(f, ids, c) THEN dI(c) ELSE s.cell[c]
             /\ v.cell[c] = IF SomeWrites(f, more, c) THEN dM(c) ELSE s.cell[c]
  BY ZenonT(30), <1>0, PartOfCycle
<1>7. /\ FiredAlone(u, h, path).queue = [q \in Queues(net) |->
             IF q \in Writes(h, path) THEN Append(left(q), Output(u, h, path, q)) ELSE left(q)]
      /\ FiredAlone(u, h, path).cell = [c \in Cells(net) |->
             IF c \in Writes(h, path) THEN Output(u, h, path, c) ELSE u.cell[c]]
      /\ FiredAlone(u, h, path) = [queue |-> FiredAlone(u, h, path).queue,
                                   cell  |-> FiredAlone(u, h, path).cell]
  BY DEF FiredAlone
<1>8. /\ v = [queue |-> v.queue, cell |-> v.cell]
      /\ v.queue = [q \in Queues(net) |-> v.queue[q]]
      /\ v.cell = [c \in Cells(net) |-> v.cell[c]]
  BY DEF Part, After
<1> DEFINE W(e) == SomeWrites(f, ids, e)
           T(q) == SomeTakes(f, ids, q)
<1>9. \A q \in Queues(net) :
          v.queue[q] = IF q \in Writes(h, path) THEN Append(left(q), Output(u, h, path, q)) ELSE left(q)
  <2> TAKE q \in Queues(net)
  <2>0. q \in Edges(net)
    BY DEF Edges
  <2> HIDE DEF u, v, taken, path, more
  <2>1. CASE q \in taken /\ q \in Writes(h, path)
    <3>1. u.queue[q] = s.queue[q]
      BY <1>3, <1>5, <2>1
    <3>2. SomeWrites(f, more, q) /\ SomeTakes(f, more, q)
      BY <1>2, <2>1
    <3> QED
      BY <1>4, <1>5, <2>0, <2>1, <3>1, <3>2
  <2>2. CASE q \in taken /\ q \notin Writes(h, path)
    <3>1. SomeTakes(f, more, q) /\ ~SomeTakes(f, ids, q) /\ (SomeWrites(f, more, q) <=> SomeWrites(f, ids, q))
      BY <1>2, <1>3, <2>2
    <3>2. s.queue[q] # <<>> /\ s.queue[q] \in Seq(Data)
      BY <1>5, <3>1
    <3>3. \A d \in Data : Tail(Append(s.queue[q], d)) = Append(Tail(s.queue[q]), d)
      BY <3>2
    <3>4. CASE SomeWrites(f, ids, q)
      <4>1. dM(q) = dI(q) /\ dM(q) \in Data
        BY <1>4, <2>0, <2>2, <3>1, <3>4
      <4>2. u.queue[q] = Append(s.queue[q], dI(q)) /\ v.queue[q] = Append(Tail(s.queue[q]), dM(q))
        BY <1>5, <3>1, <3>4
      <4>3. left(q) = Append(Tail(s.queue[q]), dM(q))
        BY <2>2, <3>3, <4>1, <4>2
      <4> QED
        BY <2>2, <4>2, <4>3
    <3>5. CASE ~SomeWrites(f, ids, q)
      <4>1. u.queue[q] = s.queue[q] /\ v.queue[q] = Tail(s.queue[q])
        BY <1>5, <3>1, <3>5
      <4> QED
        BY <2>2, <4>1
    <3> QED
      BY <3>4, <3>5
  <2>3. CASE q \notin taken /\ q \in Writes(h, path)
    <3>1. /\ SomeWrites(f, more, q) /\ ~SomeWrites(f, ids, q)
          /\ (SomeTakes(f, more, q) <=> SomeTakes(f, ids, q))
      BY <1>2, <1>3, <2>3
    <3>2. u.queue[q] = old(q) /\ v.queue[q] = Append(old(q), dM(q))
      BY <1>5, <3>1
    <3>3. dM(q) = Output(u, h, path, q)
      BY <1>4, <2>0, <2>3, <3>1
    <3> QED
      BY <2>3, <3>2, <3>3
  <2>4. CASE q \notin taken /\ q \notin Writes(h, path)
    <3>1. (SomeWrites(f, more, q) <=> SomeWrites(f, ids, q)) /\ (SomeTakes(f, more, q) <=> SomeTakes(f, ids, q))
      BY <1>2, <2>4
    <3>2. SomeWrites(f, ids, q) => dM(q) = dI(q)
      BY <1>4, <2>0, <2>4, <3>1
    <3>3. v.queue[q] = u.queue[q]
      BY <1>5, <3>1, <3>2
    <3> QED
      BY <2>4, <3>3
  <2> QED
    BY <2>1, <2>2, <2>3, <2>4
<1>10. \A c \in Cells(net) : v.cell[c] = IF c \in Writes(h, path) THEN Output(u, h, path, c) ELSE u.cell[c]
  <2> TAKE c \in Cells(net)
  <2>0. c \in Edges(net)
    BY DEF Edges
  <2> HIDE DEF u, v, taken, path, more
  <2>1. CASE c \in Writes(h, path)
    BY <1>2, <1>4, <1>6, <2>0, <2>1
  <2>2. CASE c \notin Writes(h, path)
    BY <1>2, <1>4, <1>6, <2>0, <2>2
  <2> QED
    BY <2>1, <2>2
<1>11. FiredAlone(u, h, path) = v
  <2> DEFINE w == FiredAlone(u, h, path)
             put(q) == IF q \in Writes(h, path) THEN Append(left(q), Output(u, h, path, q)) ELSE left(q)
             kept(c) == IF c \in Writes(h, path) THEN Output(u, h, path, c) ELSE u.cell[c]
  <2>1. w.queue = [q \in Queues(net) |-> put(q)] /\ w.cell = [c \in Cells(net) |-> kept(c)]
    BY <1>7
  <2>2. (\A q \in Queues(net) : v.queue[q] = put(q)) /\ (\A c \in Cells(net) : v.cell[c] = kept(c))
    BY <1>9, <1>10
  <2>3. w = [queue |-> w.queue, cell |-> w.cell]
    BY <1>7
  <2> HIDE DEF w, put, kept, v
  <2>4. w.queue = v.queue /\ w.cell = v.cell
    BY <1>8, <2>1, <2>2
  <2>5. w = v
    BY <1>8, <2>3, <2>4
  <2> QED
    BY <2>5 DEF w
<1>12. AtomicallyEnabled(u, h, path)
  <2>1. ASSUME NEW q \in Queues(net), ~SomeTakes(f, ids, q), s.queue[q] # <<>>
        PROVE  deq_valid(u, q)
    <3>1. CASE SomeWrites(f, ids, q)
      <4>1. u.queue[q] = Append(s.queue[q], dI(q)) /\ s.queue[q] \in Seq(Data)
        BY <1>5, <2>1, <3>1
      <4> HIDE DEF u
      <4> QED
        BY <4>1 DEF deq_valid
    <3>2. CASE ~SomeWrites(f, ids, q)
      BY <1>5, <2>1, <3>2 DEF deq_valid
    <3> QED
      BY <3>1, <3>2
  <2>2. \A q \in taken \intersect Queues(net) : deq_valid(u, q)
    <3> TAKE q \in taken \intersect Queues(net)
    <3>1. q \in TakesOf(h, path) /\ ~SomeTakes(f, ids, q)
      BY <1>1, <1>3
    <3>2. s.queue[q] # <<>>
      BY <1>0, <3>1, TokensToTake DEF deq_valid
    <3> QED
      BY <2>1, <3>1, <3>2
  <2>3. \A q \in Writes(h, path) \intersect Queues(net) : enq_ready(u, q)
    <3> TAKE q \in Writes(h, path) \intersect Queues(net)
    <3>1. ~SomeWrites(f, ids, q) /\ SomeWrites(f, more, q)
      BY <1>2, <1>3
    <3>2. u.queue[q] = old(q) /\ enq_ready(s, q) /\ s.queue[q] \in Seq(Data)
          /\ (SomeTakes(f, ids, q) => s.queue[q] # <<>>)
      BY <1>2, <1>5, <3>1
    <3>3. Len(old(q)) \in Nat /\ Len(old(q)) <= Len(s.queue[q]) /\ Len(s.queue[q]) \in Nat
      <4>1. CASE SomeTakes(f, ids, q)
        <5>1. s.queue[q] # <<>> /\ s.queue[q] \in Seq(Data)
          BY <3>2, <4>1
        <5>2. Len(Tail(s.queue[q])) = Len(s.queue[q]) - 1 /\ Len(s.queue[q]) \in Nat \ {0}
          BY <5>1
        <5> QED
          BY <4>1, <5>2
      <4>2. CASE ~SomeTakes(f, ids, q)
        BY <3>2, <4>2
      <4> QED
        BY <4>1, <4>2
    <3>4. EdgeRoom(q) \in Nat
      BY <1>0, NetworksAssumption DEF EdgeRoom, WellFormed
    <3> HIDE DEF u, old
    <3> QED
      BY <3>2, <3>3, <3>4 DEF enq_ready
  <2>4. PICK p \in Procs(net) : \E i \in Fires(s, p) : h = <<p, i>> /\ i \in DOMAIN net.rules[p]
    BY <1>0, FiringRule
  <2>5. PICK i \in Fires(s, p) : h = <<p, i>> /\ i \in DOMAIN net.rules[p]
    BY <2>4
  <2>6. path.some \union path.none \subseteq Queues(net)
    BY <1>0, <2>5, FiringRule, Accesses DEF InsOf
  <2>7. \A q \in path.none : ~deq_valid(u, q)
    <3> TAKE q \in path.none
    <3>1. q \in Queues(net) /\ s.queue[q] = <<>>
      BY <1>0, <2>6, FiringRule DEF Matches, deq_valid
    <3>2. ~SomeTakes(f, ids, q)
      <4>1. ASSUME NEW id \in ids, q \in TakesOf(id, f[id])
            PROVE  FALSE
        BY <1>0, <3>1, <4>1, TokensToTake DEF deq_valid
      <4> QED
        BY <4>1 DEF SomeTakes
    <3>3. ~SomeWrites(f, ids, q)
      <4>1. ASSUME NEW id \in ids, q \in Writes(id, f[id])
            PROVE  FALSE
        <5>1. ~SawBefore(f, h, id) /\ id # h
          BY <1>0 DEF Unseen
        <5> QED
          BY <4>1, <5>1 DEF SawBefore
      <4> QED
        BY <4>1 DEF SomeWrites
    <3> QED
      BY <1>5, <3>1, <3>2, <3>3 DEF deq_valid
  <2>8. Matches(u, path)
    BY <2>2, <2>6, <2>7 DEF Matches
  <2> HIDE DEF u
  <2> QED
    BY <2>2, <2>3, <2>8 DEF AtomicallyEnabled
<1> QED
  BY <1>11, <1>12

LEMMA FinitelyManyFire ==
    ASSUME NetInv, NEW s
    PROVE  IsFiniteSet(Firing(s))
<1> DEFINE ofProc(p) == {p} \X WillFire(groups[p], {i \in DOMAIN net.rules[p] : can_fire(s, <<p, i>>)})
<1>1. WellFormed(net)
  BY NetworksAssumption DEF NetInv
<1>2. ASSUME NEW p \in Procs(net)
      PROVE  IsFiniteSet(ofProc(p))
  <2>1. ofProc(p) \subseteq {p} \X DOMAIN net.rules[p]
    BY DEF WillFire
  <2>2. IsFiniteSet({p} \X DOMAIN net.rules[p])
    BY <1>1, FS_Singleton, FS_Product DEF WellFormed
  <2> QED
    BY <2>1, <2>2, FS_Subset
<1> HIDE DEF ofProc
<1>3. IsFiniteSet({ofProc(p) : p \in Procs(net)})
  <2> DEFINE g == [p \in Procs(net) |-> ofProc(p)]
  <2>1. {ofProc(p) : p \in Procs(net)} = {g[p] : p \in Procs(net)} /\ g \in Surjection(Procs(net), {ofProc(p) : p \in Procs(net)})
    BY DEF Surjection
  <2> QED
    BY <1>1, <2>1, FS_Surjection DEF WellFormed
<1>4. IsFiniteSet(UNION {ofProc(p) : p \in Procs(net)})
  BY <1>2, <1>3, FS_UNION
<1>5. Firing(s) = UNION {ofProc(p) : p \in Procs(net)}
  BY DEF Firing, ofProc
<1> QED
  BY <1>4, <1>5

(* One turn of OneAtATime: what can come of letting one of ids fire last.  *)
Turn(s, f, before, ids) ==
    IF ids = {} THEN {s}
    ELSE UNION {{FiredAlone(t, id, f[id]) :
                     t \in {u \in before[ids \ {id}] : AtomicallyEnabled(u, id, f[id])}}
                : id \in ids}

LEMMA TurnOf ==
    ASSUME NEW s, NEW f, NEW a, NEW b, NEW ids, \A id \in ids : a[ids \ {id}] = b[ids \ {id}]
    PROVE  Turn(s, f, a, ids) = Turn(s, f, b, ids)
<1> DEFINE last(g, id) == {FiredAlone(t, id, f[id]) : t \in {u \in g[ids \ {id}] : AtomicallyEnabled(u, id, f[id])}}
<1>1. \A id \in ids : last(a, id) = last(b, id)
  OBVIOUS
<1>2. Turn(s, f, a, ids) = (IF ids = {} THEN {s} ELSE UNION {last(a, id) : id \in ids})
  BY DEF Turn
<1>3. Turn(s, f, b, ids) = (IF ids = {} THEN {s} ELSE UNION {last(b, id) : id \in ids})
  BY DEF Turn
<1> HIDE DEF last
<1>4. UNION {last(a, id) : id \in ids} = UNION {last(b, id) : id \in ids}
  BY <1>1
<1> QED
  BY <1>2, <1>3, <1>4

(* The recursion of OneAtATime is well-founded. *)
LEMMA OneAtATimeTurns ==
    ASSUME NEW s, NEW f, IsFiniteSet(DOMAIN f)
    PROVE  \E outcomes : /\ \A ids \in SUBSET DOMAIN f : outcomes[ids] = Turn(s, f, outcomes, ids)
                         /\ OneAtATime(s, f) = outcomes[DOMAIN f]
<1> DEFINE D == DOMAIN f
           Small(m) == {ids \in SUBSET D : Cardinality(ids) <= m}
           Good(m, g) == g = [ids \in Small(m) |-> Turn(s, f, g, ids)]
           S == {m \in Nat : \E g : Good(m, g)}
<1>0. \A ids \in SUBSET D :
          /\ IsFiniteSet(ids) /\ Cardinality(ids) \in Nat
          /\ Cardinality(ids) <= Cardinality(D)
          /\ \A id \in ids : ids \ {id} \in SUBSET D /\ Cardinality(ids \ {id}) = Cardinality(ids) - 1
  BY FS_Subset, FS_CardinalityType, FS_RemoveElement
<1>00. \A ids \in SUBSET D : ids = {} <=> Cardinality(ids) = 0
  BY <1>0, FS_EmptySet
<1> HIDE DEF D
<1>1. 0 \in S
  <2> DEFINE g == [ids \in Small(0) |-> {s}]
  <2>1. \A ids \in Small(0) : ids = {}
    BY <1>0, <1>00
  <2>2. \A ids \in Small(0) : Turn(s, f, g, ids) = {s}
    BY <2>1 DEF Turn
  <2>3. Good(0, g)
    <3> HIDE DEF Small
    <3> QED
      BY <2>2
  <2> QED
    BY <2>3
<1>2. ASSUME NEW m \in S
      PROVE  m + 1 \in S
  <2>1. PICK g : Good(m, g)
    OBVIOUS
  <2> DEFINE h == [ids \in Small(m + 1) |-> Turn(s, f, g, ids)]
  <2>2. ASSUME NEW ids \in Small(m + 1)
        PROVE  Turn(s, f, h, ids) = Turn(s, f, g, ids)
    <3>1. ASSUME NEW id \in ids
          PROVE  h[ids \ {id}] = g[ids \ {id}]
      <4>1. ids \ {id} \in Small(m) /\ ids \ {id} \in Small(m + 1)
        BY <1>0
      <4>2. h[ids \ {id}] = Turn(s, f, g, ids \ {id})
        BY <4>1
      <4>3. g[ids \ {id}] = Turn(s, f, g, ids \ {id})
        <5> HIDE DEF Small
        <5> QED
          BY <2>1, <4>1
      <4> QED
        BY <4>2, <4>3
    <3> HIDE DEF h
    <3> QED
      BY <3>1, TurnOf
  <2>3. Good(m + 1, h)
    <3>1. h = [ids \in Small(m + 1) |-> Turn(s, f, h, ids)]
      <4> DEFINE r == [ids \in Small(m + 1) |-> Turn(s, f, h, ids)]
      <4>1. \A ids \in Small(m + 1) : r[ids] = Turn(s, f, g, ids)
        BY <2>2
      <4> QED
        BY <2>2
    <3> HIDE DEF h
    <3> QED
      BY <3>1
  <2> HIDE DEF Good, h
  <2>4. \E g2 : Good(m + 1, g2)
    BY <2>3
  <2> QED
    BY <2>4
<1> HIDE DEF S
<1>3. S = Nat
  BY <1>1, <1>2, CountingUp DEF S
<1> DEFINE outcomes[ids \in SUBSET DOMAIN f] ==
            IF ids = {} THEN {s}
            ELSE UNION {{FiredAlone(t, id, f[id]) :
                             t \in {u \in outcomes[ids \ {id}] : AtomicallyEnabled(u, id, f[id])}}
                        : id \in ids}
           Rec(g) == g = [ids \in SUBSET DOMAIN f |-> Turn(s, f, g, ids)]
<1>4. PICK g : Rec(g)
  <2>1. PICK g : Good(Cardinality(D), g)
    BY <1>0, <1>3 DEF S
  <2>2. Small(Cardinality(D)) = SUBSET DOMAIN f
    BY <1>0 DEF D
  <2> HIDE DEF Small
  <2> QED
    BY <2>1, <2>2
<1>5. outcomes = CHOOSE g2 : Rec(g2)
  BY DEF Turn
<1>6. OneAtATime(s, f) = outcomes[DOMAIN f]
  BY DEF OneAtATime
<1> HIDE DEF outcomes
<1>7. Rec(outcomes)
  <2> HIDE DEF Rec
  <2> QED
    BY <1>4, <1>5
<1>8. \A ids \in SUBSET DOMAIN f : outcomes[ids] = Turn(s, f, outcomes, ids)
  BY <1>7
<1> QED
  BY <1>6, <1>8

(* The heart of the argument: as long as rules remain, one of them has     *)
(* written nothing that another one of the rest has seen, for they do not  *)
(* all see each other; it goes next, and reads what it read in the cycle.  *)
LEMMA SomeOrder ==
    ASSUME NetInv, NEW s, Typed(s),
           s = [queue |-> [q \in Queues(net) |-> s.queue[q]], cell |-> [c \in Cells(net) |-> s.cell[c]]],
           NEW f \in Followed(s), Lossless(s, f), ~SawEachOther(f)
    PROVE  After(s, f) \in OneAtATime(s, f)
<1> DEFINE D == DOMAIN f
           closed(ids) == \A id \in ids : \A h \in D \ ids : ~SawBefore(f, h, id)
<1>1. IsFiniteSet(D) /\ f = [id \in D |-> f[id]]
  BY FinitelyManyFire DEF Followed
<1>2. PICK outcomes : /\ \A ids \in SUBSET D : outcomes[ids] = Turn(s, f, outcomes, ids)
                      /\ OneAtATime(s, f) = outcomes[D]
  BY ZenonT(30), <1>1, OneAtATimeTurns
<1> DEFINE fired(m) == \E ids \in SUBSET D :
               Cardinality(ids) = m /\ closed(ids) /\ Part(s, f, ids) \in outcomes[ids]
           S == {m \in Nat : m <= Cardinality(D) => fired(m)}
<1>3. 0 \in S
  <2>1. Cardinality({}) = 0 /\ closed({}) /\ {} \in SUBSET D
    BY FS_EmptySet
  <2>2. outcomes[{}] = {s}
    BY <1>2, <2>1 DEF Turn
  <2>3. Part(s, f, {}) = s
    <3>1. /\ \A q : ~SomeTakes(f, {}, q)
          /\ \A e : ~SomeWrites(f, {}, e)
      BY DEF SomeTakes, SomeWrites
    <3>2. /\ \A q \in Queues(net) : Part(s, f, {}).queue[q] = s.queue[q]
          /\ \A c \in Cells(net) : Part(s, f, {}).cell[c] = s.cell[c]
      BY <2>1, <3>1, PartOfCycle
    <3>3. Part(s, f, {}) = [queue |-> [q \in Queues(net) |-> Part(s, f, {}).queue[q]],
                            cell  |-> [c \in Cells(net) |-> Part(s, f, {}).cell[c]]]
      BY DEF Part, After
    <3> QED
      BY <3>2, <3>3
  <2> HIDE DEF closed
  <2>4. fired(0)
    BY <2>1, <2>2, <2>3
  <2> QED
    BY <2>4
<1>4. ASSUME NEW m \in S
      PROVE  m + 1 \in S
  <2> SUFFICES ASSUME m + 1 <= Cardinality(D)
               PROVE  fired(m + 1)
    OBVIOUS
  <2>0. m \in Nat /\ Cardinality(D) \in Nat /\ m <= Cardinality(D) /\ m # Cardinality(D)
    BY <1>1, FS_CardinalityType
  <2>1. fired(m)
    BY <2>0
  <2>2. PICK ids \in SUBSET D : Cardinality(ids) = m /\ closed(ids) /\ Part(s, f, ids) \in outcomes[ids]
    BY <2>1
  <2>3. D \ ids # {}
    <3>1. ids # D
      BY <2>0, <2>2
    <3> QED
      BY <3>1
  <2>4. PICK h \in D \ ids : \A g \in D \ ids : ~SawBefore(f, g, h)
    BY <2>3 DEF SawEachOther
  <2> DEFINE more == ids \union {h}
  <2>5. more \in SUBSET D /\ more \ {h} = ids /\ more # {}
    OBVIOUS
  <2>6. Cardinality(more) = m + 1
    <3>1. IsFiniteSet(ids) /\ h \notin ids
      BY <1>1, FS_Subset
    <3> QED
      BY <2>2, <3>1, FS_AddElement
  <2>7. closed(more)
    BY <2>2, <2>4
  <2>8. Unseen(f, ids, h)
    BY <2>2 DEF Unseen
  <2>9. /\ AtomicallyEnabled(Part(s, f, ids), h, f[h])
        /\ FiredAlone(Part(s, f, ids), h, f[h]) = Part(s, f, more)
    <3>1. ids \in SUBSET DOMAIN f
      OBVIOUS
    <3> HIDE DEF D, more
    <3>2. Part(s, f, more) = Part(s, f, ids \union {h})
      BY DEF more
    <3> QED
      BY <2>8, <3>1, <3>2, OneMore
  <2>10. Part(s, f, more) \in outcomes[more]
    <3> DEFINE last(id) == {FiredAlone(t, id, f[id]) :
                               t \in {u \in outcomes[more \ {id}] : AtomicallyEnabled(u, id, f[id])}}
    <3> HIDE DEF more
    <3>1. outcomes[more] = UNION {last(id) : id \in more}
      BY <1>2, <2>5 DEF Turn
    <3>2. Part(s, f, more) \in last(h)
      BY <2>2, <2>5, <2>9
    <3>3. h \in more
      BY DEF more
    <3> HIDE DEF last
    <3> QED
      BY <3>1, <3>2, <3>3
  <2> HIDE DEF more, closed
  <2> QED
    BY <2>5, <2>6, <2>7, <2>10
<1> HIDE DEF S, fired
<1>5. S = Nat
  BY <1>3, <1>4, CountingUp DEF S
<1>6. fired(Cardinality(D))
  BY <1>1, <1>5, FS_CardinalityType DEF S
<1>7. PICK ids \in SUBSET D : Cardinality(ids) = Cardinality(D) /\ Part(s, f, ids) \in outcomes[ids]
  BY <1>6 DEF fired
<1>8. ids = D
  BY <1>1, <1>7, FS_Subset
<1>9. Part(s, f, D) = After(s, f)
  BY <1>1 DEF Part
<1> QED
  BY <1>2, <1>7, <1>8, <1>9

LEMMA FiredTogether == NetInv => CyclesAreAtomic
<1> SUFFICES ASSUME NetInv, NEW env \in Environments, NEW f \in Followed(Now(env)),
                    ~DropsToken(Now(env), f), ~ConsumesUnread(f), ~SawEachOther(f)
             PROVE  After(Now(env), f) \in OneAtATime(Now(env), f)
  BY DEF CyclesAreAtomic
<1> DEFINE s == Now(env)
<1>1. Typed(s)
  BY NowTyped
<1>2. s = [queue |-> [q \in Queues(net) |-> s.queue[q]], cell |-> [c \in Cells(net) |-> s.cell[c]]]
  BY DEF Now, NetInv
<1>3. Lossless(s, f)
  BY DEF Lossless
<1> HIDE DEF s
<1> QED
  BY <1>1, <1>2, <1>3, SomeOrder DEF s

-----------------------------------------------------------------------------
(* Queues and Cells hold tokens of the width of their ports, in every      *)
(* network (lower.rs: ports and registers of the element type).            *)
THEOREM NetworkTypes == Spec => []TypeOK
<1>1. NetInv => TypeOK
  BY DEF NetInv, TypeOK
<1> QED
  BY <1>1, NetworkInvariant, PTL

(* In no cycle of any network do two rules write one edge, or take from    *)
(* one: the multiplexers of enq_data, of the Cells and of deq_ready have   *)
(* at most one rule to choose from.                                        *)
THEOREM NetworkOneWriterOneReader == Spec => []OneWriterOneReader
BY OneOfEach, NetworkInvariant, PTL

(* Whatever the network, a cycle that loses no token and whose rules do    *)
(* not see each other in a circle does what its rules would have done one  *)
(* at a time, in some order, each of them enabled at its turn: the         *)
(* parallel hardware (lower.rs) is one-rule-at-a-time semantics.           *)
THEOREM NetworkCyclesAreAtomic == Spec => []CyclesAreAtomic
BY FiredTogether, NetworkInvariant, PTL

(* Rules that put at top level only. *)
PutsAtTop(n) == \A rule \in AllRules(n) : \A path \in rule.paths : path.puts = {}

(* Rules that peek nothing, and in a branch only match a Some.             *)
PlainNetwork(n) ==
    /\ PutsAtTop(n)
    /\ \A rule \in AllRules(n) :
           /\ rule.top.peeks = {}
           /\ \A path \in rule.paths : path.takes = {} /\ path.none = {} /\ path.peeks = {}

FiredPath(s, f, id) == RuleAt(id) \in AllRules(net) /\ f[id] \in RuleAt(id).paths \union {NoAccess}

LEMMA FiredPaths ==
    ASSUME NetInv, NEW s, NEW f \in Followed(s), NEW id \in DOMAIN f
    PROVE  FiredPath(s, f, id)
<1>0. net \in Networks
  BY DEF NetInv
<1>1. PICK p \in Procs(net) : \E i \in Fires(s, p) : id = <<p, i>> /\ i \in DOMAIN net.rules[p]
  BY FiringRule
<1>2. PICK i \in Fires(s, p) : id = <<p, i>> /\ i \in DOMAIN net.rules[p]
  BY <1>1
<1> QED
  BY <1>0, <1>2, FiringRule, Accesses DEF FiredPath

LEMMA NoPathPuts ==
    ASSUME NetInv, PutsAtTop(net), NEW s, NEW f \in Followed(s)
    PROVE  ~DropsToken(s, f)
<1> SUFFICES ASSUME NEW id \in DOMAIN f PROVE f[id].puts = {}
  BY DEF DropsToken
<1> QED
  BY FiredPaths DEF FiredPath, PutsAtTop, NoAccess

(* When no rule puts in a branch, TOURBILLON.md's rule holds: nothing is   *)
(* put to a full queue (lower.rs: can_fire asks for the room of the puts   *)
(* at top level).                                                          *)
THEOREM TopLevelPutsWait ==
    ASSUME \A n \in Networks : PutsAtTop(n)
    PROVE  Spec => []PutsWaitForRoom
<1>1. NetInv => PutsWaitForRoom
  <2> SUFFICES ASSUME NetInv, NEW env \in Environments, NEW f \in Followed(Now(env)),
                      NEW q \in Queues(net), Written(f, q)
               PROVE  enq_ready(Now(env), q)
    BY DEF PutsWaitForRoom
  <2>1. PutsAtTop(net)
    BY DEF NetInv
  <2>2. PICK id \in DOMAIN f : q \in Writes(id, f[id])
    BY DEF Written
  <2> QED
    BY <2>1, <2>2, NoPathPuts, RoomToPut
<1> QED
  BY <1>1, NetworkInvariant, PTL

(* A cycle does what its rules would have done one at a time. *)
AlwaysAtomic ==
    \A env \in Environments : \A f \in Followed(Now(env)) :
        After(Now(env), f) \in OneAtATime(Now(env), f)

(* Networks written in the plain style, without peeks, None arms and takes *)
(* or puts in branches, run one rule at a time without any exception.      *)
THEOREM PlainNetworksAreAtomic ==
    ASSUME \A n \in Networks : PlainNetwork(n)
    PROVE  Spec => []AlwaysAtomic
<1>1. NetInv => AlwaysAtomic
  <2> SUFFICES ASSUME NetInv, NEW env \in Environments, NEW f \in Followed(Now(env))
               PROVE  After(Now(env), f) \in OneAtATime(Now(env), f)
    BY DEF AlwaysAtomic
  <2>1. PlainNetwork(net)
    BY DEF NetInv
  <2>2. ~DropsToken(Now(env), f)
    BY <2>1, NoPathPuts DEF PlainNetwork
  <2>3. \A id \in DOMAIN f :
            /\ f[id].none = {} /\ f[id].peeks = {} /\ RuleAt(id).top.peeks = {}
            /\ Takes(RuleAt(id)) = RuleAt(id).top.takes
    <3> TAKE id \in DOMAIN f
    <3>1. FiredPath(Now(env), f, id)
      BY FiredPaths
    <3> QED
      BY <2>1, <3>1 DEF FiredPath, PlainNetwork, NoAccess, Takes, Bodies
  <2>4. ~ConsumesUnread(f)
    BY <2>3 DEF ConsumesUnread
  <2>5. ~SawEachOther(f)
    <3>1. \A g, h \in DOMAIN f : ~SawBefore(f, g, h)
      BY <2>3 DEF SawBefore
    <3> QED
      BY <3>1 DEF SawEachOther
  <2>6. CyclesAreAtomic
    BY FiredTogether
  <2> QED
    BY <2>2, <2>4, <2>5, <2>6 DEF CyclesAreAtomic
<1> QED
  BY <1>1, NetworkInvariant, PTL

-----------------------------------------------------------------------------
(* Folds over sequences, by prefixes.                                      *)

LEMMA MaxOfPrefix == \A k \in Nat : Max(1 .. k + 1) = k + 1 /\ (1 .. k + 1) \ {k + 1} = 1 .. k
<1> TAKE k \in Nat
<1>1. \A x \in 1 .. k + 1 : (\A y \in 1 .. k + 1 : x >= y) => x = k + 1
  OBVIOUS
<1>2. k + 1 \in 1 .. k + 1 /\ \A y \in 1 .. k + 1 : k + 1 >= y
  OBVIOUS
<1>3. Max(1 .. k + 1) = k + 1
  BY <1>1, <1>2 DEF Max
<1> QED
  BY <1>3

LEMMA MaxIsIn ==
    ASSUME NEW n \in Nat, NEW S \in SUBSET (1 .. n), S # {}
    PROVE  Max(S) \in S /\ \A y \in S : Max(S) >= y
<1>1. \E x \in S : \A y \in S : x >= y
  <2> SUFFICES ASSUME \A x \in S : \E y \in S : y > x PROVE FALSE
    OBVIOUS
  <2> DEFINE U == {k \in Nat : \E x \in S : x >= k}
  <2>1. 0 \in U
    <3>1. PICK x \in S : TRUE
      OBVIOUS
    <3>2. x \in Nat /\ x >= 0
      OBVIOUS
    <3> QED
      BY <3>2
  <2>2. ASSUME NEW k \in U PROVE k + 1 \in U
    <3>1. PICK x \in S : x >= k
      OBVIOUS
    <3>2. PICK y \in S : y > x
      OBVIOUS
    <3>3. x \in Nat /\ y \in Nat /\ k \in Nat
      OBVIOUS
    <3>4. y >= k + 1
      BY <3>1, <3>2, <3>3
    <3> QED
      BY <3>3, <3>4
  <2> HIDE DEF U
  <2>3. U \subseteq Nat
    BY DEF U
  <2>4. U = Nat
    BY <2>1, <2>2, <2>3, CountingUp
  <2>5. n + 1 \in U
    BY <2>4
  <2> QED
    BY <2>5 DEF U
<1> QED
  BY <1>1 DEF Max

(* A fold from the left is a function of the positions folded: the last of *)
(* them is the last step.                                                  *)
FoldOf(n, base, step, h) ==
    \A S \in SUBSET (1 .. n) :
        h[S] = IF S = {} THEN base ELSE step[<<Max(S), h[S \ {Max(S)}]>>]

LEMMA Folding ==
    ASSUME NEW n \in Nat, NEW A, NEW base \in A, NEW step \in [(1 .. n) \X A -> A]
    PROVE  \E h \in [SUBSET (1 .. n) -> A] : FoldOf(n, base, step, h)
<1> DEFINE Value(g, S) == IF S = {} THEN base ELSE step[<<Max(S), g[S \ {Max(S)}]>>]
           Good(m, g) == g \in [SUBSET (1 .. m) -> A] /\ \A S \in SUBSET (1 .. m) : g[S] = Value(g, S)
           M == {m \in Nat : m <= n => \E g : Good(m, g)}
<1>1. 0 \in M
  <2> DEFINE g == [S \in SUBSET (1 .. 0) |-> base]
  <2>1. SUBSET (1 .. 0) = {{}}
    OBVIOUS
  <2>2. Good(0, g)
    BY <2>1
  <2> HIDE DEF Good
  <2> QED
    BY <2>2
<1>2. ASSUME NEW m \in M, m + 1 <= n
      PROVE  \E h : Good(m + 1, h)
  <2>0. m \in Nat /\ m <= n /\ 1 .. m \subseteq 1 .. m + 1 /\ 1 .. m + 1 \subseteq 1 .. n
    BY <1>2
  <2>1. PICK g : Good(m, g)
    BY <1>2, <2>0
  <2> DEFINE h == [S \in SUBSET (1 .. m + 1) |-> Value(g, S)]
  <2>2. ASSUME NEW S \in SUBSET (1 .. m + 1), S # {}
        PROVE  /\ Max(S) \in 1 .. n /\ S \ {Max(S)} \in SUBSET (1 .. m)
    <3>1. Max(S) \in S /\ \A y \in S : Max(S) >= y
      BY <2>0, <2>2, MaxIsIn
    <3>2. ASSUME NEW y \in S, y # Max(S)
          PROVE  y \in 1 .. m
      <4>1. y \in 1 .. m + 1 /\ Max(S) \in 1 .. m + 1 /\ Max(S) >= y
        BY <3>1
      <4> HIDE <3>1
      <4> QED
        BY <2>0, <3>2, <4>1
    <3> QED
      BY <2>0, <3>1, <3>2
  <2>3. \A S \in SUBSET (1 .. m + 1) : Value(g, S) \in A
    <3> TAKE S \in SUBSET (1 .. m + 1)
    <3>1. CASE S = {}
      BY <3>1
    <3>2. CASE S # {}
      <4>1. g[S \ {Max(S)}] \in A
        BY <2>1, <2>2, <3>2
      <4> QED
        BY <2>2, <3>2, <4>1
    <3> QED
      BY <3>1, <3>2
  <2>4. \A S \in SUBSET (1 .. m) : S \in SUBSET (1 .. m + 1) /\ h[S] = g[S]
    <3> TAKE S \in SUBSET (1 .. m)
    <3>1. S \in SUBSET (1 .. m + 1)
      BY <2>0
    <3>2. h[S] = Value(g, S)
      BY <3>1
    <3>3. g[S] = Value(g, S)
      BY <2>1
    <3> QED
      BY <3>1, <3>2, <3>3
  <2>5. \A S \in SUBSET (1 .. m + 1) : h[S] = Value(h, S)
    <3> TAKE S \in SUBSET (1 .. m + 1)
    <3>1. h[S] = Value(g, S)
      OBVIOUS
    <3>2. S # {} => h[S \ {Max(S)}] = g[S \ {Max(S)}]
      BY <2>2, <2>4
    <3> HIDE DEF h
    <3> QED
      BY <3>1, <3>2
  <2>6. h \in [SUBSET (1 .. m + 1) -> A]
    <3> HIDE DEF Value
    <3> QED
      BY <2>3
  <2>7. Good(m + 1, h)
    <3> HIDE DEF h, Value
    <3> QED
      BY <2>5, <2>6
  <2> HIDE DEF Good, h
  <2> QED
    BY <2>7
<1> HIDE DEF Good
<1>3. \A m \in M : m + 1 \in M
  BY <1>2
<1> HIDE DEF M
<1>4. M = Nat
  BY <1>1, <1>3, CountingUp DEF M
<1>5. PICK g : Good(n, g)
  BY <1>4 DEF M
<1> QED
  BY <1>5 DEF Good, FoldOf

-----------------------------------------------------------------------------
(* The rules that fire are the same.                                       *)

LEMMA SameCanFire ==
    ASSUME NEW s, NEW id
    PROVE  chisel_can_fire(s, id) <=> can_fire(s, id)
<1> DEFINE taken == Takes(RuleAt(id)) \intersect Queues(net)
           put == RuleAt(id).top.puts \intersect Queues(net)
           conditions == {deq_valid(s, q) : q \in taken} \union {enq_ready(s, q) : q \in put}
<1>1. chisel_can_fire(s, id) <=> FALSE \notin conditions
  BY DEF chisel_can_fire
<1>2. can_fire(s, id) <=> (\A q \in taken : deq_valid(s, q)) /\ (\A q \in put : enq_ready(s, q))
  BY DEF can_fire
<1>3. ASSUME NEW q
      PROVE  deq_valid(s, q) \in BOOLEAN /\ enq_ready(s, q) \in BOOLEAN
  BY DEF deq_valid, enq_ready
<1> HIDE DEF taken, put
<1>4. ASSUME FALSE \notin conditions
      PROVE  (\A q \in taken : deq_valid(s, q)) /\ (\A q \in put : enq_ready(s, q))
  <2>1. ASSUME NEW q \in taken PROVE deq_valid(s, q)
    <3>1. deq_valid(s, q) # FALSE
      BY <1>4, <2>1, Zenon
    <3> QED
      BY <1>3, <3>1, Zenon
  <2>2. ASSUME NEW q \in put PROVE enq_ready(s, q)
    <3>1. enq_ready(s, q) # FALSE
      BY <1>4, <2>2, Zenon
    <3> QED
      BY <1>3, <3>1, Zenon
  <2> QED
    BY <2>1, <2>2
<1>5. ASSUME FALSE \in conditions,
             \A q \in taken : deq_valid(s, q), \A q \in put : enq_ready(s, q)
      PROVE  FALSE
  <2>1. (\E q \in taken : FALSE = deq_valid(s, q)) \/ (\E q \in put : FALSE = enq_ready(s, q))
    BY <1>5, Zenon
  <2> QED
    BY <1>5, <2>1, Zenon
<1> QED
  BY <1>1, <1>2, <1>4, <1>5, Zenon

(* Down the slots, the enabled rules of the first that has one. *)
LEMMA SameFires ==
    ASSUME NetInv, NEW s, NEW p \in Procs(net)
    PROVE  chisel_will_fire(s, p) = Fires(s, p)
<1> DEFINE gs == groups[p]
           n == Len(gs)
           rules == DOMAIN net.rules[p]
           E == {i \in rules : can_fire(s, <<p, i>>)}
           slot(k) == {r \in gs[k] : chisel_can_fire(s, <<p, r>>)}
           iter[S \in SUBSET DOMAIN gs] ==
               IF S = {} THEN {}
               ELSE IF iter[S \ {Max(S)}] # {} THEN iter[S \ {Max(S)}]
                    ELSE slot(Max(S))
<1>1. chisel_will_fire(s, p) = iter[DOMAIN gs]
  BY DEF chisel_will_fire, FoldLeft, MapThenFoldSet
<1>2. n \in Nat /\ DOMAIN gs = 1 .. n /\ \A k \in 1 .. n : gs[k] \subseteq rules
  <2>1. gs \in Seq(SUBSET rules)
    BY GroupsOfRules
  <2> HIDE DEF gs, rules
  <2> QED
    BY <2>1
<1>3. \A k \in 1 .. n : slot(k) = gs[k] \intersect E
  BY <1>2, SameCanFire
<1> DEFINE step == [x \in (1 .. n) \X SUBSET rules |-> IF x[2] # {} THEN x[2] ELSE gs[x[1]] \intersect E]
           Turn1(S, v) == IF S = {} THEN {}
                       ELSE IF v # {} THEN v ELSE slot(Max(S))
<1> HIDE DEF n, rules, E, slot
<1>4. step \in [(1 .. n) \X SUBSET rules -> SUBSET rules]
  BY <1>2
<1>5. PICK h \in [SUBSET (1 .. n) -> SUBSET rules] : FoldOf(n, {}, step, h)
  <2> HIDE DEF step
  <2> QED
    BY <1>2, <1>4, Folding
<1>6. ASSUME NEW S \in SUBSET (1 .. n)
      PROVE  h[S] = IF S = {} THEN {}
               ELSE IF h[S \ {Max(S)}] # {} THEN h[S \ {Max(S)}]
                    ELSE slot(Max(S))
  <2>1. CASE S = {}
    BY <1>5, <2>1 DEF FoldOf
  <2>2. CASE S # {}
    <3>1. Max(S) \in 1 .. n /\ h[S \ {Max(S)}] \in SUBSET rules
      BY <1>2, <2>2, MaxIsIn
    <3>2. h[S] = step[<<Max(S), h[S \ {Max(S)}]>>]
      BY <1>5, <2>2 DEF FoldOf
    <3> HIDE DEF gs
    <3>3. h[S] = IF h[S \ {Max(S)}] # {} THEN h[S \ {Max(S)}] ELSE gs[Max(S)] \intersect E
      BY <3>1, <3>2
    <3> QED
      BY <1>3, <2>2, <3>1, <3>3
  <2> QED
    BY <2>1, <2>2
<1> DEFINE Turns(g) == g = [S \in SUBSET DOMAIN gs |->
                IF S = {} THEN {}
                ELSE IF g[S \ {Max(S)}] # {} THEN g[S \ {Max(S)}]
                     ELSE slot(Max(S))]
<1>7. Turns(iter)
  <2>1. Turns(h)
    BY <1>2, <1>6
  <2> HIDE DEF gs
  <2> QED
    BY <2>1
<1> HIDE DEF iter
<1> DEFINE J(k) == IF iter[1 .. k] = {} THEN \A l \in 1 .. k : gs[l] \intersect E = {}
                   ELSE \E m \in 1 .. k : /\ iter[1 .. k] = gs[m] \intersect E
                                          /\ \A l \in 1 .. m - 1 : gs[l] \intersect E = {}
           M == {k \in Nat : k <= n => J(k)}
<1>8. iter[{}] = {} /\ 1 .. 0 = {}
  BY <1>7
<1>9. 0 \in M
  BY <1>8
<1>10. ASSUME NEW k \in M, k + 1 <= n
       PROVE  J(k + 1)
  <2>0. k \in Nat /\ k + 1 \in 1 .. n /\ J(k) /\ 1 .. k \subseteq 1 .. k + 1
    BY <1>2, <1>10
  <2>1. 1 .. k + 1 \in SUBSET DOMAIN gs /\ 1 .. k + 1 # {}
    BY <1>2, <2>0
  <2>2. Max(1 .. k + 1) = k + 1 /\ (1 .. k + 1) \ {k + 1} = 1 .. k
    BY <2>0, MaxOfPrefix
  <2> HIDE DEF gs
  <2>3. iter[1 .. k + 1] = IF iter[1 .. k] # {} THEN iter[1 .. k] ELSE slot(k + 1)
    <3>1. ASSUME NEW S \in SUBSET DOMAIN gs, S # {}
          PROVE  iter[S] = IF iter[S \ {Max(S)}] # {} THEN iter[S \ {Max(S)}] ELSE slot(Max(S))
      BY <1>7, <3>1
    <3> HIDE DEF Turns
    <3> QED
      BY <2>1, <2>2, <3>1
  <2>4. slot(k + 1) = gs[k + 1] \intersect E
    BY <1>3, <2>0
  <2>5. CASE iter[1 .. k] # {}
    BY <2>0, <2>3, <2>5
  <2>6. CASE iter[1 .. k] = {}
    <3>1. \A l \in 1 .. k : gs[l] \intersect E = {}
      BY <2>0, <2>6
    <3>2. iter[1 .. k + 1] = gs[k + 1] \intersect E
      BY <2>3, <2>4, <2>6
    <3>3. k + 1 \in 1 .. k + 1 /\ (k + 1) - 1 = k /\ \A l \in 1 .. k + 1 : l = k + 1 \/ l \in 1 .. k
      BY <2>0
    <3> QED
      BY <3>1, <3>2, <3>3
  <2> QED
    BY <2>5, <2>6
<1> HIDE DEF J
<1>11. \A k \in M : k + 1 \in M
  BY <1>10
<1> HIDE DEF M
<1>12. M = Nat
  BY <1>9, <1>11, CountingUp DEF M
<1>13. J(n)
  BY <1>2, <1>12 DEF M
<1>14. Fires(s, p) = {r \in E : \E k \in DOMAIN gs :
                         r \in gs[k] /\ \A l \in 1 .. k - 1 : gs[l] \intersect E = {}}
  BY DEF Fires, WillFire, E, rules
<1> HIDE DEF gs
<1>15. CASE iter[1 .. n] = {}
  BY <1>1, <1>2, <1>13, <1>14, <1>15 DEF J
<1>16. CASE iter[1 .. n] # {}
  <2>1. PICK m \in 1 .. n : /\ iter[1 .. n] = gs[m] \intersect E
                            /\ \A l \in 1 .. m - 1 : gs[l] \intersect E = {}
    BY <1>13, <1>16 DEF J
  <2>2. ASSUME NEW r \in E, NEW k \in 1 .. n, r \in gs[k], \A l \in 1 .. k - 1 : gs[l] \intersect E = {}
        PROVE  k = m
    BY <1>2, <1>16, <2>1, <2>2
  <2> QED
    BY <1>1, <1>2, <1>14, <2>1, <2>2
<1> QED
  BY <1>15, <1>16

LEMMA SameFiring == NetInv => \A s : ChiselFiring(s) = Firing(s)
<1> SUFFICES ASSUME NetInv, NEW s PROVE ChiselFiring(s) = Firing(s)
  OBVIOUS
<1>1. \A p \in Procs(net) : {p} \X chisel_will_fire(s, p) = {p} \X Fires(s, p)
  BY SameFires
<1>2. Firing(s) = UNION {{p} \X Fires(s, p) : p \in Procs(net)}
  BY DEF Firing, Fires
<1> QED
  BY <1>1, <1>2, Zenon DEF ChiselFiring
-----------------------------------------------------------------------------
(* The order of the rules: every rule is in it.                            *)

LEMMA ListsItsSet ==
    ASSUME NEW S, IsFiniteSet(S)
    PROVE  /\ SetToSeq(S) \in Seq(S)
           /\ \A x \in S : \E i \in DOMAIN SetToSeq(S) : SetToSeq(S)[i] = x
<1> DEFINE c == Cardinality(S)
           f == SetToSeq(S)
<1>1. c \in Nat /\ ExistsBijection(1 .. c, S)
  BY FS_CardinalityType
<1>2. f \in Injection(1 .. c, S)
  <2>1. \E g \in [1 .. c -> S] : IsInjective(g)
    BY <1>1 DEF ExistsBijection, Bijection, Injection
  <2> QED
    BY <2>1 DEF SetToSeq, Injection
<1> HIDE DEF f
<1>3. IsFiniteSet(1 .. c) /\ Cardinality(1 .. c) = c
  BY <1>1, FS_Interval
<1>4. f \in Surjection(1 .. c, S)
  BY <1>2, <1>3, FS_Injection
<1>5. f \in [1 .. c -> S] /\ \A x \in S : \E i \in 1 .. c : f[i] = x
  BY <1>4 DEF Surjection
<1> HIDE DEF c
<1>6. f \in Seq(S) /\ DOMAIN f = 1 .. c
  BY <1>1, <1>5, SeqDef
<1> QED
  BY <1>5, <1>6 DEF f

LEMMA FlatKeepsAll ==
    ASSUME NEW A, NEW ss \in Seq(Seq(A))
    PROVE  /\ FlattenSeq(ss) \in Seq(A)
           /\ \A k \in DOMAIN ss : \A i \in DOMAIN ss[k] :
                 \E j \in DOMAIN FlattenSeq(ss) : FlattenSeq(ss)[j] = ss[k][i]
<1> DEFINE n == Len(ss)
           Turns(m, g) == g = [i \in 1 .. m |-> IF i = 1 THEN ss[i] ELSE g[i - 1] \o ss[i]]
           S == {m \in Nat : \E g : Turns(m, g)}
<1>0. n \in Nat /\ DOMAIN ss = 1 .. n /\ \A k \in 1 .. n : ss[k] \in Seq(A)
  OBVIOUS
<1> HIDE DEF n
<1>1. 0 \in S
  <2>1. Turns(0, [i \in 1 .. 0 |-> <<>>])
    OBVIOUS
  <2> QED
    BY <2>1
<1>2. ASSUME NEW m \in S
      PROVE  m + 1 \in S
  <2>1. PICK g : Turns(m, g)
    OBVIOUS
  <2> DEFINE h == [i \in 1 .. m + 1 |-> IF i = 1 THEN ss[i] ELSE g[i - 1] \o ss[i]]
  <2>2. \A i \in 1 .. m : i \in 1 .. m + 1 /\ h[i] = g[i]
    <3> TAKE i \in 1 .. m
    <3>1. i \in 1 .. m + 1
      OBVIOUS
    <3>2. g[i] = IF i = 1 THEN ss[i] ELSE g[i - 1] \o ss[i]
      BY <2>1
    <3> QED
      BY <3>1, <3>2
  <2>3. \A i \in 1 .. m + 1 : h[i] = IF i = 1 THEN ss[i] ELSE h[i - 1] \o ss[i]
    <3> TAKE i \in 1 .. m + 1
    <3>1. i # 1 => i - 1 \in 1 .. m
      OBVIOUS
    <3>2. i # 1 => h[i - 1] = g[i - 1]
      BY <2>2, <3>1
    <3> QED
      BY <3>2
  <2>4. h = [i \in 1 .. m + 1 |-> h[i]]
    OBVIOUS
  <2> HIDE DEF h
  <2>5. Turns(m + 1, h)
    BY <2>3, <2>4
  <2> HIDE DEF Turns
  <2>6. m + 1 \in Nat /\ \E g2 : Turns(m + 1, g2)
    BY <2>5
  <2> QED
    BY <2>6
<1> HIDE DEF S
<1>3. S = Nat
  BY <1>1, <1>2, CountingUp DEF S
<1> DEFINE flatten[i \in 1 .. Len(ss)] == IF i = 1 THEN ss[i] ELSE flatten[i - 1] \o ss[i]
<1>4. Turns(Len(ss), flatten)
  <2>1. \E g : Turns(Len(ss), g)
    BY <1>0, <1>3 DEF S, n
  <2> QED
    BY <2>1
<1>5. FlattenSeq(ss) = IF Len(ss) = 0 THEN ss ELSE flatten[Len(ss)]
  BY DEF FlattenSeq
<1> HIDE DEF flatten
<1> DEFINE has(q, k) == \A i \in DOMAIN ss[k] : \E j \in DOMAIN q : q[j] = ss[k][i]
           good(m) == flatten[m] \in Seq(A) /\ \A k \in 1 .. m : has(flatten[m], k)
           R == {m \in Nat : m + 1 <= n => good(m + 1)}
<1>6. \A i \in 1 .. n : flatten[i] = IF i = 1 THEN ss[i] ELSE flatten[i - 1] \o ss[i]
  BY <1>4 DEF n
<1>7. 0 \in R
  <2> SUFFICES ASSUME 1 <= n PROVE good(1)
    OBVIOUS
  <2>1. flatten[1] = ss[1]
    BY <1>0, <1>6
  <2>2. has(ss[1], 1)
    OBVIOUS
  <2>3. \A k \in 1 .. 1 : k = 1
    OBVIOUS
  <2> HIDE DEF has
  <2> QED
    BY <1>0, <2>1, <2>2, <2>3
<1>8. ASSUME NEW m \in R, (m + 1) + 1 <= n
      PROVE  good((m + 1) + 1)
  <2>1. m + 1 \in Nat /\ m + 1 <= n /\ (m + 1) + 1 \in 1 .. n /\ good(m + 1)
    BY <1>0, <1>8
  <2> DEFINE a == flatten[m + 1]
             b == ss[(m + 1) + 1]
  <2>2. flatten[(m + 1) + 1] = a \o b
    <3>1. (m + 1) + 1 # 1 /\ ((m + 1) + 1) - 1 = m + 1
      BY <2>1
    <3> QED
      BY <1>6, <2>1, <3>1
  <2>3. a \in Seq(A) /\ b \in Seq(A)
    BY <1>0, <2>1
  <2>4. \A k \in 1 .. m + 1 : has(a, k)
    BY <2>1
  <2> HIDE DEF a, b
  <2>5. /\ a \o b \in Seq(A)
        /\ \A j \in DOMAIN a : j \in DOMAIN (a \o b) /\ (a \o b)[j] = a[j]
        /\ \A j \in DOMAIN b : Len(a) + j \in DOMAIN (a \o b) /\ (a \o b)[Len(a) + j] = b[j]
    BY <2>3
  <2>6. ASSUME NEW k \in 1 .. (m + 1) + 1
        PROVE  has(a \o b, k)
    <3>1. CASE k = (m + 1) + 1
      <4>1. ss[k] = b
        BY <3>1 DEF b
      <4> QED
        BY <2>5, <4>1
    <3>2. CASE k # (m + 1) + 1
      <4>1. k \in 1 .. m + 1
        BY <2>1, <3>2
      <4>2. has(a, k)
        BY <2>4, <4>1
      <4> QED
        BY <2>5, <4>2
    <3> QED
      BY <3>1, <3>2
  <2> HIDE DEF has
  <2>7. flatten[(m + 1) + 1] \in Seq(A)
    BY <2>2, <2>5
  <2>8. \A k \in 1 .. (m + 1) + 1 : has(flatten[(m + 1) + 1], k)
    BY <2>2, <2>6
  <2> QED
    BY <2>7, <2>8
<1> HIDE DEF good
<1>9. \A m \in R : m + 1 \in R
  BY <1>8
<1> HIDE DEF R
<1>10. R = Nat
  BY <1>7, <1>9, CountingUp DEF R
<1>11. CASE n = 0
  <2>1. FlattenSeq(ss) = ss /\ ss = <<>>
    BY <1>5, <1>11 DEF n
  <2> QED
    BY <1>0, <1>11, <2>1
<1>12. CASE n # 0
  <2>1. n - 1 \in Nat /\ (n - 1) + 1 = n
    BY <1>0, <1>12
  <2>2. good(n)
    BY <1>10, <2>1 DEF R
  <2>3. FlattenSeq(ss) = flatten[n]
    BY <1>5, <1>12 DEF n
  <2> QED
    BY <1>0, <2>2, <2>3 DEF good
<1> QED
  BY <1>11, <1>12
(* Every rule that fires is emitted. *)
LEMMA EveryRuleEmitted ==
    ASSUME NetInv
    PROVE  /\ \E A : RuleOrder \in Seq(A)
           /\ \A p \in Procs(net) : \A k \in DOMAIN groups[p] : \A i \in groups[p][k] :
                 \E j \in DOMAIN RuleOrder : RuleOrder[j] = <<p, i>>
<1> DEFINE A == UNION {{p} \X DOMAIN net.rules[p] : p \in Procs(net)}
           slot(p, rules) == SetToSeq({p} \X rules)
           slots(p) == [k \in DOMAIN groups[p] |-> slot(p, groups[p][k])]
           process(p) == FlattenSeq(slots(p))
           procs == SetToSeq(Procs(net))
           all == [k \in 1 .. Cardinality(Procs(net)) |-> process(procs[k])]
<1>1. WellFormed(net)
  BY NetworksAssumption DEF NetInv
<1>2. RuleOrder = FlattenSeq(all)
  BY DEF RuleOrder
<1>3. ASSUME NEW p \in Procs(net), NEW rules \in SUBSET DOMAIN net.rules[p]
      PROVE  /\ slot(p, rules) \in Seq(A)
             /\ \A i \in rules : \E j \in DOMAIN slot(p, rules) : slot(p, rules)[j] = <<p, i>>
  <2>1. IsFiniteSet(rules)
    <3>1. IsFiniteSet(DOMAIN net.rules[p])
      BY <1>1 DEF WellFormed
    <3> QED
      BY <3>1, FS_Subset
  <2>2. IsFiniteSet({p} \X rules)
    BY <2>1, FS_Singleton, FS_Product
  <2>3. /\ slot(p, rules) \in Seq({p} \X rules)
        /\ \A x \in {p} \X rules : \E j \in DOMAIN slot(p, rules) : slot(p, rules)[j] = x
    BY <2>2, ListsItsSet
  <2>4. {p} \X rules \subseteq A
    OBVIOUS
  <2> HIDE DEF A, slot
  <2>5. slot(p, rules) \in Seq(A)
    BY <2>3, <2>4
  <2> QED
    BY <2>3, <2>5
<1> HIDE DEF A, slot
<1>4. ASSUME NEW p \in Procs(net)
      PROVE  /\ process(p) \in Seq(A)
             /\ \A k \in DOMAIN groups[p] : \A i \in groups[p][k] :
                   \E j \in DOMAIN process(p) : process(p)[j] = <<p, i>>
  <2>1. DOMAIN groups[p] = 1 .. Len(groups[p]) /\ Len(groups[p]) \in Nat
        /\ \A k \in DOMAIN groups[p] : groups[p][k] \in SUBSET DOMAIN net.rules[p]
    <3> DEFINE gs == groups[p]
               T == SUBSET DOMAIN net.rules[p]
    <3>1. gs \in Seq(T)
      BY GroupsOfRules
    <3> HIDE DEF gs, T
    <3>2. DOMAIN gs = 1 .. Len(gs) /\ Len(gs) \in Nat /\ \A k \in DOMAIN gs : gs[k] \in T
      BY <3>1
    <3> QED
      BY <3>2 DEF gs, T
  <2>2. slots(p) \in [1 .. Len(groups[p]) -> Seq(A)]
    BY <1>3, <2>1
  <2>3. slots(p) \in Seq(Seq(A)) /\ DOMAIN slots(p) = DOMAIN groups[p]
    BY <2>1, <2>2, SeqDef
  <2>4. \A k \in DOMAIN groups[p] : slots(p)[k] = slot(p, groups[p][k])
    OBVIOUS
  <2> HIDE DEF slots
  <2>5. /\ process(p) \in Seq(A)
        /\ \A k \in DOMAIN slots(p) : \A i \in DOMAIN slots(p)[k] :
              \E j \in DOMAIN process(p) : process(p)[j] = slots(p)[k][i]
    BY <2>3, FlatKeepsAll
  <2> HIDE DEF process
  <2>6. ASSUME NEW k \in DOMAIN groups[p], NEW i \in groups[p][k]
        PROVE  \E j \in DOMAIN process(p) : process(p)[j] = <<p, i>>
    <3>1. PICK l \in DOMAIN slot(p, groups[p][k]) : slot(p, groups[p][k])[l] = <<p, i>>
      BY <1>3, <2>1
    <3> QED
      BY <2>3, <2>4, <2>5, <3>1
  <2> QED
    BY <2>5, <2>6
<1>5. /\ procs \in Seq(Procs(net))
      /\ DOMAIN procs = 1 .. Cardinality(Procs(net)) /\ Cardinality(Procs(net)) \in Nat
      /\ \A p \in Procs(net) : \E k \in DOMAIN procs : procs[k] = p
  <2>1. IsFiniteSet(Procs(net))
    BY <1>1 DEF WellFormed
  <2>2. Cardinality(Procs(net)) \in Nat /\ ExistsBijection(1 .. Cardinality(Procs(net)), Procs(net))
    BY <2>1, FS_CardinalityType
  <2>3. \E g \in [1 .. Cardinality(Procs(net)) -> Procs(net)] : IsInjective(g)
    BY <2>2 DEF ExistsBijection, Bijection, Injection
  <2>4. DOMAIN procs = 1 .. Cardinality(Procs(net))
    BY <2>3 DEF SetToSeq
  <2> HIDE DEF procs
  <2> QED
    BY <2>1, <2>2, <2>4, ListsItsSet DEF procs
<1> HIDE DEF process, procs
<1>6. all \in [1 .. Cardinality(Procs(net)) -> Seq(A)]
  BY <1>4, <1>5
<1>7. all \in Seq(Seq(A)) /\ DOMAIN all = DOMAIN procs
  BY SMTT(30), <1>5, <1>6, SeqDef
<1>8. \A k \in DOMAIN procs : all[k] = process(procs[k])
  BY <1>5
<1> HIDE DEF all
<1>9. /\ RuleOrder \in Seq(A)
      /\ \A k \in DOMAIN all : \A i \in DOMAIN all[k] : \E j \in DOMAIN RuleOrder : RuleOrder[j] = all[k][i]
  BY <1>2, <1>7, FlatKeepsAll
<1>10. ASSUME NEW p \in Procs(net), NEW k \in DOMAIN groups[p], NEW i \in groups[p][k]
       PROVE  \E j \in DOMAIN RuleOrder : RuleOrder[j] = <<p, i>>
  <2>1. PICK l \in DOMAIN process(p) : process(p)[l] = <<p, i>>
    BY <1>4
  <2>2. PICK m \in DOMAIN procs : procs[m] = p
    BY <1>5
  <2> QED
    BY <1>7, <1>8, <1>9, <2>1, <2>2
<1> QED
  BY <1>9, <1>10
-----------------------------------------------------------------------------
(* The connections of the rules.                                           *)

LEMMA OverAssociates ==
    ASSUME NEW a, NEW b, NEW c
    PROVE  Over(a, Over(b, c)) = Over(Over(a, b), c)
<1> DEFINE D == DOMAIN a \union DOMAIN b \union DOMAIN c
           bc == Over(b, c)
           ab == Over(a, b)
           val(w) == IF w \in DOMAIN a THEN a[w] ELSE IF w \in DOMAIN b THEN b[w] ELSE c[w]
<1>1. DOMAIN bc = DOMAIN b \union DOMAIN c /\ DOMAIN ab = DOMAIN a \union DOMAIN b
  BY DEF Over
<1>2. \A w \in DOMAIN bc : bc[w] = IF w \in DOMAIN b THEN b[w] ELSE c[w]
  BY DEF Over
<1>3. \A w \in DOMAIN ab : ab[w] = IF w \in DOMAIN a THEN a[w] ELSE b[w]
  BY DEF Over
<1> HIDE DEF ab, bc
<1>4. Over(a, bc) = [w \in D |-> val(w)]
  BY <1>1, <1>2 DEF Over
<1>5. Over(ab, c) = [w \in D |-> val(w)]
  BY <1>1, <1>3 DEF Over
<1> QED
  BY <1>4, <1>5 DEF ab, bc

LEMMA OverTyped ==
    ASSUME NEW W, NEW V, NEW b \in [W -> V], NEW a, DOMAIN a \subseteq W, \A w \in DOMAIN a : a[w] \in V
    PROVE  /\ Over(a, b) \in [W -> V]
           /\ \A w \in W : Over(a, b)[w] = IF w \in DOMAIN a THEN a[w] ELSE b[w]
<1>1. DOMAIN a \union DOMAIN b = W
  OBVIOUS
<1> QED
  BY <1>1 DEF Over

(* What a rule that fires connects. *)
ConnectionsOf(s, f, id) == Over(PutConnections(s, f, id), MatchConnections(f, id))

(* A wire has the value of a rule that connects it, or else its default.   *)
LEMMA RuleLogic ==
    ASSUME NetInv, NEW s, NEW f \in Followed(s), NEW W, NEW base, base = [w \in W |-> base[w]],
           \A id \in DOMAIN f : DOMAIN ConnectionsOf(s, f, id) \subseteq W
    PROVE  /\ emit_rule_logic(s, f, base) = [w \in W |-> emit_rule_logic(s, f, base)[w]]
           /\ \A w \in W :
                 IF \E id \in DOMAIN f : w \in DOMAIN ConnectionsOf(s, f, id)
                 THEN \E id \in DOMAIN f : /\ w \in DOMAIN ConnectionsOf(s, f, id)
                                           /\ emit_rule_logic(s, f, base)[w] = ConnectionsOf(s, f, id)[w]
                 ELSE emit_rule_logic(s, f, base)[w] = base[w]
<1> DEFINE order == RuleOrder
           n == Len(order)
           conn(id) == ConnectionsOf(s, f, id)
           next(w, id) == IF id \in DOMAIN f
                          THEN Over(PutConnections(s, f, id), Over(MatchConnections(f, id), w))
                          ELSE w
           iter[S \in SUBSET DOMAIN order] ==
               IF S = {} THEN base ELSE next(iter[S \ {Max(S)}], order[Max(S)])
           V == {base[w] : w \in W} \union UNION {{conn(id)[w] : w \in DOMAIN conn(id)} : id \in DOMAIN f}
           A == [W -> V]
           step == [x \in (1 .. n) \X A |-> IF order[x[1]] \in DOMAIN f THEN Over(conn(order[x[1]]), x[2]) ELSE x[2]]
           Turns(g) == g = [S \in SUBSET DOMAIN order |->
                               IF S = {} THEN base ELSE next(g[S \ {Max(S)}], order[Max(S)])]
<1>1. emit_rule_logic(s, f, base) = iter[DOMAIN order]
  BY DEF emit_rule_logic, FoldLeft, MapThenFoldSet
<1>2. \A id, w : next(w, id) = IF id \in DOMAIN f THEN Over(conn(id), w) ELSE w
  BY OverAssociates DEF ConnectionsOf
<1>3. n \in Nat /\ DOMAIN order = 1 .. n
  <2>1. PICK B : order \in Seq(B)
    BY EveryRuleEmitted
  <2> HIDE DEF order
  <2> QED
    BY <2>1
<1>4. base \in A
  BY DEF Over
<1>5. ASSUME NEW id \in DOMAIN f, NEW w \in A
      PROVE  /\ Over(conn(id), w) \in A
             /\ \A x \in W : Over(conn(id), w)[x] = IF x \in DOMAIN conn(id) THEN conn(id)[x] ELSE w[x]
  <2>1. \A x \in DOMAIN conn(id) : conn(id)[x] \in V
    OBVIOUS
  <2> HIDE DEF conn, V
  <2>2. DOMAIN conn(id) \subseteq W
    BY DEF conn
  <2>3. w \in [W -> V]
    OBVIOUS
  <2> HIDE DEF A
  <2> DEFINE a == conn(id)
  <2>4. DOMAIN a \subseteq W /\ \A x \in DOMAIN a : a[x] \in V
    BY <2>1, <2>2
  <2> HIDE DEF a
  <2>5. /\ Over(a, w) \in [W -> V]
        /\ \A x \in W : Over(a, w)[x] = IF x \in DOMAIN a THEN a[x] ELSE w[x]
    BY <2>3, <2>4, OverTyped
  <2> QED
    BY <2>5 DEF a, A
<1> HIDE DEF order, n, conn, next, V
<1>6. step \in [(1 .. n) \X A -> A]
  <2> HIDE DEF A
  <2> QED
    BY <1>5
<1> HIDE DEF A
<1>7. PICK h \in [SUBSET (1 .. n) -> A] : FoldOf(n, base, step, h)
  <2> HIDE DEF step
  <2> QED
    BY <1>3, <1>4, <1>6, Folding
<1>8. ASSUME NEW S \in SUBSET (1 .. n)
      PROVE  h[S] = IF S = {} THEN base ELSE next(h[S \ {Max(S)}], order[Max(S)])
  <2>1. CASE S = {}
    BY <1>7, <2>1 DEF FoldOf
  <2>2. CASE S # {}
    <3>1. Max(S) \in 1 .. n /\ h[S \ {Max(S)}] \in A
      BY <1>3, <2>2, MaxIsIn
    <3>2. h[S] = step[<<Max(S), h[S \ {Max(S)}]>>]
      BY <1>7, <2>2 DEF FoldOf
    <3>3. h[S] = IF order[Max(S)] \in DOMAIN f THEN Over(conn(order[Max(S)]), h[S \ {Max(S)}])
                 ELSE h[S \ {Max(S)}]
      BY <3>1, <3>2
    <3> HIDE DEF step
    <3> QED
      BY <1>2, <2>2, <3>3
  <2> QED
    BY <2>1, <2>2
<1>9. Turns(iter)
  <2>1. Turns(h)
    BY <1>3, <1>8
  <2> QED
    BY <2>1
<1> HIDE DEF iter, step
<1>10. ASSUME NEW S \in SUBSET (1 .. n), S # {}
       PROVE  iter[S] = next(iter[S \ {Max(S)}], order[Max(S)])
  BY <1>3, <1>9, <1>10
<1>11. iter[{}] = base /\ 1 .. 0 = {}
  BY <1>9
<1> HIDE DEF Turns
<1> DEFINE c(id) == DOMAIN conn(id)
           by(k, w) == \E i \in 1 .. k : order[i] \in DOMAIN f /\ w \in c(order[i])
           J(k) == /\ iter[1 .. k] \in A
                   /\ \A w \in W :
                         IF by(k, w)
                         THEN \E i \in 1 .. k : /\ order[i] \in DOMAIN f /\ w \in c(order[i])
                                                /\ iter[1 .. k][w] = conn(order[i])[w]
                         ELSE iter[1 .. k][w] = base[w]
           M == {k \in Nat : k <= n => J(k)}
<1>12. 0 \in M
  BY <1>4, <1>11
<1>13. ASSUME NEW k \in M, k + 1 <= n
       PROVE  J(k + 1)
  <2>0. k \in Nat /\ k + 1 \in 1 .. n /\ J(k) /\ 1 .. k \subseteq 1 .. k + 1
    BY <1>3, <1>13
  <2>1. 1 .. k + 1 \in SUBSET (1 .. n) /\ 1 .. k + 1 # {}
    BY <1>3, <2>0
  <2>2. Max(1 .. k + 1) = k + 1 /\ (1 .. k + 1) \ {k + 1} = 1 .. k
    BY <2>0, MaxOfPrefix
  <2>3. iter[1 .. k + 1] = next(iter[1 .. k], order[k + 1])
    BY <1>10, <2>1, <2>2
  <2>4. \A i \in 1 .. k + 1 : i = k + 1 \/ i \in 1 .. k
    BY <2>0
  <2>5. k + 1 \in 1 .. k + 1
    BY <2>0
  <2> DEFINE id == order[k + 1]
             v == iter[1 .. k]
  <2>6. CASE id \in DOMAIN f
    <3>1. iter[1 .. k + 1] = Over(conn(id), v) /\ v \in A
      BY <1>2, <2>0, <2>3, <2>6
    <3>2. /\ Over(conn(id), v) \in A
          /\ \A x \in W : Over(conn(id), v)[x] = IF x \in c(id) THEN conn(id)[x] ELSE v[x]
      BY <1>5, <2>6, <3>1
    <3> HIDE DEF v
    <3>3. ASSUME NEW w \in W
          PROVE  IF by(k + 1, w)
                 THEN \E i \in 1 .. k + 1 : /\ order[i] \in DOMAIN f /\ w \in c(order[i])
                                            /\ iter[1 .. k + 1][w] = conn(order[i])[w]
                 ELSE iter[1 .. k + 1][w] = base[w]
      <4>1. CASE w \in c(id)
        <5>1. iter[1 .. k + 1][w] = conn(id)[w]
          BY <3>1, <3>2, <4>1
        <5> QED
          BY <2>5, <2>6, <4>1, <5>1
      <4>2. CASE w \notin c(id)
        <5>1. iter[1 .. k + 1][w] = v[w]
          BY <3>1, <3>2, <4>2
        <5>2. by(k + 1, w) <=> by(k, w)
          BY <2>0, <2>4, <4>2
        <5> HIDE DEF c, by
        <5> QED
          BY <2>0, <5>1, <5>2 DEF v
      <4> QED
        BY <4>1, <4>2
    <3> QED
      BY <3>1, <3>2, <3>3
  <2>7. CASE id \notin DOMAIN f
    <3>1. iter[1 .. k + 1] = v
      BY <1>2, <2>3, <2>7
    <3>2. \A w \in W : by(k + 1, w) <=> by(k, w)
      BY <2>0, <2>4, <2>7
    <3> HIDE DEF by, c, v
    <3> QED
      BY <2>0, <3>1, <3>2 DEF v
  <2> QED
    BY <2>6, <2>7
<1> HIDE DEF J
<1>14. \A k \in M : k + 1 \in M
  BY <1>13
<1> HIDE DEF M
<1>15. M = Nat
  BY <1>12, <1>14, CountingUp DEF M
<1>16. J(n)
  BY <1>3, <1>15 DEF M
<1>17. \A id \in DOMAIN f : \E i \in 1 .. n : order[i] = id
  <2> SUFFICES ASSUME NEW id \in DOMAIN f PROVE \E i \in DOMAIN order : order[i] = id
    BY <1>3
  <2>1. PICK p \in Procs(net) : \E i \in Fires(s, p) : id = <<p, i>>
    BY FiringRule
  <2>2. PICK i \in Fires(s, p) : id = <<p, i>>
    BY <2>1
  <2>3. PICK k \in DOMAIN groups[p] : i \in groups[p][k]
    BY DEF Fires, WillFire
  <2> QED
    BY <2>2, <2>3, EveryRuleEmitted DEF order
<1> DEFINE r == iter[1 .. n]
<1>18. emit_rule_logic(s, f, base) = r /\ r \in A
  BY <1>1, <1>3, <1>16 DEF J
<1>19. ASSUME NEW w \in W
       PROVE  IF \E id \in DOMAIN f : w \in c(id)
              THEN \E id \in DOMAIN f : w \in c(id) /\ r[w] = conn(id)[w]
              ELSE r[w] = base[w]
  <2>1. by(n, w) <=> \E id \in DOMAIN f : w \in c(id)
    BY <1>17
  <2> HIDE DEF c
  <2> QED
    BY <1>16, <2>1 DEF J
<1> HIDE DEF r
<1>20. r = [w \in W |-> r[w]]
  BY <1>18 DEF A
<1> QED
  BY <1>18, <1>19, <1>20 DEF conn
-----------------------------------------------------------------------------
(* The wires of a cycle.                                                   *)

(* No queue is both taken from and tried to take from: of one that is, the *)
(* Chisel back end forgets the Some arms.                                  *)
OneKindOfTake(n) ==
    (UNION {Takes(r) : r \in AllRules(n)}) \intersect (UNION {TryTakes(r) : r \in AllRules(n)}) = {}

(* Where the wires are. *)
AllWires ==
    Wires("c", Cells(net)) \union Wires("enq_valid", Queues(net))
        \union Wires("deq_ready", try_take_only_edges) \union Wires("enq_bits", Queues(net))

LEMMA WireIn == \A k, j, X, x : <<k, x>> \in Wires(j, X) <=> k = j /\ x \in X
BY DEF Wires

LEMMA ConnectionDomains ==
    ASSUME NetInv, OneKindOfTake(net), NEW s, NEW f \in Followed(s)
    PROVE  /\ emit_defaults(s) = [w \in AllWires |-> emit_defaults(s)[w]]
           /\ \A id \in DOMAIN f :
                 /\ DOMAIN PutConnections(s, f, id)
                      = Wires("c", Writes(id, f[id]) \intersect Cells(net))
                          \union Wires("enq_bits", Writes(id, f[id]) \intersect Queues(net))
                          \union Wires("enq_valid", Writes(id, f[id]) \intersect Queues(net))
                 /\ DOMAIN MatchConnections(f, id) = Wires("deq_ready", f[id].some)
                 /\ f[id].some \subseteq try_take_only_edges
                 /\ DOMAIN ConnectionsOf(s, f, id) \subseteq AllWires
<1>1. emit_defaults(s) = [w \in AllWires |-> emit_defaults(s)[w]]
  BY DEF emit_defaults, Over, Driving, AllWires
<1>2. ASSUME NEW id \in DOMAIN f
      PROVE  /\ DOMAIN PutConnections(s, f, id)
                  = Wires("c", Writes(id, f[id]) \intersect Cells(net))
                      \union Wires("enq_bits", Writes(id, f[id]) \intersect Queues(net))
                      \union Wires("enq_valid", Writes(id, f[id]) \intersect Queues(net))
             /\ DOMAIN MatchConnections(f, id) = Wires("deq_ready", f[id].some)
             /\ f[id].some \subseteq try_take_only_edges
  <2>1. DOMAIN PutConnections(s, f, id)
                  = Wires("c", Writes(id, f[id]) \intersect Cells(net))
                      \union Wires("enq_bits", Writes(id, f[id]) \intersect Queues(net))
                      \union Wires("enq_valid", Writes(id, f[id]) \intersect Queues(net))
    BY DEF PutConnections, Over, Driving
  <2>2. DOMAIN MatchConnections(f, id) = Wires("deq_ready", f[id].some)
    BY DEF MatchConnections, Driving
  <2>3. f[id].some \subseteq try_take_only_edges
    <3>1. RuleAt(id) \in AllRules(net) /\ f[id] \in RuleAt(id).paths \union {NoAccess}
      BY FiredPaths DEF FiredPath
    <3>2. f[id].some \subseteq TryTakes(RuleAt(id))
      BY <3>1 DEF NoAccess, TryTakes, Bodies
    <3> DEFINE tried == UNION {TryTakes(r) : r \in AllRules(net)}
               taken == UNION {Takes(r) : r \in AllRules(net)}
    <3>3. TryTakes(RuleAt(id)) \subseteq tried
      BY <3>1
    <3>4. try_take_only_edges = tried \ taken /\ taken \intersect tried = {}
      BY DEF OneKindOfTake, try_take_only_edges
    <3> HIDE DEF tried, taken
    <3> QED
      BY <3>2, <3>3, <3>4
  <2> QED
    BY <2>1, <2>2, <2>3
<1>3. ASSUME NEW id \in DOMAIN f
      PROVE  DOMAIN ConnectionsOf(s, f, id) \subseteq AllWires
  <2>1. DOMAIN ConnectionsOf(s, f, id) = DOMAIN PutConnections(s, f, id) \union DOMAIN MatchConnections(f, id)
    BY DEF ConnectionsOf, Over
  <2>2. \A X, Y, k : X \subseteq Y => Wires(k, X) \subseteq Wires(k, Y)
    BY DEF Wires
  <2> DEFINE put == Writes(id, f[id])
  <2>3. /\ Wires("c", put \intersect Cells(net)) \subseteq Wires("c", Cells(net))
        /\ Wires("enq_bits", put \intersect Queues(net)) \subseteq Wires("enq_bits", Queues(net))
        /\ Wires("enq_valid", put \intersect Queues(net)) \subseteq Wires("enq_valid", Queues(net))
        /\ Wires("deq_ready", f[id].some) \subseteq Wires("deq_ready", try_take_only_edges)
    BY <1>2, <2>2
  <2> QED
    BY <1>2, <2>1, <2>3 DEF AllWires
<1> QED
  BY <1>1, <1>2, <1>3

(* What a rule that fires drives. *)
LEMMA ConnectionValues ==
    ASSUME NEW s, NEW f, NEW id \in DOMAIN f
    PROVE  /\ \A e \in Writes(id, f[id]) \intersect Cells(net) :
                 ConnectionsOf(s, f, id)[<<"c", e>>] = Output(s, id, f[id], e)
           /\ \A e \in Writes(id, f[id]) \intersect Queues(net) :
                 /\ ConnectionsOf(s, f, id)[<<"enq_bits", e>>] = Output(s, id, f[id], e)
                 /\ ConnectionsOf(s, f, id)[<<"enq_valid", e>>] = TRUE
           /\ \A e \in f[id].some : ConnectionsOf(s, f, id)[<<"deq_ready", e>>] = TRUE
<1> DEFINE puts == Writes(id, f[id])
           written == Wires("c", puts \intersect Cells(net)) \union Wires("enq_bits", puts \intersect Queues(net))
           data == [w \in written |-> Output(s, id, f[id], w[2])]
           valid == Driving(Wires("enq_valid", puts \intersect Queues(net)), TRUE)
           some == MatchConnections(f, id)
           put == Over(data, valid)
<1>1. ConnectionsOf(s, f, id) = Over(put, some)
  BY DEF ConnectionsOf, PutConnections
<1>2. /\ DOMAIN data = written /\ \A w \in written : data[w] = Output(s, id, f[id], w[2])
      /\ \A k, X, x : <<k, x>> \in Wires(k, X) <=> x \in X
      /\ \A k, j, X, x : k # j => <<k, x>> \notin Wires(j, X)
  BY DEF Wires
<1>3. /\ DOMAIN valid = Wires("enq_valid", puts \intersect Queues(net))
      /\ \A w \in DOMAIN valid : valid[w] = TRUE
      /\ DOMAIN some = Wires("deq_ready", f[id].some)
      /\ \A w \in DOMAIN some : some[w] = TRUE
  BY DEF Driving, MatchConnections
<1> HIDE DEF data, valid, some, puts
<1>4. /\ DOMAIN put = DOMAIN data \union DOMAIN valid
      /\ \A w \in DOMAIN put : put[w] = IF w \in DOMAIN data THEN data[w] ELSE valid[w]
  BY DEF Over
<1> HIDE DEF put
<1>5. \A w \in DOMAIN put \union DOMAIN some :
         Over(put, some)[w] = IF w \in DOMAIN put THEN put[w] ELSE some[w]
  BY DEF Over
<1>6. ASSUME NEW e \in puts \intersect Cells(net)
      PROVE  Over(put, some)[<<"c", e>>] = Output(s, id, f[id], e)
  BY <1>2, <1>4, <1>5
<1>7. ASSUME NEW e \in puts \intersect Queues(net)
      PROVE  /\ Over(put, some)[<<"enq_bits", e>>] = Output(s, id, f[id], e)
             /\ Over(put, some)[<<"enq_valid", e>>] = TRUE
  BY <1>2, <1>3, <1>4, <1>5
<1>8. ASSUME NEW e \in f[id].some
      PROVE  Over(put, some)[<<"deq_ready", e>>] = TRUE
  BY <1>2, <1>3, <1>4, <1>5
<1> QED
  BY <1>1, <1>6, <1>7, <1>8 DEF puts
LEMMA DrivenByItsWriter ==
    ASSUME NetInv, NEW s, NEW f \in Followed(s), NEW id \in DOMAIN f, NEW e \in Writes(id, f[id])
    PROVE  Written(f, e) /\ Driven(s, f, e) = Output(s, id, f[id], e)
<1>1. Written(f, e)
  BY DEF Written
<1>2. PICK w \in DOMAIN f : e \in Writes(w, f[w]) /\ Driven(s, f, e) = Output(s, w, f[w], e)
  BY <1>1, DrivenByWriter
<1>3. w = id
  BY <1>2, FiringApart
<1> QED
  BY <1>1, <1>2, <1>3
(* The wires of a cycle are those of the SystemVerilog. *)
LEMMA WireValues ==
    ASSUME NetInv, OneKindOfTake(net), NEW s, NEW f \in Followed(s),
           NEW wires, wires = ChiselWires(s, f)
    PROVE  /\ \A c \in Cells(net) : wires[<<"c", c>>] = CellAfter(s, f, c)
           /\ \A q \in Queues(net) :
                 /\ wires[<<"deq_ready", q>>] <=> deq_ready(f, q)
                 /\ wires[<<"enq_valid", q>>] <=> Written(f, q)
                 /\ Written(f, q) => wires[<<"enq_bits", q>>] = Driven(s, f, q)
<1> DEFINE base == emit_defaults(s)
           logic == emit_rule_logic(s, f, base)
           conn(id) == ConnectionsOf(s, f, id)
           ready == [w \in Wires("deq_ready", Queues(net) \ try_take_only_edges) |->
                        \E id \in DOMAIN f : w[2] \in Takes(RuleAt(id))]
<1>1. /\ base = [w \in AllWires |-> base[w]]
      /\ \A id \in DOMAIN f : DOMAIN conn(id) \subseteq AllWires /\ f[id].some \subseteq try_take_only_edges
  BY ConnectionDomains
<1>2. /\ \A c \in Cells(net) : <<"c", c>> \in AllWires
      /\ \A q \in Queues(net) : <<"enq_valid", q>> \in AllWires /\ <<"enq_bits", q>> \in AllWires
      /\ \A q \in try_take_only_edges : <<"deq_ready", q>> \in AllWires
  BY WireIn DEF AllWires
<1>3. ASSUME NEW id \in DOMAIN f, NEW e
      PROVE  /\ <<"c", e>> \in DOMAIN conn(id) <=> e \in Writes(id, f[id]) \intersect Cells(net)
             /\ <<"enq_bits", e>> \in DOMAIN conn(id) <=> e \in Writes(id, f[id]) \intersect Queues(net)
             /\ <<"enq_valid", e>> \in DOMAIN conn(id) <=> e \in Writes(id, f[id]) \intersect Queues(net)
             /\ <<"deq_ready", e>> \in DOMAIN conn(id) <=> e \in f[id].some
  <2> DEFINE cells == Writes(id, f[id]) \intersect Cells(net)
             queues == Writes(id, f[id]) \intersect Queues(net)
             some == f[id].some
  <2>1. DOMAIN conn(id) = DOMAIN PutConnections(s, f, id) \union DOMAIN MatchConnections(f, id)
    BY DEF ConnectionsOf, Over
  <2>2. DOMAIN conn(id) = Wires("c", cells) \union Wires("enq_bits", queues)
                            \union Wires("enq_valid", queues) \union Wires("deq_ready", some)
    <3>1. /\ DOMAIN PutConnections(s, f, id) = Wires("c", cells) \union Wires("enq_bits", queues)
                                                  \union Wires("enq_valid", queues)
          /\ DOMAIN MatchConnections(f, id) = Wires("deq_ready", some)
      BY DEF PutConnections, MatchConnections, Over, Driving
    <3> HIDE DEF conn, cells, queues, some
    <3> QED
      BY <2>1, <3>1
  <2> HIDE DEF conn, cells, queues, some
  <2>3. \A w : w \in DOMAIN conn(id) <=> \/ w \in Wires("c", cells) \/ w \in Wires("enq_bits", queues)
                                        \/ w \in Wires("enq_valid", queues) \/ w \in Wires("deq_ready", some)
    BY <2>2
  <2> QED
    BY <2>3, WireIn DEF cells, queues, some
<1>30. \A id \in DOMAIN f :
           /\ \A e \in Writes(id, f[id]) \intersect Cells(net) :
                 conn(id)[<<"c", e>>] = Output(s, id, f[id], e)
           /\ \A e \in Writes(id, f[id]) \intersect Queues(net) :
                 /\ conn(id)[<<"enq_bits", e>>] = Output(s, id, f[id], e)
                 /\ conn(id)[<<"enq_valid", e>>] = TRUE
           /\ \A e \in f[id].some : conn(id)[<<"deq_ready", e>>] = TRUE
  BY ConnectionValues
<1>4. /\ \A c \in Cells(net) : base[<<"c", c>>] = s.cell[c]
      /\ \A q \in Queues(net) : base[<<"enq_valid", q>>] = FALSE
      /\ \A q \in try_take_only_edges : base[<<"deq_ready", q>>] = FALSE
  BY DEF emit_defaults, Over, Driving, Wires
<1> HIDE DEF base, conn
<1>5. /\ logic = [w \in AllWires |-> logic[w]]
      /\ \A w \in AllWires :
            IF \E id \in DOMAIN f : w \in DOMAIN conn(id)
            THEN \E id \in DOMAIN f : w \in DOMAIN conn(id) /\ logic[w] = conn(id)[w]
            ELSE logic[w] = base[w]
  BY <1>1, RuleLogic DEF conn
<1>6. wires = Over(ready, logic)
  BY DEF ChiselWires, emit_deq_ready_wiring, base
<1>7. /\ DOMAIN ready = Wires("deq_ready", Queues(net) \ try_take_only_edges)
      /\ \A w \in DOMAIN ready : ready[w] <=> \E id \in DOMAIN f : w[2] \in Takes(RuleAt(id))
  OBVIOUS
<1>8. DOMAIN logic = AllWires
  BY <1>5
<1> HIDE DEF ready, logic
<1>9. \A w \in DOMAIN ready \union AllWires : wires[w] = IF w \in DOMAIN ready THEN ready[w] ELSE logic[w]
  BY <1>6, <1>8 DEF Over
<1>10. /\ \A x : <<"c", x>> \notin DOMAIN ready /\ <<"enq_valid", x>> \notin DOMAIN ready
                  /\ <<"enq_bits", x>> \notin DOMAIN ready
       /\ \A x : <<"deq_ready", x>> \in DOMAIN ready <=> x \in Queues(net) \ try_take_only_edges
  BY <1>7 DEF Wires
<1>11. \A w \in AllWires : w \notin DOMAIN ready => wires[w] = logic[w]
  BY <1>9
<1>12. ASSUME NEW c \in Cells(net)
       PROVE  wires[<<"c", c>>] = CellAfter(s, f, c)
  <2>0. wires[<<"c", c>>] = logic[<<"c", c>>]
    BY <1>2, <1>10, <1>11
  <2>1. CASE Written(f, c)
    <3>1. \E id \in DOMAIN f : <<"c", c>> \in DOMAIN conn(id)
      BY <1>3, <2>1 DEF Written
    <3>2. PICK id \in DOMAIN f : <<"c", c>> \in DOMAIN conn(id) /\ logic[<<"c", c>>] = conn(id)[<<"c", c>>]
      BY <1>2, <1>5, <3>1
    <3>3. c \in Writes(id, f[id])
      BY <1>3, <3>2
    <3>4. conn(id)[<<"c", c>>] = Output(s, id, f[id], c)
      BY <3>3, <1>30
    <3> QED
      BY <2>0, <2>1, <3>2, <3>3, <3>4, DrivenByItsWriter DEF CellAfter
  <2>2. CASE ~Written(f, c)
    <3>1. ~ \E id \in DOMAIN f : <<"c", c>> \in DOMAIN conn(id)
      BY <1>3, <2>2 DEF Written
    <3>2. logic[<<"c", c>>] = base[<<"c", c>>]
      BY <1>2, <1>5, <3>1
    <3> QED
      BY <1>4, <2>0, <2>2, <3>2 DEF CellAfter
  <2> QED
    BY <2>1, <2>2
<1>13. ASSUME NEW q \in Queues(net)
       PROVE  /\ wires[<<"enq_valid", q>>] <=> Written(f, q)
              /\ Written(f, q) => wires[<<"enq_bits", q>>] = Driven(s, f, q)
  <2>0. /\ wires[<<"enq_valid", q>>] = logic[<<"enq_valid", q>>]
        /\ wires[<<"enq_bits", q>>] = logic[<<"enq_bits", q>>]
    BY <1>2, <1>10, <1>11
  <2>1. CASE Written(f, q)
    <3>1. /\ \E id \in DOMAIN f : <<"enq_valid", q>> \in DOMAIN conn(id)
          /\ \E id \in DOMAIN f : <<"enq_bits", q>> \in DOMAIN conn(id)
      BY <1>3, <2>1 DEF Written
    <3>2. PICK g \in DOMAIN f : /\ <<"enq_valid", q>> \in DOMAIN conn(g)
                                /\ logic[<<"enq_valid", q>>] = conn(g)[<<"enq_valid", q>>]
      BY <1>2, <1>5, <3>1
    <3>3. PICK id \in DOMAIN f : /\ <<"enq_bits", q>> \in DOMAIN conn(id)
                                 /\ logic[<<"enq_bits", q>>] = conn(id)[<<"enq_bits", q>>]
      BY <1>2, <1>5, <3>1
    <3>4. q \in Writes(id, f[id]) /\ q \in Writes(g, f[g])
      BY <1>3, <3>2, <3>3
    <3>5. conn(id)[<<"enq_bits", q>>] = Output(s, id, f[id], q) /\ conn(g)[<<"enq_valid", q>>] = TRUE
      BY <3>4, <1>30
    <3> QED
      BY <2>0, <2>1, <3>2, <3>3, <3>4, <3>5, DrivenByItsWriter
  <2>2. CASE ~Written(f, q)
    <3>1. ~ \E id \in DOMAIN f : <<"enq_valid", q>> \in DOMAIN conn(id)
      BY <1>3, <2>2 DEF Written
    <3>2. logic[<<"enq_valid", q>>] = base[<<"enq_valid", q>>]
      BY <1>2, <1>5, <3>1
    <3> QED
      BY <1>4, <2>0, <2>2, <3>2
  <2> QED
    BY <2>1, <2>2
<1>14. ASSUME NEW q \in Queues(net)
       PROVE  wires[<<"deq_ready", q>>] <=> deq_ready(f, q)
  <2> DEFINE taken == \E id \in DOMAIN f : q \in Takes(RuleAt(id))
             matched == \E id \in DOMAIN f : q \in f[id].some
  <2>0. deq_ready(f, q) <=> taken \/ matched
    BY DEF deq_ready
  <2>00. q \in try_take_only_edges => ~taken
    <3>1. \A id \in DOMAIN f : RuleAt(id) \in AllRules(net)
      BY FiredPaths DEF FiredPath
    <3>2. q \in try_take_only_edges => \A r \in AllRules(net) : q \notin Takes(r)
      BY DEF try_take_only_edges
    <3> QED
      BY <3>1, <3>2
  <2>1. CASE q \in try_take_only_edges
    <3>1. wires[<<"deq_ready", q>>] = logic[<<"deq_ready", q>>]
      BY <1>2, <1>10, <1>11, <2>1
    <3>2. CASE \E id \in DOMAIN f : q \in f[id].some
      <4>1. \E id \in DOMAIN f : <<"deq_ready", q>> \in DOMAIN conn(id)
        BY <1>3, <3>2
      <4>2. PICK id \in DOMAIN f : /\ <<"deq_ready", q>> \in DOMAIN conn(id)
                                   /\ logic[<<"deq_ready", q>>] = conn(id)[<<"deq_ready", q>>]
        BY <1>2, <1>5, <2>1, <4>1
      <4>3. conn(id)[<<"deq_ready", q>>] = TRUE
        BY <1>3, <4>2, <1>30
      <4> QED
        BY <2>0, <3>1, <3>2, <4>2, <4>3
    <3>3. CASE ~ \E id \in DOMAIN f : q \in f[id].some
      <4>1. ~ \E id \in DOMAIN f : <<"deq_ready", q>> \in DOMAIN conn(id)
        BY <1>3, <3>3
      <4>2. logic[<<"deq_ready", q>>] = base[<<"deq_ready", q>>]
        BY <1>2, <1>5, <2>1, <4>1
      <4> QED
        BY <1>4, <2>0, <2>00, <2>1, <3>1, <3>3, <4>2
    <3> QED
      BY <3>2, <3>3
  <2>2. CASE q \notin try_take_only_edges
    <3>1. <<"deq_ready", q>> \in DOMAIN ready
      BY <1>10, <2>2
    <3>2. wires[<<"deq_ready", q>>] = ready[<<"deq_ready", q>>]
      BY <1>9, <3>1
    <3>3. ready[<<"deq_ready", q>>] <=> \E id \in DOMAIN f : q \in Takes(RuleAt(id))
      BY <1>7, <3>1
    <3>4. ~ \E id \in DOMAIN f : q \in f[id].some
      BY <1>1, <2>2
    <3> QED
      BY <2>0, <3>2, <3>3, <3>4
  <2> QED
    BY <2>1, <2>2
<1> QED
  BY <1>12, <1>13, <1>14

LEMMA SameAfter ==
    ASSUME NetInv, OneKindOfTake(net), NEW s, NEW f \in Followed(s)
    PROVE  ChiselAfter(s, f) = After(s, f)
<1> DEFINE wires == ChiselWires(s, f)
<1>1. ChiselAfter(s, f) = [queue |-> [q \in Queues(net) |-> ChiselQueueAfter(s, wires, q)],
                           cell  |-> [c \in Cells(net) |-> wires[<<"c", c>>]]]
  BY DEF ChiselAfter
<1>2. /\ \A c \in Cells(net) : wires[<<"c", c>>] = CellAfter(s, f, c)
      /\ \A q \in Queues(net) :
            /\ wires[<<"deq_ready", q>>] <=> deq_ready(f, q)
            /\ wires[<<"enq_valid", q>>] <=> Written(f, q)
            /\ Written(f, q) => wires[<<"enq_bits", q>>] = Driven(s, f, q)
  BY WireValues
<1> HIDE DEF wires
<1>3. ASSUME NEW q \in Queues(net)
      PROVE  ChiselQueueAfter(s, wires, q) = QueueAfter(s, f, q)
  <2> DEFINE left == IF deq_ready(f, q) /\ deq_valid(s, q) THEN Tail(s.queue[q]) ELSE s.queue[q]
  <2>1. ChiselQueueAfter(s, wires, q)
          = IF wires[<<"enq_valid", q>>] /\ enq_ready(s, q) THEN Append(left, wires[<<"enq_bits", q>>])
            ELSE left
    BY <1>2 DEF ChiselQueueAfter
  <2>2. QueueAfter(s, f, q)
          = IF Written(f, q) /\ enq_ready(s, q) THEN Append(left, Driven(s, f, q)) ELSE left
    BY DEF QueueAfter
  <2> HIDE DEF left
  <2>3. CASE Written(f, q)
    <3>1. wires[<<"enq_valid", q>>] /\ wires[<<"enq_bits", q>>] = Driven(s, f, q)
      BY <1>2, <2>3
    <3>2. ChiselQueueAfter(s, wires, q) = IF enq_ready(s, q) THEN Append(left, Driven(s, f, q)) ELSE left
      BY <2>1, <3>1
    <3> QED
      BY <2>2, <2>3, <3>2
  <2>4. CASE ~Written(f, q)
    BY <1>2, <2>1, <2>2, <2>4
  <2> QED
    BY <2>3, <2>4
<1> QED
  BY <1>1, <1>2, <1>3 DEF After

(* Whatever the network, if no queue of it is both taken from and tried to *)
(* take from, the hardware of the Chisel back end (lower_chisel.rs) fires  *)
(* the rules of the hardware of the SystemVerilog back end (lower.rs) and  *)
(* leaves the same in every queue and Cell.                                *)
THEOREM NetworkBackEndsAgree ==
    ASSUME \A n \in Networks : OneKindOfTake(n)
    PROVE  Spec => []BackEndsAgree
<1>1. NetInv => BackEndsAgree
  <2> SUFFICES ASSUME NetInv PROVE BackEndsAgree
    OBVIOUS
  <2>1. OneKindOfTake(net)
    BY DEF NetInv
  <2> QED
    BY <2>1, SameFiring, SameAfter DEF BackEndsAgree
<1> QED
  BY <1>1, NetworkInvariant, PTL

-----------------------------------------------------------------------------
(* Folds over finite sets.                                                 *)

Pick(T) == CHOOSE x \in T : TRUE

(* Induction over the subsets of a finite set, for a set of them. *)
LEMMA AddingOneByOne ==
    ASSUME NEW S, IsFiniteSet(S), NEW U \in SUBSET SUBSET S, {} \in U,
           \A T \in SUBSET S : T # {} /\ T \ {Pick(T)} \in U => T \in U
    PROVE  U = SUBSET S
<1> DEFINE M == {m \in Nat : \A T \in SUBSET S : Cardinality(T) = m => T \in U}
<1>1. \A T \in SUBSET S : IsFiniteSet(T) /\ Cardinality(T) \in Nat /\ (Cardinality(T) = 0 <=> T = {})
  BY FS_Subset, FS_CardinalityType, FS_EmptySet
<1>2. \A T \in SUBSET S : T # {} => /\ Pick(T) \in T
                                    /\ T \ {Pick(T)} \in SUBSET S
                                    /\ Cardinality(T \ {Pick(T)}) = Cardinality(T) - 1
  BY <1>1, FS_RemoveElement DEF Pick
<1>3. 0 \in M
  BY <1>1
<1>4. ASSUME NEW m \in M PROVE m + 1 \in M
  <2> SUFFICES ASSUME NEW T \in SUBSET S, Cardinality(T) = m + 1 PROVE T \in U
    OBVIOUS
  <2>1. T # {} /\ Cardinality(T \ {Pick(T)}) = m
    BY <1>1, <1>2
  <2> QED
    BY <1>2, <2>1
<1>5. M = Nat
  <2> HIDE DEF M
  <2> QED
    BY <1>3, <1>4, CountingUp DEF M
<1> QED
  BY <1>1, <1>5

FoldsOver(S, base, step, h) ==
    \A T \in SUBSET S : h[T] = IF T = {} THEN base ELSE step[<<Pick(T), h[T \ {Pick(T)}]>>]

(* A fold over a finite set is a function of the subset folded. *)
LEMMA FoldingSet ==
    ASSUME NEW S, IsFiniteSet(S), NEW A, NEW base \in A, NEW step \in [S \X A -> A]
    PROVE  \E h \in [SUBSET S -> A] : FoldsOver(S, base, step, h)
<1> DEFINE Value(g, T) == IF T = {} THEN base ELSE step[<<Pick(T), g[T \ {Pick(T)}]>>]
           Small(m) == {T \in SUBSET S : Cardinality(T) <= m}
           Good(m, g) == g \in [Small(m) -> A] /\ \A T \in Small(m) : g[T] = Value(g, T)
           M == {m \in Nat : \E g : Good(m, g)}
<1>0. \A T \in SUBSET S : T # {} => /\ Pick(T) \in S
                                    /\ T \ {Pick(T)} \in SUBSET S
                                    /\ Cardinality(T \ {Pick(T)}) = Cardinality(T) - 1
  BY FS_Subset, FS_RemoveElement DEF Pick
<1>1. \A T \in SUBSET S : /\ Cardinality(T) \in Nat /\ Cardinality(T) <= Cardinality(S)
                          /\ (Cardinality(T) = 0 <=> T = {})
  BY FS_Subset, FS_CardinalityType, FS_EmptySet
<1>2. 0 \in M
  <2> DEFINE g == [T \in Small(0) |-> base]
  <2>1. \A T \in Small(0) : T = {}
    BY <1>1
  <2>2. Good(0, g)
    <3> HIDE DEF Small
    <3> QED
      BY <2>1
  <2> QED
    BY <2>2
<1>3. ASSUME NEW m \in M PROVE m + 1 \in M
  <2>1. PICK g : Good(m, g)
    OBVIOUS
  <2> DEFINE h == [T \in Small(m + 1) |-> Value(g, T)]
  <2>2. \A T \in Small(m + 1) : T # {} => Pick(T) \in S /\ T \ {Pick(T)} \in Small(m)
    BY <1>0, <1>1
  <2>3. \A T \in Small(m + 1) : Value(g, T) \in A
    <3> HIDE DEF Small
    <3> TAKE T \in Small(m + 1)
    <3>1. CASE T = {}
      BY <3>1
    <3>2. CASE T # {}
      <4>1. g[T \ {Pick(T)}] \in A /\ Pick(T) \in S
        BY <2>1, <2>2, <3>2
      <4> QED
        BY <3>2, <4>1
    <3> QED
      BY <3>1, <3>2
  <2>4. \A T \in Small(m) : T \in Small(m + 1)
    BY <1>1
  <2> HIDE DEF Small
  <2>5. \A T \in Small(m) : h[T] = g[T]
    <3> TAKE T \in Small(m)
    <3>1. h[T] = Value(g, T)
      BY <2>4
    <3>2. g[T] = Value(g, T)
      BY <2>1
    <3> QED
      BY <3>1, <3>2
  <2>6. \A T \in Small(m + 1) : h[T] = Value(h, T)
    <3> TAKE T \in Small(m + 1)
    <3>1. h[T] = Value(g, T)
      OBVIOUS
    <3>2. T # {} => h[T \ {Pick(T)}] = g[T \ {Pick(T)}]
      BY <2>2, <2>5
    <3> HIDE DEF h
    <3> QED
      BY <3>1, <3>2
  <2>7. h \in [Small(m + 1) -> A]
    <3> HIDE DEF Value
    <3> QED
      BY <2>3
  <2>8. Good(m + 1, h)
    <3> HIDE DEF h, Value
    <3> QED
      BY <2>6, <2>7
  <2> HIDE DEF Good, h
  <2> QED
    BY <2>8
<1> HIDE DEF Good, M
<1>4. M = Nat
  BY <1>2, <1>3, CountingUp DEF M
<1>5. Cardinality(S) \in Nat /\ Small(Cardinality(S)) = SUBSET S
  BY <1>1, FS_CardinalityType
<1>6. PICK g : Good(Cardinality(S), g)
  BY <1>4, <1>5 DEF M
<1> HIDE DEF Small
<1> QED
  BY <1>5, <1>6 DEF Good, FoldsOver

-----------------------------------------------------------------------------
(* The graph of a network.                                                 *)

Nodes(n) == Procs(n) \union {Ends(n, e)[k] : e \in Edges(n), k \in {1, 2}}

DirectlyReached(n) == {<<m, m>> : m \in Nodes(n)} \union {Ends(n, e) : e \in Edges(n)}

Through(n, m, reaches) ==
    reaches \union {pair \in Nodes(n) \X Nodes(n) :
                        <<pair[1], m>> \in reaches /\ <<m, pair[2]>> \in reaches}

(* The turns of the fold in Reaches, for every set of nodes passed through.*)
LEMMA ReachesInTurns ==
    ASSUME NEW n, IsFiniteSet(Nodes(n))
    PROVE  \E h : /\ Reaches(n) = h[Nodes(n)] /\ h[{}] = DirectlyReached(n)
                  /\ \A T \in SUBSET Nodes(n) :
                        /\ h[T] \in SUBSET (Nodes(n) \X Nodes(n))
                        /\ T # {} => h[T] = Through(n, Pick(T), h[T \ {Pick(T)}])
<1> DEFINE nodes == Nodes(n)
           A == SUBSET (nodes \X nodes)
           iter[T \in SUBSET nodes] ==
               IF T = {} THEN DirectlyReached(n)
               ELSE Through(n, Pick(T), iter[T \ {Pick(T)}])
           Turns(g) == g = [T \in SUBSET nodes |->
                               IF T = {} THEN DirectlyReached(n)
                               ELSE Through(n, Pick(T), g[T \ {Pick(T)}])]
           step == [x \in nodes \X A |-> Through(n, x[1], x[2])]
<1>1. Reaches(n) = iter[nodes]
  BY DEF Reaches, FoldSet, MapThenFoldSet, Nodes, DirectlyReached, Through, Pick
<1>2. DirectlyReached(n) \in A
  BY DEF DirectlyReached, Nodes, Ends
<1>3. step \in [nodes \X A -> A]
  BY DEF Through
<1>4. PICK h \in [SUBSET nodes -> A] : FoldsOver(nodes, DirectlyReached(n), step, h)
  <2> HIDE DEF step, nodes, A
  <2> QED
    BY <1>2, <1>3, FoldingSet DEF nodes
<1> HIDE DEF nodes, A
<1>5. ASSUME NEW T \in SUBSET nodes
      PROVE  h[T] = IF T = {} THEN DirectlyReached(n) ELSE Through(n, Pick(T), h[T \ {Pick(T)}])
  <2>1. CASE T = {}
    BY <1>4, <2>1 DEF FoldsOver
  <2>2. CASE T # {}
    <3>1. Pick(T) \in nodes /\ h[T \ {Pick(T)}] \in A
      BY <2>2 DEF Pick
    <3>2. h[T] = step[<<Pick(T), h[T \ {Pick(T)}]>>]
      BY <1>4, <2>2 DEF FoldsOver
    <3> QED
      BY <2>2, <3>1, <3>2
  <2> QED
    BY <2>1, <2>2
<1>6. Turns(iter)
  <2>1. Turns(h)
    BY <1>5
  <2> QED
    BY <2>1
<1> HIDE DEF iter
<1>7. h = iter
  <2>0. \A T \in SUBSET nodes : T # {} => T \ {Pick(T)} \in SUBSET nodes
    OBVIOUS
  <2> DEFINE U == {T \in SUBSET nodes : iter[T] = h[T]}
  <2>1. {} \in U
    BY <1>5, <1>6
  <2>2. \A T \in SUBSET nodes : T # {} /\ T \ {Pick(T)} \in U => T \in U
    BY <1>5, <1>6
  <2>3. IsFiniteSet(nodes) /\ U \in SUBSET SUBSET nodes
    BY DEF nodes
  <2> HIDE DEF U
  <2>4. U = SUBSET nodes
    BY <2>1, <2>2, <2>3, AddingOneByOne
  <2> QED
    BY <1>6, <2>4 DEF U
<1> QED
  BY <1>1, <1>5, <1>7 DEF nodes, A

(* Passing through every node gives the least relation that contains the   *)
(* edges and is reflexive and transitive.                                  *)
LEMMA ReachesIsReachability ==
    ASSUME NEW n, IsFiniteSet(Nodes(n))
    PROVE  /\ DirectlyReached(n) \subseteq Reaches(n)
           /\ Reaches(n) \subseteq Nodes(n) \X Nodes(n)
           /\ \A a, b, c : <<a, b>> \in Reaches(n) /\ <<b, c>> \in Reaches(n) => <<a, c>> \in Reaches(n)
           /\ \A C : (\A e \in Edges(n) : Ends(n, e)[1] \in C => Ends(n, e)[2] \in C)
                        => \A a, b : <<a, b>> \in Reaches(n) /\ a \in C => b \in C
<1> DEFINE nodes == Nodes(n)
<1>1. PICK h : /\ Reaches(n) = h[nodes] /\ h[{}] = DirectlyReached(n)
               /\ \A T \in SUBSET nodes :
                     /\ h[T] \in SUBSET (nodes \X nodes)
                     /\ T # {} => h[T] = Through(n, Pick(T), h[T \ {Pick(T)}])
  BY ReachesInTurns
<1>2. ASSUME NEW T \in SUBSET nodes, T # {}
      PROVE  /\ Pick(T) \in T
             /\ \A a, b : <<a, b>> \in h[T] <=>
                   \/ <<a, b>> \in h[T \ {Pick(T)}]
                   \/ <<a, Pick(T)>> \in h[T \ {Pick(T)}] /\ <<Pick(T), b>> \in h[T \ {Pick(T)}]
  <2>1. Pick(T) \in T /\ T \ {Pick(T)} \in SUBSET nodes
    BY <1>2 DEF Pick
  <2>2. h[T] = Through(n, Pick(T), h[T \ {Pick(T)}]) /\ h[T \ {Pick(T)}] \in SUBSET (nodes \X nodes)
    BY <1>1, <1>2, <2>1
  <2> QED
    BY <2>1, <2>2 DEF Through
<1> HIDE DEF nodes
(* What connects two nodes through one already passed is there. *)
<1>3. \A T \in SUBSET nodes : \A m \in T : \A a, b :
          <<a, m>> \in h[T] /\ <<m, b>> \in h[T] => <<a, b>> \in h[T]
  <2> DEFINE closed(T) == \A m \in T : \A a, b : <<a, m>> \in h[T] /\ <<m, b>> \in h[T] => <<a, b>> \in h[T]
             U == {T \in SUBSET nodes : closed(T)}
  <2>1. {} \in U
    OBVIOUS
  <2>2. ASSUME NEW T \in SUBSET nodes, T # {}, T \ {Pick(T)} \in U
        PROVE  closed(T)
    <3> DEFINE x == Pick(T)
               R == h[T \ {Pick(T)}]
    <3>1. \A a, b : <<a, b>> \in h[T] <=> <<a, b>> \in R \/ (<<a, x>> \in R /\ <<x, b>> \in R)
      BY <1>2, <2>2
    <3>2. \A m \in T \ {x} : \A a, b : <<a, m>> \in R /\ <<m, b>> \in R => <<a, b>> \in R
      BY <2>2
    <3> HIDE DEF x, R
    <3> SUFFICES ASSUME NEW m \in T, NEW a, NEW b, <<a, m>> \in h[T], <<m, b>> \in h[T]
                 PROVE  <<a, b>> \in h[T]
      OBVIOUS
    <3>3. CASE m = x
      BY <3>1, <3>3
    <3>4. CASE m # x
      BY <3>1, <3>2, <3>4
    <3> QED
      BY <3>3, <3>4
  <2>3. IsFiniteSet(nodes) /\ U \in SUBSET SUBSET nodes
    BY DEF nodes
  <2>4. \A T \in SUBSET nodes : T # {} /\ T \ {Pick(T)} \in U => T \in U
    BY <2>2
  <2> HIDE DEF U
  <2>5. U = SUBSET nodes
    BY <2>1, <2>3, <2>4, AddingOneByOne
  <2> QED
    BY <2>5 DEF U
(* Nothing else is connected. *)
<1>4. ASSUME NEW C, \A e \in Edges(n) : Ends(n, e)[1] \in C => Ends(n, e)[2] \in C
      PROVE  \A T \in SUBSET nodes : \A a, b : <<a, b>> \in h[T] /\ a \in C => b \in C
  <2> DEFINE U == {T \in SUBSET nodes : \A a, b : <<a, b>> \in h[T] /\ a \in C => b \in C}
  <2>1. {} \in U
    <3>1. \A e \in Edges(n) : Ends(n, e) = <<Ends(n, e)[1], Ends(n, e)[2]>>
      BY DEF Ends
    <3>2. \A a, b : <<a, b>> \in DirectlyReached(n) /\ a \in C => b \in C
      BY <1>4, <3>1 DEF DirectlyReached
    <3> QED
      BY <1>1, <3>2
  <2>2. \A T \in SUBSET nodes : T # {} /\ T \ {Pick(T)} \in U => T \in U
    BY <1>2
  <2>3. IsFiniteSet(nodes) /\ U \in SUBSET SUBSET nodes
    BY DEF nodes
  <2> HIDE DEF U
  <2>4. U = SUBSET nodes
    BY <2>1, <2>2, <2>3, AddingOneByOne
  <2> QED
    BY <2>4 DEF U
<1>5. DirectlyReached(n) \subseteq h[nodes]
  <2> DEFINE U == {T \in SUBSET nodes : DirectlyReached(n) \subseteq h[T]}
  <2>1. {} \in U
    BY <1>1
  <2>2. \A T \in SUBSET nodes : T # {} /\ T \ {Pick(T)} \in U => T \in U
    <3> SUFFICES ASSUME NEW T \in SUBSET nodes, T # {}, T \ {Pick(T)} \in U PROVE h[T \ {Pick(T)}] \subseteq h[T]
      OBVIOUS
    <3>1. T \ {Pick(T)} \in SUBSET nodes /\ h[T \ {Pick(T)}] \in SUBSET (nodes \X nodes)
      BY <1>1
    <3>2. \A a, b : <<a, b>> \in h[T \ {Pick(T)}] => <<a, b>> \in h[T]
      BY <1>2
    <3>3. \A x \in nodes \X nodes : x = <<x[1], x[2]>>
      OBVIOUS
    <3> QED
      BY <3>1, <3>2, <3>3
  <2>3. IsFiniteSet(nodes) /\ U \in SUBSET SUBSET nodes
    BY DEF nodes
  <2> HIDE DEF U
  <2>4. U = SUBSET nodes
    BY <2>1, <2>2, <2>3, AddingOneByOne
  <2> QED
    BY <2>4 DEF U
<1>6. h[nodes] \in SUBSET (nodes \X nodes)
  BY <1>1
<1>7. \A a, b, c : <<a, b>> \in h[nodes] /\ <<b, c>> \in h[nodes] => <<a, c>> \in h[nodes]
  BY <1>3, <1>6
<1> QED
  BY <1>1, <1>4, <1>5, <1>6, <1>7 DEF nodes

(* tarjan_scc: every process is in exactly one component, with those it    *)
(* reaches and is reached by.                                              *)
LEMMA ComponentsPartition ==
    ASSUME NEW n, IsFiniteSet(Nodes(n))
    PROVE  /\ UNION Components(n) = Procs(n)
           /\ \A C, D \in Components(n) : C # D => C \intersect D = {}
<1> DEFINE Of(p) == {m \in Procs(n) : <<p, m>> \in Reaches(n) /\ <<m, p>> \in Reaches(n)}
<1>1. \A p \in Procs(n) : <<p, p>> \in Reaches(n)
  BY ReachesIsReachability DEF DirectlyReached, Nodes
<1>2. \A a, b, c : <<a, b>> \in Reaches(n) /\ <<b, c>> \in Reaches(n) => <<a, c>> \in Reaches(n)
  BY ReachesIsReachability
<1>3. Components(n) = {Of(p) : p \in Procs(n)}
  BY DEF Components
<1>4. \A p \in Procs(n) : p \in Of(p) /\ Of(p) \subseteq Procs(n)
  BY <1>1
<1>5. \A p, q \in Procs(n) : Of(p) \intersect Of(q) # {} => Of(p) = Of(q)
  BY <1>2
<1> HIDE DEF Of
<1> QED
  BY <1>3, <1>4, <1>5


(* Edges without tokens add up to none. *)
LEMMA NoTokensToCount ==
    ASSUME NEW n, NEW E, IsFiniteSet(E), \A e \in E : CountedTokens(n, e) = 0
    PROVE  TotalTokens(n, E) = 0
<1> DEFINE iter[T \in SUBSET E] ==
               IF T = {} THEN 0 ELSE CountedTokens(n, Pick(T)) + iter[T \ {Pick(T)}]
           Turns(g) == g = [T \in SUBSET E |->
                               IF T = {} THEN 0 ELSE CountedTokens(n, Pick(T)) + g[T \ {Pick(T)}]]
<1>1. TotalTokens(n, E) = iter[E]
  BY DEF TotalTokens, MapThenSumSet, MapThenFoldSet, Pick
<1>2. Turns(iter)
  <2>1. \A T \in SUBSET E : T # {} => Pick(T) \in E /\ T \ {Pick(T)} \in SUBSET E
    BY DEF Pick
  <2>2. Turns([T \in SUBSET E |-> 0])
    BY <2>1
  <2> QED
    BY <2>2
<1> HIDE DEF iter
<1> DEFINE U == {T \in SUBSET E : iter[T] = 0}
<1>3. {} \in U
  BY <1>2
<1>4. \A T \in SUBSET E : T # {} /\ T \ {Pick(T)} \in U => T \in U
  <2>1. \A T \in SUBSET E : T # {} => Pick(T) \in E
    BY DEF Pick
  <2> QED
    BY <1>2, <2>1
<1>5. U \in SUBSET SUBSET E
  OBVIOUS
<1> HIDE DEF U
<1>6. U = SUBSET E
  BY <1>3, <1>4, <1>5, AddingOneByOne
<1> QED
  BY <1>1, <1>6 DEF U

-----------------------------------------------------------------------------
(* Rings.                                                                  *)

(* The queues of process p of a ring. *)
PassesOn(p, in, out) ==
    /\ net.rules[p][0].top.takes = {in} /\ net.rules[p][0].top.puts = {out}
    /\ InsOf(p) = {in} /\ OutsOf(p) = {out}

(* What the proof needs of a ring: the shape of its processes, and that    *)
(* one leads to any other.                                                 *)
LEMMA RingShape ==
    ASSUME NetInv, Ring
    PROVE  /\ External = {} /\ Internal = Queues(net) /\ Cells(net) = {}
           /\ Procs(net) # {}
           /\ \A q \in Queues(net) : net.queues[q].src \in Procs(net) /\ net.queues[q].dst \in Procs(net)
           /\ \A p \in Procs(net) :
                 /\ DOMAIN net.rules[p] = {0} /\ net.rules[p][0].paths = {}
                 /\ \E in, out \in Queues(net) : PassesOn(p, in, out)
           /\ \A C : (\A q \in Queues(net) : net.queues[q].src \in C => net.queues[q].dst \in C)
                        => \A p, r \in Procs(net) : p \in C => r \in C
<1>1. WellFormed(net)
  BY NetworksAssumption DEF NetInv
<1>2. External = {} /\ Internal = Queues(net) /\ Cells(net) = {}
  BY DEF Ring, Closed, Internal
<1>3. \A q \in Queues(net) : net.queues[q].src \in Procs(net) /\ net.queues[q].dst \in Procs(net)
  BY <1>2 DEF External
<1>4. \A e \in Edges(net) : Ends(net, e) = <<net.queues[e].src, net.queues[e].dst>> /\ e \in Queues(net)
  BY <1>2 DEF Ends, Edges
<1>5. IsFiniteSet(Nodes(net))
  <2>1. Nodes(net) = Procs(net)
    BY <1>3, <1>4 DEF Nodes
  <2> QED
    BY <1>1, <2>1 DEF WellFormed
<1>6. Procs(net) # {} /\ \A p, r \in Procs(net) : <<p, r>> \in Reaches(net)
  <2>1. Components(net) = {Procs(net)}
    BY DEF Ring
  <2> DEFINE Of(p) == {m \in Procs(net) : <<p, m>> \in Reaches(net) /\ <<m, p>> \in Reaches(net)}
  <2>2. Components(net) = {Of(p) : p \in Procs(net)}
    BY DEF Components
  <2> HIDE DEF Of
  <2>3. Procs(net) # {} /\ \A p \in Procs(net) : Of(p) = Procs(net)
    BY <2>1, <2>2
  <2> QED
    BY <2>3 DEF Of
<1>7. \A p \in Procs(net) :
          /\ DOMAIN net.rules[p] = {0} /\ net.rules[p][0].paths = {}
          /\ \E in, out \in Queues(net) : PassesOn(p, in, out)
  BY DEF Ring, PassesOn, InsOf, OutsOf
<1>8. ASSUME NEW C, \A q \in Queues(net) : net.queues[q].src \in C => net.queues[q].dst \in C
      PROVE  \A p, r \in Procs(net) : p \in C => r \in C
  <2>1. \A e \in Edges(net) : Ends(net, e)[1] \in C => Ends(net, e)[2] \in C
    BY <1>4, <1>8
  <2> QED
    BY <1>5, <1>6, <2>1, ReachesIsReachability
<1> QED
  BY <1>2, <1>3, <1>6, <1>7, <1>8

(* A token somewhere and room somewhere. *)
Flowing ==
    /\ \E q \in Queues(net) : queue[q] # <<>>
    /\ \E q \in Queues(net) : Len(queue[q]) < net.queues[q].depth

(* A process of a ring fires when there is a token for it and room. *)
LEMMA RingFires ==
    ASSUME NetInv, Ring, NEW env \in Environments, NEW p \in Procs(net), NEW in, NEW out,
           PassesOn(p, in, out), in \in Queues(net), out \in Queues(net)
    PROVE  <<p, 0>> \in Firing(Now(env))
               <=> queue[in] # <<>> /\ Len(queue[out]) < net.queues[out].depth
<1> DEFINE s == Now(env)
           rule == net.rules[p][0]
<1>1. /\ External = {} /\ Internal = Queues(net) /\ Cells(net) = {}
      /\ DOMAIN net.rules[p] = {0} /\ rule.paths = {}
  BY RingShape
<1>2. RuleAt(<<p, 0>>) = rule
  BY DEF RuleAt
<1>3. Takes(rule) = {in} /\ rule.top.puts = {out}
  BY <1>1 DEF Takes, Bodies, PassesOn
<1>4. s.queue[in] = queue[in] /\ s.queue[out] = queue[out] /\ EdgeRoom(out) = net.queues[out].depth
  BY <1>1 DEF Now, EdgeRoom
<1>5. can_fire(s, <<p, 0>>) <=> queue[in] # <<>> /\ Len(queue[out]) < net.queues[out].depth
  <2> HIDE DEF s
  <2> QED
    BY <1>2, <1>3, <1>4 DEF can_fire, deq_valid, enq_ready
<1>6. can_fire(s, <<p, 0>>) => <<p, 0>> \in Firing(s)
  BY <1>1, ReadyProcessFires
<1>7. <<p, 0>> \in Firing(s) => can_fire(s, <<p, 0>>)
  <2>1. \A x : x \in Firing(s) => \E r \in Procs(net) : x \in {r} \X Fires(s, r)
    BY DEF Firing, Fires
  <2>2. \A r, i : <<p, 0>> = <<r, i>> => r = p /\ i = 0
    OBVIOUS
  <2>3. <<p, 0>> \in Firing(s) => 0 \in Fires(s, p)
    BY <2>1, <2>2
  <2> QED
    BY <2>3 DEF Fires, WillFire
<1> QED
  BY <1>5, <1>6, <1>7

(* The processes with a token to take pass it on unless the next ones have *)
(* one too: all of them stand still only if the ring is full.              *)
LEMMA FlowingRingFires ==
    ASSUME NetInv, Ring, Flowing, NEW env \in Environments
    PROVE  Firing(Now(env)) # {}
<1> SUFFICES ASSUME Firing(Now(env)) = {} PROVE FALSE
  OBVIOUS
<1> DEFINE C == {p \in Procs(net) : \E in \in InsOf(p) : queue[in] # <<>>}
<1>1. WellFormed(net)
  BY NetworksAssumption DEF NetInv
<1>2. \A q \in Queues(net) : queue[q] # <<>> => Len(queue[q]) > 0
  BY RingShape DEF NetInv
<1>3. ASSUME NEW p \in C
      PROVE  \A q \in OutsOf(p) : ~(Len(queue[q]) < net.queues[q].depth)
  <2>1. PICK in \in Queues(net), out \in Queues(net) : PassesOn(p, in, out)
    BY RingShape
  <2>2. queue[in] # <<>> /\ OutsOf(p) = {out}
    BY <2>1 DEF PassesOn
  <2> QED
    BY <2>1, <2>2, RingFires
<1>4. \A q \in Queues(net) : net.queues[q].src \in C => queue[q] # <<>> /\ net.queues[q].dst \in C
  <2> SUFFICES ASSUME NEW q \in Queues(net), net.queues[q].src \in C
               PROVE  queue[q] # <<>> /\ net.queues[q].dst \in C
    OBVIOUS
  <2>1. ~(Len(queue[q]) < net.queues[q].depth)
    BY <1>3 DEF OutsOf
  <2>2. net.queues[q].depth \in Nat \ {0}
    BY <1>1 DEF WellFormed
  <2>3. queue[q] # <<>>
    BY <2>1, <2>2
  <2> QED
    BY <2>3, RingShape DEF InsOf
<1>5. C # {}
  <2>1. PICK q \in Queues(net) : queue[q] # <<>>
    BY DEF Flowing
  <2>2. net.queues[q].dst \in C
    BY <2>1, RingShape DEF InsOf
  <2> QED
    BY <2>2
<1>6. Procs(net) \subseteq C
  <2> HIDE DEF C
  <2>1. \A p, r \in Procs(net) : p \in C => r \in C
    BY <1>4, RingShape
  <2> QED
    BY <1>5, <2>1 DEF C
<1>7. PICK q \in Queues(net) : Len(queue[q]) < net.queues[q].depth
  BY DEF Flowing
<1>8. net.queues[q].src \in C
  BY <1>6, RingShape
<1> QED
  BY <1>3, <1>7, <1>8 DEF OutsOf

-----------------------------------------------------------------------------
(* Inductive invariant: no queue holds more than its FIFO has places, and  *)
(* an accepted ring has a token and room.                                  *)
WithinDepth == \A q \in Internal : Len(queue[q]) <= net.queues[q].depth

RingInv == NetInv /\ WithinDepth /\ (Ring /\ Accepted(net) => Flowing)

LEMMA PreloadedLength ==
    ASSUME net \in Networks, NEW q \in Queues(net)
    PROVE  /\ Len(Preloaded(net.queues[q].init)) <= net.queues[q].depth
           /\ net.queues[q].init # 0 => /\ Preloaded(net.queues[q].init) # <<>>
                                        /\ Len(Preloaded(net.queues[q].init)) < net.queues[q].depth
           /\ net.queues[q].init = 0 => Len(Preloaded(net.queues[q].init)) < net.queues[q].depth
<1>1. /\ net.queues[q].depth \in Nat \ {0} /\ net.queues[q].init \in Nat
      /\ net.queues[q].init > 0 => net.queues[q].depth > 1
  BY NetworksAssumption DEF WellFormed
<1>2. Len(<<>>) = 0 /\ \A v : Len(<<v>>) = 1 /\ <<v>> # <<>>
  OBVIOUS
<1> QED
  BY <1>1, <1>2 DEF Preloaded

(* The tokens that the analysis counts are there. *)
LEMMA AcceptedRingHasToken ==
    ASSUME NetInv, Ring, Accepted(net)
    PROVE  \E q \in Queues(net) : net.queues[q].init # 0
<1> SUFFICES ASSUME \A q \in Queues(net) : net.queues[q].init = 0 PROVE FALSE
  OBVIOUS
<1> DEFINE E == CycleEdges(net, Procs(net))
<1>1. WellFormed(net)
  BY NetworksAssumption DEF NetInv
<1>2. Cells(net) = {} /\ Edges(net) = Queues(net) /\ Components(net) = {Procs(net)}
  BY DEF Ring, Edges
<1>3. IsFiniteSet(E) /\ \A e \in E : CountedTokens(net, e) = 0
  <2>1. E \subseteq Queues(net)
    BY <1>2 DEF CycleEdges
  <2>2. \A e \in E : CountedTokens(net, e) = 0
    BY <1>2, <2>1 DEF CountedTokens
  <2> QED
    BY <1>1, <2>1, <2>2, FS_Subset DEF WellFormed
<1>4. TotalTokens(net, E) = 0
  <2> HIDE DEF E
  <2> QED
    BY <1>3, NoTokensToCount
<1>5. E # {}
  <2>1. PICK p \in Procs(net) : TRUE
    BY RingShape
  <2>2. PICK in \in Queues(net), out \in Queues(net) : PassesOn(p, in, out)
    BY RingShape
  <2>3. /\ net.rules[p][0] \in AllRules(net) /\ out \in Puts(net.rules[p][0])
    <3>1. DOMAIN net.rules[p] = {0}
      BY RingShape
    <3> QED
      BY <2>2, <3>1 DEF AllRules, RulesOf, Puts, Bodies, PassesOn
  <2>4. Ends(net, out) = <<net.queues[out].src, net.queues[out].dst>>
    BY <1>2 DEF Ends
  <2>5. ~net.queues[out].async /\ net.queues[out].src \in Procs(net) /\ net.queues[out].dst \in Procs(net)
    BY RingShape DEF Ring
  <2>6. out \notin NonBlocking(net)
    BY <2>3, <2>4, <2>5 DEF NonBlocking
  <2>7. out \in E
    BY <1>2, <2>4, <2>5, <2>6 DEF CycleEdges
  <2> QED
    BY <2>7
<1> QED
  BY <1>2, <1>4, <1>5 DEF Accepted

LEMMA InitRingInv == Init => RingInv
<1> SUFFICES ASSUME Init PROVE RingInv
  OBVIOUS
<1>1. NetInv
  BY InitNetInv
<1>2. net \in Networks /\ \A q \in Internal : q \in Queues(net) /\ queue[q] = Preloaded(net.queues[q].init)
  BY DEF Init, Internal
<1>3. WithinDepth
  BY <1>2, PreloadedLength DEF WithinDepth
<1>4. ASSUME Ring, Accepted(net)
      PROVE  Flowing
  <2>1. PICK q \in Queues(net) : net.queues[q].init # 0
    BY <1>1, <1>4, AcceptedRingHasToken
  <2>2. q \in Internal
    BY <1>1, <1>4, RingShape
  <2> QED
    BY <1>2, <2>1, <2>2, PreloadedLength DEF Flowing
<1> QED
  BY <1>1, <1>3, <1>4 DEF RingInv

LEMMA CycleWithinDepth ==
    ASSUME NetInv, WithinDepth, NEW env \in Environments, NEW f \in Followed(Now(env)),
           NEW q \in Internal
    PROVE  Len(QueueAfter(Now(env), f, q)) <= net.queues[q].depth
<1> DEFINE s == Now(env)
           left == IF deq_ready(f, q) /\ deq_valid(s, q) THEN Tail(s.queue[q]) ELSE s.queue[q]
<1>1. q \in Queues(net) /\ s.queue[q] = queue[q] /\ queue[q] \in Seq(Data)
  BY DEF Now, Internal, NetInv
<1>2. /\ Len(queue[q]) \in Nat /\ Len(queue[q]) <= net.queues[q].depth /\ net.queues[q].depth \in Nat
  <2>1. WellFormed(net)
    BY NetworksAssumption DEF NetInv
  <2> QED
    BY <1>1, <2>1 DEF WithinDepth, WellFormed
<1>3. left \in Seq(Data) /\ Len(left) <= Len(queue[q])
  BY <1>1 DEF deq_valid
<1>4. enq_ready(s, q) => Len(queue[q]) < net.queues[q].depth
  BY <1>1 DEF enq_ready, EdgeRoom, Internal
<1>5. \A v : Len(Append(left, v)) = Len(left) + 1
  <2> HIDE DEF left
  <2> QED
    BY <1>3
<1>6. QueueAfter(s, f, q) = IF Written(f, q) /\ enq_ready(s, q) THEN Append(left, Driven(s, f, q)) ELSE left
  BY DEF QueueAfter
<1>7. Len(left) \in Nat
  <2> HIDE DEF left
  <2> QED
    BY <1>3
<1> HIDE DEF s, left
<1> QED
  BY <1>2, <1>3, <1>4, <1>5, <1>6, <1>7 DEF s

(* A process that fires leaves a token in its output queue and room in its *)
(* input queue, whoever else fires with it.                                *)
LEMMA CycleKeepsFlowing ==
    ASSUME NetInv, WithinDepth, Ring, Flowing, NEW env \in Environments, NEW f \in Followed(Now(env))
    PROVE  /\ \E q \in Queues(net) : QueueAfter(Now(env), f, q) # <<>>
           /\ \E q \in Queues(net) : Len(QueueAfter(Now(env), f, q)) < net.queues[q].depth
<1> DEFINE s == Now(env)
<1>1. PICK id \in Firing(s) : TRUE
  BY FlowingRingFires
<1>2. id \in DOMAIN f
  BY <1>1 DEF Followed
<1>3. PICK p \in Procs(net) : id = <<p, 0>>
  <2>1. PICK p \in Procs(net) : \E i \in Fires(s, p) : id = <<p, i>> /\ i \in DOMAIN net.rules[p]
    BY <1>2, FiringRule
  <2> QED
    BY <2>1, RingShape
<1>4. PICK in \in Queues(net), out \in Queues(net) : PassesOn(p, in, out)
  BY RingShape
<1>5. queue[in] # <<>> /\ Len(queue[out]) < net.queues[out].depth
  BY <1>1, <1>3, <1>4, RingFires
<1>6. /\ External = {} /\ Internal = Queues(net)
      /\ \A q \in Queues(net) : s.queue[q] = queue[q] /\ EdgeRoom(q) = net.queues[q].depth
  BY RingShape DEF Now, EdgeRoom
<1>7. in \in Takes(RuleAt(id)) /\ out \in Writes(id, f[id])
  <2>1. RuleAt(id) = net.rules[p][0]
    BY <1>3 DEF RuleAt
  <2> QED
    BY <1>4, <2>1 DEF Takes, Bodies, Writes, PassesOn
<1>8. \A q \in Queues(net) : queue[q] \in Seq(Data)
  BY <1>6 DEF NetInv
<1> HIDE DEF s
<1>9. QueueAfter(s, f, out) # <<>>
  <2>1. Written(f, out) /\ enq_ready(s, out)
    BY <1>2, <1>4, <1>5, <1>6, <1>7 DEF Written, enq_ready
  <2> DEFINE left == IF deq_ready(f, out) /\ deq_valid(s, out) THEN Tail(s.queue[out]) ELSE s.queue[out]
  <2>2. QueueAfter(s, f, out) = Append(left, Driven(s, f, out))
    BY <2>1 DEF QueueAfter
  <2>3. left \in Seq(Data)
    BY <1>6, <1>8 DEF deq_valid
  <2> HIDE DEF left
  <2>4. Len(Append(left, Driven(s, f, out))) = Len(left) + 1 /\ Len(left) \in Nat
    BY <2>3
  <2>5. Len(<<>>) = 0
    OBVIOUS
  <2> QED
    BY <2>2, <2>4, <2>5
<1>10. Len(QueueAfter(s, f, in)) < net.queues[in].depth
  <2>1. deq_ready(f, in) /\ deq_valid(s, in)
    BY <1>2, <1>5, <1>6, <1>7 DEF deq_ready, deq_valid
  <2>2. QueueAfter(s, f, in) = IF Written(f, in) /\ enq_ready(s, in)
                               THEN Append(Tail(queue[in]), Driven(s, f, in)) ELSE Tail(queue[in])
    BY <1>6, <2>1 DEF QueueAfter
  <2>3. /\ Tail(queue[in]) \in Seq(Data) /\ Len(Tail(queue[in])) = Len(queue[in]) - 1
        /\ Len(queue[in]) \in Nat
    BY <1>5, <1>8
  <2>4. \A v : Len(Append(Tail(queue[in]), v)) = Len(queue[in])
    BY <2>3
  <2>5. Len(queue[in]) <= net.queues[in].depth /\ net.queues[in].depth \in Nat
    <3>1. WellFormed(net)
      BY NetworksAssumption DEF NetInv
    <3> QED
      BY <1>6, <3>1 DEF WithinDepth, WellFormed
  <2>6. enq_ready(s, in) => Len(queue[in]) < net.queues[in].depth
    BY <1>6 DEF enq_ready
  <2> QED
    BY <2>2, <2>3, <2>4, <2>5, <2>6
<1> QED
  BY <1>9, <1>10 DEF s

LEMMA NextRingInv == RingInv /\ [Next]_vars => RingInv'
<1> SUFFICES ASSUME RingInv, [Next]_vars PROVE RingInv'
  OBVIOUS
<1>1. NetInv /\ NetInv' /\ WithinDepth
  BY NextNetInv DEF RingInv
<1>2. CASE Cycle
  <2>0. PICK env \in Environments : \E f \in Followed(Now(env)) :
            /\ queue' = [q \in Internal |-> QueueAfter(Now(env), f, q)]
            /\ net' = net
    BY <1>2 DEF Cycle
  <2>1. PICK f \in Followed(Now(env)) :
            /\ queue' = [q \in Internal |-> QueueAfter(Now(env), f, q)]
            /\ net' = net
    BY <2>0
  <2>2. Internal' = Internal /\ (Ring <=> Ring') /\ (Accepted(net) <=> Accepted(net'))
    BY <2>1 DEF Internal, External, Ring, Closed
  <2>3. \A q \in Internal : queue'[q] = QueueAfter(Now(env), f, q)
    BY <2>1
  <2>4. WithinDepth'
    BY <1>1, <2>1, <2>2, <2>3, CycleWithinDepth DEF WithinDepth
  <2>5. ASSUME Ring, Accepted(net)
        PROVE  Flowing'
    <3>1. Internal = Queues(net) /\ Flowing
      BY <1>1, <2>5, RingShape DEF RingInv
    <3> QED
      BY <1>1, <2>1, <2>3, <2>5, <3>1, CycleKeepsFlowing DEF Flowing
  <2> QED
    BY <1>1, <2>1, <2>2, <2>4, <2>5 DEF RingInv
<1>3. CASE UNCHANGED vars
  BY <1>1, <1>3 DEF vars, RingInv, WithinDepth, Flowing, Internal, External, Ring, Closed
<1> QED
  BY <1>2, <1>3 DEF Next

(* No accepted ring deadlocks: the check of src/src/deadlock.rs asks for a *)
(* token, and that one token and one free place are never lost.            *)
THEOREM AcceptedRingsNeverDeadlock == Spec => []AcceptedRingsNeverStuck
<1>1. RingInv => AcceptedRingsNeverStuck
  <2> SUFFICES ASSUME RingInv, Ring, Accepted(net) PROVE Firing(Now(<<>>)) # {}
    BY DEF AcceptedRingsNeverStuck
  <2>1. <<>> \in Environments
    <3>1. External = {}
      BY DEF Ring, Closed
    <3>2. <<>> = [x \in {} |-> <<>>]
      OBVIOUS
    <3> QED
      BY <3>1, <3>2 DEF Environments
  <2> QED
    BY <2>1, FlowingRingFires DEF RingInv
<1>2. Spec => []RingInv
  BY InitRingInv, NextRingInv, PTL DEF Spec
<1> QED
  BY <1>1, <1>2, PTL

=============================================================================
