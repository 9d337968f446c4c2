-------------------------- MODULE GroupRulesProofs --------------------------
(***************************************************************************)
(* Proofs about GroupRules: for any number of rules and any mutable edges, *)
(* the groups partition the rules placed so far, no group holds two rules  *)
(* that share an edge, a rule is moved back only behind an earlier rule it *)
(* shares an edge with, and so the rules that fire in a cycle are free of  *)
(* conflicts.                                                              *)
(***************************************************************************)
EXTENDS GroupRules, SequenceTheorems, WellFoundedInduction, TLAPS

IInv == TypeOK /\ EachRuleOnce /\ GroupsConflictFree /\ DemotedOnlyByEarlierRule

(* What Fits says of a rule not placed yet, in terms of shared edges. *)
LEMMA FitsMeansNoShare ==
    ASSUME NEW r \in Rules, NEW group \in SUBSET (0 .. r - 1),
           mutable \in [Rules -> SUBSET Edges]
    PROVE  Fits(Conflicts(mutable), group, r) <=> \A e \in group : ~Share(e, r)
<1>1. ASSUME NEW e \in group
      PROVE  Conflict(Conflicts(mutable), e, r) <=> Share(e, r)
  <2>1. e \in Rules /\ e < r
    BY RulesAssumption DEF Rules
  <2>2. <<e, r>> \in Conflicts(mutable) <=> mutable[e] \intersect mutable[r] # {}
    BY <2>1 DEF Conflicts
  <2>3. <<r, e>> \notin Conflicts(mutable)
    BY <2>1, RulesAssumption DEF Conflicts, Rules
  <2> QED
    BY <2>1, <2>2, <2>3, RulesAssumption DEF Conflict, Share, Rules
<1> QED
  BY <1>1 DEF Fits

LEMMA InitIInv == Init => IInv
  BY RulesAssumption
     DEF Init, IInv, TypeOK, Rules, EachRuleOnce, GroupsConflictFree, DemotedOnlyByEarlierRule

LEMMA NextIInv == IInv /\ [Next]_vars => IInv'
<1> SUFFICES ASSUME IInv, [Next]_vars PROVE IInv'
  OBVIOUS
<1> USE DEF IInv
<1>1. CASE PlaceRule
  <2>0. PICK r : r = rule_idx
    OBVIOUS
  <2>1. PICK k \in 1 .. Len(groups) + 1 :
            IsPlace(Conflicts(mutable), groups, r, k) /\ groups' = PutIn(groups, r, k)
    BY <1>1, <2>0 DEF PlaceRule
  <2>2. /\ r \in Rules /\ r \in Nat /\ rule_idx' = r + 1 /\ mutable' = mutable
        /\ 0 .. rule_idx' - 1 = (0 .. r - 1) \union {r}
        /\ groups \in Seq(SUBSET (0 .. r - 1))
        /\ mutable \in [Rules -> SUBSET Edges]
    BY <1>1, <2>0, RulesAssumption DEF PlaceRule, TypeOK, Rules
  <2>3. /\ groups' \in Seq(SUBSET (0 .. rule_idx' - 1))
        /\ DOMAIN groups' = DOMAIN groups \union {k}
        /\ k \in DOMAIN groups => groups'[k] = groups[k] \union {r}
        /\ k \notin DOMAIN groups => groups'[k] = {r}
        /\ \A l \in DOMAIN groups' : l # k => l \in DOMAIN groups /\ groups'[l] = groups[l]
    <3>1. /\ groups' \in Seq(SUBSET ((0 .. r - 1) \union {r}))
          /\ DOMAIN groups' = DOMAIN groups \union {k}
          /\ k \in DOMAIN groups => groups'[k] = groups[k] \union {r}
          /\ k \notin DOMAIN groups => groups'[k] = {r}
          /\ \A l \in DOMAIN groups' : l # k => l \in DOMAIN groups /\ groups'[l] = groups[l]
      <4>1. PICK S, gs, new : S = 0 .. r - 1 /\ gs = groups /\ new = groups'
        OBVIOUS
      <4>2. gs \in Seq(SUBSET S) /\ k \in 1 .. Len(gs) + 1 /\ new = PutIn(gs, r, k)
        BY <4>1, <2>1, <2>2
      <4> DEFINE T == S \union {r}
      <4>3. gs \in [1 .. Len(gs) -> SUBSET S] /\ Len(gs) \in Nat /\ DOMAIN gs = 1 .. Len(gs)
        BY <4>2
      <4>4. CASE k \in DOMAIN gs
        <5>1. new = [gs EXCEPT ![k] = gs[k] \union {r}]
          BY <4>2, <4>4 DEF PutIn
        <5>2. /\ DOMAIN new = DOMAIN gs /\ new[k] = gs[k] \union {r}
              /\ \A l \in DOMAIN new : l # k => new[l] = gs[l]
          BY <5>1, <4>4
        <5>3. \A l \in 1 .. Len(gs) : new[l] \in SUBSET T
          BY <5>2, <4>3, <4>4
        <5>4. new \in [1 .. Len(gs) -> SUBSET T]
          BY <5>1, <5>3, <4>3
        <5>5. new \in Seq(SUBSET T)
          BY <5>4, <4>3, SeqDef
        <5> QED
          BY <5>2, <5>5, <4>1, <4>4
      <4>5. CASE k \notin DOMAIN gs
        <5>1. k = Len(gs) + 1
          BY <4>2, <4>3, <4>5
        <5>2. new = Append(gs, {r})
          BY <4>2, <4>5 DEF PutIn
        <5>3. gs \in [1 .. Len(gs) -> SUBSET T]
          BY <4>3
        <5>4. gs \in Seq(SUBSET T) /\ {r} \in SUBSET T
          BY <5>3, <4>3, SeqDef
        <5>5. /\ new \in Seq(SUBSET T) /\ DOMAIN new = 1 .. Len(gs) + 1
              /\ new[Len(gs) + 1] = {r} /\ \A l \in 1 .. Len(gs) : new[l] = gs[l]
          BY <5>2, <5>4
        <5>6. DOMAIN new = DOMAIN gs \union {k}
          BY <5>1, <5>5, <4>3
        <5>7. \A l \in DOMAIN new : l # k => l \in DOMAIN gs /\ new[l] = gs[l]
          BY <5>1, <5>5, <5>6, <4>3
        <5> QED
          BY <5>1, <5>5, <5>6, <5>7, <4>1, <4>5
      <4> QED
        BY <4>4, <4>5
    <3>2. (0 .. r - 1) \union {r} = 0 .. rule_idx' - 1
      BY <2>2
    <3> QED
      BY <3>1, <3>2
  <2>4. \A l \in DOMAIN groups : groups[l] \in SUBSET (0 .. r - 1)
    BY <2>2
  <2>5. /\ k \in DOMAIN groups => \A e \in groups[k] : ~Share(e, r)
        /\ \A l \in 1 .. k - 1 : \E e \in groups[l] : Share(e, r)
    <3>1. ASSUME NEW l \in DOMAIN groups
          PROVE  Fits(Conflicts(mutable), groups[l], r) <=> \A e \in groups[l] : ~Share(e, r)
      <4> QED
        BY <2>2, <2>4, FitsMeansNoShare
    <3>2. \A l \in 1 .. k - 1 : l \in DOMAIN groups
      BY <2>2
    <3> QED
      BY <2>1, <3>1, <3>2 DEF IsPlace
  <2>6. \A i, j : Share(i, j)' = Share(i, j)
    BY <2>2 DEF Share
  <2>7. TypeOK'
    BY <2>0, <2>2, <2>3, RulesAssumption DEF TypeOK, Rules
  <2>8. EachRuleOnce'
    <3> SUFFICES ASSUME NEW x \in 0 .. rule_idx' - 1
                 PROVE  \E m \in DOMAIN groups' :
                            x \in groups'[m] /\ \A l \in DOMAIN groups' : x \in groups'[l] => l = m
      BY DEF EachRuleOnce
    <3>1. CASE x = r
      <4>1. \A l \in DOMAIN groups : r \notin groups[l]
        BY <2>2, <2>4
      <4>2. k \in DOMAIN groups' /\ r \in groups'[k]
        BY <2>3
      <4> QED
        BY <3>1, <4>1, <4>2, <2>3
    <3>2. CASE x \in 0 .. r - 1
      <4>1. PICK m \in DOMAIN groups :
                x \in groups[m] /\ \A l \in DOMAIN groups : x \in groups[l] => l = m
        BY <2>0, <3>2 DEF EachRuleOnce
      <4>2. x # r
        BY <3>2, <2>2
      <4>3. m \in DOMAIN groups' /\ x \in groups'[m]
        BY <4>1, <2>3
      <4>4. \A l \in DOMAIN groups' : x \in groups'[l] => l \in DOMAIN groups /\ x \in groups[l]
        BY <4>2, <2>3
      <4> QED
        BY <4>1, <4>3, <4>4
    <3> QED
      BY <3>1, <3>2, <2>2
  <2>9. GroupsConflictFree'
    BY <2>2, <2>3, <2>5, <2>6 DEF GroupsConflictFree, Share
  <2>10. DemotedOnlyByEarlierRule'
    <3> SUFFICES ASSUME NEW g \in DOMAIN groups', NEW x \in groups'[g], NEW l \in 1 .. g - 1
                 PROVE  \E e \in groups'[l] : e < x /\ Share(e, x)
      BY <2>6 DEF DemotedOnlyByEarlierRule
    <3>1. l \in DOMAIN groups /\ groups[l] \subseteq groups'[l]
      BY <2>2, <2>3
    <3>2. CASE g \in DOMAIN groups /\ x \in groups[g]
      BY <3>1, <3>2 DEF DemotedOnlyByEarlierRule
    <3>3. CASE g = k /\ x = r
      BY <3>1, <3>3, <2>2, <2>4, <2>5
    <3> QED
      BY <3>2, <3>3, <2>3
  <2> QED
    BY <2>7, <2>8, <2>9, <2>10
<1>2. CASE UNCHANGED vars
  <2>1. TypeOK'
    BY <1>2 DEF vars, TypeOK
  <2>2. EachRuleOnce'
    BY <1>2 DEF vars, EachRuleOnce
  <2>3. GroupsConflictFree' /\ DemotedOnlyByEarlierRule'
    BY <1>2 DEF vars, GroupsConflictFree, DemotedOnlyByEarlierRule, Share
  <2> QED
    BY <2>1, <2>2, <2>3
<1> QED
  BY <1>1, <1>2 DEF Next

(* A set of numbers has a least one. *)
LEMMA LeastNumber ==
    ASSUME NEW T \in SUBSET Nat, T # {}
    PROVE  \E k \in T : \A l \in T : k <= l
<1>1. \E k \in T : \A l \in T : <<l, k>> \notin OpToRel(<, Nat)
  BY NatLessThanWellFounded, WFMin, Zenon
<1>2. PICK k \in T : \A l \in T : <<l, k>> \notin OpToRel(<, Nat)
  BY <1>1
<1>3. \A l \in T : ~(l < k) /\ l \in Nat /\ k \in Nat
  BY <1>2 DEF OpToRel
<1>4. \A l \in T : k <= l
  BY <1>3
<1> QED
  BY <1>4

(* The rules that will_fire lets fire together are of one group. *)
LEMMA FiringRulesAreOfOneGroup ==
    ASSUME NEW gs \in Seq(SUBSET Rules), NEW can_fire \in SUBSET Rules,
           NEW i \in WillFire(gs, can_fire), NEW j \in WillFire(gs, can_fire)
    PROVE  \E k \in DOMAIN gs : i \in gs[k] /\ j \in gs[k]
<1>1. PICK k \in DOMAIN gs :
          i \in gs[k] /\ \A l \in 1 .. k - 1 : gs[l] \intersect can_fire = {}
  BY DEF WillFire
<1>2. PICK m \in DOMAIN gs :
          j \in gs[m] /\ \A l \in 1 .. m - 1 : gs[l] \intersect can_fire = {}
  BY DEF WillFire
<1>3. i \in can_fire /\ j \in can_fire
  BY DEF WillFire
<1> QED
  BY <1>1, <1>2, <1>3

(* The schedule is well formed after every turn of the loop of group_rules, *)
(* whatever the rules access.                                               *)
THEOREM ScheduleInvariant ==
    Spec => [](TypeOK /\ EachRuleOnce /\ GroupsConflictFree /\ DemotedOnlyByEarlierRule)
<1>1. Spec => []IInv
  BY InitIInv, NextIInv, PTL DEF Spec
<1> QED
  BY <1>1, PTL DEF IInv

(* What the loop has built so far is always a list of sets of the rules    *)
(* already placed, for any number of rules.                                *)
THEOREM ScheduleTypes == Spec => []TypeOK
BY ScheduleInvariant, PTL

(* Whatever their accesses, no rule is left out of the groups and none is  *)
(* in two of them (group_rules).                                           *)
THEOREM EveryRuleScheduledOnce == Spec => []EachRuleOnce
BY ScheduleInvariant, PTL

(* A rule stands behind a group only for an edge it shares with a rule of  *)
(* that group declared before it (group_rules, first group that fits).     *)
THEOREM DemotionHasACause == Spec => []DemotedOnlyByEarlierRule
BY ScheduleInvariant, PTL

(* The rules the schedule lets fire in one cycle never share a mutable     *)
(* edge, whichever of them are enabled.                                    *)
THEOREM FiringIsConflictFree == Spec => []FiringConflictFree
<1>1. IInv => FiringConflictFree
  <2> SUFFICES ASSUME IInv, NEW can_fire \in SUBSET Rules,
                      NEW i \in WillFire(groups, can_fire), NEW j \in WillFire(groups, can_fire)
               PROVE  ~Share(i, j)
    BY DEF FiringConflictFree
  <2>1. groups \in Seq(SUBSET Rules)
    BY RulesAssumption DEF IInv, TypeOK, Rules
  <2>2. PICK k \in DOMAIN groups : i \in groups[k] /\ j \in groups[k]
    BY <2>1, FiringRulesAreOfOneGroup
  <2> QED
    BY <2>2 DEF IInv, GroupsConflictFree
<1>2. Spec => []IInv
  BY InitIInv, NextIInv, PTL DEF Spec
<1> QED
  BY <1>1, <1>2, PTL

(* Arbitration never wastes a cycle: in the finished schedule, whenever    *)
(* some rule can fire, will_fire lets one fire.                            *)
THEOREM SomeEnabledRuleFires == Spec => []SomeRuleFires
<1>1. IInv => SomeRuleFires
  <2> SUFFICES ASSUME IInv, Done, NEW can_fire \in SUBSET Rules, can_fire # {}
               PROVE  WillFire(groups, can_fire) # {}
    BY DEF SomeRuleFires
  <2>1. groups \in Seq(SUBSET (0 .. N - 1)) /\ rule_idx = N
    BY RulesAssumption DEF IInv, TypeOK, Done
  <2> DEFINE enabled == {k \in DOMAIN groups : groups[k] \intersect can_fire # {}}
  <2>2. enabled # {}
    <3>1. PICK r \in can_fire : TRUE
      OBVIOUS
    <3>2. PICK k \in DOMAIN groups : r \in groups[k]
      BY <2>1 DEF Rules, IInv, EachRuleOnce
    <3> QED
      BY <3>1, <3>2
  <2>3. enabled \subseteq DOMAIN groups /\ DOMAIN groups = 1 .. Len(groups) /\ Len(groups) \in Nat
    BY <2>1
  <2>4. PICK k \in enabled : \A l \in enabled : k <= l
    <3>1. enabled \in SUBSET Nat
      BY <2>3
    <3> HIDE DEF enabled
    <3> QED
      BY <3>1, <2>2, LeastNumber
  <2>5. \A l \in 1 .. k - 1 : groups[l] \intersect can_fire = {}
    <3> SUFFICES ASSUME NEW l \in 1 .. k - 1, groups[l] \intersect can_fire # {} PROVE FALSE
      OBVIOUS
    <3>1. k \in 1 .. Len(groups)
      BY <2>3
    <3>2. l \in enabled
      BY <3>1, <2>3
    <3> QED
      BY <3>1, <3>2, <2>4
  <2>6. PICK r \in groups[k] : r \in can_fire
    BY <2>4
  <2> QED
    BY <2>3, <2>5, <2>6 DEF WillFire
<1>2. Spec => []IInv
  BY InitIInv, NextIInv, PTL DEF Spec
<1> QED
  BY <1>1, <1>2, PTL

=============================================================================
