---------------------------- MODULE RuleSchedule ----------------------------
(***************************************************************************)
(* The static schedule of one process (src/src/schedule.rs) and the rule   *)
(* enables the SystemVerilog back end derives from it (src/src/lower.rs,   *)
(* emit_rule_enables).                                                     *)
(*                                                                         *)
(* Rules are numbered 0 .. N-1 in declaration order.  What the scheduler   *)
(* knows of a rule is its mutable_edges: the edges it takes from, tries to *)
(* take from or puts to, in any branch; an edge it only peeks is not among *)
(* them.                                                                   *)
(***************************************************************************)
EXTENDS Integers, Sequences

(* What some statements of a rule do: the edges they take from, match with *)
(* try_take (some: the queues whose Some arm is chosen, none: those whose  *)
(* None arm is), put to and peek.                                          *)
NoAccess == [takes |-> {}, some |-> {}, none |-> {}, puts |-> {}, peeks |-> {}]

(* A rule is its top-level statements and the paths through its            *)
(* conditionals, one of which is followed when it fires.                   *)
Bodies(rule) == {rule.top} \union rule.paths

Takes(rule)    == UNION {b.takes : b \in Bodies(rule)}
TryTakes(rule) == UNION {b.some \union b.none : b \in Bodies(rule)}
Puts(rule)     == UNION {b.puts : b \in Bodies(rule)}

(* Mutant of MutableEdges: conditionals are not searched.                  *)
MutTopLevelEdges(rule) == rule.top.takes \union rule.top.puts

(* The scheduler joins all branches.                                       *)
MutableEdges(rule) == Takes(rule) \union TryTakes(rule) \union Puts(rule)

(* build_conflict_pairs, for the mutable edges of every rule.              *)
Conflicts(mutable) ==
    {pair \in (DOMAIN mutable) \X (DOMAIN mutable) :
        pair[1] < pair[2] /\ mutable[pair[1]] \intersect mutable[pair[2]] # {}}

Conflict(conflicts, i, j) == <<i, j>> \in conflicts \/ <<j, i>> \in conflicts

(* Mutant of Fits: any for all.                                            *)
MutFitsSome(conflicts, group, rule) == \E existing \in group : ~Conflict(conflicts, existing, rule)

Fits(conflicts, group, rule) == \A existing \in group : ~Conflict(conflicts, existing, rule)

(* Mutant of IsPlace: every rule opens a group of its own.                 *)
MutIsPlaceNew(conflicts, groups, rule, k) == k = Len(groups) + 1

(* One turn of the loop of group_rules: rule goes to group k, the first it *)
(* does not conflict with, or else a new one at the end.                   *)
IsPlace(conflicts, groups, rule, k) ==
    /\ k \in DOMAIN groups => Fits(conflicts, groups[k], rule)
    /\ \A l \in 1 .. k - 1 : ~Fits(conflicts, groups[l], rule)

(* Mutants of PutIn: the group is replaced instead of extended; rules are  *)
(* numbered from 1.                                                        *)
MutPutInOverwrites(groups, rule, k) ==
    IF k \in DOMAIN groups THEN [groups EXCEPT ![k] = {rule}]
    ELSE Append(groups, {rule})
MutPutInFromOne(groups, rule, k) ==
    IF k \in DOMAIN groups THEN [groups EXCEPT ![k] = @ \union {rule + 1}]
    ELSE Append(groups, {rule + 1})

PutIn(groups, rule, k) ==
    IF k \in DOMAIN groups THEN [groups EXCEPT ![k] = @ \union {rule}]
    ELSE Append(groups, {rule})

Placed(conflicts, groups, rule) ==
    PutIn(groups, rule,
          CHOOSE k \in 1 .. Len(groups) + 1 : IsPlace(conflicts, groups, rule, k))

(* The whole loop, as a function of the number of rules already placed.    *)
GroupRules(n, conflicts) ==
    LET placed[k \in 0 .. n] ==
            IF k = 0 THEN <<>> ELSE Placed(conflicts, placed[k - 1], k - 1)
    IN  placed[n]

(* Mutants of WillFire: no suppression; groups suppress each other.        *)
MutAllFire(groups, can_fire) == can_fire
MutGroupsBlockEachOther(groups, can_fire) ==
    {r \in can_fire :
        \E k \in DOMAIN groups :
            r \in groups[k] /\ \A l \in DOMAIN groups \ {k} : groups[l] \intersect can_fire = {}}

(* will_fire = can_fire & ~(will_fire of every rule of the earlier groups):*)
(* exactly the enabled rules of the first group that has one.              *)
WillFire(groups, can_fire) ==
    {r \in can_fire :
        \E k \in DOMAIN groups :
            r \in groups[k] /\ \A l \in 1 .. k - 1 : groups[l] \intersect can_fire = {}}

=============================================================================
