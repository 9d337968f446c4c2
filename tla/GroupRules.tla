----------------------------- MODULE GroupRules -----------------------------
(***************************************************************************)
(* The loop of group_rules (src/src/schedule.rs), turn by turn, on a       *)
(* process of N rules with arbitrary mutable edges.                        *)
(***************************************************************************)
EXTENDS RuleSchedule

CONSTANTS
    N,      \* number of rules of the process
    Edges   \* edges bound to its ports

ASSUME RulesAssumption == N \in Nat

VARIABLES
    mutable,   \* mutable_edges of every rule
    rule_idx,  \* loop counter
    groups     \* groups built so far, most urgent first

vars == <<mutable, rule_idx, groups>>

Rules == 0 .. N - 1

Init ==
    /\ mutable \in [Rules -> SUBSET Edges]
    /\ rule_idx = 0
    /\ groups = <<>>

PlaceRule ==
    /\ rule_idx < N
    /\ \E k \in 1 .. Len(groups) + 1 :
          /\ IsPlace(Conflicts(mutable), groups, rule_idx, k)
          /\ groups' = PutIn(groups, rule_idx, k)
    /\ rule_idx' = rule_idx + 1
    /\ UNCHANGED mutable

Next == PlaceRule

Spec == Init /\ [][Next]_vars

-----------------------------------------------------------------------------
Done == rule_idx = N

(* Rules i and j share a mutable edge. *)
Share(i, j) == i # j /\ mutable[i] \intersect mutable[j] # {}

(* Type invariant: the groups hold the numbers of rules already placed.    *)
TypeOK ==
    /\ mutable \in [Rules -> SUBSET Edges]
    /\ rule_idx \in 0 .. N
    /\ groups \in Seq(SUBSET (0 .. rule_idx - 1))

(* Every rule placed is in one group and in one only. *)
EachRuleOnce ==
    \A r \in 0 .. rule_idx - 1 :
        \E k \in DOMAIN groups :
            r \in groups[k] /\ \A l \in DOMAIN groups : r \in groups[l] => l = k

(* Rules of one group fire in the same cycle, from the same old values:    *)
(* none of them may share a mutable edge.                                  *)
GroupsConflictFree ==
    \A k \in DOMAIN groups : \A i, j \in groups[k] : ~Share(i, j)

(* A rule is moved behind a group only for a conflict with a rule of that  *)
(* group that was declared before it.                                      *)
DemotedOnlyByEarlierRule ==
    \A k \in DOMAIN groups : \A r \in groups[k] : \A l \in 1 .. k - 1 :
        \E e \in groups[l] : e < r /\ Share(e, r)

(* In the finished schedule, the rules that fire in one cycle never share  *)
(* a mutable edge, whichever of them are enabled.                          *)
FiringConflictFree ==
    \A can_fire \in SUBSET Rules :
        \A i, j \in WillFire(groups, can_fire) : ~Share(i, j)

(* Arbitration never wastes a cycle: when some rule is enabled, one fires. *)
SomeRuleFires ==
    Done => \A can_fire \in SUBSET Rules :
                can_fire # {} => WillFire(groups, can_fire) # {}

(* schedule.rs: "declaration order = priority".  Of two enabled rules that *)
(* share a mutable edge, the one declared later never fires in place of    *)
(* the one declared first.                                                 *)
DeclarationOrderIsPriority ==
    Done => \A can_fire \in SUBSET Rules :
                \A i, j \in can_fire :
                    i < j /\ Share(i, j) /\ j \in WillFire(groups, can_fire)
                        => i \in WillFire(groups, can_fire)

=============================================================================
