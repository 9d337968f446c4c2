\* Four rules over three edges: every conflict relation among three rules
\* occurs, and a fourth rule that may join any earlier group.
CONSTANTS
    N = 4
    Edges = {e1, e2, e3}
SPECIFICATION Spec
CHECK_DEADLOCK FALSE
INVARIANTS
    TypeOK
    EachRuleOnce
    GroupsConflictFree
    DemotedOnlyByEarlierRule
    FiringConflictFree
    SomeRuleFires
