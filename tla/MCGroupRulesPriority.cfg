\* Three rules and two edges are enough to see the order of the rules.
CONSTANTS
    N = 3
    Edges = {e1, e2}
SPECIFICATION Spec
CHECK_DEADLOCK FALSE
INVARIANTS
    DeclarationOrderIsPriority
