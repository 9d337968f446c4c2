CONSTANTS
    Programs <- AllPrograms
SPECIFICATION Spec
CHECK_DEADLOCK FALSE
INVARIANTS
    ElaborationTypeOK
    DesugarKeepsPaths
    LinearityIsExact
    VariablesBoundOnEveryPath
    SchedulerKnowsAccesses
    BoundAsDeclared
    EdgesFollowTokens
    NoUnsynchronisedCrossing
    FlatPipesAcceptedExactly
PROPERTIES
    RemovalKeepsBindings
