CONSTANTS
    Programs <- ArrayRules
SPECIFICATION Spec
CHECK_DEADLOCK FALSE
INVARIANTS
    UndefinedVariablesReported
