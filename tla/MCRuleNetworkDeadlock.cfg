\* The networks of the deadlock tests.
CONSTANTS
    Networks <- DeadlockTests
    Values = 2
    Computed <- Sum
SPECIFICATION Spec
INVARIANTS
    AcceptedNeverStuck
