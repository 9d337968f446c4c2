\* Two values tell what a rule read from what it did not.
CONSTANTS
    Networks <- AllNetworks
    Values = 2
    Computed <- Sum
SPECIFICATION Spec
INVARIANTS
    TypeOK
    CyclesAreAtomic
    OneWriterOneReader
    BackEndsAgree
    AcceptedRingsNeverStuck
PROPERTIES
    AcceptedRingsKeepRunning
