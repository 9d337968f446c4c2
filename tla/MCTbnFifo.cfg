\* A depth that is not a power of two, so that the pointers wrap before
\* their registers do; one preloaded token.
CONSTANTS
    None = None
    Data = {a, b}
    Depth = 3
    PtrRange = 4
    InitCount = 1
    InitValue = a
SPECIFICATION Spec
INVARIANTS
    TypeOK
    PointersAgree
PROPERTIES
    ImplementsQueue
