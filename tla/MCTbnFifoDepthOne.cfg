\* The instance emitted for Queue(T, depth = 1, init = V).
CONSTANTS
    None = None
    Data = {a, b}
    Depth = 1
    PtrRange = 2
    InitCount = 1
    InitValue = a
SPECIFICATION Spec
PROPERTIES
    PutReachesTheTail
