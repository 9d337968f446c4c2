\* DEPTH = 4, the depth of every AsyncQueue of examples/marie.tbn.
CONSTANTS
    None = None
    Data = {a, b}
    AWidth = 2
SPECIFICATION Spec
INVARIANTS
    TypeOK
    ViewsInOrder
PROPERTIES
    ImplementsAsyncFifo
    ImplementsQueue
    StepsAsCrossing
    TokensBecomeVisible
    RoomBecomesVisible
