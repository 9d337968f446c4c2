CONSTANTS
    WordCount = 2
    Registers = {"x0", "x1"}
    Devices = {"uart"}
    Tops = {"CPU", "Marie"}
    AloneInstructions <- CoreInstructions
    Instructions <- BusInstructions
    BusDepth = 4
    TxDepth = 1
    RxDepth = 1
SPECIFICATION Spec
INVARIANTS
    WritesEnqueueTheirByte
