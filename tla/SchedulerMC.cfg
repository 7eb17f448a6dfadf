SPECIFICATION FairSpec
CONSTANTS
    Reg = {0, 1, 2, 3}
    NoReg = NoReg
    MaxBody = 4
    Guard = 1
    Blocks <- MCBlocks
INVARIANTS
    TypeOK
    RegisterOrder
    MemoryOrder
    ControlLast
    Complete
    StoreIsBarrier
PROPERTIES
    Terminates
    Implements
CHECK_DEADLOCK FALSE
