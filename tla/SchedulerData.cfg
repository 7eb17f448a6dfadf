SPECIFICATION FairSpec
CONSTANTS
    Reg = {0, 1, 2, 3}
    NoReg = NoReg
    MaxBody = 2
    Guard = 1
    Blocks <- MCBlocks
INVARIANT DataOrder
CHECK_DEADLOCK FALSE
