SPECIFICATION ProgramFairSpec
CONSTANTS
    Reg = {0, 1, 2}
    NoReg = NoReg
    MaxBody = 5
    Blocks <- MCBlocks
    Programs <- MCPrograms
INVARIANTS
    NothingCrossesACut
    ControlStays
    StoresUnchanged
PROPERTIES
    ProgramTerminates
CHECK_DEADLOCK FALSE
