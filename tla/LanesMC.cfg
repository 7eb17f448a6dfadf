SPECIFICATION Spec
CONSTANTS
    W = 64
    Reg = {1, 2, 3, 4, 5, 6, 7, 8, 9, 10}
    NoReg = 0
    Label = {1, 2, 3, 4}
    NoLabel = 0
    FloatAdd <- Plus
    FloatMul <- Times
    And <- Or
    NonFinite = {}
    Wide = {8, 9}
    Predicates = {5, 6}
    TempBase = 13
    Gprs = {0, 1, 2, 3, 4, 5, 6, 7, 8, 9, 10, 11, 12, 13, 14, 15}
    GmemSize = 7
    Blocks = 2
    Threads = 3
    WarpSize = 2
    Kernels <- MCKernels
    Memory <- MCMemory
    RegionLength = 2
    Strict = TRUE
INVARIANTS BranchesAgree DecodesToWhatWasMeant
PROPERTIES KeepsEachLanesStores
CHECK_DEADLOCK FALSE
