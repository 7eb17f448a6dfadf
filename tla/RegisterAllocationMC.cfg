CONSTANTS
    Reg = {1, 2, 3, 4}
    NoReg = NoReg
    Label = {"A", "B"}
    NoLabel = NoLabel
    W = 1
    NonFinite = {}
    FloatAdd <- Zero
    FloatMul <- Zero
    And <- Zero
    Pairs = {4}
    MaxGpr = 5
    Length = 4
    Layouts = TRUE
    Kernels <- MCKernels
    Inputs <- MCInputs
SPECIFICATION RaSpec
INVARIANTS
    OnlyDeadRemoved
    RangesCover
    ReadsReach
CHECK_DEADLOCK FALSE
