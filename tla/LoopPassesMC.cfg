SPECIFICATION Spec
CONSTANTS
    W = 4
    Top = 8
    Shift = 4
    Reg = {1, 2, 3, 4, 5, 6, 7, 8}
    NoReg = 0
    Label = {1, 2, 3, 4, 5}
    Late = {4, 5}
    NoLabel = 0
    FloatAdd <- Zero
    FloatMul <- Zero
    And <- Zero
    NonFinite = {}
    Inputs <- MCInputs
    Starts <- MCStarts
    MaxStores = 6
    BodyLength = 2
    Strict = TRUE
    Fma = FALSE
    Passes = {"loop-invariant-code-motion", "load-hoisting", "loop-unrolling",
              "block-simplification"}
INVARIANTS NoNewLoads TargetsDefined
PROPERTIES KeepsItsStores
CHECK_DEADLOCK FALSE
