CONSTANTS
    Reg = {1, 2, 3, 4}
    NoReg = NoReg
    Label = {"L"}
    NoLabel = NoLabel
    W = 4
    NonFinite = {3}
    FloatAdd <- MCFloatAdd
    FloatMul <- MCFloatMul
    And <- MCAnd
    Length = 4
    Strict = TRUE
    Passes = {"dre", "cse", "fold", "reuse"}
    Inputs <- AdmissibleInputs
    Starts <- MCStarts
    Arrivals <- MCArrivals
SPECIFICATION Spec
INVARIANTS
    ReadsSameValues
    AgreeWhereControlMeets
    FactsHold
    SameEffects
CHECK_DEADLOCK FALSE
