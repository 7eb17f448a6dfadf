CONSTANTS
    Reg = {1}
    NoReg = NoReg
    Label = {"A", "B"}
    NoLabel = NoLabel
    W = 1
    NonFinite = {}
    FloatAdd <- Zero
    FloatMul <- Zero
    And <- Zero
    Length = 6
    Short = 3
    Inputs <- MCInputs
SPECIFICATION FairSpec
INVARIANTS
    EdgesMatchExecution
    DominatorsCorrect
    LoopsCorrect
PROPERTIES
    Terminates
CHECK_DEADLOCK FALSE
