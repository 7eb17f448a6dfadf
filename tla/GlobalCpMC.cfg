CONSTANTS
    Reg = {1, 2}
    NoReg = NoReg
    Label = {"A", "B"}
    NoLabel = NoLabel
    W = 4
    NonFinite = {3}
    FloatAdd <- MCFloatAdd
    FloatMul <- MCFloatMul
    And <- MCAnd
    MaxRounds = 20
    Length = 4
    Unseen = {}
    Inputs <- MCInputs
    Starts <- MCStarts
SPECIFICATION Spec
INVARIANTS
    EntryConstantsHold
    SameState
    Converged
CHECK_DEADLOCK FALSE
