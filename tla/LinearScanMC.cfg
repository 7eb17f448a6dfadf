SPECIFICATION Spec
CONSTANTS
    MaxGpr = 5
    NumIntervals = 5
    PairsFrom = 1
    Inputs <- MCInputs
INVARIANTS
    TypeOK
    SafeUntilFallback
    Conserved
    PairsAligned
    UnmappedOnlyWhenFull
CHECK_DEADLOCK FALSE
