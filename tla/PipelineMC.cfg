CONSTANT
    Levels = {"0", "2", "3"}
SPECIFICATION Spec
INVARIANTS
    NeverReadsStale
    FinalFacts
    MappingMatches
CHECK_DEADLOCK FALSE
