SPECIFICATION Spec
CONSTANTS
    Half <- MCHalf
    MaxTime = 12
    MaxWait = 3
INVARIANTS
    NominalClocks
PROPERTIES
    WaitsHonoured
    WaitsExact
    FatalEnds
