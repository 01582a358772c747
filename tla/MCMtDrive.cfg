SPECIFICATION Spec
CONSTANTS
    Main = main
    Workers = {w1, w2}
    Qualified = TRUE
    MaxCycles = 3
INVARIANTS
    MainApart
    ActorsKeepPace
PROPERTIES
    RunCompletes
