SPECIFICATION Spec
CONSTANTS
    NActors = 1
    NTasks = 1
    MaxWait = 2
    Capsule = FALSE
    Sites = {"checker", "post_eval"}
INVARIANTS
    NoReadyLeftBehind
PROPERTIES
    Quantum
    WaitsInTime
