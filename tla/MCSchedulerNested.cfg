SPECIFICATION Spec
CONSTANTS
    NActors = 1
    NTasks = 0
    MaxWait = 2
    Capsule = TRUE
    Sites = {"qualified", "sync"}
INVARIANTS
    NoReentry
    NoReadyLeftBehind
PROPERTIES
    WaitsInTime
    WaitersWake
