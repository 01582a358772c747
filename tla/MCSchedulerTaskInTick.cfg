SPECIFICATION Spec
CONSTANTS
    NActors = 0
    NTasks = 1
    MaxWait = 1
    Capsule = FALSE
    Sites = {"sync", "checker"}
PROPERTIES
    Quantum
