SPECIFICATION Spec
CONSTANTS
    HalfPeriod = 3
    MaxSettles = 4
    MaxEdges = 4
INVARIANTS
    TimeAgrees
    EdgesOnGrid
    HonestExit
PROPERTIES
    StepReturns
