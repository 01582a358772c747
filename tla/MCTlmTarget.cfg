SPECIFICATION Spec
CONSTANTS
    Args = {a, b}
    MaxBody = 2
    BackToBack = FALSE
INVARIANTS
    RequestsCaptured
    OneResponse
PROPERTIES
    ResponseHeld
    Answered
