SPECIFICATION Spec
CONSTANTS
    NTags = 3
    Args <- MCArgs
    Zero = "a"
    Asks <- MCAsks
    Bodies = {1}
    BackToBack = FALSE
    KeepSlipping = FALSE
INVARIANTS
    RequestsCaptured
    OneResponse
PROPERTIES
    ResponseHeld
    Answered
