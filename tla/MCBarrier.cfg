SPECIFICATION Spec
CONSTANTS
    Threads = {t1, t2, t3}
    GenMod = 2
    MaxRounds = 4
PROPERTY
    AbstractSpec
