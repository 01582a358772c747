SPECIFICATION Spec
CONSTANTS
    p1 = p1
    p2 = p2
    Procs = {p1, p2}
    Files = {1, 2, 3}
    Versions = {1, 2, 3}
    Manifest <- MCManifest
    Owned <- MCOwned
    Content <- MCContent
    NoFile = "none"
    Foreign = "foreign"
    User = "user"
    MaxFaults = 2
INVARIANTS
    ManifestHonest
    NoOrphans
    DurableSuccess
PROPERTIES
    Finishes
