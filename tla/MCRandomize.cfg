SPECIFICATION Spec
CONSTANTS
  Fields <- MCFields
  Values <- MCValues
  Unique <- MCUnique
  Sites <- MCSites
INVARIANTS
  SolveContract
  MinimalRepeat
  HonestHits
PROPERTIES
  Steered
