SPECIFICATION Spec
CONSTANTS
  Keys = {k1}
  Slots = {q1, q2, q3}
  Limit = 2
  Window = 2
  OnUnknown = "deny"
  MaxCount = 3
  MaxTime = 5
INVARIANTS
  BurstBound
PROPERTIES
  DeniedOnlyWhenFull
