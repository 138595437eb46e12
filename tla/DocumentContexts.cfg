SPECIFICATION Spec
CONSTANTS
  Browsers = {b1}
  Slots = {q1}
  TTL = 2
  Latency = 1
  MaxTime = 5
  MaxRefs = 3
  MaxSessions = 2
INVARIANTS
  ContextProvenance
  ReadingAge
