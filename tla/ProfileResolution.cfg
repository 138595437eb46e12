SPECIFICATION Resolutions
CONSTANTS
  Readings <- MCReadings
  ResolveDates = {1, 3, 5}
  MaxDocuments = 3
  MaxDisputed = 2
  ValueLimit = 100
INVARIANTS
  RateIsInForce
  OrderIrrelevant
  EvidenceAccounted
PROPERTIES
  PayslipNeverReplaces
CHECK_DEADLOCK FALSE
