SPECIFICATION ReviewSpec
CONSTANTS
  Rates <- MCRates
  TaxTolerance = 50
  BtTolerance = 10
  MeaningfulBase = 1000
  Documents <- MCDocuments
  Readings <- MCReadings
  MaxCorrections = 2
INVARIANTS
  NoFalseAlarm
  UnreadStaysOpen
CHECK_DEADLOCK FALSE
