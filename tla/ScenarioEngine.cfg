SPECIFICATION DialogueSpec
CONSTANTS
  Rates <- MCRates
  TaxTolerance = 50
  BtTolerance = 10
  MeaningfulBase = 1000
  TicksPerHour = 4
  Stipp <- MCStipp
  PawwPerMille = 1
  SectorPremium <- MCSectorPremium
  MaxVariantRuns = 16
  AbsoluteSwing = 500
  Starts <- MCStarts
  UserNodes <- MCUserNodes
  HourSplits <- MCHourSplits
  Edits <- MCEdits
  MaxEdits = 1
INVARIANTS
  ReadyIsComputable
  HoursPriced
  RangeCovers
  AssumptionsDisclosed
PROPERTY
  Settles
CHECK_DEADLOCK FALSE
