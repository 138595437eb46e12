SPECIFICATION Spec
CONSTANTS
  Uploads <- MCUploads
  Read <- MCRead
  Types <- MCTypes
  AnnexDates = {1}
  AsOfDates = {1, 3}
  Today = 1
  Entered = {200}
  MaxMoves = 3
  MaxChoices = 2
  MaxDisputed = 1
  ValueLimit = 100
INVARIANTS
  ShownForDate
  DecisionOnSeenEvidence
  CalculatorFollows
PROPERTIES
  DecisionsSurvive
  Settles
CHECK_DEADLOCK FALSE
