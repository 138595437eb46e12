SPECIFICATION AnalysisSpec
CONSTANTS
  Files = {"payslip", "photo", "huge"}
  Rejected = {"huge"}
  Sources <- MCSources
  Answers <- MCAnswers
  MaxBatches = 3
  MaxPages = 3
  ImagePages = 2
  TextPages = 3
  ThinChars = 2
  MaxText = 5
  TextLimit = 5
  LineLimit = 3
  PageLimit = 4
INVARIANTS
  PlanAccepted
  PageReadOrReported
  ComparedWhole
  
  FiguresAgree
PROPERTIES
  Settles
CHECK_DEADLOCK FALSE
