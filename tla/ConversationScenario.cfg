SPECIFICATION Spec
CONSTANTS
  v1 = v1
  v2 = v2
  v3 = v3
  d1 = d1
  d2 = d2
  Values <- MCValues
  Documents <- MCDocuments
  Catalogue <- MCCatalogue
  YesMeans = v1
  NoMeans = v2
  Span = Span
  NoRef = NoRef
  Override = Override
SYMMETRY MCSymmetry
INVARIANTS
  DecisionStands
  UserValuesWereStated
PROPERTIES
  StatementSurvivesTurn
CHECK_DEADLOCK FALSE
