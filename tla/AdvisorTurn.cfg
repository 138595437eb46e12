SPECIFICATION Spec
CONSTANTS
  Values <- MCValues
  Drafts <- MCDrafts
  ToolClaims <- MCToolClaims
  DocumentClaims <- MCDocumentClaims
  MaxModelCalls = 3
  MaxToolCallsPerRound = 1
  CallTimeout = 3
  TurnDeadline = 4
  Grace = 1
  HistoryTurns = 1
  MaxGroundedClaims = 1
INVARIANTS
  BudgetKept
PROPERTIES
  PromiseKept
