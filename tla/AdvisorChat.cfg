SPECIFICATION Spec
CONSTANTS
  MaxSends = 2
  MaxFiles = 2
  MaxResets = 1
  MaxRecords = 3
INVARIANTS
  ThreadIsConversation
  ContextCoversRead
PROPERTIES
  Responsive
CHECK_DEADLOCK FALSE
