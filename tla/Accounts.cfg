SPECIFICATION Spec
CONSTANTS
  Browsers = {b1}
  Emails = {"e1", "e2"}
  Cooldown = 1
  LinkLife = 1
  SessionLife = 1
  ShortRetention = 0
  LongRetention = 1
  Horizon = 1
  MaxLinks = 2
  MaxSessions = 1
  MaxRows = 1
  MaxRequests = 2
INVARIANTS
  LinksPerCooldown
  SignInProved
  AnalysisWhole
PROPERTIES
  ExpiredRowsGo
CHECK_DEADLOCK FALSE
