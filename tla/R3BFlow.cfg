SPECIFICATION Spec
CONSTANTS
  v1 = v1
  v2 = v2
  Values <- TwoValues
  Documents <- TwoDocuments
  Catalogue <- NoCatalogue
  YesMeans = v1
  NoMeans = v2
  Span = Span
  NoRef = NoRef
  Override = Override
  MaxDocs = 2
  Annexes <- SecondIsAnnex
  Periods <- BeforeOrFrom
  Prints <- EachItsOwn
  Spoken <- SecondValueOrOther
  MaxResets = 0
INVARIANTS
  ContextIsOfRead
PROPERTIES
  Responsive
