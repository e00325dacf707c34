CONSTANTS
  f1 = f1
  f2 = f2
  x1 = x1
  x2 = x2
  Fir <- MCFir
  Plan <- DefaultPlan
  Exclusion <- MCExclusion
  About <- MCAbout
  Recency <- MCRecency
  Scanned <- MCScanned
  Trust <- MCTrust
  TurnsMax = 2
  RetrievalsMax = 1
  PenaltiesMax = 1
SPECIFICATION Spec
PROPERTIES ContextKept
CHECK_DEADLOCK FALSE
