\* Signals took the event, but the post of the dispatcher timed out.
CONSTANTS
  j1 = j1
  d1 = d1 d2 = d2 d3 = d3
  inline = inline
  Job <- OneJob
  Delivery <- Deliveries
  JobOf <- OfOneJob
  Inline = inline
  NoJob = NoJob
  NoRun = NoRun
  Stages = 2
  HistoryMax = 2
  SignalsConfigured = TRUE
  AmbiguousPost = TRUE
  OverlappingDelivery = FALSE
SPECIFICATION Spec
INVARIANT WorkOnce
CHECK_DEADLOCK FALSE
