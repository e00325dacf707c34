\* The post may be sent again; the event of the first job is redelivered.
CONSTANTS
  j1 = j1 j2 = j2
  d1 = d1 d2 = d2 d3 = d3
  inline = inline
  Job <- Jobs
  Delivery <- Deliveries
  JobOf <- OfJobs
  Inline = inline
  NoJob = NoJob
  NoRun = NoRun
  Stages = 1
  HistoryMax = 2
  SignalsConfigured = TRUE
  AmbiguousPost = FALSE
  OverlappingDelivery = FALSE
  PollMax = 2
SPECIFICATION ClientSpec
INVARIANTS ClientTypeOK WorkOnce
PROPERTIES ShownIsStored TurnsKept JobSettles ClientSettles
CHECK_DEADLOCK FALSE
