\* All calls in one process.
CONSTANTS
  e1 = e1 e2 = e2 e3 = e3
  appsail = appsail function = function
  Event <- Events
  Process <- Processes
  ProcOf <- OneProcess
  NoEvent = NoEvent
  MaxSeq = 4
SPECIFICATION Spec
INVARIANTS TypeOK ChainIntact AcknowledgedKept NoFalseAlarm
PROPERTIES CallsEnd ImplementsAuditLog
CHECK_DEADLOCK FALSE
