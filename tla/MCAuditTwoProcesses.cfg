\* AppSail and the Function both write entries.
CONSTANTS
  e1 = e1 e2 = e2 e3 = e3
  appsail = appsail function = function
  Event <- Events
  Process <- Processes
  ProcOf <- TwoProcesses
  NoEvent = NoEvent
  MaxSeq = 4
SPECIFICATION Spec

PROPERTY CounterMonotonic
CHECK_DEADLOCK FALSE
