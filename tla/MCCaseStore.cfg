\* Three requests of two officers on one case.
CONSTANTS
  r1 = r1 r2 = r2 r3 = r3
  a = a b = b
  s1 = s1 s2 = s2
  Request <- Requests
  Officer <- Officers
  Creator <- a
  Session <- Sessions
  NoRequest = NoRequest
  NoOfficer = NoOfficer
  NoSession = NoSession
SPECIFICATION Spec
INVARIANTS TypeOK BoardGoesWithCase UpdatesKept ListedHasMeta
PROPERTY CaseStaysDeleted
SYMMETRY Symmetry
CHECK_DEADLOCK FALSE
