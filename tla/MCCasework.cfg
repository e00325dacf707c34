\* Three requests on two AppSail instances.
CONSTANTS
  r1 = r1 r2 = r2 r3 = r3
  Request <- Requests
  Home <- Homes
  PushAttempts = 2
  RateLimit = 1
  MinSamples = 1
  PriorStrength = 1
SPECIFICATION MCSpec
INVARIANTS TypeOK AcknowledgedListed ListedRecorded RateCapped
PROPERTIES EntriesKept TrustFollows
SYMMETRY Symmetry
CHECK_DEADLOCK FALSE
