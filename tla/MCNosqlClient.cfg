\* Two calls with up to two attempts each on an item under a lock and one without.
CONSTANTS
  c1 = c1 c2 = c2
  k1 = k1 k2 = k2
  v1 = v1
  Caller <- Callers
  Key <- Keys
  Locked <- LockedKeys
  Value <- Values
  Missing = Missing
  Empty = Empty
  NoCaller = NoCaller
  MaxAttempts = 2
  MaxGrants = 2
SPECIFICATION Spec
INVARIANTS TypeOK OneNeededGrant RejectedNotReused
PROPERTIES CallsEnd ImplementsItemStore
CHECK_DEADLOCK FALSE
