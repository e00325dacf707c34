\* Every key fits in the registry.
CONSTANTS
  t1 = t1 t2 = t2 t3 = t3
  k1 = k1 k2 = k2 k3 = k3
  o1 = o1 o2 = o2 o3 = o3 o4 = o4
  Task <- Tasks
  Key <- TwoKeys
  LockObj = {o1, o2, o3}
  LocksMax = 2
  NoLock = NoLock
  NoKey = NoKey
  NoTask = NoTask
SPECIFICATION Spec
INVARIANTS TypeOK MutualExclusion
PROPERTIES WaiterEnters ImplementsKeyedMutex
