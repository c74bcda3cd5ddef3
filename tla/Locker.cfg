CONSTANTS
  m1 = m1
  m2 = m2
  m3 = m3
  Mutex <- ThreeMutexes
  Nobody = Nobody
  TTL = 3
  RetryCounts <- SomeCounts
  Backends <- BothBackends
  MaxErrors = 1
  MaxExtends = 1
SPECIFICATION FairSpec
INVARIANTS TypeOK HeldWithinTTL
PROPERTIES ImplementsLock LockReturns
