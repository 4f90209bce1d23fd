SPECIFICATION FairSpec
CONSTANTS
  i1 = i1
  i2 = i2
  t1 = t1
  t2 = t2
  t3 = t3
  None = None
  Instance = {i1, i2}
  Tick = {t1, t2, t3}
  HostOf <- TwoHosts
  Entry = {e1, e2}
  LockEnabled = TRUE
  Disturbances = {"ttl", "stop", "crash", "callback", "lock", "cache"}
CHECK_DEADLOCK FALSE
INVARIANTS
  TypeOK
  OneCallbackPerEntry
  OneTickAtWork
  RunningHasTick
PROPERTIES
  ExpiredIsRemoved
  IsRunningIsReset
  KeepsWorker
