SPECIFICATION Spec
CONSTANTS
  Dfsp = {d1}
  Proxy = {p1, p2, p3}
  Lookup = {l1}
  SourceOf <- SameRequester
  Faults = {"send", "oracle", "proxymap", "callback"}
  None = None
CHECK_DEADLOCK FALSE
SYMMETRY ProxySymmetry
INVARIANTS
  TypeOK
  PendingIsOutstanding
  LastErrorIsFinal
  StrayErrorHasCause
  OneErrorCallback
  DiscoveryIsPursued
PROPERTIES
  KeepsVerdict
  ErrorMeansListEmpty
