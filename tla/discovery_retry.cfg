SPECIFICATION Spec
CONSTANTS
  Dfsp = {d1}
  Proxy = {p1, p2}
  Lookup = {l1, l2}
  SourceOf <- SameRequester
  Faults = {}
  None = None
CHECK_DEADLOCK FALSE
SYMMETRY ProxySymmetry
INVARIANTS
  PendingIsOutstanding
  FailureLeavesNoEntry
