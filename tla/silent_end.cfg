SPECIFICATION Spec
CONSTANTS
  Dfsp = {d1}
  Proxy = {p1, p2}
  Lookup = {l1}
  SourceOf <- SameRequester
  Faults = {"send"}
  None = None
CHECK_DEADLOCK FALSE
INVARIANT
  NoSilentEnd
