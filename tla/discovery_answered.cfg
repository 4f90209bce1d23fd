SPECIFICATION FairSpec
CONSTANTS
  Dfsp = {d1}
  Proxy = {p1, p2, p3}
  Lookup = {l1}
  SourceOf <- SameRequester
  Faults = {"list"}
  None = None
CHECK_DEADLOCK FALSE
PROPERTY
  DiscoveryIsAnswered
