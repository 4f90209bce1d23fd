SPECIFICATION Spec
CONSTANTS
  Local = {l1, l2}
  External = {e1}
  Proxy = {x1}
  SubId = {s1}
  Request = {r1}
  Faults = {}
  ValidateDelete = FALSE
  MaxRefs = 2
  NoSubId = NoSubId
  None = None
CHECK_DEADLOCK FALSE
INVARIANT
  ProxiedIsAccepted
