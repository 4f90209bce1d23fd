SPECIFICATION Spec
CONSTANTS
  Local = {l1, l2}
  External = {e1}
  Proxy = {x1}
  SubId = {s1}
  Request = {r1}
  Faults = {"path", "ledger", "oracle", "cache", "send", "callback"}
  ValidateDelete = TRUE
  MaxRefs = 2
  NoSubId = NoSubId
  None = None
CHECK_DEADLOCK FALSE
SYMMETRY Alike
INVARIANTS
  TypeOK
  ForwardedIsServed
  NoneVanishes
  OwnerIsNamed
  LocalsAreDirect
  OnlyExternalsMapped
