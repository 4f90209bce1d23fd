SPECIFICATION Spec
CONSTANTS
  Dfsp = {d1, d2}
  SubId = {s1}
  Request = {r1, r2}
  Faults = {"path", "type", "ledger", "oracle", "callback"}
  ValidateDelete = TRUE
  NoSubId = NoSubId
  None = None
CHECK_DEADLOCK FALSE
SYMMETRY Alike
INVARIANTS
  TypeOK
  OneVerdict
  VerdictIsTrue
  RequesterHears
PROPERTIES
  DeletionIsValidated
  KeepsRegistry
