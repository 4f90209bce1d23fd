SPECIFICATION Spec
CONSTANTS
  Party = {p1, p2, p3, p4}
  IdType = {MSISDN, EMAIL}
  Batch = {b1}
  Faults = {"ledger", "oracle", "partial", "callback"}
  Foreign = Foreign
  BadType = BadType
CHECK_DEADLOCK FALSE
SYMMETRY Alike
INVARIANTS
  TypeOK
  ListIsTrue
  OnlyOwnStored
