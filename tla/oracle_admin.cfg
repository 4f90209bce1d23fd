SPECIFICATION Spec
CONSTANTS
  Admin = {a1, a2}
  Row = {r1, r2, r3}
  IdType = {MSISDN, EMAIL}
  Currency = {USD, EUR}
  None = None
CHECK_DEADLOCK FALSE
SYMMETRY Alike
INVARIANTS
  TypeOK
  OneActiveUnlessUnguarded
PROPERTIES
  DeletedStaysDeleted
  KeepsTable
