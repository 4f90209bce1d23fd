SPECIFICATION Spec
CONSTANTS
  Admin = {a1}
  Row = {r1, r2}
  IdType = {MSISDN, EMAIL}
  Currency = {USD}
  None = None
CHECK_DEADLOCK FALSE
INVARIANT
  OneActiveOracle
