SPECIFICATION Spec
CONSTANTS
  Oracle = {o1, o2}
  Currency = {USD}
  Request = {r1, r2}
  MaxWrites = 1
  AnyCurrency = AnyCurrency
  None = None
CHECK_DEADLOCK FALSE
SYMMETRY Alike
VIEW StateView
INVARIANTS
  TypeOK
  FoundWhereHeld
  NeverBack
