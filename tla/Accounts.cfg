SPECIFICATION Spec
CONSTANTS
  Connections = {c, d, e}
  Passwords = {p, q}
  None = None
  MaxKeys = 3
INVARIANTS TypeOK TokenIsProved
PROPERTIES AccountIsKept ImplementsService
CHECK_DEADLOCK FALSE
