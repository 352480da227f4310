CONSTANTS
  c1 = c1
  c2 = c2
  c3 = c3
  Conn = {c1, c2, c3}
  Settings <- SmallSettings
  Room = 1
SPECIFICATION Spec
INVARIANTS
  TypeOK
  StopsInSync
PROPERTIES
  ComesToRest
CHECK_DEADLOCK FALSE
