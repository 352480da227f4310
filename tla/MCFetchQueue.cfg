CONSTANTS
  r = r
  a = a
  b = b
  c = c
  NodeIdentifier = {r, a, b, c}
  order <- PreOrder
  path <- ThreeLevels
  Printable = {a}
  MaxFailures = 1
  MaxFlight = 2
  MaxLayouts = 1
SPECIFICATION Spec
INVARIANTS
  TypeOK
  PendingIsInFlight
PROPERTY
  ShownIsFetched
CHECK_DEADLOCK FALSE
