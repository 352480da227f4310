CONSTANTS
  c1 = c1
  c2 = c2
  c3 = c3
  Conn = {c1, c2, c3}
  Backlog = 2
  MaxDocs = 3
SYMMETRY Perms
SPECIFICATION Spec
INVARIANTS
  TypeOK
  MissesOnlyOvertaken
CHECK_DEADLOCK FALSE
