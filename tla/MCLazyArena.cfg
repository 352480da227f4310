CONSTANT
  Trees <- ArenaTrees
SPECIFICATION Spec
INVARIANTS
  TypeOK
  KnownIsRight
  SiblingsTogether
  PositionsRight
PROPERTIES
  CallsDeliver
  CallsReturn
