CONSTANT
  Trees <- ArenaTrees
SPECIFICATION Spec
INVARIANT
  EndAssertHolds
