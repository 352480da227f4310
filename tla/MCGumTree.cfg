CONSTANTS
  Trees <- GumTreeTrees
  MIN_HEIGHT = 1
  SIZE_THRESHOLD = 5
  SIM_THRESHOLD_NUM = 1
  SIM_THRESHOLD_DEN = 2
  UNIT <- Half
  LabelDist <- MCLabelDist
SPECIFICATION GumTreeSpec
INVARIANTS
  GumTreeTypeOK
  TypesAgree
  LostToAncestors
PROPERTY
  PairsKept
