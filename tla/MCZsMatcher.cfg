CONSTANTS
  Trees <- ZsTrees
  UNIT <- Thirds
  LabelDist <- MCLabelDist
SPECIFICATION Spec
INVARIANTS
  TypeOK
  LedgerBalanced
  MappingOptimal
PROPERTY Termination
