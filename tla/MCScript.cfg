CONSTANT
  Inputs <- ScriptInputs
SPECIFICATION Spec
INVARIANTS
  TypeOK
  MidIsAForest
  VisitedSettled
  FailsOnlyIfIllMatched
  MidBecomesDst
  MovesOnce
  ReplayFollowsMid
PROPERTIES
  DeletesLeaves
  Termination
