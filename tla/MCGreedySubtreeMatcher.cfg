CONSTANTS
  Trees <- MatcherTrees
  MIN_HEIGHT = 1
SPECIFICATION Spec
INVARIANTS
  TypeOK
  NoPopOnEmpty
  FrontierDisjoint
  GroupsAreClasses
  SymmetricMapping
  NothingOverlooked
  NoPairLeftOver
PROPERTIES
  RefinesSubtreeMatching
  Termination
