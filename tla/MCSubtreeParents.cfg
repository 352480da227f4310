CONSTANTS
  Trees <- MatcherTrees
  MIN_HEIGHT = 1
SPECIFICATION Spec
INVARIANT ParentsExist
