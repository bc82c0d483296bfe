SPECIFICATION Spec
CONSTANTS
  Nodes <- MCNodes
  Null <- NoNode
  Trees <- MCTrees
CHECK_DEADLOCK FALSE
INVARIANTS
  DestroyedOnce
  NestingBounded
