SPECIFICATION FairSpec
CONSTANT Programs <- MCPrograms
INVARIANTS
  Inv
  MapIsLexicalScope
  VariablesFollowBinder
  ThrowsIffOpen
  ResultIsAlphaRenamed
  CollisionsNeedDigits
PROPERTIES
  RenamedOnce
  Terminates
