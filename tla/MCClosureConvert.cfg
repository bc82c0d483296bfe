SPECIFICATION FairSpec
CONSTANT Inputs <- MCInputs
INVARIANTS
  NoDangling
  OwnedOnce
  CollectsFree
  LocalsDistinct
  MatchesReference
  PreservesMeaning
PROPERTY Terminates
