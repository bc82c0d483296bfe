SPECIFICATION Spec
CONSTANT Inputs <- MCInputs
INVARIANTS
  NoDangling
  OwnedOnce
  BlocksAreFlat
  MatchesReference
  PreservesMeaning
