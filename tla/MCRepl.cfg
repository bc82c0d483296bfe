SPECIFICATION FairSpec
CONSTANTS
  Texts <- MCTexts
  Written <- MCWritten
  Fate <- FateOf
  Capacity = 7
  MaxInt = 20
INVARIANTS
  TokensInOrder
  ReadsTheGrammar
  RefusesOnlyNonsense
  EvaluatesWhatIsWritten
  MemoryPerInput
PROPERTY ReadsItsInput
