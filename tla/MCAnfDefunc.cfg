SPECIFICATION ConvertSpec
CONSTANTS
  Programs <- MCPrograms
  Counters <- MCCounters
INVARIANTS
  ReadsNothingMoved
  OwnedOnce
  JumpDiscipline
  BindersDistinct
  ThrowsIffIntApplied
  MatchesConvert
  PreservesMeaning
PROPERTIES
  Terminates
