SPECIFICATION ConvertSpec
CONSTANTS
  Programs <- TmpPrograms
  Counters <- TmpCounters
INVARIANT BindersDistinct
