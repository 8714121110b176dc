SPECIFICATION Spec
CONSTANTS
  Documents <- MCDocuments
  Endings <- MCEndings
  MaxLine = 16
  MaxParts = 4
  MaxChunk = 2
  Null = Null
INVARIANTS
  NullOnlyWithoutParts PartsKept NameKept
PROPERTY
  EveryStepAdvances
