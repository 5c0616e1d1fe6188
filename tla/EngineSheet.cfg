CONSTANTS
  a = a  b = b  c = c  nan = nan
  Id <- Ids
  IdLen <- Len1
  NoId = NoId
  Value <- BitsAndNaN
  Incomparable <- NaN
  Formula <- Not
  NoFormula = NoFormula
  Eval <- MCEval
  Registration <- Chain
  Cap = 3
  MaxLinks = 1
  MaxReads = 2
  JournalCap = 0
  MaxVersion = 3
  MaxTick = 3
SPECIFICATION SheetSpec
INVARIANT UniqueIds
INVARIANT SettlesInTime
PROPERTY ImplementsStore
