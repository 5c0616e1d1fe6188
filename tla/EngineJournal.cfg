CONSTANTS
  a = a  b = b
  Id <- Ids
  IdLen <- Len1
  NoId = NoId
  Value <- Bits
  Incomparable <- None
  Formula <- Sum
  NoFormula = NoFormula
  Eval <- MCEval
  Registration <- SelfReading
  Cap = 2
  MaxLinks = 1
  MaxReads = 2
  JournalCap = 60
  MaxVersion = 2
  MaxTick = 1
SPECIFICATION Spec
INVARIANT TypeOK
INVARIANT JournalReplays
