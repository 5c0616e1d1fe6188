CONSTANTS
  a = a  b = b
  Id <- Ids
  IdLen <- Len1
  NoId = NoId
  Value <- Values
  Bindable <- Values4
  Incomparable <- None
  Formula <- None
  NoFormula = NoFormula
  Eval <- NoEval
  Registration <- None
  Cap = 2
  MaxLinks = 1
  MaxReads = 2
  JournalCap = 36
  MaxVersion = 3
  MaxTick = 0
  Half = 2
SPECIFICATION SnapshotSpec
SYMMETRY IdSymmetry
INVARIANT RestoresTheSaved
INVARIANT JournalTrailsRestores
