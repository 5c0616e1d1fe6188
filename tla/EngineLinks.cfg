CONSTANTS
  a = a  b = b  c = c  d = d
  Id <- Ids
  IdLen <- Len1
  NoId = NoId
  Value <- Zero
  Incomparable <- None
  Formula <- None
  NoFormula = NoFormula
  Eval <- NoEval
  Registration <- None
  Cap = 4
  MaxLinks = 1
  MaxReads = 2
  JournalCap = 0
  MaxVersion = 1
  MaxTick = 0
SPECIFICATION LinksWindowSpec
INVARIANT Acyclic
INVARIANT StackLeavesNoResidue
PROPERTY StackIsFabric
SYMMETRY IdSymmetry
