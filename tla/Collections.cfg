CONSTANTS
  p = p  q = q  r3 = r3  u = u  v = v
  Writer <- Writers
  Value <- Values
  RegMax = 2
  MaxClock = 2
  MaxWrites = 4
  MaxPosted = 1
  Replica <- Replicas
  Elem <- Elems
  SetMax = 2
  MallocFails = TRUE
  MaxMail = 2
SPECIFICATION CollectionsSpec
SYMMETRY CollectionsSymmetry
INVARIANT HoldsTheLatest
INVARIANT OwnLatestSurvives
INVARIANT HoldsTheSeen
