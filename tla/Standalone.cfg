CONSTANTS
  c1 = c1  c2 = c2  h1 = h1
  Code <- Codes
  Hint <- Hints
  Bytes <- MCBytes
  NoCode = NoCode
  NoHash = NoHash
  Predict <- MCPredict
  Observed <- MCObserved
  Tolerance <- MCTolerance
  MinTextCap = 2
  MaxParts = 4
  x = x  y = y
  Data <- Series
  Covariate <- OneCovariate
  MaxLen = 3
  MaxVariates = 2
  MaxHorizon = 2
  MinCap = 1
  MallocFails = TRUE
  ZeroHash = ZeroHash
  Null = Null
  MaxCount = 3
  MaxEvents = 4
  MaxPapers = 3
  MaxNumber = 2
  Paper <- MCPapers
  Start <- MCStart
  MaxDepth = 3
  Lost = Lost
SPECIFICATION StandaloneSpec
SYMMETRY DataSymmetry
INVARIANT WorldTypeOK
INVARIANT ChainFollowsTexts
INVARIANT VerdictIsAboutTheText
INVARIANT NeverStale
INVARIANT BufferIsLargeEnough
INVARIANT ReadsAreTheForecast
INVARIANT PreferredIsMostRecorded
INVARIANT NavigateIsBFS
INVARIANT HashIgnoresOrder
