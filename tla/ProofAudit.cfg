CONSTANTS
  s1 = s1  s2 = s2  k1 = k1  k2 = k2
  t1 = t1  t2 = t2
  State <- States
  ZeroHash = ZeroHash
  Secret <- Keys
  NoSecret = NoSecret
  NoSig = NoSig
  Unwritten = Unwritten
  Tick <- Ticks
  Version <- Ticks
  Cap = 2
  MaxNonce = 3
  Stamp <- Stamps
  MaxFaults = 1
  MaxKept = 1
SPECIFICATION AuditSpec
SYMMETRY AuditSymmetry
INVARIANT RingTypeOK
INVARIANT RingHoldsTheLatest
INVARIANT SignedTrailIsGenuine
INVARIANT KeyEpoch
INVARIANT LinksShowOneFault
INVARIANT LocateIsOldest
