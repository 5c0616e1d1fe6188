SPECIFICATION ApiSpec
CONSTANTS
  a = a
  b = b
  Addr <- Addrs
  Text = Text
  TopDial = 2
  DigestDials = 2
  DialLists <- Lists
  MaxVersion = 4
  MaxTick = 2
SYMMETRY AddrSymmetry
INVARIANT KeyTellsAge
INVARIANT LostDigestHasACause
PROPERTY BindIsIdempotent
