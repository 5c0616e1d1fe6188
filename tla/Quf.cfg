CONSTANTS
  Shape <- DefaultK
  Version = {1, 2}
  Null = Null
  SizeMod = 1048576
  KvMod = 512
  CountMod = 256
  KMod = 256
  LastBlock = 17
  Garbage <- Numbers
  MaxDamage = 1
SPECIFICATION QufSpec
INVARIANT WrittenIsAccepted
INVARIANT ReaderSeesWritten
INVARIANT RowsAreInside
