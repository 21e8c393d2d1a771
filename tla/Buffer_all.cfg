CONSTANTS
  Bytes <- SmallBytes
  Zero = 0
  kChreapPrepend = 1
  kInitialSize = 3
  ExtraSize = 2
  Chunks <- UpTo3
  MaxSize = 8
SPECIFICATION Spec
INVARIANTS
  TypeOK
PROPERTIES
  AbstractBytes
  GrowsOnlyWhenFull
