CONSTANTS
  Files = {1}
  Names = {"a"}
  NBlocks = 4
  Cpb = 2
  MaxChunk = 3
  Reserved = 2
  SmallHole = 2
  GcCopies = 1
  NCaches = 0
  Ops = {"create","write","resize","unlink"}
  MaxOps = 6
  MaxBg = 1
  MaxCrashes = 1
SPECIFICATION Spec
INVARIANTS TypeOK MemoryMatchesFlash RefsMatch OldestExact ReserveSuffices
PROPERTY ImplementsStore
CHECK_DEADLOCK FALSE
