CONSTANTS
  Files = {1,2}
  Names = {"a","b"}
  NBlocks = 4
  Cpb = 3
  MaxChunk = 1
  Reserved = 2
  SmallHole = 2
  GcCopies = 1
  NCaches = 1
  Ops = {"create","write","fsync","rename","unlink","attr"}
  MaxOps = 5
  MaxBg = 1
  MaxCrashes = 0
SPECIFICATION FairSpec
PROPERTIES ImplementsStore LockReleased
CHECK_DEADLOCK FALSE
