CONSTANTS
  r1 = r1  r2 = r2  r3 = r3  d1 = d1  d2 = d2  None = None
  Reqs = {r1,r2,r3}
  Drivers = {d1}
  Callers = {c1,c2}
  Procs = {p1}
  Rets = {t1}
  DriverOf <- MCDriverOf
  Batch = {r3}
  CbImm = {r2}
  CbIfSync = {}
  SyncDrivers = {}
  MuteDrivers = {}
  FaultyDrivers = {d1}
  RingSize = 1
  QMax = 2
  MaxOps = 3
  Smp = FALSE
SYMMETRY Symmetry
SPECIFICATION Spec
INVARIANTS TypeOK NeverLost DoneOnce OneOwner OutstandingCount NoStrandedWork NoStrandedReturn
PROPERTY ImplementsService
CHECK_DEADLOCK FALSE
