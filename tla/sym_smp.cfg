CONSTANTS
  r1 = r1  r2 = r2  r3 = r3  d1 = d1  d2 = d2  None = None
  Reqs = {r1,r2,r3}
  Drivers = {d1,d2}
  Callers = {c1}
  Procs = {p1,p2}
  Rets = {t1,t2}
  DriverOf <- MCDriverOf
  Batch = {r1}
  CbImm = {}
  CbIfSync = {r3}
  SyncDrivers = {d2}
  MuteDrivers = {}
  FaultyDrivers = {}
  RingSize = 1
  QMax = 3
  MaxOps = 3
  Smp = TRUE
SYMMETRY Symmetry
SPECIFICATION Spec
INVARIANTS IInv
CHECK_DEADLOCK FALSE
