CONSTANTS
  k1 = k1  k2 = k2  k3 = k3  hw1 = hw1  hw2 = hw2
  p1 = p1  t1 = t1  a1 = a1  None = None
  Devs = {hw1,hw2}
  Hardware = {hw1,hw2}
  Algs = {a1}
  Kops = {k1,k2}
  Procs = {p1}
  Rets = {t1}
  CbImm = {k1}
  Crids <- SlotOrAny
  Slots = 2
  AllowSoft = FALSE
  Removable = {hw1}
  RestartDevs = {hw2}
  FaultyDevs = {}
  RingSize = 1
  CountMod = 3
SPECIFICATION Spec
INVARIANTS TypeOK KopNeverLost KopOneOwner KopCleanupEnds
CHECK_DEADLOCK FALSE
