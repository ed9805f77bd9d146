CONSTANTS
  k1 = k1  k2 = k2  k3 = k3  hw1 = hw1  hw2 = hw2
  p1 = p1  t1 = t1  a1 = a1  None = None
  Devs = {hw1}
  Hardware = {hw1}
  Algs = {a1}
  Kops = {k1,k2}
  Procs = {p1}
  Rets = {t1}
  CbImm = {k1}
  Crids <- AnyHardware
  Slots = 1
  AllowSoft = FALSE
  Removable = {}
  RestartDevs = {hw1}
  FaultyDevs = {hw1}
  RingSize = 1
  CountMod = 4
SPECIFICATION FairSpec
INVARIANTS NoStrandedKop
PROPERTY KopServed
CHECK_DEADLOCK FALSE
