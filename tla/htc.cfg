CONSTANTS
  Prio <- MCPrio
  Packets <- MCPackets
  EpOf <- MCEpOf
  Cost <- MCCost
  Procs = {p1}
  p1 = p1
  None = None
  Total = 4
  PerMax = 1
  MaxDepth = 1
  MaxTroubles = 1
SPECIFICATION FairSpec
INVARIANTS TypeOK CreditsConserved NotStranded
PROPERTY ControlServed
CHECK_DEADLOCK FALSE
