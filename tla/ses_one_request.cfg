CONSTANTS
  s1 = s1  s2 = s2  q1 = q1  q2 = q2  q3 = q3  None = None
  hw1 = hw1  hw2 = hw2  sw = sw  a1 = a1  a2 = a2
  Devs = {hw1,sw}
  Hardware = {hw1}
  Resident = {sw}
  Algs = {a1}
  Sessions = {s1,s2}
  Reqs = {q1,q3}
  SessionOf <- MCSessionOf
  Wanted = {a1}
  Crids <- SomeCrids
  Provides <- MCProvides
  Removable = {hw1}
  Failing <- OpenFails
  Following = {s1,s2}
  InitialSlots = 2
  MaxSlots = 2
  MaxLids = 3
SPECIFICATION Spec
INVARIANTS TypeOK SessionCount  CleanupEnds 
CHECK_DEADLOCK FALSE
