------------------------------ MODULE MCOcfSym ------------------------------
(* Small instances of OcfSym.  Requests r1 and r2 belong to sessions of     *)
(* driver d1 and r3 to a session of driver d2.                              *)
EXTENDS OcfSym, TLC

CONSTANTS r1, r2, r3, d1, d2

MCDriverOf == [r \in Reqs |-> IF r = r3 /\ d2 \in Drivers THEN d2 ELSE d1]

Symmetry == Permutations(Procs) \cup Permutations(Callers)
            \cup Permutations(Rets)

=============================================================================
