---------------------------- MODULE MCOcfSession ----------------------------
(* Small instances of OcfSession: s1 has the requests q1 and q2, s2 the      *)
(* request q3; hw1 and hw2 are hardware drivers, sw is cryptosoft.          *)
EXTENDS OcfSession, TLC

CONSTANTS s1, s2, q1, q2, q3, hw1, hw2, sw, a1, a2

MCSessionOf == [r \in Reqs |-> IF r = q3 THEN s2 ELSE s1]
AnyKind == {[flags |-> {"hw", "sw"}, slot |-> 0]}
SomeCrids == AnyKind \cup {[flags |-> {"sw"}, slot |-> 0],
                          [flags |-> {}, slot |-> 0]}
NoFailure == {}
OpenFails == Sessions \X (Devs \ Removable)
MCProvides == [d \in Devs |-> Algs]

=============================================================================
