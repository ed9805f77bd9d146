------------------------------ MODULE MCOcfAsym ------------------------------
(* Small instances of OcfAsym: hw1 and hw2 are hardware drivers. *)
EXTENDS OcfAsym, TLC

CONSTANTS k1, k2, k3, hw1, hw2, p1, t1, a1

AnyHardware == {[flags |-> {"hw", "sw"}, slot |-> 0]}
SlotOrAny == AnyHardware \cup {[flags |-> {}, slot |-> 1]}

=============================================================================
