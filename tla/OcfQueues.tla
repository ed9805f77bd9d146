------------------------------ MODULE OcfQueues ------------------------------
(* What the properties say about the framework's queues. *)
EXTENDS Naturals, Sequences

Elems(q) == {q[i] : i \in DOMAIN q}
NoRepeats(q) == \A i, j \in DOMAIN q : q[i] = q[j] => i = j

=============================================================================
