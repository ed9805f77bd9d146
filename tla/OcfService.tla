----------------------------- MODULE OcfService -----------------------------
(***************************************************************************)
(* What the symmetric side of the OCF framework promises its clients: a    *)
(* request is refused, when too many are outstanding, or it is accepted,   *)
(* processed, and handed back by one call of its callback.                 *)
(***************************************************************************)
EXTENDS Integers, FiniteSets

CONSTANTS Reqs, QMax

VARIABLE status

Outstanding == {r \in Reqs : status[r] = "outstanding"}

Init == status = [r \in Reqs |-> "idle"]

Move(r, from, to) == status[r] = from /\ status' = [status EXCEPT ![r] = to]

Submit(r)  == Cardinality(Outstanding) < QMax /\ Move(r, "idle", "outstanding")
Complete(r) == Move(r, "outstanding", "processed")
HandBack(r) == Move(r, "processed", "idle")

Next == \E r \in Reqs : Submit(r) \/ Complete(r) \/ HandBack(r)

Spec == Init /\ [][Next]_status

=============================================================================
