------------------------------- MODULE MCHtc --------------------------------
(***************************************************************************)
(* TLC instances of Htc: packets named by their endpoint.                  *)
(***************************************************************************)
EXTENDS Htc

MCPrio == <<"ctl", "vi", "bk">>
MCPackets == {"c1", "v1", "b1"}
MCEpOf == [x \in MCPackets |-> CASE x \in {"c1", "c2"} -> "ctl"
                                 [] x = "v1" -> "vi"
                                 [] OTHER -> "bk"]
MCCost == [x \in MCPackets |-> 1]
=============================================================================
