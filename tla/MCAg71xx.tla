------------------------------ MODULE MCAg71xx ------------------------------
(***************************************************************************)
(* TLC instances of Ag71xx: the cfg files give every constant.             *)
(***************************************************************************)
EXTENDS Ag71xx
=============================================================================
