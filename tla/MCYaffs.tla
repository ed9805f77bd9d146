------------------------------ MODULE MCYaffs ------------------------------
(* Small instances of Yaffs: every constant is given by the .cfg file. *)
EXTENDS Yaffs
=============================================================================
