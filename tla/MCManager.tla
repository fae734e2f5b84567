------------------------------ MODULE MCManager ------------------------------
(* Manager, run as it is: MCManager.cfg gives the constants. *)
EXTENDS Manager
=============================================================================
