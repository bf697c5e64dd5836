----------------------------- MODULE MCSession --------------------------------
(* Instances of Listener and Session for TLC. *)
EXTENDS Listener
===============================================================================
