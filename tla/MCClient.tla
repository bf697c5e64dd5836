------------------------------ MODULE MCClient --------------------------------
(* Instances of Client for TLC. *)
EXTENDS Client
===============================================================================
