---------------------------- MODULE MCJobQueue --------------------------------
(* Instances of JobQueue for TLC. *)
EXTENDS JobQueue, TLC

(* Jobs are allocated at growing addresses. *)
Growing == [j \in Job |-> j]
===============================================================================
