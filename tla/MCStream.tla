------------------------------ MODULE MCStream --------------------------------
(* Instances of Stream for TLC. *)
EXTENDS Stream

(* Every packet MakeSendBuffer can complete *)
MCPackets ==
    {Packet(number, b + Header) : number \in 1 .. MaxMade, b \in {b \in ByteSizes : b + Header <= ChunkSize}}
===============================================================================
