------------------------------- MODULE Packets --------------------------------
(***************************************************************************)
(* The bytes of packets, shared by the models of the sending and of the    *)
(* receiving side.  A byte is the triple of its packet's number, the size  *)
(* field of that packet's header and the byte's place in the packet, so    *)
(* the models see where every byte ends up.                                *)
(***************************************************************************)
EXTENDS Naturals, Sequences

CONSTANTS
    Header,  \* sizeof(PacketHeader), 4
    Word     \* 2^16, the values of the uint16 header.size

ASSUME PacketsAssumption == Header \in Nat \ {0} /\ Word \in Nat /\ Header < Word

Byte == Nat \X (0 .. Word - 1) \X Nat

(* A whole packet as MakeSendBuffer lays it out, the header's size included. *)
Packet(number, size) == [i \in 1 .. size |-> <<number, size, i - 1>>]

Garbage == <<0, 0, 0>>

(* header.size read at a byte; what begins no packet reads as some value. *)
SizeField(byte) == IF byte[1] # 0 /\ byte[3] = 0 THEN byte[2] ELSE Header
===============================================================================
