--------------------------- MODULE RecvBufferProofs ---------------------------
(***************************************************************************)
(* Proofs about RecvBuffer for every buffer size, number of parts (at      *)
(* least three) and stream of packets.                                     *)
(***************************************************************************)
EXTENDS RecvBuffer, TLAPS

LEMMA CapacityBound == BufferSize \in Nat /\ capacity \in Nat /\ capacity >= 3 * BufferSize
<1>1. \A b, c \in Nat : c >= 3 => b * c \in Nat /\ b * c >= 3 * b
  BY Z3
<1> QED
  BY <1>1, RecvBufferAssumption DEF capacity

(* What OnRecv leaves is less than one packet, so less than _bufferSize. *)
SpaceInv ==
    /\ TypeOK
    /\ RoomToReceive
    /\ pc = "parsing" => processLen <= DataSize

LEMMA HeaderSizeBound ==
    ASSUME TypeOK, readPos + processLen < writePos
    PROVE  HeaderSize \in Nat /\ HeaderSize < BufferSize
<1>1. readPos + processLen \in 0 .. capacity - 1
  BY CapacityBound DEF TypeOK
<1>2. buffer[readPos + processLen] \in Byte
  BY <1>1 DEF TypeOK
<1>3. \A byte \in Byte : SizeField(byte) \in Nat /\ SizeField(byte) < BufferSize
  BY PacketsAssumption, RecvBufferAssumption DEF Byte, SizeField
<1> QED
  BY <1>2, <1>3 DEF HeaderSize

LEMMA SpaceInit == Init => SpaceInv
<1>1. Garbage \in Byte
  BY PacketsAssumption DEF Garbage, Byte
<1> QED
  BY <1>1, CapacityBound DEF Init, SpaceInv, TypeOK, RoomToReceive, FreeSize, DataSize

(* The rest after the loop: OnRecvEnd keeps less than _bufferSize bytes. *)
LEMMA RestBound ==
    ASSUME SpaceInv, pc = "parsing", ~Complete
    PROVE  DataSize - processLen < BufferSize
<1>1. CASE DataSize - processLen < Header
  BY <1>1, PacketsAssumption, RecvBufferAssumption, CapacityBound DEF SpaceInv, TypeOK, DataSize
<1>2. CASE DataSize - processLen >= Header
  <2>1. readPos + processLen < writePos
    BY <1>2, PacketsAssumption, CapacityBound DEF SpaceInv, TypeOK, DataSize
  <2> QED
    BY <1>2, <2>1, HeaderSizeBound, CapacityBound DEF SpaceInv, TypeOK, Complete, DataSize
<1> QED
  BY <1>1, <1>2, PacketsAssumption, CapacityBound DEF SpaceInv, TypeOK, DataSize

LEMMA SpaceNext == SpaceInv /\ [Next]_vars => SpaceInv'
<1> SUFFICES ASSUME SpaceInv, [Next]_vars PROVE SpaceInv'
  OBVIOUS
<1> USE CapacityBound DEF SpaceInv, TypeOK, RoomToReceive, FreeSize, DataSize
<1>1. CASE UNCHANGED vars
  BY <1>1 DEF vars
<1>2. ASSUME NEW packet \in PeerPackets, PeerSend(packet) PROVE SpaceInv'
  <2>1. packet \in Seq(Byte)
    BY RecvBufferAssumption
  <2> QED
    BY <1>2, <2>1 DEF PeerSend
<1>3. ASSUME NEW n \in 0 .. capacity, ProcessRecv(n) PROVE SpaceInv'
  <2>1. n # 0 /\ n <= Len(flight) /\ n <= capacity - writePos /\ pc = "waiting"
    BY <1>3, PacketsAssumption, RecvBufferAssumption DEF ProcessRecv
  <2>2. flight' \in Seq(Byte)
    BY <1>3, <2>1 DEF ProcessRecv
  <2>3. buffer' \in [0 .. capacity - 1 -> Byte]
    <3>1. \A i \in 0 .. capacity - 1 : i \in writePos .. writePos + n - 1 => flight[i - writePos + 1] \in Byte
      BY <2>1
    <3> QED
      BY <1>3, <3>1 DEF ProcessRecv
  <2> QED
    BY <1>3, <2>1, <2>2, <2>3 DEF ProcessRecv
<1>4. CASE OnRecvPacket
  <2>1. readPos + processLen < writePos
    BY <1>4, PacketsAssumption DEF OnRecvPacket, Complete
  <2>2. HeaderSize \in Nat
    BY <2>1, HeaderSizeBound
  <2> QED
    BY <1>4, <2>2 DEF OnRecvPacket, Complete
<1>5. CASE OnRecvEnd
  <2> DEFINE read == readPos + processLen
  <2>1. pc = "parsing" /\ processLen <= DataSize /\ Clean(read) /\ pc' = "waiting"
        /\ UNCHANGED <<stream, flight, processLen, delivered>>
    BY <1>5 DEF OnRecvEnd
  <2>2. writePos - read < BufferSize
    BY <1>5, RestBound DEF OnRecvEnd
  <2>3. read \in Nat /\ read <= writePos
    BY <2>1
  <2>4. /\ readPos' \in Nat /\ writePos' \in Nat /\ readPos' <= writePos' /\ writePos' <= capacity
        /\ capacity - writePos' >= BufferSize
    <3>1. CASE writePos - read = 0
      BY <2>1, <2>3, <3>1 DEF Clean
    <3>2. CASE writePos - read # 0 /\ Compacts(read)
      <4>1. readPos' = 0 /\ writePos' = writePos - read
        BY <2>1, <3>2 DEF Clean
      <4> QED
        BY <2>2, <2>3, <4>1
    <3>3. CASE writePos - read # 0 /\ ~Compacts(read)
      <4>1. readPos' = read /\ writePos' = writePos
        BY <2>1, <3>3 DEF Clean
      <4> QED
        BY <2>3, <3>3, <4>1 DEF Compacts
    <3> QED
      BY <3>1, <3>2, <3>3
  <2>5. buffer' \in [0 .. capacity - 1 -> Byte]
    <3>1. CASE writePos - read # 0 /\ Compacts(read)
      <4>1. \A i \in 0 .. capacity - 1 : i < writePos - read => buffer[read + i] \in Byte
        BY <2>3
      <4> QED
        BY Zenon, <2>1, <3>1, <4>1 DEF Clean
    <3> QED
      BY <2>1, <3>1 DEF Clean
  <2>6. TypeOK'
    <3>1. readPos' \in 0 .. capacity /\ writePos' \in 0 .. capacity
      BY <2>4
    <3>2. stream' \in Seq(PeerPackets) /\ flight' \in Seq(Byte) /\ processLen' \in 0 .. capacity
          /\ pc' = "waiting"
      BY <2>1
    <3> QED
      BY <2>4, <2>5, <3>1, <3>2
  <2> QED
    BY Zenon, <2>1, <2>4, <2>6
<1> QED
  BY <1>1, <1>2, <1>3, <1>4, <1>5 DEF Next
-------------------------------------------------------------------------------
(* The positions stay inside the buffer, so OnWrite and OnRead never fail. *)
THEOREM TypeCorrect == Spec => []TypeOK
<1>1. SpaceInv => TypeOK
  BY DEF SpaceInv
<1> QED
  BY <1>1, SpaceInit, SpaceNext, PTL DEF Spec

(* A registered receive has at least _bufferSize bytes of room, and the       *)
(* session is never closed for want of it.                                    *)
THEOREM Room == Spec => []RoomToReceive
<1>1. SpaceInv => RoomToReceive
  BY DEF SpaceInv
<1> QED
  BY <1>1, SpaceInit, SpaceNext, PTL DEF Spec

(* The memcpy of Clean never copies between overlapping regions: it runs only *)
(* in the last part of the buffer and moves less than one part.               *)
THEOREM Disjoint == Spec => []MemcpyIsDisjoint
<1>1. SpaceInv => MemcpyIsDisjoint
  <2> SUFFICES ASSUME SpaceInv, pc = "parsing", ~Complete, Compacts(readPos + processLen)
               PROVE  writePos - (readPos + processLen) <= readPos + processLen
    BY DEF MemcpyIsDisjoint
  <2> QED
    BY RestBound, CapacityBound DEF SpaceInv, TypeOK, Compacts, FreeSize, DataSize
<1> QED
  BY <1>1, SpaceInit, SpaceNext, PTL DEF Spec
===============================================================================
