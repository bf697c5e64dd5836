----------------------------- MODULE RecvBuffer -------------------------------
(***************************************************************************)
(* The receiving side of a session: RecvBuffer.cpp, Session::ProcessRecv   *)
(* and PacketSession::OnRecv, which cuts the byte stream of the connection *)
(* into packets again.                                                     *)
(*                                                                         *)
(* The peer sends packets, the connection delivers their bytes in order    *)
(* but in pieces of any size.  A session has one receive registered at a   *)
(* time, so its handling is sequential.                                    *)
(***************************************************************************)
EXTENDS Packets

CONSTANTS
    BufferSize,   \* Session::BUFFER_SIZE, 2^16: above every value of the uint16 header.size
    BufferCount,  \* RecvBuffer::BUFFER_COUNT, 10
    PeerPackets,  \* the packets the peer may send
    MaxPackets    \* bound on the packets sent

ASSUME RecvBufferAssumption ==
    /\ BufferSize \in Nat /\ Word <= BufferSize
    /\ BufferCount \in Nat /\ BufferCount >= 3
    /\ PeerPackets \subseteq Seq(Byte)
    /\ MaxPackets \in Nat

capacity == BufferSize * BufferCount

VARIABLES
    stream,     \* packets sent so far
    flight,     \* bytes sent and not yet received
    buffer, readPos, writePos,  \* _buffer, _readPos, _writePos
    pc,         \* "waiting" for a completion, "parsing" in OnRecv, "closed"
    processLen, \* the local processLen of OnRecv
    delivered   \* history: byte sequences given to OnRecvPacket

vars == <<stream, flight, buffer, readPos, writePos, pc, processLen, delivered>>

DataSize == writePos - readPos
FreeSize == capacity - writePos

Init ==
    /\ stream = <<>> /\ flight = <<>>
    /\ buffer = [i \in 0 .. capacity - 1 |-> Garbage]
    /\ readPos = 0 /\ writePos = 0
    /\ pc = "waiting" /\ processLen = 0 /\ delivered = <<>>
-------------------------------------------------------------------------------
(* The peer sends a packet (external). *)
PeerSend(packet) ==
    /\ Len(stream) < MaxPackets
    /\ stream' = Append(stream, packet)
    /\ flight' = flight \o packet
    /\ UNCHANGED <<buffer, readPos, writePos, pc, processLen, delivered>>

(* ProcessRecv up to OnRecv: WSARecv was given FreeSize bytes at WritePos;    *)
(* given none it completes with 0 bytes, which disconnects.                   *)
ProcessRecv(n) ==
    /\ pc = "waiting" /\ flight # <<>>
    /\ n <= FreeSize /\ n <= Len(flight) /\ (n = 0 <=> FreeSize = 0)
    /\ buffer' = [i \in DOMAIN buffer |->
                     IF i \in writePos .. writePos + n - 1 THEN flight[i - writePos + 1] ELSE buffer[i]]
    /\ flight' = SubSeq(flight, n + 1, Len(flight))
    /\ writePos' = writePos + n
    /\ pc' = IF n = 0 THEN "closed" ELSE "parsing"
    /\ processLen' = 0
    /\ UNCHANGED <<stream, readPos, delivered>>

(* header.size at ReadPos + processLen *)
HeaderSize == SizeField(buffer[readPos + processLen])

(* The size in the header is not compared with the data at hand. *)
M_Complete == DataSize - processLen >= Header

(* A packet is taken only when a byte follows it. *)
M_CompleteLate == /\ DataSize - processLen >= Header
                  /\ DataSize - processLen > HeaderSize

Complete == /\ DataSize - processLen >= Header
            /\ DataSize - processLen >= HeaderSize

(* OnRecv: one turn of the loop *)
OnRecvPacket ==
    /\ pc = "parsing" /\ Complete
    /\ delivered' = Append(delivered,
                           [i \in 1 .. HeaderSize |-> buffer[readPos + processLen + i - 1]])
    /\ processLen' = processLen + HeaderSize
    /\ UNCHANGED <<stream, flight, buffer, readPos, writePos, pc>>

(* Clean moves a rest only when less than _bufferSize bytes are free.       *)
(* read is _readPos after OnRead.                                            *)
M_Compacts(read) == writePos > read
M_CompactsLate(read) == writePos > read /\ FreeSize = 0
Compacts(read) == writePos > read /\ FreeSize < BufferSize

Clean(read) ==
    LET dataSize == writePos - read
    IN  IF dataSize = 0
          THEN readPos' = 0 /\ writePos' = 0 /\ UNCHANGED buffer
        ELSE IF Compacts(read)
          THEN /\ buffer' = [i \in DOMAIN buffer |->
                                IF i < dataSize THEN buffer[read + i] ELSE buffer[i]]
               /\ readPos' = 0 /\ writePos' = dataSize
          ELSE readPos' = read /\ UNCHANGED <<buffer, writePos>>

(* The loop has ended: OnRead(processLen), Clean, RegisterRecv. *)
OnRecvEnd ==
    /\ pc = "parsing" /\ ~Complete
    /\ IF processLen > DataSize
         THEN pc' = "closed" /\ UNCHANGED <<buffer, readPos, writePos>>
         ELSE pc' = "waiting" /\ Clean(readPos + processLen)
    /\ UNCHANGED <<stream, flight, processLen, delivered>>

Next ==
    \/ \E packet \in PeerPackets : PeerSend(packet)
    \/ \E n \in 0 .. capacity : ProcessRecv(n)
    \/ OnRecvPacket
    \/ OnRecvEnd

Spec == Init /\ [][Next]_vars
-------------------------------------------------------------------------------
TypeOK ==
    /\ stream \in Seq(PeerPackets)
    /\ flight \in Seq(Byte)
    /\ buffer \in [0 .. capacity - 1 -> Byte]
    /\ readPos \in 0 .. capacity /\ writePos \in 0 .. capacity /\ readPos <= writePos
    /\ processLen \in 0 .. capacity
    /\ pc \in {"waiting", "parsing", "closed"}

(* A receive always finds room for a whole piece: Clean leaves at least       *)
(* _bufferSize bytes free, so the length given to WSARecv is never 0 and the  *)
(* "Recv 0" disconnection is always the peer's.                               *)
RoomToReceive == pc # "closed" /\ (pc = "waiting" => FreeSize >= BufferSize)

(* Clean moves the rest with memcpy, which requires that source and           *)
(* destination do not overlap.                                                *)
MemcpyIsDisjoint ==
    LET read == readPos + processLen
    IN  pc = "parsing" /\ ~Complete /\ Compacts(read) => writePos - read <= read
===============================================================================
