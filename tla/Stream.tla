------------------------------- MODULE Stream ---------------------------------
(***************************************************************************)
(* Packets from end to end: threads of one process make packets            *)
(* (SendBuffer) and give them to a session, which sends them in the order  *)
(* of its queue; the process at the other end cuts them out of the stream  *)
(* again (RecvBuffer).  The same threads make packets for other sessions,  *)
(* Room::BroadCast one for every user, which lie in the same chunks and    *)
(* live for a time of their own.                                           *)
(*                                                                         *)
(* How the send queue is served is the subject of Session; here it is      *)
(* served in order, and the network reads the memory of a SendBuffer at    *)
(* any time before the send completes.                                     *)
(***************************************************************************)
EXTENDS SendBuffer, RecvBuffer

CONSTANT Window  \* bound on the bytes in flight, as the connection's flow control sets it

VARIABLES
    queue,   \* SendBuffers of the session that the network has not read yet
    others,  \* SendBuffers given to other sessions
    sent     \* history: the packets given to the session, in order

streamVars == <<sendVars, vars, queue, others, sent>>

StreamInit ==
    /\ SendInit /\ Init
    /\ queue = <<>> /\ others = {} /\ sent = <<>>
-------------------------------------------------------------------------------
(* A handler begins to make a packet. *)
OpenPacket(t, byteSize) ==
    /\ Open(t, byteSize)
    /\ UNCHANGED <<vars, queue, others, sent>>

(* MakeSendBuffer ends, and Session::Send gives the packet to the session     *)
(* that is followed or to another one.                                        *)
Send(t) ==
    /\ Close(t)
    /\ \/ /\ process' = "running"
          /\ queue' = Append(queue, making[t])
          /\ sent' = Append(sent, Packet(making[t].number, making[t].allocSize))
          /\ UNCHANGED others
       \/ /\ process' = "running"
          /\ others' = others \cup {making[t]}
          /\ UNCHANGED <<queue, sent>>
       \/ /\ process' # "running"
          /\ UNCHANGED <<queue, others, sent>>
    /\ UNCHANGED vars

(* WSASend reads the memory, and ProcessSend drops sendEvent.sendBuffers. *)
Transmit ==
    /\ process = "running" /\ queue # <<>> /\ Len(flight) < Window
    /\ PeerSend(Contents(Head(queue)))
    /\ queue' = Tail(queue)
    /\ Release(Head(queue))
    /\ UNCHANGED <<others, sent>>

(* Another session has sent its packet. *)
TransmitOther(b) ==
    /\ process = "running" /\ b \in others
    /\ others' = others \ {b}
    /\ Release(b)
    /\ UNCHANGED <<vars, queue, sent>>

ReturnChunk(c) == PushGlobal(c) /\ UNCHANGED <<vars, queue, others, sent>>

Receive ==
    /\ \/ \E n \in 0 .. capacity : ProcessRecv(n)
       \/ OnRecvPacket
       \/ OnRecvEnd
    /\ UNCHANGED <<sendVars, queue, others, sent>>

StreamNext ==
    \/ \E t \in Thread :
         \/ \E byteSize \in ByteSizes : OpenPacket(t, byteSize)
         \/ Send(t)
    \/ Transmit
    \/ \E b \in others : TransmitOther(b)
    \/ \E c \in Chunk : ReturnChunk(c)
    \/ Receive

(* Sends complete, bytes arrive, and handlers that run finish. *)
StreamSpec ==
    /\ StreamInit /\ [][StreamNext]_streamVars
    /\ WF_streamVars(Transmit)
    /\ WF_streamVars(Receive)
-------------------------------------------------------------------------------
(* The packets handed to OnRecvPacket are the packets given to the session,   *)
(* whole, once and in order, whichever chunks they were made in, wherever     *)
(* the stream was cut and the receive buffer was moved.                       *)
PacketsWhole ==
    \A i \in DOMAIN delivered : i <= Len(sent) /\ delivered[i] = sent[i]

(* Every packet given to the session is handed to OnRecvPacket at the other   *)
(* end, unless the sending process ends first.  (At most MaxMade are sent, so *)
(* the receiver catches up.)                                                  *)
EveryPacketArrives == []<>(Len(delivered) = Len(sent) \/ process # "running")
===============================================================================
