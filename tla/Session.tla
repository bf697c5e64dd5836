------------------------------ MODULE Session ---------------------------------
(***************************************************************************)
(* ServerCore/Session.cpp, from ProcessConnect to ReleaseSession, with the *)
(* part of Service.cpp it calls.                                           *)
(*                                                                         *)
(* Any worker thread takes any completion from the port, so the sends, the *)
(* receive and the disconnection of one session are handled concurrently;  *)
(* _sendRegistered decides which thread may use _sendEvent.  The kernel    *)
(* (WSASend, WSARecv, DisconnectEx and the completion port) is external:   *)
(* an operation is accepted or fails at once with one of Errors, and an    *)
(* accepted one completes, with or without success.  A receive handler's   *)
(* own calls of Send are those of the other threads.                       *)
(***************************************************************************)
EXTENDS Naturals, Sequences, FiniteSets

CONSTANTS
    Thread,     \* worker threads
    NoThread,   \* nobody holds _lock
    MaxSend,    \* bound on the calls of Send
    Errors      \* how a call may fail at once: "reset" (WSAECONNRESET or
                \* WSAECONNABORTED), "other" (any other error)

ASSUME SessionAssumption ==
    /\ IsFiniteSet(Thread) /\ NoThread \notin Thread
    /\ MaxSend \in Nat
    /\ Errors \subseteq {"reset", "other"}

VARIABLES
    connected,       \* _connected: "no" or "yes"
    service,         \* the session in Service::_sessions: "new", "added", "released"
    lock,            \* holder of _lock between two steps
    sendQueue,       \* _sendQueue
    sendRegistered,  \* _sendRegistered: "no" or "yes"
    sendBuffers,     \* _sendEvent.sendBuffers
    sendEvent, recvEvent, disconnectEvent,  \* "free", or "posted" to the kernel;
                     \* disconnectEvent is "refused" when DisconnectEx fails at once
    wire,            \* buffers whose send completed
    pushed,          \* buffers given to Send, numbered
    disconnections,  \* calls of OnDisconnected
    pc

vars == <<connected, service, lock, sendQueue, sendRegistered, sendBuffers, sendEvent,
          recvEvent, disconnectEvent, wire, pushed, disconnections, pc>>
events == <<sendEvent, recvEvent, disconnectEvent>>
sending == <<lock, sendQueue, sendRegistered, sendBuffers, wire, pushed>>

Label == {"idle", "connect_add", "recv_check", "recv_post", "send_push", "reg_check", "reg_take",
          "reg_post", "reg_error", "reg_clear", "reg_release", "ps_lock", "disconnect"}

Init ==
    /\ connected = "no" /\ service = "new"
    /\ lock = NoThread
    /\ sendQueue = <<>> /\ sendRegistered = "no" /\ sendBuffers = <<>>
    /\ sendEvent = "free" /\ recvEvent = "free" /\ disconnectEvent = "free"
    /\ wire = <<>> /\ pushed = 0 /\ disconnections = 0
    /\ pc = [t \in Thread |-> "idle"]
-------------------------------------------------------------------------------
Goto(t, from, to) == pc[t] = from /\ pc' = [pc EXCEPT ![t] = to]

(* WSASend or WSARecv: the outcome is "pending" or one of Errors. *)
Posted(outcome) == IF outcome = "pending" THEN "posted" ELSE "free"

(* ProcessConnect, called once by the listener's completion *)
ProcessConnect(t) ==
    /\ Goto(t, "idle", "connect_add")
    /\ service = "new" /\ connected = "no"
    /\ connected' = "yes"
    /\ UNCHANGED <<service, events, sending, disconnections>>

AddSession(t) ==
    /\ Goto(t, "connect_add", "recv_check")
    /\ service' = "added"
    /\ UNCHANGED <<connected, events, sending, disconnections>>
-------------------------------------------------------------------------------
RegisterRecv(t) ==
    /\ Goto(t, "recv_check", IF connected = "yes" THEN "recv_post" ELSE "idle")
    /\ UNCHANGED <<connected, service, events, sending, disconnections>>

WSARecv(t) ==
    \E outcome \in {"pending"} \union Errors :
        /\ Goto(t, "recv_post", IF outcome = "reset" THEN "disconnect" ELSE "idle")
        /\ recvEvent' = Posted(outcome)
        /\ UNCHANGED <<connected, service, sendEvent, disconnectEvent, sending, disconnections>>

(* The next receive is not registered after the packets are handled. *)
M_ProcessRecv(t) ==
    \E next \in {"idle", "disconnect"} :
        /\ recvEvent = "posted"
        /\ Goto(t, "idle", next)
        /\ recvEvent' = "free"
        /\ UNCHANGED <<connected, service, sendEvent, disconnectEvent, sending, disconnections>>

(* numOfBytes = 0, a closed or broken connection, disconnects; otherwise the *)
(* packets are handled and the next receive is registered.                   *)
ProcessRecv(t) ==
    \E next \in {"recv_check", "disconnect"} :
        /\ recvEvent = "posted"
        /\ Goto(t, "idle", next)
        /\ recvEvent' = "free"
        /\ UNCHANGED <<connected, service, sendEvent, disconnectEvent, sending, disconnections>>
-------------------------------------------------------------------------------
(* Send on a session that is not connected returns at once. *)
Send(t) ==
    /\ connected = "yes" /\ service # "new"
    /\ pushed + Cardinality({u \in Thread : pc[u] = "send_push"}) < MaxSend
    /\ Goto(t, "idle", "send_push")
    /\ UNCHANGED <<connected, service, events, sending, disconnections>>

(* A sender registers whether or not another thread has the right. *)
M_SendPush(t) ==
    /\ lock = NoThread
    /\ Goto(t, "send_push", "reg_check")
    /\ pushed' = pushed + 1
    /\ sendQueue' = Append(sendQueue, pushed + 1)
    /\ sendRegistered' = "yes"
    /\ UNCHANGED <<connected, service, events, lock, sendBuffers, wire, disconnections>>

SendPush(t) ==
    /\ lock = NoThread
    /\ Goto(t, "send_push", IF sendRegistered = "no" THEN "reg_check" ELSE "idle")
    /\ pushed' = pushed + 1
    /\ sendQueue' = Append(sendQueue, pushed + 1)
    /\ sendRegistered' = "yes"
    /\ UNCHANGED <<connected, service, events, lock, sendBuffers, wire, disconnections>>

(* RegisterSend; ProcessSend calls it with _lock held *)
Unlock(t) == lock' = IF lock = t THEN NoThread ELSE lock

RegisterSend(t) ==
    /\ Goto(t, "reg_check", IF connected = "yes" THEN "reg_take" ELSE "idle")
    /\ IF connected = "yes" THEN UNCHANGED lock ELSE Unlock(t)
    /\ UNCHANGED <<connected, service, events, sendQueue, sendRegistered, sendBuffers, wire,
                   pushed, disconnections>>

RegisterTake(t) ==
    /\ lock \in {NoThread, t}
    /\ Goto(t, "reg_take", "reg_post")
    /\ sendBuffers' = sendBuffers \o sendQueue
    /\ sendQueue' = <<>>
    /\ UNCHANGED <<connected, service, events, lock, sendRegistered, wire, pushed, disconnections>>

WSASend(t) ==
    \E outcome \in {"pending"} \union Errors :
        /\ Goto(t, "reg_post",
                CASE outcome = "pending" -> "idle" [] outcome = "reset" -> "reg_error" [] OTHER -> "reg_clear")
        /\ sendEvent' = Posted(outcome)
        /\ IF outcome = "pending" THEN Unlock(t) ELSE UNCHANGED lock
        /\ UNCHANGED <<connected, service, recvEvent, disconnectEvent, sendQueue, sendRegistered,
                       sendBuffers, wire, pushed, disconnections>>

RegisterSendClear(t) ==
    /\ Goto(t, "reg_clear", "reg_release")
    /\ sendBuffers' = <<>>
    /\ UNCHANGED <<connected, service, events, lock, sendQueue, sendRegistered, wire, pushed,
                   disconnections>>

RegisterSendRelease(t) ==
    /\ Goto(t, "reg_release", "idle")
    /\ sendRegistered' = "no"
    /\ Unlock(t)
    /\ UNCHANGED <<connected, service, events, sendQueue, sendBuffers, wire, pushed, disconnections>>

(* The event's buffers are not cleared and go out again with the next ones. *)
M_ProcessSend(t) ==
    \E next \in {"ps_lock", "disconnect"} :
        /\ sendEvent = "posted"
        /\ Goto(t, "idle", next)
        /\ sendEvent' = "free"
        /\ wire' = IF next = "ps_lock" THEN wire \o sendBuffers ELSE wire
        /\ UNCHANGED <<connected, service, recvEvent, disconnectEvent, lock, sendQueue,
                       sendBuffers, sendRegistered, pushed, disconnections>>

ProcessSend(t) ==
    \E next \in {"ps_lock", "disconnect"} :
        /\ sendEvent = "posted"
        /\ Goto(t, "idle", next)
        /\ sendEvent' = "free"
        /\ sendBuffers' = <<>>
        /\ wire' = IF next = "ps_lock" THEN wire \o sendBuffers ELSE wire
        /\ UNCHANGED <<connected, service, recvEvent, disconnectEvent, lock, sendQueue,
                       sendRegistered, pushed, disconnections>>

(* The right is released without looking at the queue. *)
M_ProcessSendNext(t) ==
    /\ lock = NoThread
    /\ Goto(t, "ps_lock", "idle")
    /\ sendRegistered' = "no"
    /\ UNCHANGED <<connected, service, events, lock, sendQueue, sendBuffers, wire, pushed, disconnections>>

ProcessSendNext(t) ==
    /\ lock = NoThread
    /\ Goto(t, "ps_lock", IF sendQueue = <<>> THEN "idle" ELSE "reg_check")
    /\ IF sendQueue = <<>> THEN sendRegistered' = "no" /\ UNCHANGED lock
                           ELSE lock' = t /\ UNCHANGED sendRegistered
    /\ UNCHANGED <<connected, service, events, sendQueue, sendBuffers, wire, pushed, disconnections>>
-------------------------------------------------------------------------------
(* DisconnectEx: a call that fails at once only takes the owner away from     *)
(* _disconnectEvent, and nobody looks at what RegisterDisconnect returns.     *)
RegisterDisconnect(outcome) == IF outcome = "pending" THEN "posted" ELSE "refused"

(* Every caller goes on to RegisterDisconnect. *)
M_Disconnect(t) ==
    \E outcome \in {"pending"} \union Errors :
        /\ \/ Goto(t, "disconnect", "idle")
           \/ Goto(t, "reg_error", "reg_clear")
        /\ connected' = "no"
        /\ disconnectEvent' = RegisterDisconnect(outcome)
        /\ UNCHANGED <<service, sendEvent, recvEvent, sending, disconnections>>

(* A connection reset found by WSASend only clears _connected. *)
M_DisconnectError(t) ==
    \E outcome \in {"pending"} \union Errors :
        /\ \/ Goto(t, "disconnect", "idle")
           \/ Goto(t, "reg_error", "reg_clear")
        /\ connected' = "no"
        /\ disconnectEvent' = IF connected = "yes" /\ pc[t] = "disconnect"
                               THEN RegisterDisconnect(outcome) ELSE disconnectEvent
        /\ UNCHANGED <<service, sendEvent, recvEvent, sending, disconnections>>

(* Disconnect: the exchange lets only one caller go on to RegisterDisconnect. *)
Disconnect(t) ==
    \E outcome \in {"pending"} \union Errors :
        /\ \/ Goto(t, "disconnect", "idle")
           \/ Goto(t, "reg_error", "reg_clear")
        /\ connected' = "no"
        /\ disconnectEvent' = IF connected = "yes" THEN RegisterDisconnect(outcome) ELSE disconnectEvent
        /\ UNCHANGED <<service, sendEvent, recvEvent, sending, disconnections>>

ProcessDisconnect(t) ==
    /\ disconnectEvent = "posted"
    /\ Goto(t, "idle", "idle")
    /\ disconnectEvent' = "free"
    /\ disconnections' = disconnections + 1
    /\ service' = "released"
    /\ UNCHANGED <<connected, sendEvent, recvEvent, sending>>
-------------------------------------------------------------------------------
Continue(t) ==
    \/ AddSession(t) \/ RegisterRecv(t) \/ WSARecv(t)
    \/ SendPush(t) \/ RegisterSend(t) \/ RegisterTake(t) \/ WSASend(t)
    \/ RegisterSendClear(t) \/ RegisterSendRelease(t) \/ ProcessSendNext(t) \/ Disconnect(t)

Next == \E t \in Thread :
    \/ ProcessConnect(t) \/ Send(t) \/ Continue(t)
    \/ ProcessRecv(t) \/ ProcessSend(t) \/ ProcessDisconnect(t)

Spec == Init /\ [][Next]_vars
-------------------------------------------------------------------------------
TypeOK ==
    /\ connected \in {"no", "yes"} /\ sendRegistered \in {"no", "yes"}
    /\ service \in {"new", "added", "released"}
    /\ lock \in Thread \union {NoThread}
    /\ sendQueue \in Seq(Nat) /\ sendBuffers \in Seq(Nat) /\ wire \in Seq(Nat)
    /\ sendEvent \in {"free", "posted"} /\ recvEvent \in {"free", "posted"}
    /\ disconnectEvent \in {"free", "posted", "refused"}
    /\ pushed \in Nat /\ disconnections \in {0, 1}
    /\ pc \in [Thread -> Label]

(* The right to register a send, which _sendRegistered stands for: a thread   *)
(* between winning it and handing _sendEvent to the kernel, or the completion *)
(* of a send up to the decision to release the right.                         *)
Sender == {"reg_check", "reg_take", "reg_post", "reg_error", "reg_clear", "reg_release", "ps_lock"}

(* _sendEvent and its buffers, which no lock protects, are used by one thread *)
(* at a time and never while the kernel has them.                             *)
OneSender ==
    /\ \A t, u \in Thread : pc[t] \in Sender /\ pc[u] \in Sender => t = u
    /\ sendEvent = "posted" => \A t \in Thread : pc[t] \notin Sender
    /\ sendEvent = "posted" \/ (\E t \in Thread : pc[t] \in Sender) => sendRegistered = "yes"

(* Session.cpp:263: the right is released only when the queue is empty; a     *)
(* buffer left in the queue of a connected session would wait for the next    *)
(* Send.                                                                      *)
NothingStranded == connected = "yes" /\ sendRegistered = "no" => sendQueue = <<>>

Failing == \E t \in Thread : pc[t] \in {"reg_error", "disconnect"}

(* Until a failure closes the session, the buffers reach the connection       *)
(* completely, once and in the order in which Send queued them.               *)
SentInOrder ==
    connected = "yes" /\ ~Failing => wire \o sendBuffers \o sendQueue = [i \in 1 .. pushed |-> i]

(* A connected session that is in _sessions has its one receive registered,   *)
(* or a thread that is about to register it or to disconnect: it cannot       *)
(* become deaf.                                                               *)
ListensWhileConnected ==
    connected = "yes" /\ service = "added" =>
        \/ recvEvent = "posted"
        \/ \E t \in Thread : pc[t] \in {"recv_check", "recv_post", "reg_error", "disconnect"}

(* However many threads see the connection fail, OnDisconnected and           *)
(* ReleaseSession run once, and after AddSession.                             *)
ReleasedOnce ==
    /\ disconnections = IF service = "released" THEN 1 ELSE 0
    /\ disconnectEvent = "posted" => service = "added" /\ connected = "no"

(* Every queued buffer is sent, or the session is disconnected: with finitely *)
(* many calls of Send, the connection catches up with the queue again and     *)
(* again.                                                                     *)
BuffersAreSent == []<>(connected = "no" \/ Len(wire) = pushed)

(* A session whose connection is gone is released, so that its user leaves    *)
(* the room and goes offline; a DisconnectEx that fails at once is the only   *)
(* way to stay in _sessions for ever.                                         *)
ClosedIsReleased ==
    []<>(connected = "no" /\ service = "added" => disconnectEvent = "refused")
===============================================================================
