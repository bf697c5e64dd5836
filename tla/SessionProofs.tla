---------------------------- MODULE SessionProofs -----------------------------
(***************************************************************************)
(* Proofs about Session for any finite set of threads and any number of    *)
(* sends.                                                                  *)
(***************************************************************************)
EXTENDS Session, TLAPS

USE SessionAssumption

(* The life of a session.  One thread connects it; nothing else can happen    *)
(* before AddSession; a session in _sessions is disconnected once, because    *)
(* the exchange on _connected succeeds once.                                  *)
LifeInv ==
    /\ TypeOK
    /\ ReleasedOnce
    /\ service = "released" => connected = "no"
    /\ service = "new" =>
          /\ sendQueue = <<>> /\ sendEvent = "free" /\ recvEvent = "free"
          /\ \A t \in Thread : pc[t] \in {"idle", "connect_add"}
          /\ connected = "no" => \A t \in Thread : pc[t] = "idle"
    /\ \A t, u \in Thread : pc[t] = "connect_add" /\ pc[u] = "connect_add" => t = u
    /\ \A t \in Thread : pc[t] = "connect_add" => service = "new" /\ connected = "yes"

LEMMA LifeInit == Init => LifeInv
  BY DEF Init, LifeInv, TypeOK, ReleasedOnce, Label

LEMMA LifeNext == LifeInv /\ [Next]_vars => LifeInv'
<1> SUFFICES ASSUME LifeInv, [Next]_vars PROVE LifeInv'
  OBVIOUS
<1> USE DEF LifeInv, TypeOK, ReleasedOnce, Label, Goto, events, sending
<1>1. CASE UNCHANGED vars
  BY <1>1 DEF vars
<1>2. ASSUME NEW t \in Thread, ProcessConnect(t) PROVE LifeInv'
  BY <1>2 DEF ProcessConnect
<1>3. ASSUME NEW t \in Thread, AddSession(t) PROVE LifeInv'
  BY <1>3 DEF AddSession
<1>4. ASSUME NEW t \in Thread, RegisterRecv(t) PROVE LifeInv'
  BY <1>4 DEF RegisterRecv
<1>5. ASSUME NEW t \in Thread, WSARecv(t) PROVE LifeInv'
  BY <1>5 DEF WSARecv, Posted
<1>6. ASSUME NEW t \in Thread, ProcessRecv(t) PROVE LifeInv'
  BY <1>6 DEF ProcessRecv
<1>7. ASSUME NEW t \in Thread, Send(t) PROVE LifeInv'
  BY <1>7 DEF Send
<1>8. ASSUME NEW t \in Thread, SendPush(t) PROVE LifeInv'
  BY <1>8, SMTT(20) DEF SendPush
<1>9. ASSUME NEW t \in Thread, RegisterSend(t) PROVE LifeInv'
  BY <1>9 DEF RegisterSend, Unlock
<1>10. ASSUME NEW t \in Thread, RegisterTake(t) PROVE LifeInv'
  BY <1>10 DEF RegisterTake
<1>11. ASSUME NEW t \in Thread, WSASend(t) PROVE LifeInv'
  BY <1>11 DEF WSASend, Posted, Unlock
<1>12. ASSUME NEW t \in Thread, RegisterSendClear(t) PROVE LifeInv'
  BY <1>12 DEF RegisterSendClear
<1>13. ASSUME NEW t \in Thread, RegisterSendRelease(t) PROVE LifeInv'
  BY <1>13 DEF RegisterSendRelease, Unlock
<1>14. ASSUME NEW t \in Thread, ProcessSend(t) PROVE LifeInv'
  BY <1>14 DEF ProcessSend
<1>15. ASSUME NEW t \in Thread, ProcessSendNext(t) PROVE LifeInv'
  BY <1>15 DEF ProcessSendNext
<1>16. ASSUME NEW t \in Thread, Disconnect(t) PROVE LifeInv'
  BY Zenon, <1>16 DEF Disconnect, RegisterDisconnect
<1>17. ASSUME NEW t \in Thread, ProcessDisconnect(t) PROVE LifeInv'
  BY <1>17 DEF ProcessDisconnect
<1> QED
  BY Zenon, <1>1, <1>2, <1>3, <1>4, <1>5, <1>6, <1>7, <1>8, <1>9, <1>10, <1>11, <1>12, <1>13, <1>14,
     <1>15, <1>16, <1>17 DEF Next, Continue
-------------------------------------------------------------------------------
(* The variables keep their types: in particular OnDisconnected runs at most  *)
(* once.                                                                      *)
THEOREM TypeCorrect == Spec => []TypeOK
<1>1. LifeInv => TypeOK
  BY DEF LifeInv
<1> QED
  BY <1>1, LifeInit, LifeNext, PTL DEF Spec

(* However many threads call Disconnect, OnDisconnected and ReleaseSession    *)
(* run once and after AddSession, so the assertion Service.cpp:54 holds.      *)
THEOREM Released == Spec => []ReleasedOnce
<1>1. LifeInv => ReleasedOnce
  BY DEF LifeInv
<1> QED
  BY <1>1, LifeInit, LifeNext, PTL DEF Spec
-------------------------------------------------------------------------------
LEMMA SenderInit == Init => OneSender
  BY DEF Init, OneSender, Sender

(* Each action passes the right on, as Push, WSASend and ProcessSend do, or   *)
(* gives it up; the exchange hands it out only when nobody has it.            *)
LEMMA SenderNext == LifeInv /\ OneSender /\ [Next]_vars => OneSender'
<1> SUFFICES ASSUME LifeInv, OneSender, [Next]_vars PROVE OneSender'
  OBVIOUS
<1> TypeOK
  BY DEF LifeInv
<1> USE DEF OneSender, Sender, TypeOK, Goto, events, sending
<1>1. CASE UNCHANGED vars
  BY <1>1 DEF vars
<1>2. ASSUME NEW t \in Thread, ProcessConnect(t) PROVE OneSender'
  BY <1>2 DEF ProcessConnect
<1>3. ASSUME NEW t \in Thread, AddSession(t) PROVE OneSender'
  BY <1>3 DEF AddSession
<1>4. ASSUME NEW t \in Thread, RegisterRecv(t) PROVE OneSender'
  BY <1>4 DEF RegisterRecv
<1>5. ASSUME NEW t \in Thread, WSARecv(t) PROVE OneSender'
  BY <1>5 DEF WSARecv
<1>6. ASSUME NEW t \in Thread, ProcessRecv(t) PROVE OneSender'
  BY <1>6 DEF ProcessRecv
<1>7. ASSUME NEW t \in Thread, Send(t) PROVE OneSender'
  BY <1>7 DEF Send
<1>8. ASSUME NEW t \in Thread, SendPush(t) PROVE OneSender'
  BY <1>8 DEF SendPush
<1>9. ASSUME NEW t \in Thread, RegisterSend(t) PROVE OneSender'
  BY <1>9 DEF RegisterSend
<1>10. ASSUME NEW t \in Thread, RegisterTake(t) PROVE OneSender'
  BY <1>10 DEF RegisterTake
<1>11. ASSUME NEW t \in Thread, WSASend(t) PROVE OneSender'
  BY <1>11 DEF WSASend, Posted
<1>12. ASSUME NEW t \in Thread, RegisterSendClear(t) PROVE OneSender'
  BY <1>12 DEF RegisterSendClear
<1>13. ASSUME NEW t \in Thread, RegisterSendRelease(t) PROVE OneSender'
  BY <1>13 DEF RegisterSendRelease
<1>14. ASSUME NEW t \in Thread, ProcessSend(t) PROVE OneSender'
  BY <1>14 DEF ProcessSend
<1>15. ASSUME NEW t \in Thread, ProcessSendNext(t) PROVE OneSender'
  BY <1>15 DEF ProcessSendNext
<1>16. ASSUME NEW t \in Thread, Disconnect(t) PROVE OneSender'
  <2>1. CASE Goto(t, "disconnect", "idle")
    BY <1>16, <2>1 DEF Disconnect
  <2>2. CASE Goto(t, "reg_error", "reg_clear")
    BY <1>16, <2>2 DEF Disconnect
  <2> QED
    BY <1>16, <2>1, <2>2 DEF Disconnect
<1>17. ASSUME NEW t \in Thread, ProcessDisconnect(t) PROVE OneSender'
  BY <1>17 DEF ProcessDisconnect
<1> QED
  BY <1>1, <1>2, <1>3, <1>4, <1>5, <1>6, <1>7, <1>8, <1>9, <1>10, <1>11, <1>12, <1>13, <1>14,
     <1>15, <1>16, <1>17 DEF Next, Continue

(* _sendEvent is used by one thread at a time and never while the kernel has  *)
(* it, whatever the errors and the order of completions.                      *)
THEOREM OneSenderAlways == Spec => []OneSender
  BY LifeInit, LifeNext, SenderInit, SenderNext, PTL DEF Spec
-------------------------------------------------------------------------------
(* When every error of WSASend disconnects, a thread that gives the right up  *)
(* outside _lock has already cleared _connected.                              *)
QueueInv ==
    /\ NothingStranded
    /\ \A t \in Thread : pc[t] \in {"reg_clear", "reg_release"} => connected = "no"

LEMMA QueueInit == Init => QueueInv
  BY DEF Init, QueueInv, NothingStranded

LEMMA QueueNext ==
    ASSUME Errors \subseteq {"reset"}
    PROVE  LifeInv /\ QueueInv /\ [Next]_vars => QueueInv'
<1> SUFFICES ASSUME LifeInv, QueueInv, [Next]_vars PROVE QueueInv'
  OBVIOUS
<1> TypeOK
  BY DEF LifeInv
<1> USE DEF QueueInv, NothingStranded, TypeOK, Goto, events, sending
<1>1. CASE UNCHANGED vars
  BY <1>1 DEF vars
<1>2. ASSUME NEW t \in Thread, ProcessConnect(t) PROVE QueueInv'
  BY <1>2 DEF ProcessConnect, LifeInv
<1>3. ASSUME NEW t \in Thread, AddSession(t) PROVE QueueInv'
  BY <1>3 DEF AddSession
<1>4. ASSUME NEW t \in Thread, RegisterRecv(t) PROVE QueueInv'
  BY <1>4 DEF RegisterRecv
<1>5. ASSUME NEW t \in Thread, WSARecv(t) PROVE QueueInv'
  BY <1>5 DEF WSARecv
<1>6. ASSUME NEW t \in Thread, ProcessRecv(t) PROVE QueueInv'
  BY <1>6 DEF ProcessRecv
<1>7. ASSUME NEW t \in Thread, Send(t) PROVE QueueInv'
  BY <1>7 DEF Send
<1>8. ASSUME NEW t \in Thread, SendPush(t) PROVE QueueInv'
  BY <1>8 DEF SendPush
<1>9. ASSUME NEW t \in Thread, RegisterSend(t) PROVE QueueInv'
  BY <1>9 DEF RegisterSend
<1>10. ASSUME NEW t \in Thread, RegisterTake(t) PROVE QueueInv'
  BY <1>10 DEF RegisterTake
<1>11. ASSUME NEW t \in Thread, WSASend(t) PROVE QueueInv'
  BY <1>11 DEF WSASend
<1>12. ASSUME NEW t \in Thread, RegisterSendClear(t) PROVE QueueInv'
  BY <1>12 DEF RegisterSendClear
<1>13. ASSUME NEW t \in Thread, RegisterSendRelease(t) PROVE QueueInv'
  BY <1>13 DEF RegisterSendRelease
<1>14. ASSUME NEW t \in Thread, ProcessSend(t) PROVE QueueInv'
  BY <1>14 DEF ProcessSend
<1>15. ASSUME NEW t \in Thread, ProcessSendNext(t) PROVE QueueInv'
  BY <1>15 DEF ProcessSendNext
<1>16. ASSUME NEW t \in Thread, Disconnect(t) PROVE QueueInv'
  BY <1>16 DEF Disconnect, RegisterDisconnect
<1>17. ASSUME NEW t \in Thread, ProcessDisconnect(t) PROVE QueueInv'
  BY <1>17 DEF ProcessDisconnect
<1> QED
  BY <1>1, <1>2, <1>3, <1>4, <1>5, <1>6, <1>7, <1>8, <1>9, <1>10, <1>11, <1>12, <1>13, <1>14,
     <1>15, <1>16, <1>17 DEF Next, Continue

(* If WSASend fails only with the errors HandleError disconnects on, a        *)
(* connected session never has buffers in its queue with the right released.  *)
(* The hypothesis is needed: an error HandleError only prints gives the right *)
(* up outside _lock, with what other threads have queued meanwhile.           *)
THEOREM QueueIsServed ==
    ASSUME Errors \subseteq {"reset"}
    PROVE  Spec => []NothingStranded
<1>1. QueueInv => NothingStranded
  BY DEF QueueInv
<1>2. LifeInv /\ QueueInv /\ [Next]_vars => QueueInv'
  BY QueueNext
<1> QED
  BY <1>1, <1>2, LifeInit, LifeNext, QueueInit, PTL DEF Spec
===============================================================================
