--------------------------- MODULE ChatServerProofs ---------------------------
(***************************************************************************)
(* OneSessionPerAccount for any sessions, accounts and rooms, with         *)
(* disconnections at any moment and any number of repeated clicks.         *)
(***************************************************************************)
EXTENDS ChatServer, TLAPS

LoginStep == {"login_update", "login_set_id"}

ControlOK ==
    /\ DOMAIN pc = Actor
    /\ DOMAIN id = Session /\ DOMAIN arg = Session

(* The login lock is held from the SELECT to SetId; until then no session in  *)
(* use has the id that logs in, and from the UPDATE on the id is online.      *)
LoginInv ==
    /\ ControlOK
    /\ OneSessionPerAccount
    /\ \A s \in Session : pc[Recv(s)] \in LoginStep => loginLock = s
    /\ \A s \in Session : Live(s) /\ id[s] # None => id[s] \in online
    /\ \A s, t \in Session : pc[Recv(s)] \in LoginStep /\ Live(t) => id[t] # arg[s]
    /\ \A s \in Session : LoggingIn(s) => arg[s] \in online

LEMMA LoginInit == Init => LoginInv
  BY DEF Init, NobodyLoggedIn, NothingHappening, LoginInv, ControlOK, OneSessionPerAccount, Live,
         LoggingIn, LoginStep, Actor, Recv, Close

(* A step of the actor p of session s that has nothing to do with logging in  *)
(* or going offline.                                                          *)
Quiet(s, p, to) ==
    /\ p \in {Recv(s), Close(s)}
    /\ pc[p] \notin LoginStep \union {"closed"}
    /\ to \notin LoginStep \union {"closed"}
    /\ pc' = [pc EXCEPT ![p] = to]
    /\ UNCHANGED <<online, id, loginLock>>
    /\ arg' = arg \/ (p = Recv(s) /\ \E x : arg' = [arg EXCEPT ![s] = x])

LEMMA QuietKeepsLogin ==
    ASSUME LoginInv, NEW s \in Session, NEW p, NEW to, Quiet(s, p, to)
    PROVE  LoginInv'
<1>1. p \in Actor /\ \A t \in Session : Recv(t) \in Actor /\ Close(t) \in Actor /\ Recv(t) # Close(t)
  BY DEF Quiet, Actor, Recv, Close
<1>2. \A t \in Session : pc'[Recv(t)] \in LoginStep => pc'[Recv(t)] = pc[Recv(t)] /\ arg'[t] = arg[t]
  BY Zenon, <1>1 DEF Quiet, LoginInv, ControlOK, Recv, Close
<1>3. \A t \in Session : Live(t)' => Live(t)
  BY <1>1 DEF Quiet, LoginInv, ControlOK, Live
<1>4. ControlOK'
  BY <1>1 DEF Quiet, LoginInv, ControlOK
<1>5. UNCHANGED <<online, id, loginLock>>
  BY DEF Quiet
<1> QED
  BY <1>2, <1>3, <1>4, <1>5 DEF LoginInv, OneSessionPerAccount, LoggingIn, LoginStep
-------------------------------------------------------------------------------
LEMMA LoginSelectKeeps ==
    ASSUME LoginInv, NEW s \in Session, NEW a \in MayUse[s], LoginSelect(s, a)
    PROVE  LoginInv'
<1> DEFINE to == IF a \in accounts \ online THEN "login_update" ELSE "idle"
<1>1. /\ loginLock = None /\ loginLock' = IF a \in accounts \ online THEN s ELSE None
      /\ pc[Recv(s)] = "idle" /\ pc' = [pc EXCEPT ![Recv(s)] = to]
      /\ UNCHANGED <<online, id>>
  BY DEF LoginSelect, Arrives, Goto, accountTable, session
<1>2. \E x : arg' = [arg EXCEPT ![s] = x] /\ (to # "idle" => x = a)
  BY Zenon DEF LoginSelect, Arrives
<1>3. \A t \in Session : Recv(t) \in Actor /\ Close(t) \in Actor /\ Recv(s) # Close(t)
                         /\ (t # s => Recv(t) # Recv(s))
  BY DEF Actor, Recv, Close
<1>4. \A t \in Session : pc[Recv(t)] \notin LoginStep
  BY <1>1, ChatAssumption DEF LoginInv
<1>5. \A t \in Session : Live(t)' = Live(t)
  BY <1>1, <1>3 DEF LoginInv, ControlOK, Live
<1>6. ControlOK'
  BY <1>1, <1>2, <1>3 DEF LoginInv, ControlOK
<1>7. \A t \in Session : pc'[Recv(t)] \in LoginStep =>
          t = s /\ a \notin online /\ loginLock' = s /\ arg'[s] = a /\ pc'[Recv(t)] = "login_update"
  BY <1>1, <1>2, <1>3, <1>4 DEF LoginInv, ControlOK, LoginStep
<1>8. \A t \in Session : Live(t) /\ id[t] # None => id[t] \in online
  BY DEF LoginInv
<1>9. a # None
  BY ChatAssumption
<1> QED
  BY <1>1, <1>5, <1>6, <1>7, <1>8, <1>9 DEF LoginInv, OneSessionPerAccount, LoggingIn, LoginStep

LEMMA LoginUpdateKeeps ==
    ASSUME LoginInv, NEW s \in Session, LoginUpdate(s)
    PROVE  LoginInv'
<1>1. /\ pc[Recv(s)] = "login_update" /\ pc' = [pc EXCEPT ![Recv(s)] = "login_set_id"]
      /\ online' = online \union {arg[s]} /\ UNCHANGED <<id, arg, loginLock>>
  BY DEF LoginUpdate, Goto, session, locks, local
<1>2. \A t \in Session : Recv(t) \in Actor /\ Close(t) \in Actor /\ Recv(s) # Close(t)
                         /\ (t # s => Recv(t) # Recv(s))
  BY DEF Actor, Recv, Close
<1>3. \A t \in Session : Live(t)' = Live(t)
  BY <1>1, <1>2 DEF LoginInv, ControlOK, Live
<1>4. ControlOK'
  BY <1>1, <1>2 DEF LoginInv, ControlOK
<1>5. \A t \in Session : pc'[Recv(t)] \in LoginStep => pc[Recv(t)] \in LoginStep
  BY <1>1, <1>2 DEF LoginInv, ControlOK, LoginStep
<1>6. \A t \in Session : LoggingIn(t)' => t = s \/ LoggingIn(t)
  BY <1>1, <1>2 DEF LoginInv, ControlOK, LoggingIn
<1> QED
  BY <1>1, <1>3, <1>4, <1>5, <1>6 DEF LoginInv, OneSessionPerAccount

LEMMA LoginSetIdKeeps ==
    ASSUME LoginInv, NEW s \in Session, LoginSetId(s)
    PROVE  LoginInv'
<1>1. /\ pc[Recv(s)] = "login_set_id" /\ pc' = [pc EXCEPT ![Recv(s)] = "idle"]
      /\ id' = [id EXCEPT ![s] = arg[s]] /\ UNCHANGED online
      /\ \E x : arg' = [arg EXCEPT ![s] = x]
  BY Zenon DEF LoginSetId, Answered, Goto, accountTable
<1>2. \A t \in Session : Recv(t) \in Actor /\ Close(t) \in Actor /\ Recv(s) # Close(t)
                         /\ (t # s => Recv(t) # Recv(s))
  BY DEF Actor, Recv, Close
<1>3. \A t \in Session : Live(t)' = Live(t)
  BY <1>1, <1>2 DEF LoginInv, ControlOK, Live
<1>4. ControlOK'
  BY <1>1, <1>2 DEF LoginInv, ControlOK
<1>5. \A t \in Session : pc'[Recv(t)] \notin LoginStep
  <2>1. \A t \in Session : pc[Recv(t)] \in LoginStep => t = s
    BY <1>1 DEF LoginInv, LoginStep
  <2> QED
    BY <1>1, <1>2, <2>1 DEF LoginInv, ControlOK, LoginStep
<1>6. \A t \in Session : Live(t) => id[t] # arg[s]
  BY <1>1 DEF LoginInv, LoginStep
<1>7. arg[s] \in online
  BY <1>1 DEF LoginInv, LoggingIn
<1>8. \A t \in Session : id'[t] = IF t = s THEN arg[s] ELSE id[t]
  BY <1>1 DEF LoginInv, ControlOK
<1>9. OneSessionPerAccount'
  BY <1>3, <1>6, <1>8 DEF LoginInv, OneSessionPerAccount
<1>10. \A t \in Session : Live(t)' /\ id'[t] # None => id'[t] \in online'
  BY <1>1, <1>3, <1>7, <1>8 DEF LoginInv
<1> QED
  BY <1>4, <1>5, <1>9, <1>10 DEF LoginInv, LoggingIn, LoginStep

LEMMA CloseOfflineKeeps ==
    ASSUME LoginInv, NEW s \in Session, CloseOffline(s)
    PROVE  LoginInv'
<1>1. /\ pc[Close(s)] = "close_offline" /\ pc' = [pc EXCEPT ![Close(s)] = "closed"]
      /\ online' = online \ {id[s]} /\ UNCHANGED <<id, arg, loginLock>>
  BY DEF CloseOffline, Goto, session, locks
<1>2. \A t \in Session : Recv(t) \in Actor /\ Close(t) \in Actor /\ Recv(t) # Close(s)
  BY DEF Actor, Recv, Close
<1>3. Live(s) /\ ~Live(s)' /\ \A t \in Session : Live(t)' => Live(t) /\ t # s
  BY <1>1, <1>2 DEF LoginInv, ControlOK, Live
<1>4. \A t \in Session : pc'[Recv(t)] = pc[Recv(t)]
  BY <1>1, <1>2 DEF LoginInv, ControlOK
<1>5. ControlOK'
  BY <1>1, <1>2 DEF LoginInv, ControlOK
<1>6. \A t \in Session : Live(t)' /\ id[t] # None => id[t] # id[s]
  BY <1>3 DEF LoginInv, OneSessionPerAccount
<1>7. \A t \in Session : LoggingIn(t) => arg[t] # id[s]
  BY <1>3 DEF LoginInv, LoggingIn, LoginStep
<1> QED
  BY <1>1, <1>3, <1>4, <1>5, <1>6, <1>7 DEF LoginInv, OneSessionPerAccount, LoggingIn
-------------------------------------------------------------------------------
(* Every other action is a quiet step of one of the session's two actors. *)
LEMMA RequestKeeps ==
    ASSUME LoginInv, NEW s \in Session, Request(s)
    PROVE  LoginInv'
<1> USE DEF Quiet, LoginStep, Goto, Arrives, accountTable, session, locks
<1>1. ASSUME NEW a \in MayUse[s], Register(s, a) PROVE LoginInv'
  <2>1. Quiet(s, Recv(s), "idle")
    BY Zenon, <1>1 DEF Register
  <2> QED
    BY Zenon, <2>1, QuietKeepsLogin
<1>2. ASSUME NEW name \in RoomName, CreateSelect(s, name) PROVE LoginInv'
  <2>1. \E to \in {"create_insert", "idle"} : Quiet(s, Recv(s), to)
    BY Zenon, <1>2 DEF CreateSelect
  <2> QED
    BY Zenon, <2>1, QuietKeepsLogin
<1>3. ASSUME NEW name \in RoomName, JoinSelect(s, name) PROVE LoginInv'
  <2>1. \E to \in {"join_get", "idle"} : Quiet(s, Recv(s), to)
    BY Zenon, <1>3 DEF JoinSelect
  <2> QED
    BY Zenon, <2>1, QuietKeepsLogin
<1>4. CASE RefreshLobby(s)
  <2>1. Quiet(s, Recv(s), "idle")
    BY Zenon, <1>4 DEF RefreshLobby
  <2> QED
    BY Zenon, <2>1, QuietKeepsLogin
<1>5. CASE ChatSelect(s)
  <2>1. Quiet(s, Recv(s), "chat_insert")
    BY Zenon, <1>5 DEF ChatSelect
  <2> QED
    BY Zenon, <2>1, QuietKeepsLogin
<1>6. CASE OutSelect(s)
  <2>1. Quiet(s, Recv(s), "out_get")
    BY Zenon, <1>6 DEF OutSelect
  <2> QED
    BY Zenon, <2>1, QuietKeepsLogin
<1> QED
  BY <1>1, <1>2, <1>3, <1>4, <1>5, <1>6, LoginSelectKeeps DEF Request

LEMMA RemoveUserKeeps ==
    ASSUME LoginInv, NEW s \in Session, NEW p \in {Recv(s), Close(s)}, RemoveUser(p)
    PROVE  LoginInv'
<1> USE DEF Quiet, LoginStep, Goto, accountTable, session, locks, local, AfterRemove
<1>1. CASE RemoveLock(p)
  <2>1. Quiet(s, p, "remove_count")
    BY <1>1 DEF RemoveLock
  <2> QED
    BY Zenon, <2>1, QuietKeepsLogin
<1>2. CASE RemoveCount(p)
  <2>1. Quiet(s, p, "remove_erase")
    BY <1>2 DEF RemoveCount
  <2> QED
    BY Zenon, <2>1, QuietKeepsLogin
<1>3. CASE RemoveErase(p)
  <2>1. Quiet(s, p, "remove_cas")
    BY Zenon, <1>3 DEF RemoveErase
  <2> QED
    BY Zenon, <2>1, QuietKeepsLogin
<1>4. CASE RemoveCas(p)
  <2>1. \E to \in {"remove_delete", "remove_select"} : Quiet(s, p, to)
    BY Zenon, <1>4 DEF RemoveCas
  <2> QED
    BY Zenon, <2>1, QuietKeepsLogin
<1>5. CASE RemoveDelete(p)
  <2>1. Quiet(s, p, "remove_registry")
    BY <1>5 DEF RemoveDelete
  <2> QED
    BY Zenon, <2>1, QuietKeepsLogin
<1>6. CASE RemoveRegistry(p)
  <2>1. \E to \in {"out_answer", "close_offline"} : Quiet(s, p, to)
    BY Zenon, <1>6 DEF RemoveRegistry
  <2> QED
    BY Zenon, <2>1, QuietKeepsLogin
<1>7. CASE RemoveSelect(p)
  <2>1. Quiet(s, p, "remove_broadcast")
    BY <1>7 DEF RemoveSelect
  <2> QED
    BY Zenon, <2>1, QuietKeepsLogin
<1>8. CASE RemoveBroadCast(p)
  <2>1. \E to \in {"out_answer", "close_offline"} : Quiet(s, p, to)
    BY Zenon, <1>8 DEF RemoveBroadCast
  <2> QED
    BY Zenon, <2>1, QuietKeepsLogin
<1> QED
  BY <1>1, <1>2, <1>3, <1>4, <1>5, <1>6, <1>7, <1>8 DEF RemoveUser

LEMMA RespondKeeps ==
    ASSUME LoginInv, NEW s \in Session, Respond(s)
    PROVE  LoginInv'
<1> USE DEF Quiet, LoginStep, Goto, accountTable, session, locks, local
<1>1. CASE CreateInsert(s)
  <2>1. \E to \in {"create_select", "hung"} : Quiet(s, Recv(s), to)
    BY Zenon, <1>1 DEF CreateInsert, Execute, roomTable
  <2> QED
    BY Zenon, <2>1, QuietKeepsLogin
<1>2. CASE CreateSelectId(s)
  <2>1. Quiet(s, Recv(s), "create_update")
    BY Zenon, <1>2 DEF CreateSelectId
  <2> QED
    BY Zenon, <2>1, QuietKeepsLogin
<1>3. CASE CreateUpdate(s)
  <2>1. \E to \in {"create_room", "hung"} : Quiet(s, Recv(s), to)
    BY Zenon, <1>3 DEF CreateUpdate, SetCurrentRoom, Execute
  <2> QED
    BY Zenon, <2>1, QuietKeepsLogin
<1>4. CASE CreateRoom(s)
  <2>1. Quiet(s, Recv(s), "create_add")
    BY <1>4 DEF CreateRoom
  <2> QED
    BY Zenon, <2>1, QuietKeepsLogin
<1>5. CASE AddRoom(s)
  <2>1. Quiet(s, Recv(s), "create_answer")
    BY <1>5 DEF AddRoom
  <2> QED
    BY Zenon, <2>1, QuietKeepsLogin
<1>6. CASE CreateAnswer(s)
  <2>1. Quiet(s, Recv(s), "idle")
    BY Zenon, <1>6 DEF CreateAnswer, Answered
  <2> QED
    BY Zenon, <2>1, QuietKeepsLogin
<1>7. CASE JoinGetRoom(s)
  <2>1. \E to \in {"join_cas", "join_refuse"} : Quiet(s, Recv(s), to)
    BY Zenon, <1>7 DEF JoinGetRoom
  <2> QED
    BY Zenon, <2>1, QuietKeepsLogin
<1>8. CASE JoinCas(s)
  <2>1. \E to \in {"join_update", "join_refuse"} : Quiet(s, Recv(s), to)
    BY Zenon, <1>8 DEF JoinCas
  <2> QED
    BY Zenon, <2>1, QuietKeepsLogin
<1>9. CASE JoinRefuse(s)
  <2>1. Quiet(s, Recv(s), "idle")
    BY Zenon, <1>9 DEF JoinRefuse, Answered
  <2> QED
    BY Zenon, <2>1, QuietKeepsLogin
<1>10. CASE JoinUpdate(s)
  <2>1. \E to \in {"join_count", "hung"} : Quiet(s, Recv(s), to)
    BY Zenon, <1>10 DEF JoinUpdate, SetCurrentRoom, Execute
  <2> QED
    BY Zenon, <2>1, QuietKeepsLogin
<1>11. CASE JoinCount(s)
  <2>1. Quiet(s, Recv(s), "join_select")
    BY <1>11 DEF JoinCount
  <2> QED
    BY Zenon, <2>1, QuietKeepsLogin
<1>12. CASE JoinSelectIds(s)
  <2>1. Quiet(s, Recv(s), "join_add")
    BY <1>12 DEF JoinSelectIds
  <2> QED
    BY Zenon, <2>1, QuietKeepsLogin
<1>13. CASE AddUser(s)
  <2>1. Quiet(s, Recv(s), "join_broadcast")
    BY <1>13 DEF AddUser
  <2> QED
    BY Zenon, <2>1, QuietKeepsLogin
<1>14. CASE JoinBroadCast(s)
  <2>1. Quiet(s, Recv(s), "join_answer")
    BY <1>14 DEF JoinBroadCast
  <2> QED
    BY Zenon, <2>1, QuietKeepsLogin
<1>15. CASE JoinAnswer(s)
  <2>1. Quiet(s, Recv(s), "idle")
    BY Zenon, <1>15 DEF JoinAnswer, Answered
  <2> QED
    BY Zenon, <2>1, QuietKeepsLogin
<1>16. CASE ChatInsert(s)
  <2>1. \E to \in {"chat_get", "hung"} : Quiet(s, Recv(s), to)
    BY Zenon, <1>16 DEF ChatInsert, Execute
  <2> QED
    BY Zenon, <2>1, QuietKeepsLogin
<1>17. CASE ChatGetRoom(s)
  <2>1. Quiet(s, Recv(s), "chat_broadcast")
    BY Zenon, <1>17 DEF ChatGetRoom
  <2> QED
    BY Zenon, <2>1, QuietKeepsLogin
<1>18. CASE ChatBroadCast(s)
  <2>1. Quiet(s, Recv(s), "idle")
    BY Zenon, <1>18 DEF ChatBroadCast, Answered
  <2> QED
    BY Zenon, <2>1, QuietKeepsLogin
<1>19. CASE OutGetRoom(s)
  <2>1. Quiet(s, Recv(s), "remove_lock")
    BY Zenon, <1>19 DEF OutGetRoom
  <2> QED
    BY Zenon, <2>1, QuietKeepsLogin
<1>20. CASE OutAnswer(s)
  <2>1. Quiet(s, Recv(s), "idle")
    BY Zenon, <1>20 DEF OutAnswer, Answered
  <2> QED
    BY Zenon, <2>1, QuietKeepsLogin
<1>21. CASE RemoveUser(Recv(s))
  BY <1>21, RemoveUserKeeps
<1> QED
  BY <1>1, <1>2, <1>3, <1>4, <1>5, <1>6, <1>7, <1>8, <1>9, <1>10, <1>11, <1>12, <1>13, <1>14, <1>15,
     <1>16, <1>17, <1>18, <1>19, <1>20, <1>21, LoginUpdateKeeps, LoginSetIdKeeps DEF Respond

LEMMA ClosingKeeps ==
    ASSUME LoginInv, NEW s \in Session, OnDisconnected(s) \/ Closing(s)
    PROVE  LoginInv'
<1> USE DEF Quiet, LoginStep, Goto, accountTable, session, locks, local
<1>1. CASE OnDisconnected(s)
  <2>1. \E to \in {"close_lock", "close_offline"} : Quiet(s, Close(s), to)
    BY Zenon, <1>1 DEF OnDisconnected
  <2> QED
    BY Zenon, <2>1, QuietKeepsLogin
<1>2. CASE CloseLock(s)
  <2>1. Quiet(s, Close(s), "remove_lock")
    BY Zenon, <1>2 DEF CloseLock
  <2> QED
    BY Zenon, <2>1, QuietKeepsLogin
<1>3. CASE RemoveUser(Close(s))
  BY <1>3, RemoveUserKeeps
<1> QED
  BY <1>1, <1>2, <1>3, CloseOfflineKeeps DEF Closing
-------------------------------------------------------------------------------
LEMMA LoginNext == LoginInv /\ [Next]_vars => LoginInv'
<1> SUFFICES ASSUME LoginInv, [Next]_vars PROVE LoginInv'
  OBVIOUS
<1>1. CASE UNCHANGED vars
  BY <1>1 DEF vars, accountTable, session, locks, local, LoginInv, ControlOK, OneSessionPerAccount,
              Live, LoggingIn
<1>2. CASE Next
  BY <1>2, RequestKeeps, RespondKeeps, ClosingKeeps DEF Next
<1> QED
  BY <1>1, <1>2

(* No account is ever used by two sessions at once: C_LOGIN's lock makes the  *)
(* test of is_online and its update one operation, and OnDisconnected clears  *)
(* is_online only as the last thing a session does.                           *)
THEOREM OneSession == Spec => []OneSessionPerAccount
<1>1. LoginInv => OneSessionPerAccount
  BY DEF LoginInv
<1> QED
  BY <1>1, LoginInit, LoginNext, PTL DEF Spec
===============================================================================
