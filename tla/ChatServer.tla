----------------------------- MODULE ChatServer -------------------------------
(***************************************************************************)
(* The service logic of Server/: the packet respondents (AuthRespondent.h, *)
(* LobbyRespondent.h, RoomRepondent.h), Room and RoomHandler, the          *)
(* disconnection of a ClientSession and the MySQL tables they share.       *)
(*                                                                         *)
(* A session has one receive outstanding and its handlers run inline on    *)
(* the worker thread that got it, so one actor <<s, "recv">> handles the   *)
(* packets of session s one by one; the completion of DisconnectEx is      *)
(* another event, handled by <<s, "close">> on any worker.  One step is    *)
(* one SQL statement (auto-committed, atomic), one access to a shared      *)
(* atomic, or one section of a lock that no statement interrupts; a lock   *)
(* held across statements is a variable.                                   *)
(*                                                                         *)
(* Passwords, texts and the log rows are abstracted away; ids and names    *)
(* have at most 13 characters, what the out buffers hold.  Clients are     *)
(* those of Client/: a request is sent from the page that offers it, with  *)
(* the client's own id, and the answer changes the page.                   *)
(***************************************************************************)
EXTENDS Integers, FiniteSets

CONSTANTS
    Session,      \* connections
    Account,      \* possible values of account.id
    RoomName,     \* possible values of room.room_name
    MayUse,       \* MayUse[s]: the ids the user of connection s types
    MaxRoom,      \* bound on the AUTO_INCREMENT of room.room_id
    CloseAnytime, \* may DisconnectEx complete while a handler of the session runs?
    DoubleClicks, \* bound on the clicks repeated before the answer arrives
    None          \* NULL, no name, no lock holder

ASSUME ChatAssumption ==
    /\ IsFiniteSet(Session) /\ IsFiniteSet(Account)
    /\ None \notin Session \union Account \union RoomName
    /\ MayUse \in [Session -> SUBSET Account]
    /\ MaxRoom \in Nat
    /\ CloseAnytime \in BOOLEAN /\ DoubleClicks \in Nat

RoomId == 1..MaxRoom
Actor == Session \X {"recv", "close"}
Recv(s) == <<s, "recv">>
Close(s) == <<s, "close">>

Destruction == -1
Empty == 0

VARIABLES
    (* chat.account *)
    accounts,     \* the ids with a row
    online,       \* the ids with is_online
    currentRoom,  \* current_room_id, 0 is NULL
    (* chat.room *)
    roomName,     \* room_name of each id, None without a row
    userCount,    \* user_count
    lastRoom,     \* the last room_id given
    (* Room objects and RoomHandler::_rooms *)
    users,        \* _users of each Room: account -> session or None
    roomState,    \* roomState of each Room
    roomLock,     \* holder of each Room's _lock
    rooms,        \* keys of _rooms
    (* ClientSession *)
    connected, id, room,
    (* locks of the login and the create respondents *)
    loginLock, createLock,
    (* what the client shows *)
    page, lobby, userList, again, doubled,
    (* control and locals of the actors *)
    pc, arg, rid, ids,
    process       \* "running", or the check that failed

accountTable == <<accounts, online, currentRoom>>
roomTable == <<roomName, userCount, lastRoom>>
roomObjects == <<users, roomState, roomLock, rooms>>
session == <<connected, id, room>>
locks == <<loginLock, createLock>>
clicks == <<again, doubled>>
client == <<page, lobby, userList, clicks>>
local == <<arg, rid, ids>>

vars == <<accountTable, roomTable, roomObjects, session, locks, client, pc, local, process>>

NobodyLoggedIn ==
    /\ accounts = {} /\ online = {}
    /\ id = [s \in Session |-> None]
    /\ page = [s \in Session |-> "login"]

NothingHappening ==
    /\ currentRoom = [a \in Account |-> 0]
    /\ roomName = [r \in RoomId |-> None]
    /\ userCount = [r \in RoomId |-> 0]
    /\ lastRoom = 0
    /\ users = [r \in RoomId |-> [a \in Account |-> None]]
    /\ roomState = [r \in RoomId |-> Empty]
    /\ roomLock = [r \in RoomId |-> None]
    /\ rooms = {}
    /\ connected = [s \in Session |-> TRUE]
    /\ room = [s \in Session |-> 0]
    /\ loginLock = None /\ createLock = None
    /\ lobby = [s \in Session |-> {}]
    /\ userList = [s \in Session |-> {}]
    /\ again = [s \in Session |-> "none"] /\ doubled = 0
    /\ pc = [p \in Actor |-> "idle"]
    /\ arg = [s \in Session |-> None]
    /\ rid = [p \in Actor |-> 0]
    /\ ids = [p \in Actor |-> {}]
    /\ process = "running"

Init == NobodyLoggedIn /\ NothingHappening
-------------------------------------------------------------------------------
Goto(p, from, to) ==
    /\ process = "running"
    /\ pc[p] = from
    /\ pc' = [pc EXCEPT ![p] = to]

(* ASSERT_CRASH or a null pointer: the process ends. *)
Check(condition, failure) == process' = IF condition THEN "running" ELSE failure

(* A statement the database refuses: the loop of DBConnection::HandleError    *)
(* never ends, and the worker keeps the locks it has.                         *)
Execute(accepted, next) == IF accepted THEN next ELSE "hung"

RowOf(name) == {r \in RoomId : roomName[r] = name}
Members(r) == {a \in Account : users[r][a] # None}
InRoom(r) == {a \in Account : currentRoom[a] = r}

(* RoomHandler::GetRoom reads _rooms without its lock: while AddRoom or     *)
(* RemoveRoom rebalances the map a lookup may miss a key that is there.     *)
RegistryBusy(p) == \E q \in Actor \ {p} : pc[q] \in {"create_add", "remove_registry"}
GetRoom(p, r, found) ==
    \/ found = (r \in rooms)
    \/ RegistryBusy(p) /\ ~found

(* Room::BroadCast of a user list, to all of _users but the excluded session *)
BroadCast(r, list, except) ==
    userList' = [s \in Session |->
        IF connected[s] /\ s # except /\ \E a \in Account : users[r][a] = s THEN list ELSE userList[s]]

PageOf(kind) ==
    CASE kind \in {"register", "login"} -> "login"
      [] kind \in {"refresh", "create", "join"} -> "lobby"
      [] kind \in {"chat", "out"} -> "room"

(* A packet reaches the handler: a click on the current page, or the second  *)
(* click on the same button, sent before the first was answered.             *)
Arrives(s, kind, x, to) ==
    /\ Goto(Recv(s), "idle", to)
    /\ \/ /\ again[s] = kind /\ arg[s] = x
          /\ again' = [again EXCEPT ![s] = "none"]
          /\ UNCHANGED doubled
       \/ /\ again[s] = "none" /\ connected[s] /\ page[s] = PageOf(kind)
          /\ \/ UNCHANGED clicks
             \/ /\ doubled < DoubleClicks
                /\ again' = [again EXCEPT ![s] = kind]
                /\ doubled' = doubled + 1
    /\ arg' = [arg EXCEPT ![s] = IF again'[s] = "none" /\ to = "idle" THEN None ELSE x]

(* The respondent has sent its answer and returns. *)
Answered(s, from) ==
    /\ Goto(Recv(s), from, "idle")
    /\ arg' = [arg EXCEPT ![s] = IF again[s] = "none" THEN None ELSE @]
    /\ rid' = [rid EXCEPT ![Recv(s)] = 0]
    /\ ids' = [ids EXCEPT ![Recv(s)] = {}]
-------------------------------------------------------------------------------
(* AuthRespondent.h *)

Register(s, a) ==
    /\ Arrives(s, "register", a, "idle")
    /\ accounts' = accounts \union {a}
    /\ UNCHANGED <<online, currentRoom, roomTable, roomObjects, session, locks,
                   page, lobby, userList, rid, ids, process>>

(* Mutant: the SELECT is done outside the lock. *)
M_LoginSelect(s, a) ==
    LET canLogin == a \in accounts \ online IN
    /\ Arrives(s, "login", a, IF canLogin THEN "login_update" ELSE "idle")
    /\ loginLock' = IF canLogin THEN s ELSE None
    /\ UNCHANGED <<accountTable, roomTable, roomObjects, session, createLock,
                   page, lobby, userList, rid, ids, process>>

(* SELECT under the login lock: the id must exist and be offline. *)
LoginSelect(s, a) ==
    LET canLogin == a \in accounts \ online IN
    /\ loginLock = None
    /\ Arrives(s, "login", a, IF canLogin THEN "login_update" ELSE "idle")
    /\ loginLock' = IF canLogin THEN s ELSE None
    /\ UNCHANGED <<accountTable, roomTable, roomObjects, session, createLock,
                   page, lobby, userList, rid, ids, process>>

LoginUpdate(s) ==
    /\ Goto(Recv(s), "login_update", "login_set_id")
    /\ online' = online \union {arg[s]}
    /\ UNCHANGED <<accounts, currentRoom, roomTable, roomObjects, session, locks,
                   client, local, process>>

LoginSetId(s) ==
    /\ Answered(s, "login_set_id")
    /\ id' = [id EXCEPT ![s] = arg[s]]
    /\ page' = [page EXCEPT ![s] = "lobby"]
    /\ loginLock' = None
    /\ UNCHANGED <<accountTable, roomTable, roomObjects, connected, room, createLock,
                   lobby, userList, clicks, process>>
-------------------------------------------------------------------------------
(* LobbyRespondent.h *)

RefreshLobby(s) ==
    /\ Arrives(s, "refresh", None, "idle")
    /\ lobby' = [lobby EXCEPT ![s] = {roomName[r] : r \in RoomId} \ {None}]
    /\ UNCHANGED <<accountTable, roomTable, roomObjects, session, locks,
                   page, userList, rid, ids, process>>

(* Mutant: the SELECT is done outside the lock. *)
M_CreateSelect(s, name) ==
    LET canCreate == RowOf(name) = {} IN
    /\ canCreate => lastRoom < MaxRoom
    /\ Arrives(s, "create", name, IF canCreate THEN "create_insert" ELSE "idle")
    /\ createLock' = IF canCreate THEN s ELSE None
    /\ UNCHANGED <<accountTable, roomTable, roomObjects, session, loginLock,
                   page, lobby, userList, rid, ids, process>>

(* SELECT under the create lock: no room may have the name. *)
CreateSelect(s, name) ==
    LET canCreate == RowOf(name) = {} IN
    /\ createLock = None
    /\ canCreate => lastRoom < MaxRoom
    /\ Arrives(s, "create", name, IF canCreate THEN "create_insert" ELSE "idle")
    /\ createLock' = IF canCreate THEN s ELSE None
    /\ UNCHANGED <<accountTable, roomTable, roomObjects, session, loginLock,
                   page, lobby, userList, rid, ids, process>>

(* room_name is UNIQUE. *)
CreateInsert(s) ==
    LET accepted == RowOf(arg[s]) = {} IN
    /\ Goto(Recv(s), "create_insert", Execute(accepted, "create_select"))
    /\ IF accepted
       THEN /\ lastRoom' = lastRoom + 1
            /\ roomName' = [roomName EXCEPT ![lastRoom + 1] = arg[s]]
            /\ userCount' = [userCount EXCEPT ![lastRoom + 1] = 1]
            /\ createLock' = None
       ELSE UNCHANGED <<roomTable, createLock>>
    /\ UNCHANGED <<accountTable, roomObjects, session, loginLock, client, local, process>>

(* SELECT room_id of the inserted row, then UPDATE of the account. *)
CreateSelectId(s) ==
    /\ Goto(Recv(s), "create_select", "create_update")
    /\ Check(RowOf(arg[s]) # {}, "room row not found")
    /\ \E r \in IF RowOf(arg[s]) = {} THEN {0} ELSE RowOf(arg[s]) :
          rid' = [rid EXCEPT ![Recv(s)] = r]
    /\ UNCHANGED <<accountTable, roomTable, roomObjects, session, locks, client, arg, ids>>

(* current_room_id is a FOREIGN KEY. *)
SetCurrentRoom(s, from, to) ==
    LET r == rid[Recv(s)]
        accepted == roomName[r] # None IN
    /\ Goto(Recv(s), from, Execute(accepted, to))
    /\ currentRoom' = IF accepted THEN [currentRoom EXCEPT ![id[s]] = r] ELSE currentRoom
    /\ UNCHANGED <<accounts, online, roomTable, roomObjects, session, locks, client, local, process>>

CreateUpdate(s) == SetCurrentRoom(s, "create_update", "create_room")

(* The Room is made with its first user and given to the session. *)
CreateRoom(s) ==
    LET r == rid[Recv(s)] IN
    /\ Goto(Recv(s), "create_room", "create_add")
    /\ users' = [users EXCEPT ![r] = [a \in Account |-> IF a = id[s] THEN s ELSE None]]
    /\ roomState' = [roomState EXCEPT ![r] = Empty + 1]
    /\ room' = [room EXCEPT ![s] = r]
    /\ UNCHANGED <<accountTable, roomTable, roomLock, rooms, connected, id, locks,
                   client, local, process>>

AddRoom(s) ==
    /\ Goto(Recv(s), "create_add", "create_answer")
    /\ rooms' = rooms \union {rid[Recv(s)]}
    /\ UNCHANGED <<accountTable, roomTable, users, roomState, roomLock, session, locks,
                   client, local, process>>

(* S_CREATE_ROOM: the client shows the room with itself as its only user. *)
CreateAnswer(s) ==
    /\ Answered(s, "create_answer")
    /\ page' = [page EXCEPT ![s] = "room"]
    /\ userList' = [userList EXCEPT ![s] = {id[s]}]
    /\ UNCHANGED <<accountTable, roomTable, roomObjects, session, locks, lobby, clicks, process>>

JoinSelect(s, name) ==
    LET row == RowOf(name) IN
    /\ name \in lobby[s]
    /\ Arrives(s, "join", name, IF row = {} THEN "idle" ELSE "join_get")
    /\ \E r \in IF row = {} THEN {0} ELSE row : rid' = [rid EXCEPT ![Recv(s)] = r]
    /\ UNCHANGED <<accountTable, roomTable, roomObjects, session, locks,
                   page, lobby, userList, ids, process>>

JoinGetRoom(s) ==
    \E found \in BOOLEAN :
        /\ GetRoom(Recv(s), rid[Recv(s)], found)
        /\ Goto(Recv(s), "join_get", IF found THEN "join_cas" ELSE "join_refuse")
        /\ UNCHANGED <<accountTable, roomTable, roomObjects, session, locks, client, local, process>>

(* The load and the compare-exchange loop: one more user unless the room is  *)
(* being destroyed.                                                          *)
JoinCas(s) ==
    LET r == rid[Recv(s)]
        canJoin == roomState[r] # Destruction IN
    /\ Goto(Recv(s), "join_cas", IF canJoin THEN "join_update" ELSE "join_refuse")
    /\ roomState' = IF canJoin THEN [roomState EXCEPT ![r] = @ + 1] ELSE roomState
    /\ UNCHANGED <<accountTable, roomTable, users, roomLock, rooms, session, locks,
                   client, local, process>>

JoinRefuse(s) ==
    /\ Answered(s, "join_refuse")
    /\ UNCHANGED <<accountTable, roomTable, roomObjects, session, locks, client, process>>

JoinUpdate(s) == SetCurrentRoom(s, "join_update", "join_count")

(* Mutant: user_count is not incremented. *)
M_JoinCount(s) ==
    /\ Goto(Recv(s), "join_count", "join_select")
    /\ userCount' = userCount
    /\ UNCHANGED <<accountTable, roomName, lastRoom, roomObjects, session, locks,
                   client, local, process>>

JoinCount(s) ==
    LET r == rid[Recv(s)] IN
    /\ Goto(Recv(s), "join_count", "join_select")
    /\ userCount' = IF roomName[r] # None THEN [userCount EXCEPT ![r] = @ + 1] ELSE userCount
    /\ UNCHANGED <<accountTable, roomName, lastRoom, roomObjects, session, locks,
                   client, local, process>>

JoinSelectIds(s) ==
    /\ Goto(Recv(s), "join_select", "join_add")
    /\ ids' = [ids EXCEPT ![Recv(s)] = InRoom(rid[Recv(s)])]
    /\ UNCHANGED <<accountTable, roomTable, roomObjects, session, locks, client, arg, rid, process>>


(* Room::AddUser refuses when _users is empty; its result is not looked at.  *)
AddUser(s) ==
    LET r == rid[Recv(s)] IN
    /\ Goto(Recv(s), "join_add", "join_broadcast")
    /\ roomLock[r] = None
    /\ IF Members(r) = {}
       THEN UNCHANGED <<users, room>>
       ELSE /\ users' = [users EXCEPT ![r][id[s]] = s]
            /\ room' = [room EXCEPT ![s] = r]
    /\ UNCHANGED <<accountTable, roomTable, roomState, roomLock, rooms, connected, id,
                   locks, client, local, process>>

JoinBroadCast(s) ==
    LET r == rid[Recv(s)] IN
    /\ Goto(Recv(s), "join_broadcast", "join_answer")
    /\ roomLock[r] = None
    /\ BroadCast(r, ids[Recv(s)], s)
    /\ UNCHANGED <<accountTable, roomTable, roomObjects, session, locks,
                   page, lobby, clicks, local, process>>

JoinAnswer(s) ==
    /\ Answered(s, "join_answer")
    /\ page' = [page EXCEPT ![s] = "room"]
    /\ userList' = [userList EXCEPT ![s] = ids[Recv(s)]]
    /\ UNCHANGED <<accountTable, roomTable, roomObjects, session, locks, lobby, clicks, process>>
-------------------------------------------------------------------------------
(* RoomRepondent.h *)

(* SELECT of the sender's room joined with the room table. *)
ChatSelect(s) ==
    LET r == currentRoom[id[s]] IN
    /\ Arrives(s, "chat", None, "chat_insert")
    /\ Check(r # 0, "sender is in no room")
    /\ rid' = [rid EXCEPT ![Recv(s)] = r]
    /\ UNCHANGED <<accountTable, roomTable, roomObjects, session, locks,
                   page, lobby, userList, ids>>

(* The row of chat.log refers to the room by a FOREIGN KEY. *)
ChatInsert(s) ==
    /\ Goto(Recv(s), "chat_insert", Execute(roomName[rid[Recv(s)]] # None, "chat_get"))
    /\ UNCHANGED <<accountTable, roomTable, roomObjects, session, locks, client, local, process>>

ChatGetRoom(s) ==
    \E found \in BOOLEAN :
        /\ GetRoom(Recv(s), rid[Recv(s)], found)
        /\ Goto(Recv(s), "chat_get", "chat_broadcast")
        /\ Check(found, "chat to a null room")
        /\ UNCHANGED <<accountTable, roomTable, roomObjects, session, locks, client, local>>

(* The broadcast of the text changes no list; the respondent answers nothing. *)
ChatBroadCast(s) ==
    /\ Answered(s, "chat_broadcast")
    /\ roomLock[rid[Recv(s)]] = None
    /\ UNCHANGED <<accountTable, roomTable, roomObjects, session, locks, client, process>>

OutSelect(s) ==
    LET r == currentRoom[id[s]] IN
    /\ Arrives(s, "out", None, "out_get")
    /\ Check(r # 0, "current_room_id is NULL")
    /\ rid' = [rid EXCEPT ![Recv(s)] = r]
    /\ UNCHANGED <<accountTable, roomTable, roomObjects, session, locks,
                   page, lobby, userList, ids>>

OutGetRoom(s) ==
    \E found \in BOOLEAN :
        /\ GetRoom(Recv(s), rid[Recv(s)], found)
        /\ Goto(Recv(s), "out_get", "remove_lock")
        /\ Check(found, "null room")
        /\ UNCHANGED <<accountTable, roomTable, roomObjects, session, locks, client, local>>

(* S_ROOM_OUT: the client clears both lists and shows the lobby. *)
OutAnswer(s) ==
    /\ Answered(s, "out_answer")
    /\ page' = [page EXCEPT ![s] = "lobby"]
    /\ userList' = [userList EXCEPT ![s] = {}]
    /\ lobby' = [lobby EXCEPT ![s] = {}]
    /\ UNCHANGED <<accountTable, roomTable, roomObjects, session, locks, clicks, process>>
-------------------------------------------------------------------------------
(* Room::RemoveUser, called by C_ROOM_OUT and by OnDisconnected: everything  *)
(* after the first step happens under the room's lock.                       *)

User(p) == id[p[1]]
AfterRemove(p) == IF p[2] = "recv" THEN "out_answer" ELSE "close_offline"

RemoveLock(p) ==
    /\ Goto(p, "remove_lock", "remove_count")
    /\ roomLock[rid[p]] = None
    /\ roomLock' = [roomLock EXCEPT ![rid[p]] = p]
    /\ currentRoom' = [currentRoom EXCEPT ![User(p)] = 0]
    /\ UNCHANGED <<accounts, online, roomTable, users, roomState, rooms, session, locks,
                   client, local, process>>

RemoveCount(p) ==
    /\ Goto(p, "remove_count", "remove_erase")
    /\ userCount' = IF roomName[rid[p]] # None THEN [userCount EXCEPT ![rid[p]] = @ - 1] ELSE userCount
    /\ UNCHANGED <<accountTable, roomName, lastRoom, roomObjects, session, locks,
                   client, local, process>>

RemoveErase(p) ==
    LET r == rid[p]
        s == users[r][User(p)] IN
    /\ Goto(p, "remove_erase", "remove_cas")
    /\ Check(s # None, "user not in room")
    /\ room' = IF s # None THEN [room EXCEPT ![s] = 0] ELSE room
    /\ users' = [users EXCEPT ![r][User(p)] = None]
    /\ roomState' = IF s # None THEN [roomState EXCEPT ![r] = @ - 1] ELSE roomState
    /\ UNCHANGED <<accountTable, roomTable, roomLock, rooms, connected, id, locks, client, local>>

(* Mutant: the room is destroyed when _users is empty. *)
M_RemoveCas(p) ==
    LET r == rid[p] IN
    /\ Goto(p, "remove_cas", IF Members(r) = {} THEN "remove_delete" ELSE "remove_select")
    /\ roomState' = IF Members(r) = {} THEN [roomState EXCEPT ![r] = Destruction] ELSE roomState
    /\ UNCHANGED <<accountTable, roomTable, users, roomLock, rooms, session, locks,
                   client, local, process>>

RemoveCas(p) ==
    LET r == rid[p] IN
    /\ Goto(p, "remove_cas", IF roomState[r] = Empty THEN "remove_delete" ELSE "remove_select")
    /\ roomState' = IF roomState[r] = Empty THEN [roomState EXCEPT ![r] = Destruction] ELSE roomState
    /\ UNCHANGED <<accountTable, roomTable, users, roomLock, rooms, session, locks,
                   client, local, process>>


(* DELETE ... WHERE user_count <= 0; the foreign key sets members to NULL. *)
RemoveDelete(p) ==
    LET r == rid[p] IN
    /\ Goto(p, "remove_delete", "remove_registry")
    /\ IF userCount[r] <= 0
       THEN /\ roomName' = [roomName EXCEPT ![r] = None]
            /\ currentRoom' = [a \in Account |-> IF currentRoom[a] = r THEN 0 ELSE currentRoom[a]]
       ELSE UNCHANGED <<roomName, currentRoom>>
    /\ UNCHANGED <<accounts, online, userCount, lastRoom, roomObjects, session, locks,
                   client, local, process>>

RemoveRegistry(p) ==
    LET r == rid[p] IN
    /\ Goto(p, "remove_registry", AfterRemove(p))
    /\ Check(r \in rooms, "room not registered")
    /\ rooms' = rooms \ {r}
    /\ roomLock' = [roomLock EXCEPT ![r] = None]
    /\ UNCHANGED <<accountTable, roomTable, users, roomState, session, locks, client, local>>

RemoveSelect(p) ==
    /\ Goto(p, "remove_select", "remove_broadcast")
    /\ ids' = [ids EXCEPT ![p] = InRoom(rid[p])]
    /\ UNCHANGED <<accountTable, roomTable, roomObjects, session, locks, client, arg, rid, process>>

(* Mutant: with nobody to tell, the guard is not released. *)
M_RemoveBroadCast(p) ==
    /\ Goto(p, "remove_broadcast", AfterRemove(p))
    /\ IF ids[p] # {} THEN BroadCast(rid[p], ids[p], None) ELSE UNCHANGED userList
    /\ roomLock' = IF ids[p] # {} THEN [roomLock EXCEPT ![rid[p]] = None] ELSE roomLock
    /\ UNCHANGED <<accountTable, roomTable, users, roomState, rooms, session, locks,
                   page, lobby, clicks, local, process>>

RemoveBroadCast(p) ==
    /\ Goto(p, "remove_broadcast", AfterRemove(p))
    /\ IF ids[p] # {} THEN BroadCast(rid[p], ids[p], None) ELSE UNCHANGED userList
    /\ roomLock' = [roomLock EXCEPT ![rid[p]] = None]
    /\ UNCHANGED <<accountTable, roomTable, users, roomState, rooms, session, locks,
                   page, lobby, clicks, local, process>>

RemoveUser(p) ==
    \/ RemoveLock(p) \/ RemoveCount(p) \/ RemoveErase(p) \/ RemoveCas(p)
    \/ RemoveDelete(p) \/ RemoveRegistry(p) \/ RemoveSelect(p) \/ RemoveBroadCast(p)
-------------------------------------------------------------------------------
(* ClientSession::OnDisconnected.  The first step is the completion of       *)
(* DisconnectEx up to the test of _room.                                     *)
OnDisconnected(s) ==
    /\ connected[s]
    /\ CloseAnytime \/ (pc[Recv(s)] = "idle" /\ again[s] = "none")
    /\ Goto(Close(s), "idle", IF room[s] # 0 THEN "close_lock" ELSE "close_offline")
    /\ connected' = [connected EXCEPT ![s] = FALSE]
    /\ UNCHANGED <<accountTable, roomTable, roomObjects, id, room, locks, client, local, process>>

(* _room.lock() after _room.expired(): the pointer may have been reset between. *)
CloseLock(s) ==
    /\ Goto(Close(s), "close_lock", "remove_lock")
    /\ Check(room[s] # 0, "null room")
    /\ rid' = [rid EXCEPT ![Close(s)] = room[s]]
    /\ UNCHANGED <<accountTable, roomTable, roomObjects, session, locks, client, arg, ids>>


CloseOffline(s) ==
    /\ Goto(Close(s), "close_offline", "closed")
    /\ online' = online \ {id[s]}
    /\ rid' = [rid EXCEPT ![Close(s)] = 0]
    /\ ids' = [ids EXCEPT ![Close(s)] = {}]
    /\ UNCHANGED <<accounts, currentRoom, roomTable, roomObjects, session, locks, client, arg, process>>
-------------------------------------------------------------------------------
Request(s) ==
    \/ \E a \in MayUse[s] : Register(s, a) \/ LoginSelect(s, a)
    \/ \E name \in RoomName : CreateSelect(s, name) \/ JoinSelect(s, name)
    \/ RefreshLobby(s) \/ ChatSelect(s) \/ OutSelect(s)

Respond(s) ==
    \/ LoginUpdate(s) \/ LoginSetId(s)
    \/ CreateInsert(s) \/ CreateSelectId(s) \/ CreateUpdate(s) \/ CreateRoom(s) \/ AddRoom(s)
    \/ CreateAnswer(s)
    \/ JoinGetRoom(s) \/ JoinCas(s) \/ JoinRefuse(s) \/ JoinUpdate(s) \/ JoinCount(s)
    \/ JoinSelectIds(s) \/ AddUser(s) \/ JoinBroadCast(s) \/ JoinAnswer(s)
    \/ ChatInsert(s) \/ ChatGetRoom(s) \/ ChatBroadCast(s)
    \/ OutGetRoom(s) \/ RemoveUser(Recv(s)) \/ OutAnswer(s)

Closing(s) == CloseLock(s) \/ RemoveUser(Close(s)) \/ CloseOffline(s)

Next == \E s \in Session : Request(s) \/ Respond(s) \/ OnDisconnected(s) \/ Closing(s)

Spec == Init /\ [][Next]_vars

(* Users need not do anything; a worker that has begun to handle an event     *)
(* goes on, and one that spins on a lock released again and again gets it.    *)
Fairness == \A s \in Session : SF_vars(Respond(s)) /\ SF_vars(Closing(s))

FairSpec == Spec /\ Fairness
-------------------------------------------------------------------------------
Live(s) == pc[Close(s)] # "closed"
LoggingIn(s) == pc[Recv(s)] = "login_set_id"

(* The login lock of C_LOGIN and the order of OnDisconnected (leave the room  *)
(* first, go offline last) let at most one session that is not completely     *)
(* closed have a given id.                                                    *)
OneSessionPerAccount ==
    \A s, t \in Session : s # t /\ id[s] # None /\ id[s] = id[t] => ~ (Live(s) /\ Live(t))


Creating(r) ==
    \E s \in Session :
        /\ pc[Recv(s)] \in {"create_select", "create_update", "create_room"}
        /\ roomName[r] = arg[s]
Joining(r, steps) == {s \in Session : pc[Recv(s)] \in steps /\ rid[Recv(s)] = r}
Removing(r, steps) == {p \in Actor : pc[p] \in steps /\ rid[p] = r}

(* user_count in the database and roomState in memory are changed by          *)
(* different statements, in C_JOIN_ROOM one before and in RemoveUser one      *)
(* after the other; whatever the interleaving they differ by exactly the      *)
(* handlers between the two.                                                  *)
CountsAgree ==
    process = "running" =>
        \A r \in RoomId : roomName[r] # None =>
            IF Creating(r) THEN userCount[r] = 1 /\ roomState[r] = Empty
            ELSE userCount[r] + Cardinality(Joining(r, {"join_update", "join_count"}))
                              + Cardinality(Removing(r, {"remove_erase"}))
                 = IF roomState[r] = Destruction THEN 0 ELSE roomState[r]

(* The Room of r as AbstractRoom describes it.  A user is inside from the      *)
(* compare-exchange of C_JOIN_ROOM, before any table says so, until RemoveUser *)
(* has erased it, after the tables have forgotten it.                          *)
Inside(r) ==
    InRoom(r)
    \union {id[s] : s \in Joining(r, {"join_update"})}
    \union {User(p) : p \in {q \in Removing(r, {"remove_count", "remove_erase"}) : users[r][User(q)] # None}}

StateOf(r) ==
    CASE roomState[r] = Destruction -> "closed"
      [] roomState[r] # Destruction /\ (r \in rooms \/ Joining(r, {"create_add"}) # {}) -> "open"
      [] OTHER -> "none"

TheRoom == INSTANCE AbstractRoom WITH
    Room <- RoomId, Visitor <- Account,
    state <- [r \in RoomId |-> StateOf(r)],
    inside <- [r \in RoomId |-> IF StateOf(r) = "none" THEN {} ELSE Inside(r)]

(* Counter, map and tables of a room are changed by different steps of        *)
(* several handlers, but what its users see is AbstractRoom: the room is      *)
(* destroyed only when nobody is inside or on the way in, and nobody gets     *)
(* into it, or is still recorded in it, afterwards.                           *)
ImplementsRoom == TheRoom!Spec


(* No statement violates a constraint of the schema, which would hang its     *)
(* worker in HandleError, and no lookup of a row or a room that must exist    *)
(* fails: room names are unique because of the create lock, and the room a    *)
(* join or a chat refers to still has its row.                                *)
NoConstraintFailure ==
    /\ \A p \in Actor : pc[p] # "hung"
    /\ process \notin {"room row not found", "room not registered"}


(* Whoever begins to handle a packet or a disconnection finishes, unless the  *)
(* process ends: no lock is kept and no two handlers wait for each other.     *)
EveryEventIsHandled ==
    \A p \in Actor :
        pc[p] \notin {"idle", "closed"} ~> pc[p] \in {"idle", "closed"} \/ process # "running"
-------------------------------------------------------------------------------
(* What comments and assertions of the code say, and the code does not keep. *)

(* "Unless it is Destruction, the user is joined" (the loop of C_JOIN_ROOM):  *)
(* a user told that the join succeeded is one of the Room's _users.           *)
JoinedUserIsAdded ==
    \A s \in Session : pc[Recv(s)] = "join_answer" => users[rid[Recv(s)]][id[s]] = s

(* ASSERT_CRASH of RemoveUser: the user who leaves is in _users. *)
UserIsInRoom == process # "user not in room"

(* "The room has changed, so broadcast it": when nothing is being handled,    *)
(* everybody in a room is shown the users of the room.                        *)
UserListIsFresh ==
    (\A p \in Actor : pc[p] \in {"idle", "closed"}) =>
        \A s \in Session : connected[s] /\ page[s] = "room" /\ room[s] # 0 =>
            userList[s] = InRoom(room[s])
===============================================================================
