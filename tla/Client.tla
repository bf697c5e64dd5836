-------------------------------- MODULE Client --------------------------------
(***************************************************************************)
(* The MFC client: the window's message queue and the handlers of its      *)
(* events (LoginHandler, LobbyHandler, RoomHandler), the static callbacks  *)
(* of RequestService and the queues of Model.h, filled by the worker that  *)
(* handles the packets of the connection.                                  *)
(*                                                                         *)
(* The window thread and the worker run concurrently.  A step of the       *)
(* window thread is the handling of one message up to its end or to a      *)
(* message box, which dispatches further messages until it is closed; a    *)
(* step of the worker is one access to a queue or a callback.  The server  *)
(* is external: it handles the requests in their order and may broadcast   *)
(* to a member of a room at any time.                                      *)
(*                                                                         *)
(* Of what the pages show only the id is kept.                             *)
(***************************************************************************)
EXTENDS Integers, Sequences, FiniteSets

CONSTANTS
    Id,            \* ids the user may type
    None,
    MaxClicks,     \* bound on the clicks
    MaxHurried,    \* bound on the clicks before the last request was finished
    MaxBroadcasts  \* bound on the broadcasts of the server

ASSUME ClientAssumption == None \notin Id /\ MaxClicks \in Nat /\ MaxHurried \in Nat /\ MaxBroadcasts \in Nat

VARIABLES
    shown,      \* the pages that are visible
    typed,      \* CPageLogin::_id
    me,         \* the id the lobby shows
    messages,   \* posted to the main window and not handled yet
    boxes,      \* open message boxes: the queue popped when one is closed
    callback,   \* RequestService<T>::_callback: the event it posts
    queue,      \* ResponseQ<T>::_lockQueue
    worker,     \* the packet being handled: its model and the next step
    requests, answers,  \* the two directions of the connection
    loggedIn, member,   \* at the server: the session's id, is it in a room?
    clicks, broadcasts,
    hurried,    \* clicks made before the last request was finished
    process     \* "running", or "crashed" after a failed assertion

pages == <<shown, typed, me>>
window == <<messages, boxes>>
service == <<callback, queue, worker>>
server == <<loggedIn, member, broadcasts>>
user == <<clicks, hurried>>
vars == <<pages, window, service, requests, answers, server, user, process>>

Model == {"Auth", "RefreshLobby", "CreateRoom", "JoinRoom", "RoomOut", "ChatLog", "RefreshRoom"}
(* Models whose callbacks stay: Execute(model, false) *)
Subscribed == {"ChatLog", "RefreshRoom"}

Idle == [step |-> "idle", model |-> None]

Init ==
    /\ shown = {"login"} /\ typed = None /\ me = None
    /\ messages = <<>> /\ boxes = <<>>
    /\ callback = [m \in Model |-> CASE m = "ChatLog" -> "SendChatCompleted_Room"
                                     [] m = "RefreshRoom" -> "RefreshRoomCompleted"
                                     [] OTHER -> None]
    /\ queue = [m \in Model |-> <<>>]
    /\ worker = Idle
    /\ requests = <<>> /\ answers = <<>>
    /\ loggedIn = None /\ member = "no"
    /\ clicks = 0 /\ broadcasts = 0 /\ hurried = 0
    /\ process = "running"
-------------------------------------------------------------------------------
(* The user *)

(* Something the user has asked for, or a change of page, is not finished. *)
Waiting ==
    \/ requests # <<>>
    \/ \E i \in DOMAIN answers : answers[i].model \notin Subscribed
    \/ worker.model \notin Subscribed \union {None}
    \/ \E i \in DOMAIN messages : messages[i] \notin {"SendChatCompleted_Room", "RefreshRoomCompleted"}
    \/ boxes # <<>>

(* A button of a visible page posts its event; a message box disables it. *)
Click(page, event) ==
    /\ process = "running" /\ boxes = <<>> /\ page \in shown
    /\ clicks < MaxClicks
    /\ clicks' = clicks + 1
    /\ Waiting => hurried < MaxHurried
    /\ hurried' = IF Waiting THEN hurried + 1 ELSE hurried
    /\ messages' = Append(messages, event)
    /\ UNCHANGED <<shown, me, boxes, service, requests, answers, server, process>>

OnBnClickedLogin == \E a \in Id : typed' = a /\ Click("login", "LoginClicked_Login")
OnBnClickedLegister == \E a \in Id : typed' = a /\ Click("login", "RegisterClicked_Register")
OnBnClickedCreateRoom == Click("lobby", "CreateRoomClicked_Lobby") /\ UNCHANGED typed
OnBnClickedJoinRoom == Click("lobby", "JoinRoomClicked_Lobby") /\ UNCHANGED typed
OnBnClickedRefresh == Click("lobby", "RefreshClicked_Lobby") /\ UNCHANGED typed
OnBnClickedSend == Click("room", "SendChatClicked_Room") /\ UNCHANGED typed
OnBnClickedLeave == Click("room", "LeaveRoomClicked_Room") /\ UNCHANGED typed

Clicks ==
    \/ OnBnClickedLogin \/ OnBnClickedLegister
    \/ OnBnClickedCreateRoom \/ OnBnClickedJoinRoom \/ OnBnClickedRefresh
    \/ OnBnClickedSend \/ OnBnClickedLeave
-------------------------------------------------------------------------------
(* The window thread *)

OnUIEvent(event) == process = "running" /\ messages # <<>> /\ Head(messages) = event

(* The handler posts the following events and returns. *)
Posts(events) == messages' = Tail(messages) \o events

(* Front and Pop of an empty queue return a default value. *)
IsEmpty(m) == queue[m] = <<>>
Front(m) == Head(queue[m])
Pop(m) == queue' = [queue EXCEPT ![m] = IF @ = <<>> THEN @ ELSE Tail(@)]

Assert(condition) == process' = IF condition THEN "running" ELSE "crashed"

Request(kind, m, completed) ==
    /\ callback' = [callback EXCEPT ![m] = completed]
    /\ requests' = Append(requests, [kind |-> kind, id |-> typed])

(* The handlers of the buttons: the room page asks for the id first. *)
Asks(event, kind, m, completed, needsId) ==
    /\ OnUIEvent(event)
    /\ Posts(<<>>)
    /\ Assert(needsId => ~IsEmpty("Auth"))
    /\ Request(kind, m, completed)
    /\ UNCHANGED <<pages, boxes, queue, worker, answers, server, user>>

OnClickedLogin == Asks("LoginClicked_Login", "login", "Auth", "LoginCompleted_Login", FALSE)
OnClickedRegister == Asks("RegisterClicked_Register", "register", "Auth", "RegisterCompleted_Register", FALSE)
OnRefreshClicked == Asks("RefreshClicked_Lobby", "refresh", "RefreshLobby", "RefreshCompleted_Lobby", FALSE)
OnCreateRoomClicked == Asks("CreateRoomClicked_Lobby", "create", "CreateRoom", "CreateRoomCompleted_Lobby", FALSE)
OnJoinRoomClicked == Asks("JoinRoomClicked_Lobby", "join", "JoinRoom", "JoinRoomCompleted_Lobby", FALSE)
OnSendChatClicked == Asks("SendChatClicked_Room", "chat", "ChatLog", "SendChatCompleted_Room", TRUE)
OnLeaveRoomClicked == Asks("LeaveRoomClicked_Room", "out", "RoomOut", "LeaveRoomCompleted_Room", TRUE)

(* An answer to a request that leads to another page: a failure is shown in a *)
(* message box, and popped when the box is closed; a success is left in the   *)
(* queue for the handler of the other page.                                   *)
Leads(event, m, from, next) ==
    /\ OnUIEvent(event)
    /\ Assert(~IsEmpty(m))
    /\ IF ~IsEmpty(m) /\ Front(m).ok
       THEN /\ shown' = shown \ {from}
            /\ Posts(<<next>>)
            /\ UNCHANGED boxes
       ELSE /\ Posts(<<>>)
            /\ boxes' = Append(boxes, m)
            /\ UNCHANGED shown
    /\ UNCHANGED <<typed, me, service, requests, answers, server, user>>

OnLoginCompleted == Leads("LoginCompleted_Login", "Auth", "login", "LoginCompleted_Lobby")
OnCreateRoomCompleted == Leads("CreateRoomCompleted_Lobby", "CreateRoom", "lobby", "CreateRoomCompleted_Room")
OnJoinRoomCompleted == Leads("JoinRoomCompleted_Lobby", "JoinRoom", "lobby", "JoinRoomCompleted_Room")

(* Both outcomes are shown in a box; a success is popped before. *)
OnRegisterCompleted ==
    /\ OnUIEvent("RegisterCompleted_Register")
    /\ Posts(<<>>)
    /\ Assert(~IsEmpty("Auth"))
    /\ IF ~IsEmpty("Auth") /\ Front("Auth").ok
       THEN Pop("Auth") /\ boxes' = Append(boxes, None)
       ELSE UNCHANGED queue /\ boxes' = Append(boxes, "Auth")
    /\ UNCHANGED <<pages, callback, worker, requests, answers, server, user>>


(* AfxMessageBox returns, the innermost first, and its handler goes on. *)
CloseBox ==
    LET m == boxes[Len(boxes)] IN
    /\ process = "running" /\ boxes # <<>>
    /\ boxes' = SubSeq(boxes, 1, Len(boxes) - 1)
    /\ IF m = None THEN UNCHANGED queue ELSE Pop(m)
    /\ UNCHANGED <<pages, messages, callback, worker, requests, answers, server, user, process>>

(* Mutant: the id is popped. *)
M_ShowLobby(event, needsId) ==
    /\ OnUIEvent(event)
    /\ Posts(<<>>)
    /\ Assert(needsId => ~IsEmpty("Auth"))
    /\ shown' = shown \union {"lobby"}
    /\ me' = IF IsEmpty("Auth") THEN me ELSE Front("Auth").id
    /\ Pop("Auth")
    /\ Request("refresh", "RefreshLobby", "RefreshCompleted_Lobby")
    /\ UNCHANGED <<typed, boxes, worker, answers, server, user>>

(* The lobby is shown after a login or a leave; it asks for the rooms. *)
ShowLobby(event, needsId) ==
    /\ OnUIEvent(event)
    /\ Posts(<<>>)
    /\ Assert(needsId => ~IsEmpty("Auth"))
    /\ shown' = shown \union {"lobby"}
    /\ me' = IF IsEmpty("Auth") THEN me ELSE Front("Auth").id
    /\ Request("refresh", "RefreshLobby", "RefreshCompleted_Lobby")
    /\ UNCHANGED <<typed, boxes, queue, worker, answers, server, user>>

OnLoginCompletedLobby == ShowLobby("LoginCompleted_Lobby", FALSE)
OnLeaveRoomCompletedLobby == ShowLobby("LeaveRoomCompleted_Lobby", TRUE)

OnRefreshCompleted ==
    /\ OnUIEvent("RefreshCompleted_Lobby")
    /\ Posts(<<>>)
    /\ Assert(~IsEmpty("RefreshLobby"))
    /\ Pop("RefreshLobby")
    /\ UNCHANGED <<pages, boxes, callback, worker, requests, answers, server, user>>

(* The room page is shown and filled from the answer. *)
ShowRoom(event, m, needsId) ==
    /\ OnUIEvent(event)
    /\ Posts(<<>>)
    /\ Assert(needsId => ~IsEmpty("Auth"))
    /\ shown' = shown \union {"room"}
    /\ Pop(m)
    /\ UNCHANGED <<typed, me, boxes, callback, worker, requests, answers, server, user>>

OnCreateRoomCompletedRoom == ShowRoom("CreateRoomCompleted_Room", "CreateRoom", TRUE)
OnJoinRoomCompletedRoom == ShowRoom("JoinRoomCompleted_Room", "JoinRoom", FALSE)

OnSendChatCompleted ==
    /\ OnUIEvent("SendChatCompleted_Room")
    /\ Posts(<<>>)
    /\ Assert(~IsEmpty("ChatLog"))
    /\ Pop("ChatLog")
    /\ UNCHANGED <<pages, boxes, callback, worker, requests, answers, server, user>>

OnRefreshCompletedRoom ==
    /\ OnUIEvent("RefreshRoomCompleted")
    /\ Posts(<<>>)
    /\ Pop("RefreshRoom")
    /\ UNCHANGED <<pages, boxes, callback, worker, requests, answers, server, user, process>>

(* Mutant: the room page stays visible. *)
M_OnLeaveRoomCompleted ==
    /\ OnUIEvent("LeaveRoomCompleted_Room")
    /\ Posts(<<"LeaveRoomCompleted_Lobby">>)
    /\ UNCHANGED <<shown, typed, me, boxes, service, requests, answers, server, user, process>>

OnLeaveRoomCompleted ==
    /\ OnUIEvent("LeaveRoomCompleted_Room")
    /\ Posts(<<"LeaveRoomCompleted_Lobby">>)
    /\ shown' = shown \ {"room"}
    /\ UNCHANGED <<typed, me, boxes, service, requests, answers, server, user, process>>

Dispatch ==
    \/ OnClickedLogin \/ OnClickedRegister \/ OnLoginCompleted \/ OnRegisterCompleted
    \/ OnLoginCompletedLobby \/ OnLeaveRoomCompletedLobby \/ OnRefreshClicked \/ OnRefreshCompleted
    \/ OnCreateRoomClicked \/ OnCreateRoomCompleted \/ OnJoinRoomClicked \/ OnJoinRoomCompleted
    \/ OnCreateRoomCompletedRoom \/ OnJoinRoomCompletedRoom
    \/ OnSendChatClicked \/ OnSendChatCompleted \/ OnRefreshCompletedRoom
    \/ OnLeaveRoomClicked \/ OnLeaveRoomCompleted
-------------------------------------------------------------------------------
(* The worker: a packet's data is pushed by the constructor of its model,    *)
(* then RequestService<T>::Execute calls the callback and clears it.         *)

Handle(type, m) ==
    /\ process = "running" /\ worker = Idle
    /\ answers # <<>> /\ Head(answers).type = type
    /\ answers' = Tail(answers)
    /\ queue' = [queue EXCEPT ![m] = Append(@, [ok |-> Head(answers).ok, id |-> Head(answers).id])]
    /\ worker' = [step |-> "call", model |-> m]
    /\ UNCHANGED <<pages, window, callback, requests, server, user, process>>

Handle_S_LOGIN == Handle("S_LOGIN", "Auth")
Handle_S_REGISTER == Handle("S_REGISTER", "Auth")
Handle_S_REFRESH_LOBBY == Handle("S_REFRESH_LOBBY", "RefreshLobby")
Handle_S_CREATE_ROOM == Handle("S_CREATE_ROOM", "CreateRoom")
Handle_S_JOIN_ROOM == Handle("S_JOIN_ROOM", "JoinRoom")
Handle_S_REFRESH_ROOM == Handle("S_REFRESH_ROOM", "RefreshRoom")
Handle_S_CHAT_LOG == Handle("S_CHAT_LOG", "ChatLog")
Handle_S_ROOM_OUT == Handle("S_ROOM_OUT", "RoomOut")


ExecuteCall ==
    LET m == worker.model IN
    /\ process = "running" /\ worker.step = "call"
    /\ messages' = IF callback[m] = None THEN messages ELSE Append(messages, callback[m])
    /\ worker' = IF m \in Subscribed THEN Idle ELSE [worker EXCEPT !.step = "clear"]
    /\ UNCHANGED <<pages, boxes, callback, queue, requests, answers, server, user, process>>

(* The callback is set by the window thread without the lock of Execute. *)
ExecuteClear ==
    /\ process = "running" /\ worker.step = "clear"
    /\ callback' = [callback EXCEPT ![worker.model] = None]
    /\ worker' = Idle
    /\ UNCHANGED <<pages, window, queue, requests, answers, server, user, process>>

Worker ==
    \/ Handle_S_LOGIN \/ Handle_S_REGISTER \/ Handle_S_REFRESH_LOBBY \/ Handle_S_CREATE_ROOM
    \/ Handle_S_JOIN_ROOM \/ Handle_S_REFRESH_ROOM \/ Handle_S_CHAT_LOG \/ Handle_S_ROOM_OUT
    \/ ExecuteCall \/ ExecuteClear
-------------------------------------------------------------------------------
(* The server *)

Packet(type, m, ok, id) == [type |-> type, model |-> m, ok |-> ok, id |-> id]

(* The next request is handled; its answer may be preceded by the join. *)
Answers(kind, type, m, ok) ==
    /\ requests # <<>> /\ Head(requests).kind = kind
    /\ requests' = Tail(requests)
    /\ answers' = Append(answers, Packet(type, m, ok, Head(requests).id))
    /\ UNCHANGED <<pages, window, service, broadcasts, user, process>>

ServerRegister == \E ok \in BOOLEAN :
    Answers("register", "S_REGISTER", "Auth", ok) /\ UNCHANGED <<loggedIn, member>>

ServerLogin == \E ok \in BOOLEAN :
    /\ Answers("login", "S_LOGIN", "Auth", ok)
    /\ ok => loggedIn = None
    /\ loggedIn' = IF ok THEN Head(requests).id ELSE loggedIn
    /\ UNCHANGED member

ServerRefresh ==
    Answers("refresh", "S_REFRESH_LOBBY", "RefreshLobby", TRUE) /\ UNCHANGED <<loggedIn, member>>

(* AddUser or AddRoom: from now on the session gets the room's broadcasts. *)
ServerAdds ==
    /\ requests # <<>> /\ Head(requests).kind \in {"create", "join"}
    /\ member # "adding" /\ loggedIn # None
    /\ member' = "adding"
    /\ UNCHANGED <<pages, window, service, requests, answers, loggedIn, broadcasts, user, process>>

ServerEnters ==
    /\ \/ Answers("create", "S_CREATE_ROOM", "CreateRoom", member = "adding")
       \/ Answers("join", "S_JOIN_ROOM", "JoinRoom", member = "adding")
    /\ member' = IF member = "adding" THEN "yes" ELSE member
    /\ UNCHANGED loggedIn

(* A chat or a leave of somebody in no room ends the server. *)
ServerChat ==
    /\ Answers("chat", "S_CHAT_LOG", "ChatLog", TRUE)
    /\ member = "yes"
    /\ UNCHANGED <<loggedIn, member>>

ServerOut ==
    /\ Answers("out", "S_ROOM_OUT", "RoomOut", TRUE)
    /\ member = "yes"
    /\ member' = "no"
    /\ UNCHANGED loggedIn

BroadCast(type, m) ==
    /\ member # "no" /\ broadcasts < MaxBroadcasts
    /\ broadcasts' = broadcasts + 1
    /\ answers' = Append(answers, Packet(type, m, TRUE, None))
    /\ UNCHANGED <<pages, window, service, requests, loggedIn, member, user, process>>

Others == BroadCast("S_CHAT_LOG", "ChatLog") \/ BroadCast("S_REFRESH_ROOM", "RefreshRoom")

Server ==
    \/ ServerRegister \/ ServerLogin \/ ServerRefresh \/ ServerAdds \/ ServerEnters
    \/ ServerChat \/ ServerOut
-------------------------------------------------------------------------------
Next == Clicks \/ Dispatch \/ CloseBox \/ Worker \/ Server \/ Others

Spec == Init /\ [][Next]_vars

(* The window thread and the worker go on, boxes are closed, and the server  *)
(* answers; nobody need click or broadcast.                                  *)
Fairness ==
    WF_vars(Dispatch) /\ WF_vars(CloseBox) /\ WF_vars(Worker) /\ WF_vars(Server)

FairSpec == Spec /\ Fairness
-------------------------------------------------------------------------------
(* No handler finds its queue empty: every completion that is posted has had  *)
(* its data pushed before, and only the login's data is looked at twice.      *)
NoAssertionFails == process = "running"

(* One page is visible, or the message that shows the next one is on its way, *)
(* as long as the user waits for the answer to one click before the next.     *)
OnePage ==
    hurried = 0 =>
        Cardinality(shown) +
        Cardinality({i \in DOMAIN messages : messages[i] \in
            {"LoginCompleted_Lobby", "CreateRoomCompleted_Room", "JoinRoomCompleted_Room",
             "LeaveRoomCompleted_Lobby"}}) = 1

Settled == ~Waiting /\ answers = <<>> /\ worker = Idle /\ messages = <<>>


===============================================================================
