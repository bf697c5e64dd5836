------------------------------ MODULE Resources -------------------------------
(***************************************************************************)
(* What the workers hold while they run the handlers: connections of the   *)
(* DBConnectionPool, the one statement of each connection, and the locks   *)
(* taken around and between the statements.  ChatServer models what the    *)
(* statements do; here they only take time, and may fail.                  *)
(*                                                                         *)
(* A handler is a path, the sequence of its operations on these resources; *)
(* which path is taken depends on data that is not modelled here, so a     *)
(* worker takes any.  A worker runs one handler at a time, because a job   *)
(* pushed inside another one waits.  Rooms have one lock here: handlers of *)
(* different rooms wait for each other more often than in the server.      *)
(***************************************************************************)
EXTENDS Naturals, Sequences, FiniteSets

CONSTANTS
    Worker,       \* the worker threads, 11 in Server.cpp
    Connection,   \* the connections of GDBConnectionPool, 30 in Server.cpp
    Handler,      \* the handlers that run
    MaxFailures,  \* bound on the statements that fail
    None

(* At most one connection of a handler and one of Room::RemoveUser inside it. *)
ASSUME ResourcesAssumption ==
    /\ IsFiniteSet(Worker) /\ IsFiniteSet(Connection)
    /\ Cardinality(Connection) >= 2 * Cardinality(Worker)
    /\ MaxFailures \in Nat /\ None \notin Worker

-------------------------------------------------------------------------------
(* Operations: Pop, the constructor of DBBind with its BindParam and BindCol, *)
(* Execute of a query with and without rows, Execute(false), Fetch, Push and  *)
(* the lock guards.  A path is put together from them.                        *)
Pop == <<<<"Pop">>>>
Bind == <<<<"DBBind">>>>
Select == <<<<"Select">>>>
Update == <<<<"Update">>>>
Insert == <<<<"Insert">>>>
Fetch == <<<<"Fetch">>>>
Push == <<<<"Push">>>>
Guarded(lock, body) == <<<<"lock", lock>>>> \o body \o <<<<"unlock", lock>>>>

Lock == {"C_LOGIN", "C_CREATE_ROOM", "Room", "RoomHandler"}

Query == Bind \o Select \o Fetch
Change == Bind \o Update

(* Room::RemoveUser, of the last user or of another one; BroadCast takes the  *)
(* room's lock once more in the same thread, which only counts.               *)
RemoveUser ==
    {Guarded("Room", Pop \o Change \o Change \o rest \o Push) :
        rest \in {Change \o Guarded("RoomHandler", <<>>), Query}}

(* A login that fails forgets to give the connection back. *)
M_Login ==
    {Pop \o Bind \o Guarded("C_LOGIN", Select \o Fetch \o Change) \o Push,
     Pop \o Bind \o Guarded("C_LOGIN", Select \o Fetch)}

Login ==
    {Pop \o Bind \o Guarded("C_LOGIN", Select \o Fetch \o update) \o Push :
        update \in {<<>>, Change}}

Register == {Pop \o Bind \o Insert \o Push}

RefreshLobby == {Pop \o Query \o Push}

CreateRoom ==
    {Pop \o Bind \o Guarded("C_CREATE_ROOM", Select \o Fetch) \o Push,
     Pop \o Bind \o Guarded("C_CREATE_ROOM", Select \o Fetch \o Change)
         \o Query \o Change \o Guarded("RoomHandler", <<>>) \o Push}

(* The user is added with the lock of the room list held. *)
M_JoinRoom ==
    {Pop \o Query \o Push,
     Pop \o Query \o Change \o Change \o Query
         \o Guarded("RoomHandler", Guarded("Room", <<>>)) \o Push}

(* AddUser and BroadCast lock the room one after the other. *)
JoinRoom ==
    {Pop \o Query \o Push,
     Pop \o Query \o Change \o Change \o Query
         \o Guarded("Room", <<>>) \o Guarded("Room", <<>>) \o Push}

ChatLog == {Pop \o Query \o Change \o Guarded("Room", <<>>) \o Push}

RoomOut == {Pop \o Query \o remove \o Push : remove \in RemoveUser}

OnDisconnected == {remove \o Pop \o Change \o Push : remove \in RemoveUser \cup {<<>>}}

Paths(h) ==
    CASE h = "C_LOGIN" -> Login
      [] h = "C_REGISTER" -> Register
      [] h = "C_REFRESH_LOBBY" -> RefreshLobby
      [] h = "C_CREATE_ROOM" -> CreateRoom
      [] h = "C_JOIN_ROOM" -> JoinRoom
      [] h = "C_CHAT_LOG" -> ChatLog
      [] h = "C_ROOM_OUT" -> RoomOut
      [] h = "OnDisconnected" -> OnDisconnected
-------------------------------------------------------------------------------
VARIABLES
    connections,  \* _connections, the vector of the pool
    held,         \* per worker, the connections it has popped, the innermost last
    path,         \* per worker, the operations it still has to do
    owner,        \* per lock, the worker that holds it
    bound,        \* per statement, the workers whose variables are bound; None: variables that are gone
    cursor,       \* per statement, whether a result set is open
    hung,         \* the workers that never leave HandleError
    process       \* "running", or what has ended it

vars == <<connections, held, path, owner, bound, cursor, hung, process>>

(* DBConnectionPool::Connect, in some order *)
Init ==
    /\ connections = CHOOSE s \in [1 .. Cardinality(Connection) -> Connection] :
                         \A i, j \in DOMAIN s : s[i] = s[j] => i = j
    /\ held = [w \in Worker |-> <<>>] /\ path = [w \in Worker |-> <<>>]
    /\ owner = [l \in Lock |-> None]
    /\ bound = [c \in Connection |-> {}] /\ cursor = [c \in Connection |-> FALSE]
    /\ hung = {} /\ process = "running"

Running(w) == process = "running" /\ w \notin hung
At(w, operations) == Running(w) /\ path[w] # <<>> /\ path[w][1][1] \in operations
Connected(w) == held[w][Len(held[w])]
Advance(w) == path' = [path EXCEPT ![w] = Tail(@)]

(* A worker takes up a job or the completion of a disconnect. *)
Start(w) ==
    /\ Running(w) /\ path[w] = <<>>
    /\ \E h \in Handler : \E p \in Paths(h) : path' = [path EXCEPT ![w] = p]
    /\ UNCHANGED <<connections, held, owner, bound, cursor, hung, process>>

(* Pop returns the last connection and leaves it in the vector. *)
M_PopBack(s) == s
PopBack(s) == SubSeq(s, 1, Len(s) - 1)

(* DBConnectionPool::Pop; no caller looks at the result. *)
PopConnection(w) ==
    /\ At(w, {"Pop"})
    /\ IF connections = <<>>
         THEN process' = "null connection" /\ UNCHANGED <<connections, held, path>>
         ELSE /\ held' = [held EXCEPT ![w] = Append(@, connections[Len(connections)])]
              /\ connections' = PopBack(connections)
              /\ Advance(w)
              /\ UNCHANGED process
    /\ UNCHANGED <<owner, bound, cursor, hung>>

(* Unbind leaves the result set open. *)
M_Unbind(c, w) == bound' = [bound EXCEPT ![c] = {w}] /\ UNCHANGED cursor

(* DBConnection::Unbind, and the binding of the handler's own variables *)
Unbind(c, w) ==
    /\ bound' = [bound EXCEPT ![c] = {w}]
    /\ cursor' = [cursor EXCEPT ![c] = FALSE]

DBBind(w) ==
    /\ At(w, {"DBBind"})
    /\ Unbind(Connected(w), w)
    /\ Advance(w)
    /\ UNCHANGED <<connections, held, owner, hung, process>>

(* Execute and Fetch, without failure; C_REGISTER does not mind one. *)
Execute(w) ==
    /\ At(w, {"Select", "Update", "Insert", "Fetch"})
    /\ cursor' = [cursor EXCEPT ![Connected(w)] = @ \/ path[w][1][1] = "Select"]
    /\ Advance(w)
    /\ UNCHANGED <<connections, held, owner, bound, hung, process>>

(* A statement fails: HandleError never assigns the errorRet it tests, so its *)
(* loop does not end and ASSERT_CRASH(dbBind.Execute()) is not reached.       *)
Fail(w) ==
    /\ At(w, {"Select", "Update", "Fetch"}) /\ Cardinality(hung) < MaxFailures
    /\ hung' = hung \cup {w}
    /\ UNCHANGED <<connections, held, path, owner, bound, cursor, process>>

(* DBConnectionPool::Push; the statement keeps the addresses of variables     *)
(* that are about to go.                                                      *)
PushConnection(w) ==
    /\ At(w, {"Push"})
    /\ connections' = Append(connections, Connected(w))
    /\ held' = [held EXCEPT ![w] = SubSeq(@, 1, Len(@) - 1)]
    /\ bound' = [bound EXCEPT ![Connected(w)] = {None}]
    /\ Advance(w)
    /\ UNCHANGED <<owner, cursor, hung, process>>

(* Lock::WriteLock spins until it gets the lock, for ever behind a worker that *)
(* hangs.                                                                      *)
WriteLock(w) ==
    /\ At(w, {"lock"}) /\ owner[path[w][1][2]] = None
    /\ owner' = [owner EXCEPT ![path[w][1][2]] = w]
    /\ Advance(w)
    /\ UNCHANGED <<connections, held, bound, cursor, hung, process>>

WriteUnlock(w) ==
    /\ At(w, {"unlock"})
    /\ owner' = [owner EXCEPT ![path[w][1][2]] = None]
    /\ Advance(w)
    /\ UNCHANGED <<connections, held, bound, cursor, hung, process>>

Step(w) ==
    PopConnection(w) \/ DBBind(w) \/ Execute(w) \/ PushConnection(w) \/ WriteUnlock(w)

Next == \E w \in Worker : Start(w) \/ Step(w) \/ WriteLock(w) \/ Fail(w)

Spec == Init /\ [][Next]_vars

(* A worker in a handler goes on, and one that spins on a lock others take    *)
(* for a short time again and again gets it at last.                          *)
FairSpec == Spec /\ \A w \in Worker : WF_vars(Step(w)) /\ SF_vars(WriteLock(w))
-------------------------------------------------------------------------------
(* Pop always finds a connection, also when every worker is inside RemoveUser *)
(* and holds two and when failed statements have kept some for ever.          *)
ConnectionForAll == process # "null connection"

(* A connection, and with it its statement, is used by one handler at a time. *)
OneUserPerConnection ==
    \A v, w \in Worker : \A i \in DOMAIN held[v], j \in DOMAIN held[w] :
        /\ held[v][i] = held[w][j] => v = w /\ i = j
        /\ \A k \in DOMAIN connections : connections[k] # held[v][i]

(* A statement is executed only with bindings of the handler that executes it *)
(* and never while the result set of the query before it is open, whoever     *)
(* used the connection before; rows are fetched only from an open one.        *)
StatementIsReady ==
    \A w \in Worker :
        At(w, {"Select", "Update", "Insert", "Fetch"}) =>
            /\ bound[Connected(w)] = {w}
            /\ cursor[Connected(w)] <=> path[w][1][1] = "Fetch"

(* Every handler ends unless some statement has failed: the locks and the     *)
(* pool never leave workers waiting for each other.                           *)
EveryHandlerEnds == \A w \in Worker : []<>(path[w] = <<>> \/ hung # {})
===============================================================================
