\* Two workers, two connections each; one statement may fail.
SPECIFICATION FairSpec
CONSTANTS
    Worker = {w1, w2}
    Connection = {c1, c2, c3, c4}
    Handler = {"C_LOGIN", "C_REGISTER", "C_REFRESH_LOBBY", "C_CREATE_ROOM", "C_JOIN_ROOM", "C_CHAT_LOG", "C_ROOM_OUT", "OnDisconnected"}
    MaxFailures = 1
    None = None
INVARIANTS ConnectionForAll OneUserPerConnection StatementIsReady
PROPERTY EveryHandlerEnds
\* Behind a worker that hangs with a lock the others wait for ever.
CHECK_DEADLOCK FALSE
