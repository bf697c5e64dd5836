\* Two accept events, two peers and one AcceptEx that fails; three workers, two sends.
SPECIFICATION ListenSpec
CONSTANTS
    Thread = {t1, t2, t3}
    NoThread = NoThread
    MaxSend = 2
    Errors = {"reset"}
    AcceptEvent = {e1, e2}
    NoEvent = NoEvent
    Followed = Followed
    Other = Other
    MaxPeers = 2
    MaxFailures = 1
INVARIANTS OneSender NothingStranded SentInOrder ListensWhileConnected ReleasedOnce
INVARIANT ConnectedOnce
PROPERTIES BuffersAreSent ClosedIsReleased EveryPeerIsTaken
\* A released session does nothing more.
CHECK_DEADLOCK FALSE
