CONSTANTS
    Session = {u1, u2}
    Account = {u1, u2}
    RoomName = {lounge}
    MayUse <- SharedId
    MaxRoom = 1
    CloseAnytime = FALSE
    DoubleClicks = 1
    None = None
SPECIFICATION FairSpec
INVARIANT OneSessionPerAccount
 
PROPERTY EveryEventIsHandled
CHECK_DEADLOCK FALSE
