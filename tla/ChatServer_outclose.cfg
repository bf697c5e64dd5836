CONSTANTS
    Session = {u1}
    Account = {u1}
    RoomName = {lounge}
    MayUse <- OwnId
    MaxRoom = 1
    CloseAnytime = TRUE
    DoubleClicks = 0
    None = None
SPECIFICATION LoggedInSpec
INVARIANT UserIsInRoom
CHECK_DEADLOCK FALSE
