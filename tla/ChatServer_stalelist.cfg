CONSTANTS
    Session = {u1, u2}
    Account = {u1, u2}
    RoomName = {lounge}
    MayUse <- OwnId
    MaxRoom = 1
    CloseAnytime = FALSE
    DoubleClicks = 0
    None = None
SPECIFICATION LoggedInSpec
SYMMETRY Perms
INVARIANT UserListIsFresh
CHECK_DEADLOCK FALSE
