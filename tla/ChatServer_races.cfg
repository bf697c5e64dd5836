CONSTANTS
    Session = {u1, u2}
    Account = {u1, u2}
    RoomName = {lounge}
    MayUse <- OwnId
    MaxRoom = 2
    CloseAnytime = TRUE
    DoubleClicks = 0
    None = None
SPECIFICATION LoggedInSpec
SYMMETRY Perms
INVARIANT CountsAgree
 
PROPERTY ImplementsRoom
CHECK_DEADLOCK FALSE
