CONSTANTS
    Session = {u1, u2, u3}
    Account = {u1, u2, u3}
    RoomName = {lounge}
    MayUse <- OwnId
    MaxRoom = 1
    CloseAnytime = FALSE
    DoubleClicks = 0
    None = None
SPECIFICATION LoggedInSpec
SYMMETRY Perms
INVARIANT CountsAgree
 
INVARIANT NoConstraintFailure
CHECK_DEADLOCK FALSE
