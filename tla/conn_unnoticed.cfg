\* The connection is lost before connected_ is set.
SPECIFICATION Spec
CONSTANTS
    Sessions = {p1, p2}
    AuthStates = {a1}
    None = None
    BaseDelay = 1
    MaxDelay = 5
    MaxAttempts = 4
    MaxInbox = 2
    EarlyLoss = TRUE
    EarlyFrames = FALSE
    Disconnects = "never"
CHECK_DEADLOCK FALSE
PROPERTY Reconnects
