\* Every interleaving of run(), the read thread, the server and disconnect(); and, in
\* calm behaviours, that the client reconnects or gives up and disconnect() ends run().
SPECIFICATION MCSpec
CONSTANTS
    Sessions = {p1, p2}
    AuthStates = {a1}
    None = None
    BaseDelay = 1
    MaxDelay = 5
    MaxAttempts = 4
    MaxInbox = 2
    EarlyLoss = TRUE
    EarlyFrames = TRUE
    Disconnects = "any time"
CHECK_DEADLOCK FALSE
INVARIANTS BackoffIsKept ConnectedIsAccepted
PROPERTIES ResendsLatestCredentialsWhenCalm ReconnectsWhenCalm 
