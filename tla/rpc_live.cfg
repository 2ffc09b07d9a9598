\* Liveness and refinement, with a callback that issues requests.
SPECIFICATION Spec
CONSTANTS
    Ids = {i1, i2}
    Threads = {t1}
    Callers = {t1, rt}
    ReadThread = rt
    Unset = Unset
    Rejected = Rejected
    Event = Event
    MaxInbox = 1
    AppDisconnects = FALSE
CHECK_DEADLOCK FALSE
PROPERTIES RequestsEnd ImplementsRpc
