\* A reply races disconnect().
SPECIFICATION SafeSpec
CONSTANTS
    Ids = {i1}
    Threads = {t1}
    Callers = {t1}
    ReadThread = rt
    Unset = Unset
    Rejected = Rejected
    Event = Event
    MaxInbox = 1
    AppDisconnects = TRUE
CHECK_DEADLOCK FALSE
INVARIANT NeverTerminates
