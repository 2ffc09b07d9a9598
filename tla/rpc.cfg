\* Two threads, three requests; losses, reconnections and disconnect().
SPECIFICATION SafeSpec
CONSTANTS
    Ids = {i1, i2, i3}
    Threads = {t1, t2}
    Callers = {t1, t2}
    ReadThread = rt
    Unset = Unset
    Rejected = Rejected
    Event = Event
    MaxInbox = 1
    AppDisconnects = TRUE
CHECK_DEADLOCK FALSE
INVARIANTS WaiterIsRegistered PendingHasCaller OutcomeIsTrue LossLeavesNoWaiter
SYMMETRY Symmetry
