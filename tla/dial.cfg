\* Two dials, legs that lose, progress reports, losses of the connection.
SPECIFICATION Spec
CONSTANTS
    Dialers = {d1, d2}
    Legs = {c1, c2}
    None = None
    NoCall = NoCall
    MaxInbox = 1
CHECK_DEADLOCK FALSE
INVARIANTS TablesAreConsistent OutcomeIsTrue ReturnedCallIsRouted
PROPERTY DialsEnd
