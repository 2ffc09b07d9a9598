\* A play, and a detect or a collect, on a call that may end at any point.
SPECIFICATION Spec
CONSTANTS
    Plain = {p1}
    Filtered = {f1}
    MaxInbox = 2
CHECK_DEADLOCK FALSE
INVARIANT CompletionIsClean
PROPERTIES OutcomeIsFinal EndCompletesActions LastEventCompletes
