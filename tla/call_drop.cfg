\* Fire and forget.
SPECIFICATION SafeSpec
CONSTANTS
    Plain = {p1}
    Filtered = {}
    MaxInbox = 2
CHECK_DEADLOCK FALSE
INVARIANT NeverUsesDropped
