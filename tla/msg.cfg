\* Two messages: events that overtake send_message, refusals, failures; or a transport
\* with three frames of the peer; or an inbound call offered twice.
SPECIFICATION TrafficSpec
CONSTANTS
    Messages = {m1, m2}
    MaxInbox = 3
    MaxFrames = 3
    MaxOffers = 2
CHECK_DEADLOCK FALSE
INVARIANTS CompletionIsTrue CallbackRunsOnce 
PROPERTIES TerminalStateCompletes EndIsReported CloseEnds EndWakesHandler
