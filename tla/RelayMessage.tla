---------------------------- MODULE RelayMessage ----------------------------
(***************************************************************************)
(* Outbound messages: send_message sends messaging.send, learns the         *)
(* message id from the reply, and only then enters the message in            *)
(* messages_, where the read thread looks it up for every messaging.state    *)
(* event. The returned Message and the tracked one share their state.        *)
(***************************************************************************)
EXTENDS Naturals, Sequences

CONSTANTS
    Messages,      \* the messages the application sends, one thread for each
    MaxInbox       \* bound on the frames in flight to the client

ASSUME ConstantsAssumption == MaxInbox \in Nat /\ "none" \notin Messages

VARIABLES
    pc,          \* where the thread of each message is in send_message
    reply,       \* the outcome of messaging.send
    tracked,     \* the messages in messages_
    state,       \* SyncState::state
    completed,   \* SyncState::completed
    watched,     \* messages with a callback
    fired,       \* how often the callback has run (counted to 2)
    server,      \* what the server last said of each message
    inbox,       \* frames on their way to the read thread
    pushing      \* the read thread: the message and state of the event in hand

vars == <<pc, reply, tracked, state, completed, watched, fired, server, inbox,
          pushing>>

Terminal == {"delivered", "undelivered", "failed"}
NoEvent == [msg |-> "none"]

Init ==
    /\ pc = [m \in Messages |-> "new"] /\ reply = [m \in Messages |-> "none"]
    /\ tracked = {}
    /\ state = [m \in Messages |-> ""] /\ completed = [m \in Messages |-> FALSE]
    /\ watched = {} /\ fired = [m \in Messages |-> 0]
    /\ server = [m \in Messages |-> "none"]
    /\ inbox = <<>> /\ pushing = NoEvent
-----------------------------------------------------------------------------
(* Faults: what a plausible mistake would make of a definition that follows. They *)
(* are no part of the specification; the properties below must notice each one.  *)

\* on_completed only stores the callback.
OnSetStoresOnly(m) == UNCHANGED fired
\* Every state event completes the message.
CompletesAlways(s) == TRUE
\* An undelivered or failed message is waited for in vain.
CompletesWhenDelivered(s) == s = "delivered"
-----------------------------------------------------------------------------
(* The thread that sends m. *)

Send(m) ==
    /\ pc[m] = "new"
    /\ pc' = [pc EXCEPT ![m] = "executing"]
    /\ state' = [state EXCEPT ![m] = "queued"]
    /\ server' = [server EXCEPT ![m] = "asked"]
    /\ UNCHANGED <<reply, tracked, completed, watched, fired, inbox, pushing>>

ThrownState == "failed"

\* execute() throws (not sent, or timed out): the state is set, but not completed.
SendThrows(m) ==
    /\ pc[m] = "executing" /\ reply[m] = "none"
    /\ pc' = [pc EXCEPT ![m] = "held"]
    /\ reply' = [reply EXCEPT ![m] = "threw"]
    /\ state' = [state EXCEPT ![m] = ThrownState]
    /\ UNCHANGED <<tracked, completed, watched, fired, server, inbox, pushing>>

\* A reply without message_id, such as an error or "Connection lost", leaves the
\* message untracked; otherwise it is entered in messages_ now.
Track(m) ==
    /\ pc[m] = "executing" /\ reply[m] # "none"
    /\ pc' = [pc EXCEPT ![m] = "held"]
    /\ tracked' = IF reply[m] = "accepted" THEN tracked \cup {m} ELSE tracked
    /\ UNCHANGED <<reply, state, completed, watched, fired, server, inbox, pushing>>

\* on_completed: a callback set on a completed message runs at once.
OnSet(m) == fired' = [fired EXCEPT ![m] = IF completed[m] THEN 1 ELSE @]

SetCallback(m) ==
    /\ pc[m] = "held" /\ m \notin watched
    /\ watched' = watched \cup {m}
    /\ OnSet(m)
    /\ UNCHANGED <<pc, reply, tracked, state, completed, server, inbox, pushing>>

App(m) == Send(m) \/ SendThrows(m) \/ Track(m) \/ SetCallback(m)
-----------------------------------------------------------------------------
(* The server. *)

Sends(f) == Len(inbox) < MaxInbox /\ inbox' = Append(inbox, f)

ServerReplies(m) ==
    /\ server[m] = "asked"
    /\ \/ /\ server' = [server EXCEPT ![m] = "accepted"]
          /\ Sends([type |-> "reply", msg |-> m, value |-> "accepted"])
       \/ /\ server' = [server EXCEPT ![m] = "refused"]
          /\ Sends([type |-> "reply", msg |-> m, value |-> "refused"])
    /\ UNCHANGED <<pc, reply, tracked, state, completed, watched, fired, pushing>>

\* "initiated" or "sent" may be left out; nothing follows a terminal state.
ServerPushesState(m) ==
    /\ server[m] \in {"accepted", "sent"}
    /\ \E s \in {"sent"} \cup Terminal :
         /\ s # server[m]
         /\ server' = [server EXCEPT ![m] = s]
         /\ Sends([type |-> "state", msg |-> m, value |-> s])
    /\ UNCHANGED <<pc, reply, tracked, state, completed, watched, fired, pushing>>

Server == \E m \in Messages : ServerReplies(m) \/ ServerPushesState(m)
-----------------------------------------------------------------------------
(* The read thread. *)

Takes(t) == /\ pushing = NoEvent /\ inbox # <<>> /\ Head(inbox).type = t
            /\ inbox' = Tail(inbox)

ReadReply ==
    /\ Takes("reply")
    /\ reply' = [reply EXCEPT ![Head(inbox).msg] =
                   IF @ = "none" THEN Head(inbox).value ELSE @]
    /\ UNCHANGED <<pc, tracked, state, completed, watched, fired, server, pushing>>

\* Message::update_state
Completes(s) == s \in Terminal

\* handle_messaging_event: an event for a message that is not in messages_ is
\* dropped; otherwise update_state sets the state under the message's mutex ...
ReadState ==
    /\ Takes("state")
    /\ LET f == Head(inbox)
           hit == f.msg \in tracked
       IN /\ state' = [state EXCEPT ![f.msg] = IF hit THEN f.value ELSE @]
          /\ completed' = [completed EXCEPT ![f.msg] = @ \/ (hit /\ Completes(f.value))]
          /\ pushing' = IF hit /\ Completes(f.value) /\ f.msg \in watched
                          THEN [msg |-> f.msg] ELSE NoEvent
    /\ UNCHANGED <<pc, reply, tracked, watched, fired, server>>

\* ... and runs the callback it found there after the mutex is released.
RunCallback ==
    /\ pushing # NoEvent
    /\ fired' = [fired EXCEPT ![pushing.msg] = IF @ < 2 THEN @ + 1 ELSE @]
    /\ pushing' = NoEvent
    /\ UNCHANGED <<pc, reply, tracked, state, completed, watched, server, inbox>>

Reader == ReadReply \/ ReadState \/ RunCallback
-----------------------------------------------------------------------------
Next == (\E m \in Messages : App(m)) \/ Server \/ Reader

\* The client's threads run; the server may fall silent.
Fairness == /\ WF_vars(Reader)
            /\ \A m \in Messages : WF_vars(Track(m))

SafeSpec == Init /\ [][Next]_vars
Spec == SafeSpec /\ Fairness
-----------------------------------------------------------------------------
(* Properties. *)

TypeOK ==
    /\ pc \in [Messages -> {"new", "executing", "held"}]
    /\ reply \in [Messages -> {"none", "accepted", "refused", "threw"}]
    /\ tracked \subseteq Messages /\ watched \subseteq Messages
    /\ state \in [Messages -> {"", "queued", "sent"} \cup Terminal]
    /\ completed \in [Messages -> BOOLEAN] /\ fired \in [Messages -> 0..2]
    /\ server \in [Messages -> {"none", "asked", "accepted", "refused", "sent"}
                                 \cup Terminal]
    /\ Len(inbox) <= MaxInbox
    /\ pushing \in {[msg |-> m] : m \in Messages \cup {"none"}}

\* wait() returns, and the callback runs, only on a state the server has sent for
\* that very message, and the state that is visible then is that state.
CompletionIsTrue ==
    \A m \in Messages : completed[m] => state[m] = server[m] /\ state[m] \in Terminal

\* The callback runs once for a completed message, whether it is set before, while
\* or after the terminal event is handled.
CallbackRunsOnce ==
    \A m \in Messages : fired[m] = (IF m \in watched /\ completed[m]
                                      /\ pushing # [msg |-> m] THEN 1 ELSE 0)

Pushed(m, s) == \E i \in DOMAIN inbox : /\ inbox[i].type = "state"
                                         /\ inbox[i].msg = m /\ inbox[i].value = s

\* wait() returns: a terminal state that is still on its way when send_message has
\* tracked the message completes it. (One that is read before that is lost.)
TerminalStateCompletes ==
    \A m \in Messages, s \in Terminal :
        m \in tracked /\ Pushed(m, s) ~> completed[m]
=============================================================================
