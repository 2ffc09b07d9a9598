----------------------------- MODULE RelayRpc -----------------------------
(***************************************************************************)
(* Request/response correlation of RelayClient: send_request registers a   *)
(* promise under a fresh id, sends the frame, and waits up to 30 seconds;   *)
(* the read thread of the WebSocket resolves the promise when the reply     *)
(* arrives, and rejects every pending promise when the connection is lost.  *)
(* disconnect() rejects and closes from a third thread, and connect() or    *)
(* reconnect() puts a new socket in place from a fourth.                    *)
(*                                                                         *)
(* Every critical section of pending_mutex_ and every load or store of an  *)
(* atomic is one step; the steps of the threads interleave freely.          *)
(***************************************************************************)
EXTENDS Naturals, Sequences

CONSTANTS
    Ids,              \* the uuids generate_uuid() hands out, never reused
    Callers,          \* threads that call send_request
    ReadThread,       \* the name the read thread has when a callback it runs
                      \*   issues a request; in Callers when callbacks do so
    Unset, Rejected,  \* a promise without value; the 503 "Connection lost" stub
    Event,            \* a server frame that is handled by application code
    MaxInbox,         \* bound on the frames in flight to the client
    AppDisconnects    \* whether the application calls disconnect()

ASSUME ConstantsAssumption ==
    /\ Unset \notin Ids /\ Rejected \notin Ids /\ Event \notin Ids
    /\ Unset # Rejected
    /\ MaxInbox \in Nat
    /\ AppDisconnects \in BOOLEAN

VARIABLES
    pc,          \* where each caller is in send_request
    req,         \* the id of the request each caller is (or was last) making
    status,      \* how each request ended, as its caller sees it
    pending,     \* the keys of pending_requests_
    promise,     \* PendingRequest::promise of each request
    connected,   \* RelayClient::connected_
    wsOpen,      \* WebSocketClient::connected_ of the socket in ws_
    closing,     \* WebSocketClient::closing_ of the socket in ws_
    linkUp,      \* the TCP connection carries frames in both directions
    atServer,    \* requests the server has received and not replied to
    answered,    \* requests the server has replied to
    inbox,       \* frames on their way to the read thread
    reader,      \* where the read thread is
    found,       \* the entry on_ws_message is about to resolve, and the reply
    main,        \* where the thread in connect() or reconnect() is
    app,         \* where the thread in disconnect() is
    terminated   \* std::terminate() has ended the process

callerVars == <<pc, req, status>>
socketVars == <<connected, wsOpen, closing, linkUp>>
serverVars == <<atServer, answered, inbox>>
threadVars == <<reader, found, main, app>>
vars == <<callerVars, pending, promise, socketVars, serverVars, threadVars,
          terminated>>

CallerStates == {"idle", "registered", "writing", "waiting", "ready", "expired"}
ReaderStates == {"none", "reading", "resolving", "callback", "closing"}

Init ==
    /\ pc = [c \in Callers |-> "idle"]
    /\ req \in [Callers -> Ids]
    /\ status = [id \in Ids |-> "fresh"]
    /\ pending = {}
    /\ promise = [id \in Ids |-> Unset]
    /\ connected = FALSE /\ wsOpen = FALSE /\ closing = FALSE /\ linkUp = FALSE
    /\ atServer = {} /\ answered = {} /\ inbox = <<>>
    /\ reader = "none" /\ found \in {<<id, id>> : id \in Ids} /\ main = "idle" /\ app = "idle"
    /\ terminated = FALSE
-----------------------------------------------------------------------------
(* Faults: what a plausible mistake would make of a definition that follows. They *)
(* are no part of the specification; the properties below must notice each one.  *)

\* The request is not in the map when the reply or the loss comes.
NotEntered(id) == UNCHANGED pending
\* An exit path of send_request forgets to erase.
NotErased(id) == UNCHANGED pending
\* Replies are matched to whatever request is pending.
AnyEntry(id) == pending
\* The promises are dropped without a value.
DroppedPending == pending' = {} /\ UNCHANGED promise
\* The "Connection lost" stub is taken for a reply.
ResultWithoutStub(c) == IF pc[c] = "expired" THEN "timeout" ELSE "reply"
\* wait instead of wait_for.
WaitIsOver(c) == promise[req[c]] # Unset
-----------------------------------------------------------------------------
(* send_request, executed by any thread. *)

Enter(id) == pending' = pending \cup {id}
Erase(id) == pending' = pending \ {id}

\* A fresh id is entered in pending_requests_ before the frame is sent. A
\* callback issues its request from the read thread.
Register(c, id) ==
    /\ pc[c] = "idle"
    /\ c = ReadThread => reader = "callback"
    /\ status[id] = "fresh"
    /\ pc' = [pc EXCEPT ![c] = "registered"]
    /\ req' = [req EXCEPT ![c] = id]
    /\ status' = [status EXCEPT ![id] = "open"]
    /\ Enter(id)
    /\ UNCHANGED <<promise, socketVars, serverVars, threadVars, terminated>>

\* WebSocketClient::send tests connected_ before it writes.
CheckOpen(c) ==
    /\ pc[c] = "registered"
    /\ wsOpen
    /\ pc' = [pc EXCEPT ![c] = "writing"]
    /\ UNCHANGED <<req, status, pending, promise, socketVars, serverVars,
                   threadVars, terminated>>

\* The frame reaches the server, or is written to a connection that is dying.
WriteFrame(c) ==
    /\ pc[c] = "writing"
    /\ pc' = [pc EXCEPT ![c] = "waiting"]
    /\ atServer' = IF linkUp THEN atServer \cup {req[c]} ELSE atServer
    /\ UNCHANGED <<req, status, pending, promise, socketVars, answered, inbox,
                   threadVars, terminated>>

\* send() returned false: the request is withdrawn and an exception thrown.
SendFailed(c) ==
    /\ \/ pc[c] = "registered" /\ ~wsOpen
       \/ pc[c] = "writing" /\ ~linkUp
    /\ pc' = [pc EXCEPT ![c] = "idle"]
    /\ status' = [status EXCEPT ![req[c]] = "unsent"]
    /\ Erase(req[c])
    /\ UNCHANGED <<req, promise, socketVars, serverVars, threadVars, terminated>>

\* future.wait_for returns because the promise has its value, or after 30 s.
WaitMayEnd(c) == TRUE

WaitReturns(c) ==
    /\ pc[c] = "waiting" /\ WaitMayEnd(c)
    /\ pc' = [pc EXCEPT ![c] = IF promise[req[c]] # Unset THEN "ready"
                                                          ELSE "expired"]
    /\ UNCHANGED <<req, status, pending, promise, socketVars, serverVars,
                   threadVars, terminated>>

\* The value of the promise, or the timeout even if a reply has come meanwhile.
Result(c) == CASE pc[c] = "expired" -> "timeout"
               [] pc[c] = "ready" /\ promise[req[c]] = Rejected -> "lost"
               [] pc[c] = "ready" /\ promise[req[c]] # Rejected -> "reply"

Return(c) ==
    /\ pc[c] \in {"ready", "expired"}
    /\ pc' = [pc EXCEPT ![c] = "idle"]
    /\ Erase(req[c])
    /\ status' = [status EXCEPT ![req[c]] = Result(c)]
    /\ UNCHANGED <<req, promise, socketVars, serverVars, threadVars, terminated>>

Caller(c) == \/ \E id \in Ids : Register(c, id)
             \/ CheckOpen(c) \/ WriteFrame(c) \/ SendFailed(c)
             \/ WaitReturns(c) \/ Return(c)
-----------------------------------------------------------------------------
(* The server and the network. *)

ServerReplies(id) ==
    /\ linkUp /\ id \in atServer /\ Len(inbox) < MaxInbox
    /\ atServer' = atServer \ {id}
    /\ answered' = answered \cup {id}
    /\ inbox' = Append(inbox, id)
    /\ UNCHANGED <<callerVars, pending, promise, socketVars, threadVars, terminated>>

ServerSendsEvent ==
    /\ linkUp /\ Len(inbox) < MaxInbox
    /\ inbox' = Append(inbox, Event)
    /\ UNCHANGED <<callerVars, pending, promise, socketVars, atServer, answered,
                   threadVars, terminated>>

\* The connection breaks, or the server closes it: only frames that were already
\* on their way, and sent before those that are lost, can still be read.
LinkDies ==
    /\ linkUp
    /\ linkUp' = FALSE
    /\ atServer' = {}
    /\ \E n \in 0..Len(inbox) : inbox' = SubSeq(inbox, 1, n)
    /\ UNCHANGED <<callerVars, pending, promise, connected, wsOpen, closing,
                   answered, threadVars, terminated>>

Environment == \/ \E id \in Ids : ServerReplies(id)
               \/ ServerSendsEvent
               \/ LinkDies
-----------------------------------------------------------------------------
(* The read thread: WebSocketClient::read_loop and the callbacks it makes. *)

Reading == reader = "reading" /\ wsOpen

\* The entries of pending_requests_ that a reply with this id is for.
Matching(id) == pending \cap {id}

\* on_ws_message looks the id up under the lock and keeps the shared_ptr.
ReadReply ==
    /\ Reading /\ inbox # <<>> /\ Head(inbox) # Event
    /\ inbox' = Tail(inbox)
    /\ \/ \E entry \in Matching(Head(inbox)) :
              found' = <<entry, Head(inbox)>> /\ reader' = "resolving"
       \/ Matching(Head(inbox)) = {} /\ UNCHANGED <<found, reader>>
    /\ UNCHANGED <<callerVars, pending, promise, socketVars, atServer, answered,
                   main, app, terminated>>

\* The promise is set outside the lock. A promise that has its value throws
\* future_error, which nothing on the read thread catches.
SetValue ==
    /\ reader = "resolving"
    /\ IF promise[found[1]] = Unset
         THEN /\ promise' = [promise EXCEPT ![found[1]] = found[2]]
              /\ reader' = "reading"
              /\ UNCHANGED terminated
         ELSE /\ terminated' = TRUE
              /\ UNCHANGED <<promise, reader>>
    /\ UNCHANGED <<callerVars, pending, socketVars, serverVars, found, main, app>>

\* An event is acknowledged and routed; handlers run on this thread.
ReadEvent ==
    /\ Reading /\ inbox # <<>> /\ Head(inbox) = Event
    /\ inbox' = Tail(inbox)
    /\ reader' = "callback"
    /\ UNCHANGED <<callerVars, pending, promise, socketVars, atServer, answered,
                   found, main, app, terminated>>

CallbackReturns ==
    /\ reader = "callback"
    /\ ReadThread \in Callers => pc[ReadThread] = "idle"
    /\ reader' = "reading"
    /\ UNCHANGED <<callerVars, pending, promise, socketVars, serverVars, found,
                   main, app, terminated>>

\* A close frame or a failed read: connected_ goes FALSE before on_close_ runs.
\* Ten seconds without a frame fail too, on a connection that works (SO_RCVTIMEO).
ReadFails ==
    /\ Reading
    /\ ~linkUp \/ inbox = <<>>
    /\ wsOpen' = FALSE
    /\ reader' = "closing"
    /\ UNCHANGED <<callerVars, pending, promise, connected, closing, linkUp,
                   serverVars, found, main, app, terminated>>

RejectAllPending ==
    /\ promise' = [id \in Ids |-> IF id \in pending /\ promise[id] = Unset
                                    THEN Rejected ELSE promise[id]]
    /\ pending' = {}

\* on_ws_close; the loop ends after it.
OnClose ==
    /\ reader = "closing"
    /\ connected' = FALSE
    /\ RejectAllPending
    /\ reader' = "none"
    /\ UNCHANGED <<callerVars, wsOpen, closing, linkUp, serverVars, found, main,
                   app, terminated>>

\* connected_ was cleared by WebSocketClient::close: no callback is made.
ReaderExits ==
    /\ reader = "reading" /\ ~wsOpen
    /\ reader' = "none"
    /\ UNCHANGED <<callerVars, pending, promise, socketVars, serverVars, found,
                   main, app, terminated>>

Reader == \/ ReadReply \/ SetValue \/ ReadEvent \/ CallbackReturns
          \/ ReadFails \/ OnClose \/ ReaderExits
-----------------------------------------------------------------------------
(* The thread in connect() or reconnect(): a new WebSocketClient replaces the *)
(* old one, whose destructor has joined the old read thread.                  *)

OpenSocket ==
    /\ main = "idle" /\ app = "idle" /\ ~connected /\ ~wsOpen /\ reader = "none"
    /\ wsOpen' = TRUE /\ closing' = FALSE /\ linkUp' = TRUE
    /\ atServer' = {} /\ inbox' = <<>>
    /\ reader' = "reading"
    /\ main' = "authenticating"
    /\ \A c \in Callers : pc[c] # "writing"   \* the backoff sleep outlasts a write
    /\ UNCHANGED <<callerVars, pending, promise, connected, answered, found, app,
                   terminated>>

Authenticated ==
    /\ main = "authenticating"
    /\ connected' = TRUE
    /\ main' = "idle"
    /\ UNCHANGED <<callerVars, pending, promise, wsOpen, closing, linkUp,
                   serverVars, reader, found, app, terminated>>

\* WebSocketClient::close: nothing when the socket is closed already.
CloseSocket ==
    /\ wsOpen' = FALSE
    /\ closing' = (closing \/ wsOpen)
    /\ linkUp' = (linkUp /\ ~wsOpen)
    /\ IF wsOpen THEN atServer' = {} /\ inbox' = <<>>
                 ELSE UNCHANGED <<atServer, inbox>>

\* connect() closes the socket without rejecting what others sent on it.
AuthenticationFailed ==
    /\ main = "authenticating"
    /\ CloseSocket
    /\ main' = "joining"
    /\ UNCHANGED <<callerVars, pending, promise, connected, answered, reader,
                   found, app, terminated>>

MainJoins ==
    /\ main = "joining" /\ reader = "none"
    /\ main' = "idle"
    /\ UNCHANGED <<callerVars, pending, promise, socketVars, serverVars, reader,
                   found, app, terminated>>

Main == OpenSocket \/ Authenticated \/ AuthenticationFailed \/ MainJoins
-----------------------------------------------------------------------------
(* disconnect(), from a thread of the application. *)

BeginDisconnect ==
    /\ AppDisconnects /\ app = "idle" /\ main = "idle"
    /\ connected' = FALSE
    /\ app' = "rejecting"
    /\ UNCHANGED <<callerVars, pending, promise, wsOpen, closing, linkUp,
                   serverVars, reader, found, main, terminated>>

DisconnectRejects ==
    /\ app = "rejecting"
    /\ RejectAllPending
    /\ app' = "closing"
    /\ UNCHANGED <<callerVars, socketVars, serverVars, reader, found, main,
                   terminated>>

DisconnectCloses ==
    /\ app = "closing"
    /\ CloseSocket
    /\ app' = "joining"
    /\ UNCHANGED <<callerVars, pending, promise, connected, answered, reader,
                   found, main, terminated>>

DisconnectJoins ==
    /\ app = "joining" /\ reader = "none"
    /\ app' = "idle"
    /\ UNCHANGED <<callerVars, pending, promise, socketVars, serverVars, reader,
                   found, main, terminated>>

Disconnect == \/ BeginDisconnect \/ DisconnectRejects
              \/ DisconnectCloses \/ DisconnectJoins
-----------------------------------------------------------------------------
Next == ~terminated /\ (\/ \E c \in Callers : Caller(c)
                        \/ Environment \/ Reader \/ Main \/ Disconnect)

\* The threads run; wait_for returns after 30 seconds at the latest.
Fairness == \A c \in Callers :
    /\ WF_vars(~terminated /\ (CheckOpen(c) \/ SendFailed(c) \/ WriteFrame(c)))
    /\ WF_vars(~terminated /\ (WaitReturns(c) \/ Return(c)))

SafeSpec == Init /\ [][Next]_vars
Spec == SafeSpec /\ Fairness
-----------------------------------------------------------------------------
(* Properties. *)

TypeOK ==
    /\ pc \in [Callers -> CallerStates]
    /\ req \in [Callers -> Ids]
    /\ status \in [Ids -> {"fresh", "open", "reply", "lost", "timeout", "unsent"}]
    /\ pending \subseteq Ids
    /\ promise \in [Ids -> Ids \cup {Unset, Rejected}]
    /\ connected \in BOOLEAN /\ wsOpen \in BOOLEAN
    /\ closing \in BOOLEAN /\ linkUp \in BOOLEAN
    /\ atServer \subseteq Ids /\ answered \subseteq Ids
    /\ inbox \in Seq(Ids \cup {Event})
    /\ reader \in ReaderStates /\ found \in Ids \X Ids
    /\ main \in {"idle", "authenticating", "joining"}
    /\ app \in {"idle", "rejecting", "closing", "joining"}
    /\ terminated \in BOOLEAN

Active(c) == pc[c] # "idle"

\* A caller that has no value yet can still be found by the reply and by
\* reject_all_pending(): nobody else takes its entry out of pending_requests_,
\* unless the entry's promise is set at the same time.
WaiterIsRegistered ==
    \A c \in Callers :
        pc[c] \in {"registered", "writing", "waiting"} /\ promise[req[c]] = Unset
            => req[c] \in pending

\* pending_requests_ does not leak: an entry belongs to a caller that is still
\* in send_request, whatever way the earlier requests ended.
PendingHasCaller ==
    \A id \in pending : \E c \in Callers : Active(c) /\ req[c] = id

\* send_request returns a server's reply only to the request it answers, and
\* reports a request as not sent only if the server never saw it.
OutcomeIsTrue ==
    \A id \in Ids : /\ status[id] = "reply" => promise[id] = id /\ id \in answered
                    /\ status[id] = "unsent" => id \notin answered \cup atServer

\* When the read thread has gone because the peer closed or the link broke, every
\* caller that waits has a value: the 30 s timeout is not what ends its wait.
\* This rests on three orders: register before send, connected_ = false before
\* on_close_, and on_close_ before the thread ends.
LossLeavesNoWaiter ==
    reader = "none" /\ ~wsOpen /\ ~closing =>
        \A c \in Callers : pc[c] = "waiting" => promise[req[c]] # Unset

\* Every request ends, on every interleaving with losses and reconnections.
RequestsEnd == \A c \in Callers : Active(c) ~> ~Active(c)

\* send_request keeps the promise stated in module Rpc.
R == INSTANCE Rpc WITH Ids <- Ids, status <- status, answered <- answered
ImplementsRpc == R!Spec

\* reject_all_pending expects promises that have their value ("Promise may
\* already be satisfied"); the same race must not end the process.
NeverTerminates == ~terminated
=============================================================================
