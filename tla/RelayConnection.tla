-------------------------- MODULE RelayConnection --------------------------
(***************************************************************************)
(* The connection of a RelayClient: run() connects, authenticates, and      *)
(* reconnects with exponential backoff; the read thread of the current      *)
(* WebSocket notices a loss and keeps the session credentials up to date;   *)
(* disconnect() is called from a thread of the application.                 *)
(*                                                                         *)
(* The three threads share running_, connected_, protocol_,                 *)
(* authorization_state_ and ws_ without a lock; every load or store of one  *)
(* of them is a step of its own here.                                       *)
(***************************************************************************)
EXTENDS Naturals, Sequences

CONSTANTS
    Sessions,        \* values of the "protocol" string the server issues
    AuthStates,      \* values of the authorization state the server sends
    None,            \* the empty string
    BaseDelay,       \* RECONNECT_BASE_DELAY_MS
    MaxDelay,        \* RECONNECT_MAX_DELAY_MS
    MaxAttempts,     \* MAX_RECONNECT_ATTEMPTS
    MaxInbox,        \* bound on the frames in flight to the client
    EarlyLoss,       \* whether the connection may be lost after the server has
                     \*   accepted signalwire.connect and before connected_ is set
    EarlyFrames,     \* whether the server may send frames right behind its reply
                     \*   to signalwire.connect
    Disconnects      \* disconnect() is called "never", "once running", "any time"

ASSUME ConstantsAssumption ==
    /\ None \notin Sessions /\ None \notin AuthStates
    /\ BaseDelay \in Nat \ {0} /\ MaxDelay \in Nat /\ BaseDelay <= MaxDelay
    /\ MaxAttempts \in Nat /\ MaxInbox \in Nat
    /\ EarlyLoss \in BOOLEAN /\ EarlyFrames \in BOOLEAN
    /\ Disconnects \in {"never", "once running", "any time"}

VARIABLES
    running, connected,       \* the atomics running_ and connected_
    protocol, authState,      \* protocol_ and authorization_state_
    attempts, delay,          \* reconnect_attempts_ and reconnect_delay_ms_
    ws,                       \* what ws_ points to: "null", or a WebSocketClient
                              \*   that is "new", "open", "lost" or "closed"
    main, mode,               \* the thread in run(); whether it is in connect()
                              \*   or in reconnect()
    auth,                     \* the promise of the signalwire.connect request
    result,                   \* the value of that promise
    reader,                   \* the read thread of the socket
    app,                      \* the thread in disconnect()
    linkUp, server, inbox,    \* the connection, the server's side, frames to us
    lastRead,                 \* history: the credentials as of the last frame
                              \*   the client took, in the order of arrival
    crashed                   \* a null pointer was dereferenced

threadVars == <<main, mode, reader, app>>
credentialVars == <<protocol, authState, lastRead>>
authVars == <<auth, result>>
backoffVars == <<attempts, delay>>
netVars == <<linkUp, server, inbox>>
vars == <<running, connected, credentialVars, backoffVars, ws, threadVars,
          authVars, netVars, crashed>>

Accept(p, a) == [type |-> "accept", protocol |-> p, auth |-> a]
Push(a)      == [type |-> "push", protocol |-> None, auth |-> a]
Plain(t)     == [type |-> t, protocol |-> None, auth |-> None]

Frames == {Accept(p, a) : p \in Sessions, a \in AuthStates \cup {None}}
            \cup {Push(a) : a \in AuthStates}
            \cup {Plain("refuse"), Plain("restart")}

Init ==
    /\ running = FALSE /\ connected = FALSE
    /\ protocol = None /\ authState = None
    /\ lastRead = [protocol |-> None, auth |-> None]
    /\ attempts = 0 /\ delay = BaseDelay
    /\ ws = "null" /\ main = "idle" /\ mode = "connect"
    /\ auth = "none" /\ result = Plain("refuse")
    /\ reader = "none" /\ app = "idle"
    /\ linkUp = FALSE /\ server = "none" /\ inbox = <<>>
    /\ crashed = FALSE

Min2(a, b) == IF a < b THEN a ELSE b
-----------------------------------------------------------------------------
(* Faults: what a plausible mistake would make of a definition that follows. They *)
(* are no part of the specification; the properties below must notice each one.  *)

\* A success forgets the count and keeps the delay.
ResetAttemptsOnly == attempts' = 0 /\ UNCHANGED delay
\* Whatever answers signalwire.connect is taken for success.
AnyAnswer == auth = "set"
\* on_ws_close does not touch the flag.
MarkLostNever == UNCHANGED connected
\* A restart clears the session and keeps the authorization.
ForgetProtocolOnly == protocol' = None /\ UNCHANGED authState
\* disconnect() leaves running_ as it is.
KeepRunning == UNCHANGED running
-----------------------------------------------------------------------------
(* The thread in run(). *)

\* The delay doubles with every failed attempt up to the cap.
BackOff == delay' = Min2(2 * delay, MaxDelay)

ResetBackoff == attempts' = 0 /\ delay' = BaseDelay

\* The loop condition of reconnect().
MayTry == running /\ attempts < MaxAttempts

\* The reply to signalwire.connect carries a protocol.
Accepted == auth = "set" /\ result.type = "accept"

\* run() calls connect(), which allocates the socket.
Run ==
    /\ main = "idle"
    /\ main' = "dialing" /\ mode' = "connect"
    /\ ws' = "new"
    /\ UNCHANGED <<running, connected, credentialVars, backoffVars, reader, app,
                   authVars, netVars, crashed>>

\* TCP, TLS and upgrade succeed, and the read thread starts.
DialSucceeds ==
    /\ main = "dialing" /\ ws # "null"
    /\ main' = "sending" /\ ws' = "open" /\ reader' = "reading"
    /\ linkUp' = TRUE /\ server' = "none" /\ inbox' = <<>>
    /\ UNCHANGED <<running, connected, credentialVars, backoffVars, mode, app,
                   authVars, crashed>>

\* connect() returns false and run() ends; reconnect() backs off and goes on.
DialFails ==
    /\ main = "dialing" /\ ws # "null"
    /\ IF mode = "connect" THEN main' = "stopped" /\ UNCHANGED delay
                           ELSE main' = "deciding" /\ BackOff
    /\ UNCHANGED <<running, connected, credentialVars, attempts, ws, mode, reader,
                   app, authVars, netVars, crashed>>

\* authenticate() puts protocol_ and authorization_state_ into the request.
SendConnect ==
    /\ main = "sending"
    /\ IF ws = "open"
         THEN /\ main' = "waiting" /\ auth' = "pending"
              /\ server' = IF linkUp THEN "asked" ELSE server
         ELSE main' = "rejected" /\ UNCHANGED <<auth, server>>
    /\ UNCHANGED <<running, connected, credentialVars, backoffVars, ws, mode,
                   reader, app, result, linkUp, inbox, crashed>>

\* send_request returns: a reply with a protocol, anything else, or a timeout.
ConnectAnswered ==
    /\ main = "waiting"
    /\ main' = IF Accepted THEN "storing" ELSE "rejected"
    /\ auth' = "none"
    /\ UNCHANGED <<running, connected, credentialVars, backoffVars, ws, mode,
                   reader, app, result, netVars, crashed>>

StoreCredentials ==
    /\ main = "storing"
    /\ protocol' = result.protocol
    /\ authState' = IF result.auth # None THEN result.auth ELSE authState
    /\ main' = "authenticated"
    /\ UNCHANGED <<running, connected, lastRead, backoffVars, ws, mode, reader,
                   app, authVars, netVars, crashed>>

SetConnected ==
    /\ main = "authenticated"
    /\ connected' = TRUE
    /\ ResetBackoff
    /\ main' = IF mode = "connect" THEN "starting" ELSE "looping"
    /\ UNCHANGED <<running, credentialVars, ws, mode, reader, app, authVars,
                   netVars, crashed>>

\* run() stores running_ only after connect() has returned.
SetRunning ==
    /\ main = "starting"
    /\ running' = TRUE
    /\ main' = "looping"
    /\ UNCHANGED <<connected, credentialVars, backoffVars, ws, mode, reader, app,
                   authVars, netVars, crashed>>

\* WebSocketClient::close, a no-op on a socket that is not open.
CloseSocket ==
    IF ws = "open" THEN ws' = "closed" /\ linkUp' = FALSE /\ inbox' = <<>>
                   ELSE UNCHANGED <<ws, linkUp, inbox>>

\* ws_->close() after a failed authenticate(); ws_ may have been reset by
\* disconnect(), and is not tested.
CloseRejected ==
    /\ main = "rejected"
    /\ IF ws = "null"
         THEN crashed' = TRUE /\ UNCHANGED <<main, ws, linkUp, inbox, delay>>
         ELSE /\ CloseSocket
              /\ IF ws = "open" \/ mode = "connect"
                   THEN main' = "joining" /\ UNCHANGED delay
                   ELSE main' = "deciding" /\ BackOff
              /\ UNCHANGED crashed
    /\ UNCHANGED <<running, connected, credentialVars, attempts, mode, reader,
                   app, authVars, server>>

\* The read thread is joined: connect() frees the socket and returns false,
\* reconnect() backs off.
JoinRejected ==
    /\ main = "joining" /\ reader = "none"
    /\ IF mode = "connect" THEN main' = "stopped" /\ ws' = "null" /\ UNCHANGED delay
                           ELSE main' = "deciding" /\ BackOff /\ UNCHANGED ws
    /\ UNCHANGED <<running, connected, credentialVars, attempts, mode, reader,
                   app, authVars, netVars, crashed>>

\* The loop of run(): it ends, or sleeps, or calls reconnect().
LoopEnds ==
    /\ main = "looping" /\ ~running
    /\ main' = "stopped"
    /\ UNCHANGED <<running, connected, credentialVars, backoffVars, ws, mode,
                   reader, app, authVars, netVars, crashed>>

LoopSeesLoss ==
    /\ main = "looping" /\ running /\ ~connected
    /\ main' = "deciding" /\ mode' = "reconnect"
    /\ UNCHANGED <<running, connected, credentialVars, backoffVars, ws, reader,
                   app, authVars, netVars, crashed>>

\* reconnect() counts another attempt, or returns.
NextAttempt ==
    /\ main = "deciding"
    /\ IF MayTry
         THEN main' = "sleeping" /\ attempts' = attempts + 1
         ELSE main' = "stopped" /\ UNCHANGED attempts
    /\ UNCHANGED <<running, connected, credentialVars, delay, ws, mode, reader,
                   app, authVars, netVars, crashed>>

\* After the sleep running_ is read once more. The new socket is in ws_ before
\* the destructor of the old one closes it.
ReplaceSocket ==
    /\ main = "sleeping"
    /\ IF running
         THEN /\ main' = "replacing" /\ ws' = "new"
              /\ IF ws = "open" THEN linkUp' = FALSE /\ inbox' = <<>>
                                ELSE UNCHANGED <<linkUp, inbox>>
         ELSE main' = "stopped" /\ UNCHANGED <<ws, linkUp, inbox>>
    /\ UNCHANGED <<running, connected, credentialVars, backoffVars, mode, reader,
                   app, authVars, server, crashed>>

\* The destructor joins the read thread of the old socket.
OldReaderJoined ==
    /\ main = "replacing" /\ reader = "none"
    /\ main' = "dialing"
    /\ UNCHANGED <<running, connected, credentialVars, backoffVars, ws, mode,
                   reader, app, authVars, netVars, crashed>>

\* The socket being dialled was freed by disconnect().
DialFreedSocket ==
    /\ main = "dialing" /\ ws = "null"
    /\ crashed' = TRUE
    /\ UNCHANGED <<running, connected, credentialVars, backoffVars, ws, threadVars,
                   authVars, netVars>>

Main == \/ Run \/ DialSucceeds \/ DialFails \/ SendConnect \/ ConnectAnswered
        \/ StoreCredentials \/ SetConnected \/ SetRunning \/ CloseRejected
        \/ JoinRejected \/ LoopEnds \/ LoopSeesLoss \/ NextAttempt
        \/ ReplaceSocket \/ OldReaderJoined \/ DialFreedSocket
-----------------------------------------------------------------------------
(* The read thread. *)

Reading == reader = "reading" /\ ws = "open"

ForgetSession == protocol' = None /\ authState' = None

\* The reply sets the promise; an authorization event and a restart request
\* update the credentials that the next signalwire.connect will carry.
ReadFrame ==
    /\ Reading /\ inbox # <<>>
    /\ inbox' = Tail(inbox)
    /\ LET f == Head(inbox) IN
         CASE f.type \in {"accept", "refuse"} ->
                /\ IF auth = "pending" THEN auth' = "set" /\ result' = f
                                       ELSE UNCHANGED authVars
                /\ lastRead' = IF auth # "pending" \/ f.type = "refuse" THEN lastRead
                     ELSE [protocol |-> f.protocol,
                           auth |-> IF f.auth # None THEN f.auth ELSE lastRead.auth]
                /\ UNCHANGED <<protocol, authState>>
           [] f.type = "push" ->
                /\ authState' = f.auth
                /\ lastRead' = [lastRead EXCEPT !.auth = f.auth]
                /\ UNCHANGED <<protocol, authVars>>
           [] f.type = "restart" ->
                /\ ForgetSession
                /\ lastRead' = [protocol |-> None, auth |-> None]
                /\ UNCHANGED authVars
    /\ UNCHANGED <<running, connected, backoffVars, ws, threadVars, linkUp, server,
                   crashed>>

\* The windows in which the two environment constants forbid a loss or a frame.
BeforeConnected == main \in {"waiting", "storing", "authenticated"}
BeforeStored    == main \in {"waiting", "storing"}

\* A close frame, a broken connection, or ten seconds of silence.
ReadFails ==
    /\ Reading
    /\ ~linkUp \/ inbox = <<>>
    /\ EarlyLoss \/ ~(BeforeConnected /\ (auth = "set" \/ main # "waiting"))
    /\ ws' = "lost" /\ reader' = "closing"
    /\ UNCHANGED <<running, connected, credentialVars, backoffVars, main, mode, app,
                   authVars, netVars, crashed>>

MarkLost == connected' = FALSE

\* on_ws_close: first the flag, then the pending requests.
OnCloseClears ==
    /\ reader = "closing"
    /\ MarkLost
    /\ reader' = "rejecting"
    /\ UNCHANGED <<running, credentialVars, backoffVars, ws, main, mode, app,
                   authVars, netVars, crashed>>

RejectAllPending == IF auth = "pending"
                      THEN auth' = "set" /\ result' = Plain("refuse")
                      ELSE UNCHANGED authVars

OnCloseRejects ==
    /\ reader = "rejecting"
    /\ RejectAllPending
    /\ reader' = "none"
    /\ UNCHANGED <<running, connected, credentialVars, backoffVars, ws, main, mode,
                   app, netVars, crashed>>

ReaderExits ==
    /\ reader = "reading" /\ ws # "open"
    /\ reader' = "none"
    /\ UNCHANGED <<running, connected, credentialVars, backoffVars, ws, main, mode,
                   app, authVars, netVars, crashed>>

Reader == ReadFrame \/ ReadFails \/ OnCloseClears \/ OnCloseRejects \/ ReaderExits
-----------------------------------------------------------------------------
(* The server and the network. *)

ServerSends(f) == /\ linkUp /\ Len(inbox) < MaxInbox
                  /\ inbox' = Append(inbox, f)
                  /\ UNCHANGED <<running, connected, credentialVars, backoffVars, ws,
                                 threadVars, authVars, linkUp, crashed>>

ServerAnswers ==
    /\ server = "asked"
    /\ \/ \E p \in Sessions, a \in AuthStates \cup {None} :
              ServerSends(Accept(p, a)) /\ server' = "accepted"
       \/ ServerSends(Plain("refuse")) /\ server' = "refused"

ServerPushes ==
    /\ server = "accepted" /\ (EarlyFrames \/ ~BeforeStored)
    /\ \E a \in AuthStates : ServerSends(Push(a))
    /\ UNCHANGED server

\* signalwire.disconnect with restart; the server closes the socket after it.
ServerRestarts ==
    /\ server = "accepted" /\ (EarlyFrames \/ ~BeforeStored)
    /\ ServerSends(Plain("restart"))
    /\ server' = "leaving"

LinkDies ==
    /\ linkUp
    /\ EarlyLoss \/ ~(BeforeConnected /\ server \in {"accepted", "leaving"})
    /\ linkUp' = FALSE
    /\ \E n \in 0..Len(inbox) : inbox' = SubSeq(inbox, 1, n)
    /\ UNCHANGED <<running, connected, credentialVars, backoffVars, ws, threadVars,
                   authVars, server, crashed>>

Environment == ServerAnswers \/ ServerPushes \/ ServerRestarts \/ LinkDies
-----------------------------------------------------------------------------
(* disconnect(), called once. *)

appUnchanged == <<credentialVars, backoffVars, main, mode, reader, crashed>>

MayDisconnect == \/ Disconnects = "any time"
                 \/ Disconnects = "once running" /\ running

StopRunning == running' = FALSE

ClearRunning ==
    /\ MayDisconnect /\ app = "idle" /\ main # "idle"
    /\ StopRunning
    /\ app' = "clearing"
    /\ UNCHANGED <<appUnchanged, connected, ws, authVars, netVars>>

ClearConnected ==
    /\ app = "clearing"
    /\ connected' = FALSE /\ app' = "rejecting"
    /\ UNCHANGED <<appUnchanged, running, ws, authVars, netVars>>

DisconnectRejects ==
    /\ app = "rejecting"
    /\ RejectAllPending
    /\ app' = "closing"
    /\ UNCHANGED <<appUnchanged, running, connected, ws, netVars>>

DisconnectCloses ==
    /\ app = "closing"
    /\ CloseSocket
    /\ app' = IF ws = "null" THEN "done" ELSE "joining"
    /\ UNCHANGED <<appUnchanged, running, connected, authVars, server>>

\* close() or the destructor joins the read thread, and ws_ becomes null.
DisconnectFrees ==
    /\ app = "joining" /\ reader = "none"
    /\ ws' = "null" /\ app' = "done"
    /\ linkUp' = FALSE /\ inbox' = <<>>
    /\ UNCHANGED <<appUnchanged, running, connected, authVars, server>>

Disconnect == \/ ClearRunning \/ ClearConnected \/ DisconnectRejects
              \/ DisconnectCloses \/ DisconnectFrees
-----------------------------------------------------------------------------
Next == ~crashed /\ (Main \/ Reader \/ Environment \/ Disconnect)

\* The threads of the client run, sleeps and timeouts end; nothing is assumed of
\* the server, of the network, or of the application's call of disconnect().
Fairness == /\ WF_vars(~crashed /\ (Main /\ main # "idle"))
            /\ WF_vars(~crashed /\ (OnCloseClears \/ OnCloseRejects \/ ReaderExits))
            /\ WF_vars(~crashed /\ (Disconnect /\ app # "idle"))

SafeSpec == Init /\ [][Next]_vars
Spec == SafeSpec /\ Fairness
-----------------------------------------------------------------------------
(* Properties. *)

TypeOK ==
    /\ running \in BOOLEAN /\ connected \in BOOLEAN /\ linkUp \in BOOLEAN
    /\ crashed \in BOOLEAN
    /\ protocol \in Sessions \cup {None} /\ authState \in AuthStates \cup {None}
    /\ lastRead \in [protocol : Sessions \cup {None}, auth : AuthStates \cup {None}]
    /\ attempts \in Nat /\ delay \in BaseDelay..MaxDelay
    /\ ws \in {"null", "new", "open", "lost", "closed"}
    /\ main \in {"idle", "dialing", "sending", "waiting", "storing",
                 "authenticated", "starting", "rejected", "joining", "looping",
                 "deciding", "sleeping", "replacing", "stopped"}
    /\ mode \in {"connect", "reconnect"}
    /\ auth \in {"none", "pending", "set"} /\ result \in Frames
    /\ reader \in {"none", "reading", "closing", "rejecting"}
    /\ app \in {"idle", "clearing", "rejecting", "closing", "joining", "done"}
    /\ server \in {"none", "asked", "accepted", "refused", "leaving"}
    /\ inbox \in Seq(Frames)

Backoff(n) == Min2(BaseDelay * 2 ^ n, MaxDelay)

\* The sleep before the n-th attempt in a row is BaseDelay * 2^(n-1), capped; a
\* success starts the schedule again, whatever path the failures took.
BackoffSchedule ==
    /\ attempts <= MaxAttempts
    /\ main \in {"looping", "deciding"} => delay = Backoff(attempts)
    /\ main \in {"sleeping", "replacing"} => delay = Backoff(attempts - 1)

\* run() ends by itself only when connect() failed or every attempt was used.
GivesUpLast ==
    main = "stopped" /\ app = "idle" /\ mode = "reconnect" => attempts = MaxAttempts

\* run() keeps to its schedule: the sleeps and the number of attempts.
BackoffIsKept == TypeOK /\ BackoffSchedule /\ GivesUpLast

\* connected_ is TRUE only for a socket on which the server accepted
\* signalwire.connect: a refusal, a loss or a timeout never looks like success.
ConnectedIsAccepted ==
    connected /\ ws = "open" => server \in {"accepted", "leaving"}

\* signalwire.connect carries the credentials as the last frames left them:
\* resumption after a loss, a fresh session after a restart.
Resends == main = "sending" /\ main' = "waiting" =>
             protocol = lastRead.protocol /\ authState = lastRead.auth
ResendsLatestCredentials == [][Resends]_vars

Connected == connected /\ ws = "open"

\* "On connection loss, the client reconnects with exponential backoff": a loss
\* leads to a live connection, or to the end of run() after all attempts.
Reconnects == running /\ ws = "lost" ~> Connected \/ main = "stopped" \/ ~running

\* disconnect() ends run().
DisconnectStopsRun == app = "done" ~> main = "stopped" \/ crashed
=============================================================================
