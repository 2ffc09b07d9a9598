------------------------------- MODULE WebSocket -------------------------------
(***************************************************************************)
(* One connection of WebSocketClient, from the moment connect() has started *)
(* the read thread: the read thread, a thread that sends, a thread that     *)
(* closes, and the peer. A read fails when the connection is lost, and also *)
(* when nothing comes for the ten seconds of SO_RCVTIMEO.                   *)
(*                                                                         *)
(* Frames are what they are for; a message is never sent in fragments.      *)
(***************************************************************************)
EXTENDS Naturals, Sequences

CONSTANTS
  MaxFrames    \* bound: frames of the peer

VARIABLE sock   \* plain: no TLS; connected, closing: the flags; transport: the SSL
                \* object and the descriptor; reader, sender, closer: where the
                \* threads are; frame: the one in hand; lock: who holds
                \* write_mutex_; inbox, sent: frames of the peer; lost: the connection;
                \* reported: calls of on_close; broken: freed memory was used

-------------------------------------------------------------------------------
(* Faults: what a plausible mistake would make of a definition that follows. *)

\* close() does not wait for the read thread.
JoinsNobody == TRUE
\* A failed read is reported only while close() is under way.
LostWhenClosing == sock.connected /\ sock.closing
\* close() keeps the mutex of the close frame while it waits for the read thread.
HeldThroughJoin == "closer"
-------------------------------------------------------------------------------
Init ==
  \E tls \in BOOLEAN :
    sock = [plain |-> ~tls, connected |-> TRUE, closing |-> FALSE, transport |-> "open",
            reader |-> "top", sender |-> "idle", closer |-> "idle", frame |-> "none",
            lock |-> "none", inbox |-> <<>>, sent |-> <<>>, lost |-> FALSE,
            reported |-> 0, broken |-> FALSE]

\* Using an SSL object that has been freed, or is being freed: a crash, or an error.
Uses(then) ==
  \/ sock' = then
  \/ ~sock.plain /\ sock.transport = "freed" /\ sock' = [then EXCEPT !.broken = TRUE]
-------------------------------------------------------------------------------
(* The peer. *)

PeerSends ==
  /\ ~sock.lost /\ Len(sock.sent) < MaxFrames
  /\ \E kind \in {"text", "ping", "close"} :
       LET f == <<kind, Len(sock.sent)>>
       IN  sock' = [sock EXCEPT !.inbox = Append(@, f), !.sent = Append(@, f)]

PeerIsLost == ~sock.lost /\ sock' = [sock EXCEPT !.lost = TRUE]
-------------------------------------------------------------------------------
(* raw_write of one frame, under write_mutex_. *)

MayWrite(t) == sock.lock = "none"

StartsWriting(t, then) ==
  /\ MayWrite(t)
  /\ sock' = [then EXCEPT !.lock = t]

StopsWriting(t, then) ==
  Uses([then EXCEPT !.lock = IF @ = t THEN "none" ELSE @])
-------------------------------------------------------------------------------
(* The read thread. *)

ReadLoop ==
  /\ sock.reader = "top"
  /\ sock' = [sock EXCEPT !.reader = IF sock.connected THEN "reading" ELSE "ended"]

\* A read that has begun when close() frees the transport may still return its frame.
ReadFrame ==
  /\ sock.reader = "reading" /\ sock.inbox # <<>>
  /\ Uses([sock EXCEPT !.frame = Head(sock.inbox), !.inbox = Tail(@), !.reader = "have"])

\* The connection is lost, or silent for ten seconds, or has been freed meanwhile.
ReadFails ==
  /\ sock.reader = "reading"
  /\ sock.inbox = <<>> \/ sock.transport = "freed"
  /\ Uses([sock EXCEPT !.reader = "failed"])

\* Only a loss that close() has not brought about is reported.
IsLoss == sock.connected /\ ~sock.closing

JudgeFailure ==
  /\ sock.reader = "failed"
  /\ sock' = [sock EXCEPT !.reader = IF IsLoss THEN "losing" ELSE "ended"]

ReportLoss ==
  /\ sock.reader = "losing"
  /\ sock' = [sock EXCEPT !.connected = FALSE, !.reader = "in on_close", !.reported = @ + 1]

HandleText ==
  /\ sock.reader = "have" /\ sock.frame[1] = "text"
  /\ sock' = [sock EXCEPT !.reader = "in on_message"]

HandleClose ==
  /\ sock.reader = "have" /\ sock.frame[1] = "close"
  /\ sock' = [sock EXCEPT !.connected = FALSE, !.reader = "in on_close", !.reported = @ + 1]

HandlePing ==
  /\ sock.reader = "have" /\ sock.frame[1] = "ping"
  /\ StartsWriting("reader", [sock EXCEPT !.reader = "ponging"])

Ponged ==
  sock.reader = "ponging" /\ StopsWriting("reader", [sock EXCEPT !.reader = "top"])

CallbackReturns ==
  /\ sock.reader \in {"in on_message", "in on_close"}
  /\ sock' = [sock EXCEPT !.reader = IF @ = "in on_message" THEN "top" ELSE "ended"]

Reader == \/ ReadLoop \/ ReadFrame \/ ReadFails \/ JudgeFailure \/ ReportLoss
          \/ HandleText \/ HandleClose \/ HandlePing \/ Ponged \/ CallbackReturns
-------------------------------------------------------------------------------
(* A thread that sends: send() looks at connected_ before it has the mutex. *)

Send == /\ sock.sender = "idle" /\ sock.connected
        /\ sock' = [sock EXCEPT !.sender = "framed"]

SendWrites ==
  sock.sender = "framed" /\ StartsWriting("sender", [sock EXCEPT !.sender = "writing"])

Sent == sock.sender = "writing" /\ StopsWriting("sender", [sock EXCEPT !.sender = "idle"])
-------------------------------------------------------------------------------
(* A thread that closes. *)

CloseFindsNothing ==
  /\ sock.closer = "idle" /\ ~sock.connected
  /\ sock' = [sock EXCEPT !.closer = "nothing to close"]

Close ==
  /\ sock.closer = "idle" /\ sock.connected
  /\ sock' = [sock EXCEPT !.closing = TRUE, !.connected = FALSE, !.closer = "flagged"]

CloseWrites ==
  sock.closer = "flagged" /\ StartsWriting("closer", [sock EXCEPT !.closer = "writing"])

LockAfterClosing == "none"

\* cleanup() follows, without the mutex; a read or write in progress goes on.
CloseCleansUp ==
  /\ sock.closer = "writing"
  /\ sock' = [sock EXCEPT !.lock = LockAfterClosing, !.transport = "freed",
                          !.closer = "joining"]

Joined == sock.reader = "ended"

CloseReturns ==
  sock.closer = "joining" /\ Joined /\ sock' = [sock EXCEPT !.closer = "closed"]

Closer == Close \/ CloseWrites \/ CloseCleansUp \/ CloseReturns
-------------------------------------------------------------------------------
Next == /\ ~sock.broken
        /\ \/ PeerSends \/ PeerIsLost \/ Reader \/ Send \/ SendWrites \/ Sent
           \/ CloseFindsNothing \/ Closer

\* The threads run, callbacks return and a thread that waits for write_mutex_ gets it;
\* an application sends and closes or does not. A read that only silence can end (the
\* timeout of a connection that is up) need not.
Fairness ==
  /\ WF_sock(~sock.broken /\ Sent)
  /\ SF_sock(~sock.broken /\ CloseWrites)
  /\ WF_sock(~sock.broken /\ (CloseCleansUp \/ CloseReturns))
  /\ SF_sock(~sock.broken /\ HandlePing)
  /\ WF_sock(~sock.broken /\ Reader /\ (sock.reader = "reading" /\ sock.inbox = <<>>
                                         => sock.lost \/ sock.transport = "freed"))

Spec == Init /\ [][Next]_sock /\ Fairness
-------------------------------------------------------------------------------
(* Properties. *)

\* When a close() that has closed the connection returns, no callback is running, and
\* none will run: the caller may destroy what the callbacks use. (A close() that
\* finds nothing to close returns while the report of the loss may be under way.)
SilentAfterClose ==
  sock.closer = "closed" => sock.reader \notin {"in on_message", "in on_close", "losing"}

\* A connection that is lost is reported by on_close, unless close() has begun.
EndIsReported == sock.lost ~> sock.reported = 1 \/ sock.closing \/ sock.broken

\* A close() that has closed the connection returns, whatever the read thread and a
\* sender are doing: the read thread may need the mutex for a pong before it can end.
CloseEnds == sock.closer = "flagged" ~> sock.closer = "closed" \/ sock.broken

\* websocket.hpp: "Close the WebSocket connection gracefully". The SSL object is freed
\* under the read thread.
NeverUsesFreed == ~sock.broken
===============================================================================
