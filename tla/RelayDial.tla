----------------------------- MODULE RelayDial -----------------------------
(***************************************************************************)
(* Outbound calls: dial() enters a promise in pending_dials_ under its tag,  *)
(* sends calling.dial, and waits for the read thread to resolve the promise  *)
(* from calling.call.dial. calling.call.state events create Call objects for *)
(* the legs of a pending dial, and keep calls_ up to date.                   *)
(*                                                                         *)
(* Every critical section of dials_mutex_ is a step, and so is setting a     *)
(* promise. Tags are unique: generate_uuid() makes them, or the application. *)
(***************************************************************************)
EXTENDS Naturals, Sequences

CONSTANTS
    Dialers,     \* threads that call dial(), once each and with a tag of their own
    Legs,        \* call ids the server gives to the legs of the dials
    None,        \* no dialer; a promise without value
    NoCall,      \* the value nullptr of a dial promise; an empty Call
    MaxInbox     \* bound on the frames in flight to the client

ASSUME ConstantsAssumption ==
    /\ None \notin Dialers \cup Legs
    /\ NoCall \notin Legs /\ NoCall # None
    /\ MaxInbox \in Nat

VARIABLES
    pc,          \* where each dialer is in dial()
    replied,     \* dialers whose calling.dial has its reply, of whatever kind
    promise,     \* PendingDial::promise of each dialer
    outcome,     \* what dial() returned
    pending,     \* pending_dials_: the dialers whose tag is a key
    calls,       \* the keys of calls_
    callState,   \* the state of the Call object of each leg
    reader,      \* the read thread: idle, or in the middle of a handler
    server,      \* the server's view of each dial
    reported,    \* dials of which the server has reported progress
    legOf,       \* the dialer for which the server has created each leg
    winner,      \* the leg the server has answered each dial with
    hungUp,      \* the legs the server has ended
    inbox        \* frames on their way to the read thread

dialVars == <<pc, replied, outcome>>
callVars == <<calls, callState, reader>>
serverVars == <<server, reported, legOf, winner, hungUp>>
vars == <<dialVars, promise, pending, callVars, serverVars, inbox>>

Idle == [at |-> "idle"]

Init ==
    /\ pc = [d \in Dialers |-> "new"]
    /\ replied = {} /\ promise = [d \in Dialers |-> None]
    /\ outcome = [d \in Dialers |-> None]
    /\ pending = {}
    /\ calls = {} /\ callState = [c \in Legs |-> "none"] /\ reader = Idle
    /\ server = [d \in Dialers |-> "none"] /\ reported = {}
    /\ legOf = [c \in Legs |-> None]
    /\ winner = [d \in Dialers |-> None] /\ hungUp = {} /\ inbox = <<>>
-----------------------------------------------------------------------------
(* Faults: what a plausible mistake would make of a definition that follows. They *)
(* are no part of the specification; the properties below must notice each one.  *)

\* The Call of any leg of the dial will do.
AnyLegOfDial(f) ==
    LET legs == {c \in calls : legOf[c] = f.tag}
    IN IF f.value # "answered" THEN NoCall
       ELSE IF legs # {} THEN CHOOSE c \in legs : TRUE ELSE f.leg
\* An exit path of dial() forgets to erase.
NotErased(d) == UNCHANGED pending
\* The dials are dropped without a value.
DroppedDials == pending' = {} /\ UNCHANGED promise
\* The Call is created and not registered.
NotAdopted(c) == UNCHANGED calls
\* The Call stays registered.
NotUnregistered(c) == UNCHANGED calls
\* wait instead of wait_for.
WaitIsOver(d) == promise[d] # None
-----------------------------------------------------------------------------
(* dial(). *)

Erase(d) == pending' = pending \ {d}

Register(d) ==
    /\ pc[d] = "new"
    /\ pc' = [pc EXCEPT ![d] = "executing"]
    /\ pending' = pending \cup {d}
    /\ server' = [server EXCEPT ![d] = "asked"]
    /\ UNCHANGED <<replied, outcome, promise, callVars, reported, legOf, winner, hungUp,
                   inbox>>

\* execute() throws: the entry of the tag is erased.
ExecuteThrows(d) ==
    /\ pc[d] = "executing" /\ d \notin replied
    /\ pc' = [pc EXCEPT ![d] = "done"]
    /\ Erase(d)
    /\ outcome' = [outcome EXCEPT ![d] = NoCall]
    /\ UNCHANGED <<replied, promise, callVars, serverVars, inbox>>

\* The result of calling.dial is not looked at: an error waits for an event too.
ExecuteReturns(d) ==
    /\ pc[d] = "executing" /\ d \in replied
    /\ pc' = [pc EXCEPT ![d] = "waiting"]
    /\ UNCHANGED <<replied, outcome, promise, pending, callVars, serverVars, inbox>>

\* future.wait_for: the promise has its value, or dial_timeout_ms have passed.
WaitMayEnd(d) == TRUE

WaitReturns(d) ==
    /\ pc[d] = "waiting" /\ WaitMayEnd(d)
    /\ pc' = [pc EXCEPT ![d] = IF promise[d] # None THEN "ready" ELSE "expired"]
    /\ UNCHANGED <<replied, outcome, promise, pending, callVars, serverVars, inbox>>

Return(d) ==
    /\ pc[d] \in {"ready", "expired"}
    /\ pc' = [pc EXCEPT ![d] = "done"]
    /\ Erase(d)
    /\ outcome' = [outcome EXCEPT ![d] = IF pc[d] = "ready" THEN promise[d] ELSE NoCall]
    /\ UNCHANGED <<replied, promise, callVars, serverVars, inbox>>

Dialer(d) == \/ Register(d) \/ ExecuteThrows(d) \/ ExecuteReturns(d) \/ WaitReturns(d) \/ Return(d)
-----------------------------------------------------------------------------
(* The server. *)

Sends(f) == Len(inbox) < MaxInbox /\ inbox' = Append(inbox, f)

StateEvent(c, d, s) == [type |-> "state", leg |-> c, tag |-> d, value |-> s]
DialEvent(d, s, c)  == [type |-> "dial", leg |-> c, tag |-> d, value |-> s]

ServerReplies(d) ==
    /\ server[d] = "asked"
    /\ \E s \in {"dialing", "over"} : server' = [server EXCEPT ![d] = s]
    /\ Sends([type |-> "reply", to |-> d])
    /\ UNCHANGED <<dialVars, promise, pending, callVars, reported, legOf, winner,
                   hungUp>>

ServerRings(d, c) ==
    /\ server[d] = "dialing" /\ legOf[c] = None
    /\ legOf' = [legOf EXCEPT ![c] = d]
    /\ Sends(StateEvent(c, d, "ringing"))
    /\ UNCHANGED <<dialVars, promise, pending, callVars, server, reported, winner,
                   hungUp>>

ServerReportsProgress(d) ==
    /\ server[d] = "dialing" /\ d \notin reported
    /\ reported' = reported \cup {d}
    /\ Sends(DialEvent(d, "dialing", None))
    /\ UNCHANGED <<dialVars, promise, pending, callVars, server, legOf, winner, hungUp>>

\* The winning leg may not have been announced by a state event.
ServerAnswers(d, c) ==
    /\ server[d] = "dialing" /\ legOf[c] \in {None, d} /\ c \notin hungUp
    /\ server' = [server EXCEPT ![d] = "over"]
    /\ legOf' = [legOf EXCEPT ![c] = d]
    /\ winner' = [winner EXCEPT ![d] = c]
    /\ Sends(DialEvent(d, "answered", c))
    /\ UNCHANGED <<dialVars, promise, pending, callVars, reported, hungUp>>

ServerGivesUp(d) ==
    /\ server[d] = "dialing"
    /\ server' = [server EXCEPT ![d] = "over"]
    /\ Sends(DialEvent(d, "failed", None))
    /\ UNCHANGED <<dialVars, promise, pending, callVars, reported, legOf, winner,
                   hungUp>>

ServerEndsLeg(c) ==
    /\ legOf[c] # None /\ c \notin hungUp
    /\ hungUp' = hungUp \cup {c}
    /\ Sends(StateEvent(c, legOf[c], "ended"))
    /\ UNCHANGED <<dialVars, promise, pending, callVars, server, reported, legOf,
                   winner>>

Server ==
    \/ \E d \in Dialers : \/ ServerReplies(d) \/ ServerReportsProgress(d)
                          \/ ServerGivesUp(d)
                          \/ \E c \in Legs : ServerRings(d, c) \/ ServerAnswers(d, c)
    \/ \E c \in Legs : ServerEndsLeg(c)
-----------------------------------------------------------------------------
(* The read thread. *)

Takes(t) == /\ reader = Idle /\ inbox # <<>> /\ Head(inbox).type = t
            /\ inbox' = Tail(inbox)

ReadReply ==
    /\ Takes("reply")
    /\ replied' = replied \cup {Head(inbox).to}
    /\ UNCHANGED <<pc, outcome, promise, pending, callVars, serverVars>>

\* register_call and unregister_call
Adopt(c) == calls' = calls \cup {c}
Unregister(c) == calls' = calls \ {c}

\* What the promise of a dial gets from the event that ends it.
DialResult(f) == IF f.value = "answered" THEN f.leg ELSE NoCall

\* handle_dial_event takes the entry out of pending_dials_ whatever the state is,
\* finds or creates the Call of an answered dial ...
ReadDial ==
    /\ Takes("dial")
    /\ LET f == Head(inbox)
           d == f.tag
           new == f.value = "answered" /\ f.leg \notin calls
       IN IF d \notin pending THEN UNCHANGED <<pending, callVars>> ELSE
            /\ Erase(d)
            /\ IF new THEN /\ Adopt(f.leg)
                           /\ callState' = [callState EXCEPT ![f.leg] = "answered"]
                      ELSE UNCHANGED <<calls, callState>>
            /\ reader' = IF f.value \in {"answered", "failed"}
                 THEN [at |-> "resolving", dial |-> d, value |-> DialResult(f)]
                 ELSE Idle
    /\ UNCHANGED <<dialVars, promise, serverVars>>

\* ... and sets the promise, which nobody else can find any more.
ResolveDial ==
    /\ reader.at = "resolving"
    /\ promise' = [promise EXCEPT ![reader.dial] = reader.value]
    /\ reader' = Idle
    /\ UNCHANGED <<dialVars, pending, calls, callState, serverVars, inbox>>

\* handle_call_state creates the Call of a leg whose dial is pending, and updates
\* a Call that is known.
ReadState ==
    /\ Takes("state")
    /\ LET f == Head(inbox)
           known == f.leg \in calls \/ f.tag \in pending
       IN /\ IF known THEN /\ Adopt(f.leg)
                           /\ callState' = [callState EXCEPT ![f.leg] = f.value]
                      ELSE UNCHANGED <<calls, callState>>
          /\ reader' = IF known /\ f.value = "ended"
                         THEN [at |-> "ending", leg |-> f.leg] ELSE Idle
    /\ UNCHANGED <<dialVars, promise, pending, serverVars>>

\* After the event handlers of the Call have run, an ended call is unregistered.
UnregisterCall ==
    /\ reader.at = "ending"
    /\ Unregister(reader.leg)
    /\ reader' = Idle
    /\ UNCHANGED <<dialVars, promise, pending, callState, serverVars, inbox>>

RejectDials ==
    /\ promise' = [d \in Dialers |-> IF d \in pending THEN NoCall ELSE promise[d]]
    /\ pending' = {}

\* The connection is lost: requests get their 503, pending dials a nullptr, and
\* the frames in flight are gone.
ConnectionLost ==
    /\ reader = Idle
    /\ inbox' = <<>>
    /\ replied' = replied \cup {d \in Dialers : pc[d] = "executing"}
    /\ RejectDials
    /\ UNCHANGED <<pc, outcome, callVars, serverVars>>

Reader == ReadReply \/ ReadDial \/ ResolveDial \/ ReadState \/ UnregisterCall
-----------------------------------------------------------------------------
Next == (\E d \in Dialers : Dialer(d)) \/ Server \/ Reader \/ ConnectionLost

\* RPCs and waits end, because both have a timeout.
Fairness == \A d \in Dialers :
    WF_vars(ExecuteThrows(d) \/ ExecuteReturns(d) \/ WaitReturns(d) \/ Return(d))

SafeSpec == Init /\ [][Next]_vars
Spec == SafeSpec /\ Fairness
-----------------------------------------------------------------------------
(* Properties. *)

TypeOK ==
    /\ pc \in [Dialers -> {"new", "executing", "waiting", "ready", "expired", "done"}]
    /\ replied \subseteq Dialers
    /\ promise \in [Dialers -> Legs \cup {NoCall, None}]
    /\ outcome \in [Dialers -> Legs \cup {NoCall, None}]
    /\ pending \subseteq Dialers /\ reported \subseteq Dialers
    /\ calls \subseteq Legs
    /\ callState \in [Legs -> {"none", "ringing", "answered", "ended"}]
    /\ reader.at \in {"idle", "resolving", "ending"}
    /\ server \in [Dialers -> {"none", "asked", "dialing", "over"}]
    /\ legOf \in [Legs -> Dialers \cup {None}]
    /\ winner \in [Dialers -> Legs \cup {None}]
    /\ hungUp \subseteq Legs /\ Len(inbox) <= MaxInbox

InDial(d) == pc[d] \in {"executing", "waiting"}

\* dial() returns a call only if the server answered that very dial with it, never
\* a losing leg, nor a leg of another dial.
OutcomeIsTrue ==
    \A d \in Dialers : outcome[d] \in {None, NoCall, winner[d]}

\* pending_dials_ does not leak: an entry belongs to a dial() that has not returned.
PendingHasDialer == \A d \in pending : pc[d] \in {"executing", "waiting", "expired"}

\* A dial that waits without a value can still be found by the event it waits for:
\* nobody else erases its entry without setting the promise. (A dial of which the
\* server reports progress is given up at that report.)
WaiterIsPending ==
    \A d \in Dialers : InDial(d) /\ promise[d] = None =>
        \/ d \in pending \cup reported
        \/ reader.at = "resolving" /\ reader.dial = d

\* Events reach the Call that dial() has returned until the call has ended.
ReturnedCallIsRouted ==
    \A d \in Dialers : outcome[d] \in Legs =>
        outcome[d] \in calls \/ callState[outcome[d]] = "ended"

\* An ended call is not in calls_, except while its last event is being handled.
EndedIsForgotten == \A c \in calls : callState[c] = "ended" => reader = [at |-> "ending", leg |-> c]

\* pending_dials_ and calls_ hold what they should and nothing else.
TablesAreConsistent == TypeOK /\ PendingHasDialer /\ WaiterIsPending /\ EndedIsForgotten

\* Every dial() returns.
DialsEnd == \A d \in Dialers : InDial(d) ~> pc[d] = "done"
=============================================================================
