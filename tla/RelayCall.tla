----------------------------- MODULE RelayCall -----------------------------
(***************************************************************************)
(* One Call and the Actions started on it. Each action is started by a      *)
(* thread of the application (execute_action and the method around it); the *)
(* read thread routes component events to it by control id, honours the     *)
(* filter of its kind, completes it, fires its callback, and completes all   *)
(* actions when the call ends.                                              *)
(*                                                                         *)
(* Critical sections of actions_mutex and of an action's own mutex are      *)
(* steps, and so is everything between two of them.                         *)
(***************************************************************************)
EXTENDS Naturals, Sequences

CONSTANTS
    Plain,        \* control ids of actions without a filter: play, record, ...
    Filtered,     \* control ids of detect, collect and play_and_collect
    MaxInbox      \* bound on the frames in flight to the client

Actions == Plain \cup Filtered

ASSUME ConstantsAssumption ==
    Plain \cap Filtered = {} /\ MaxInbox \in Nat

VARIABLES
    kind,         \* whether a filtered action is a "detect" or a "collect"
    pc,           \* where the thread that starts each action is
    reply,        \* the outcome of its RPC
    registered,   \* the keys of SharedState::actions; the value is the address of
                  \*   the Action object the application holds
    filtered,     \* actions whose filter and resolve flags have been set
    watched,      \* actions with a completed_callback
    dropped,      \* actions whose object has been destroyed
    state, done,  \* current_state and is_completed of each action
    fired,        \* how often its callback has run (counted to 2)
    cause,        \* history: what completed it first
    callState,    \* Call state, as far as "ended" matters
    callKnown,    \* calls_ of the client has the call
    reader,       \* where the read thread is: [at, act, ev]
    server,       \* the server's view of each action
    next,         \* the next event the server may send for it
    hungUp,       \* the server has ended the call
    inbox,        \* frames on their way to the read thread
    crashed       \* a destroyed Action was used

appVars == <<pc, reply, dropped>>
actionVars == <<state, done, fired, cause>>
callVars == <<registered, callState, callKnown>>
serverVars == <<server, next, hungUp>>
vars == <<kind, appVars, actionVars, callVars, serverVars, filtered, watched, reader,
          inbox, crashed>>

\* Fault: update_state does not know that "finished" is the end.
TerminalStatesOfErrors == {"error", "no_input", "no_match"}

TerminalStates == {"finished", "error", "no_input", "no_match"}

Detectors  == {a \in Filtered : kind[a] = "detect"}
Collectors == {a \in Filtered : kind[a] = "collect"}

Event(t, s, p) == [type |-> t, state |-> s, payload |-> p]

\* What the server sends for an action, in this order; it may leave out all but
\* the last. "own" is the event type the action waits for.
Script(a) ==
    CASE a \in Plain      -> <<Event("own", "playing", FALSE),
                               Event("own", "finished", FALSE)>>
      [] a \in Detectors  -> <<Event("own", "finished", FALSE),
                               Event("own", "", TRUE)>>
      [] a \in Collectors -> <<Event("play", "finished", FALSE),
                               Event("own", "finished", FALSE),
                               Event("own", "", TRUE)>>

Idle == [at |-> "idle"]

Init ==
    /\ kind \in [Filtered -> {"detect", "collect"}]
    /\ pc = [a \in Actions |-> "new"] /\ reply = [a \in Actions |-> "none"]
    /\ registered = {} /\ filtered = {} /\ watched = {} /\ dropped = {}
    /\ state = [a \in Actions |-> ""] /\ done = [a \in Actions |-> FALSE]
    /\ fired = [a \in Actions |-> 0] /\ cause = [a \in Actions |-> "none"]
    /\ callState = "answered" /\ callKnown = TRUE
    /\ reader = Idle
    /\ server = [a \in Actions |-> "none"] /\ next = [a \in Actions |-> 1]
    /\ hungUp = FALSE /\ inbox = <<>> /\ crashed = FALSE

\* Action::update_state and Action::resolve: a terminal state completes the action.
Complete(a, s, why) ==
    /\ state' = [state EXCEPT ![a] = s]
    /\ done' = [done EXCEPT ![a] = @ \/ s \in TerminalStates]
    /\ cause' = [cause EXCEPT ![a] = IF ~done[a] /\ s \in TerminalStates
                                       THEN why ELSE @]

\* The callback of a set of actions runs once more for each.
Fires(S) == fired' = [a \in Actions |->
                        IF a \in S \cap watched /\ fired[a] < 2 THEN fired[a] + 1
                                                               ELSE fired[a]]
-----------------------------------------------------------------------------
(* Faults: what a plausible mistake would make of a definition that follows. They *)
(* are no part of the specification; the properties below must notice each one.  *)

\* on_completed only stores the callback.
OnSetStoresOnly(a) == UNCHANGED fired
\* The action stays in the map.
NotForgotten(a) == UNCHANGED registered
\* resolve_all_actions does not ask whether an action is completed.
EveryStarted == {a \in Actions : pc[a] \in {"returned", "held"}}
\* Only actions that execute_action has returned are resolved.
OnlyReturned == {a \in registered : ~done[a] /\ pc[a] \in {"returned", "held"}}
-----------------------------------------------------------------------------
(* The thread that starts action a. *)

\* unregister_action
Forget(a) == registered' = registered \ {a}

\* execute_action registers the object, then sends the RPC.
Start(a) ==
    /\ pc[a] = "new"
    /\ pc' = [pc EXCEPT ![a] = "executing"]
    /\ registered' = registered \cup {a}
    /\ server' = [server EXCEPT ![a] = "asked"]
    /\ UNCHANGED <<reply, dropped, actionVars, callState, callKnown, next, hungUp,
                   filtered, watched, reader, inbox, crashed>>

\* execute() throws: the RPC timed out or could not be sent; the server may have
\* received it nevertheless.
ExecuteFails(a) ==
    /\ pc[a] = "executing" /\ reply[a] = "none"
    /\ reply' = [reply EXCEPT ![a] = "failed"]
    /\ UNCHANGED <<pc, dropped, actionVars, callVars, serverVars, filtered, watched,
                   reader, inbox, crashed>>

\* A 2xx leaves the action to its events; otherwise it is unregistered first.
ExecuteReturns(a) ==
    /\ pc[a] = "executing" /\ reply[a] # "none"
    /\ IF reply[a] = "ok"
         THEN pc' = [pc EXCEPT ![a] = "returned"] /\ UNCHANGED registered
         ELSE pc' = [pc EXCEPT ![a] = "resolving"] /\ Forget(a)
    /\ UNCHANGED <<reply, dropped, actionVars, callState, callKnown, serverVars,
                   filtered, watched, reader, inbox, crashed>>

\* A call that is gone counts as finished, everything else as an error.
RefusedState(a) == IF reply[a] = "gone" THEN "finished" ELSE "error"

ResolveRefused(a) ==
    /\ pc[a] = "resolving"
    /\ pc' = [pc EXCEPT ![a] = "returned"]
    /\ Complete(a, RefusedState(a), "rpc")
    /\ UNCHANGED <<reply, dropped, fired, callVars, serverVars, filtered, watched,
                   reader, inbox, crashed>>

\* play_and_collect, collect and detect set the filter and the resolve flag of
\* the Action that execute_action has returned.
SetFilter(a) ==
    /\ pc[a] = "returned"
    /\ pc' = [pc EXCEPT ![a] = "held"]
    /\ filtered' = filtered \cup ({a} \cap Filtered)
    /\ UNCHANGED <<reply, dropped, actionVars, callVars, serverVars, watched, reader,
                   inbox, crashed>>

\* on_completed: a callback set on a completed action runs at once.
OnSet(a) == fired' = [fired EXCEPT ![a] = IF done[a] THEN 1 ELSE @]

SetCallback(a) ==
    /\ pc[a] = "held" /\ a \notin watched
    /\ watched' = watched \cup {a}
    /\ OnSet(a)
    /\ UNCHANGED <<appVars, state, done, cause, callVars, serverVars, filtered, reader,
                   inbox, crashed>>

\* The application lets the Action object go out of scope, after wait() or without.
Drop(a) ==
    /\ pc[a] = "held" /\ a \notin dropped
    /\ dropped' = dropped \cup {a}
    /\ UNCHANGED <<pc, reply, actionVars, callVars, serverVars, filtered, watched,
                   reader, inbox, crashed>>

App(a) == \/ Start(a) \/ ExecuteFails(a) \/ ExecuteReturns(a) \/ ResolveRefused(a)
          \/ SetFilter(a)

User(a) == SetCallback(a) \/ Drop(a)
-----------------------------------------------------------------------------
(* The server. *)

Sends(f) == Len(inbox) < MaxInbox /\ inbox' = Append(inbox, f)

ServerReplies(a) ==
    /\ server[a] = "asked"
    /\ \/ /\ ~hungUp
          /\ \/ Sends([type |-> "reply", to |-> a, code |-> "ok"])
                  /\ server' = [server EXCEPT ![a] = "running"]
             \/ Sends([type |-> "reply", to |-> a, code |-> "refused"])
                  /\ server' = [server EXCEPT ![a] = "over"]
       \/ /\ hungUp
          /\ Sends([type |-> "reply", to |-> a, code |-> "gone"])
          /\ server' = [server EXCEPT ![a] = "over"]
    /\ UNCHANGED <<appVars, actionVars, callVars, next, hungUp, filtered, watched,
                   reader, crashed>>

ServerSendsEvent(a) ==
    /\ server[a] = "running" /\ ~hungUp
    /\ \E i \in next[a]..Len(Script(a)) :
         /\ Sends([type |-> "event", to |-> a, ev |-> Script(a)[i]])
         /\ next' = [next EXCEPT ![a] = i + 1]
    /\ UNCHANGED <<appVars, actionVars, callVars, server, hungUp, filtered, watched,
                   reader, crashed>>

ServerEndsCall ==
    /\ ~hungUp
    /\ hungUp' = TRUE
    /\ Sends([type |-> "ended"])
    /\ UNCHANGED <<appVars, actionVars, callVars, server, next, filtered, watched,
                   reader, crashed>>

Server == \/ \E a \in Actions : ServerReplies(a) \/ ServerSendsEvent(a)
          \/ ServerEndsCall
-----------------------------------------------------------------------------
(* The read thread. *)

Takes(t) == /\ reader = Idle /\ inbox # <<>> /\ Head(inbox).type = t
            /\ inbox' = Tail(inbox)

\* The promise of the RPC is set, if its caller still waits.
ReadReply ==
    /\ Takes("reply")
    /\ LET f == Head(inbox) IN
         reply' = [reply EXCEPT ![f.to] = IF @ = "none" THEN f.code ELSE @]
    /\ UNCHANGED <<pc, dropped, actionVars, callVars, serverVars, filtered, watched,
                   reader, crashed>>

\* handle_component_event finds the call and the action, and asks the action
\* whether it wants this type of event.
ReadEvent ==
    /\ Takes("event")
    /\ LET f == Head(inbox)
           hit == callKnown /\ f.to \in registered
       IN /\ crashed' = (hit /\ f.to \in dropped)
          /\ reader' = IF hit /\ (f.to \in filtered \cap Collectors => f.ev.type = "own")
                         THEN [at |-> "applying", act |-> f.to, ev |-> f.ev]
                         ELSE Idle
    /\ UNCHANGED <<appVars, actionVars, callVars, serverVars, filtered, watched>>

\* The three ways an event acts on the action; what remains to be done afterwards
\* is to fire the callback, and to unregister the action if it is completed.
Apply ==
    /\ reader.at = "applying"
    /\ LET a  == reader.act
           ev == reader.ev
           Then(at) == reader' = [reader EXCEPT !.at = at]
       IN \/ /\ a \notin filtered \/ (a \in Collectors /\ ~ev.payload)
             /\ Complete(a, ev.state, "state")
             /\ Fires(IF ev.state \in TerminalStates THEN {a} ELSE {})
             /\ IF a \in filtered THEN reader' = Idle ELSE Then("checking")
          \/ /\ a \in filtered /\ ev.payload
             /\ Complete(a, "finished", "payload")
             /\ Fires({a})
             /\ Then("unregistering")
          \/ /\ a \in filtered \cap Detectors /\ ~ev.payload
             /\ reader' = Idle
             /\ UNCHANGED actionVars
    /\ crashed' = (reader.act \in dropped)
    /\ UNCHANGED <<appVars, callVars, serverVars, filtered, watched, inbox>>

\* if (action->completed()), through the registered pointer.
CheckCompleted ==
    /\ reader.at = "checking"
    /\ reader' = IF done[reader.act] THEN [reader EXCEPT !.at = "unregistering"]
                                     ELSE Idle
    /\ crashed' = (reader.act \in dropped)
    /\ UNCHANGED <<appVars, actionVars, callVars, serverVars, filtered, watched, inbox>>

Unregister ==
    /\ reader.at = "unregistering"
    /\ Forget(reader.act)
    /\ reader' = Idle
    /\ UNCHANGED <<appVars, actionVars, callState, callKnown, serverVars, filtered,
                   watched, inbox, crashed>>

Open == {a \in registered : ~done[a]}

\* calling.call.state(ended): resolve_all_actions completes, under actions_mutex,
\* every registered action that is not completed, and forgets them all.
ReadEnded ==
    /\ Takes("ended")
    /\ callState' = "ended"
    /\ state' = [a \in Actions |-> IF a \in Open THEN "finished" ELSE state[a]]
    /\ done' = [a \in Actions |-> done[a] \/ a \in Open]
    /\ cause' = [a \in Actions |-> IF a \in Open THEN "ended" ELSE cause[a]]
    /\ Fires(Open)
    /\ crashed' = (registered \cap dropped # {})
    /\ registered' = {}
    /\ reader' = [at |-> "ending"]
    /\ UNCHANGED <<appVars, callKnown, serverVars, filtered, watched>>

ForgetCall ==
    /\ reader.at = "ending"
    /\ callKnown' = FALSE
    /\ reader' = Idle
    /\ UNCHANGED <<appVars, actionVars, registered, callState, serverVars, filtered,
                   watched, inbox, crashed>>

Reader == \/ ReadReply \/ ReadEvent \/ Apply \/ CheckCompleted \/ Unregister
          \/ ReadEnded \/ ForgetCall
-----------------------------------------------------------------------------
Next == /\ ~crashed /\ UNCHANGED kind
        /\ \/ \E a \in Actions : App(a) \/ User(a)
           \/ Server \/ Reader

\* The client's threads run and its RPCs end; nothing is assumed of the server.
Fairness == /\ WF_vars(~crashed /\ UNCHANGED kind /\ Reader)
            /\ \A a \in Actions :
                 WF_vars(~crashed /\ UNCHANGED kind /\ App(a) /\ pc[a] # "new")

SafeSpec == Init /\ [][Next]_vars
Spec == SafeSpec /\ Fairness
-----------------------------------------------------------------------------
(* Properties. *)

TypeOK ==
    /\ pc \in [Actions -> {"new", "executing", "resolving", "returned", "held"}]
    /\ reply \in [Actions -> {"none", "ok", "gone", "refused", "failed"}]
    /\ kind \in [Filtered -> {"detect", "collect"}]
    /\ registered \subseteq Actions /\ filtered \subseteq Filtered
    /\ watched \subseteq Actions /\ dropped \subseteq Actions
    /\ state \in [Actions -> {"", "playing", "finished", "error"}]
    /\ done \in [Actions -> BOOLEAN] /\ fired \in [Actions -> 0..2]
    /\ cause \in [Actions -> {"none", "state", "payload", "ended", "rpc"}]
    /\ callState \in {"answered", "ended"} /\ callKnown \in BOOLEAN
    /\ reader.at \in {"idle", "applying", "checking", "unregistering", "ending"}
    /\ server \in [Actions -> {"none", "asked", "running", "over"}]
    /\ next \in [Actions -> 1..4] /\ hungUp \in BOOLEAN /\ Len(inbox) <= MaxInbox
    /\ crashed \in BOOLEAN

\* The callback of an action runs when the action is completed, and once: whether
\* the callback or the completion comes first. (Not so for an action whose RPC ended
\* without a reply, nor for a collect: either can be completed twice.)
CallbackRunsOnce ==
    \A a \in Plain \cup Detectors : reply[a] # "failed" =>
        /\ fired[a] <= 1
        /\ a \in watched /\ done[a] => fired[a] = 1

\* What the application has seen of a completed action does not change any more,
\* with the same exceptions.
OutcomeIsFinal ==
    [][\A a \in Plain \cup Detectors :
         done[a] /\ pc[a] = "held" /\ reply[a] # "failed" => state'[a] = state[a]]_vars

\* A completed action is registered only while a thread is about to unregister it.
\* (A collect that a state has completed stays registered until its result comes.)
CompletedIsForgotten ==
    \A a \in registered : done[a] =>
        \/ reader.at \in {"checking", "unregistering"} /\ reader.act = a
        \/ a \in Collectors /\ cause[a] = "state"

\* Actions and the tables they are in agree, whichever thread completes them.
CompletionIsClean == TypeOK /\ CallbackRunsOnce /\ CompletedIsForgotten

\* No action outlives its call: when the call has ended every action started on it
\* completes, on either side of the race between execute_action and the event.
EndCompletesActions ==
    \A a \in Actions : callState = "ended" /\ pc[a] # "new" ~> done[a] \/ crashed

\* The last event the server sends for an action completes it, even if it arrives
\* before execute_action has returned. Only for actions without a filter: the last
\* event of the others is lost when it arrives before the filter is set.
LastEventCompletes ==
    \A a \in Plain : next[a] > Len(Script(a)) ~> done[a] \/ crashed

\* "Fire and forget": the Action object may be dropped when it is no longer needed.
NeverUsesDropped == ~crashed
=============================================================================
