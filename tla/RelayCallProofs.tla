-------------------------- MODULE RelayCallProofs --------------------------
(***************************************************************************)
(* Theorems about RelayCall, for any actions and any bound on the queue: a   *)
(* completed action is forgotten, its callback runs once, and its outcome    *)
(* stays. What makes this hard is that two threads complete an action, the   *)
(* one that starts it and the read thread, under no common mutex.            *)
(***************************************************************************)
EXTENDS RelayCall, SequenceTheorems, TLAPS

ScriptStates == {"", "playing", "finished"}
ScriptEvent == [type : {"own", "play"}, state : ScriptStates, payload : BOOLEAN]

Frame == [type : {"reply"}, to : Actions, code : {"ok", "refused", "gone"}]
           \cup [type : {"event"}, to : Actions, ev : ScriptEvent]
           \cup [type : {"ended"}]

Handler == {Idle, [at |-> "ending"]}
             \cup [at : {"applying", "checking", "unregistering"}, act : Actions,
                   ev : ScriptEvent]

Types == TypeOK /\ inbox \in Seq(Frame) /\ reader \in Handler

InFlight == {inbox[i] : i \in 1..Len(inbox)}

\* An action is registered once, before its RPC, and by its thread: a new one is
\* nowhere, one that is refused is gone for good, and only the application that holds
\* the Action object sets its callback.
StartedFirst ==
    /\ \A a \in Actions : pc[a] = "new" =>
         a \notin registered /\ ~done[a] /\ server[a] = "none"
    /\ \A a \in Actions : pc[a] = "resolving" => a \notin registered /\ reply[a] # "none"
    /\ \A a \in watched : pc[a] = "held"

\* The server sends events only for an action that runs, and refuses one that will
\* never run.
Refuses(f) == f.type = "reply" /\ f.code # "ok"
ServerPhases ==
    /\ \A f \in InFlight : /\ f.type = "event" => server[f.to] = "running"
                           /\ Refuses(f) => server[f.to] = "over"
    /\ \A a \in Actions : reply[a] \in {"gone", "refused"} => server[a] = "over"
    /\ \A a \in Actions : pc[a] = "resolving" => reply[a] # "ok"
    /\ reader.at \in {"applying", "checking", "unregistering"} =>
         server[reader.act] = "running"

\* The actions of which the callback runs once, and the outcome stays.
Settled(a) == a \in Plain \cup Detectors /\ reply[a] # "failed"

\* An event is about to act on an action that nobody has completed.
ApplyingIsOpen ==
    reader.at = "applying" /\ Settled(reader.act) => ~done[reader.act]

\* The callback has run exactly if it is set and the action is completed.
RunsWhenCompleted ==
    \A a \in Actions : Settled(a) =>
        fired[a] = IF a \in watched /\ done[a] THEN 1 ELSE 0

IInv == /\ Types
        /\ StartedFirst /\ ServerPhases /\ ApplyingIsOpen
        /\ RunsWhenCompleted /\ CompletedIsForgotten
-----------------------------------------------------------------------------
(* Scripts, frames and queues. *)

LEMMA ScriptFacts ==
  ASSUME kind \in [Filtered -> {"detect", "collect"}], NEW a \in Actions
  PROVE  /\ Len(Script(a)) \in {2, 3}
         /\ \A i \in 1..Len(Script(a)) : Script(a)[i] \in ScriptEvent
  <1>1. /\ Event("own", "playing", FALSE) \in ScriptEvent
        /\ Event("own", "finished", FALSE) \in ScriptEvent
        /\ Event("play", "finished", FALSE) \in ScriptEvent
        /\ Event("own", "", TRUE) \in ScriptEvent
    BY DEF ScriptEvent, ScriptStates, Event
  <1>2. ASSUME NEW e1 \in ScriptEvent, NEW e2 \in ScriptEvent, Script(a) = <<e1, e2>>
        PROVE  Len(Script(a)) = 2 /\ \A i \in 1..2 : Script(a)[i] \in ScriptEvent
    <2>1. \A i \in 1..2 : i = 1 \/ i = 2
      OBVIOUS
    <2>2. Script(a)[1] = e1 /\ Script(a)[2] = e2 /\ Len(Script(a)) = 2
      BY <1>2
    <2>3. QED
      BY <2>1, <2>2
  <1>3. CASE a \in Plain
    <2>1. Script(a) = <<Event("own", "playing", FALSE), Event("own", "finished", FALSE)>>
      BY <1>3, ConstantsAssumption DEF Script, Detectors, Collectors
    <2>2. Len(Script(a)) = 2 /\ \A i \in 1..2 : Script(a)[i] \in ScriptEvent
      BY <1>1, <1>2, <2>1
    <2>3. QED
      BY <2>2
  <1>4. CASE a \in Detectors
    <2>1. Script(a) = <<Event("own", "finished", FALSE), Event("own", "", TRUE)>>
      <3>1. a \notin Plain /\ a \notin Collectors
        BY <1>4, ConstantsAssumption DEF Detectors, Collectors
      <3>2. QED
        BY <1>4, <3>1 DEF Script
    <2>2. Len(Script(a)) = 2 /\ \A i \in 1..2 : Script(a)[i] \in ScriptEvent
      BY <1>1, <1>2, <2>1
    <2>3. QED
      BY <2>2
  <1>5. CASE a \in Collectors
    <2>1. Script(a) = <<Event("play", "finished", FALSE), Event("own", "finished", FALSE),
                        Event("own", "", TRUE)>>
      BY <1>5, ConstantsAssumption DEF Script, Detectors, Collectors
    <2>2. PICK e1 \in ScriptEvent, e2 \in ScriptEvent, e3 \in ScriptEvent :
            Script(a) = <<e1, e2, e3>>
      BY <1>1, <2>1
    <2>3. Len(<<e1, e2, e3>>) = 3 /\ \A i \in 1..3 : <<e1, e2, e3>>[i] \in ScriptEvent
      OBVIOUS
    <2>4. QED
      BY <2>2, <2>3
  <1>6. QED
    BY <1>3, <1>4, <1>5 DEF Actions, Detectors, Collectors

LEMMA FrameParts ==
  /\ \A f \in Frame :
       /\ f.type \in {"reply", "event", "ended"}
       /\ f.type = "reply" => f.to \in Actions /\ f.code \in {"ok", "refused", "gone"}
       /\ f.type = "event" =>
            /\ f.to \in Actions /\ f.ev \in ScriptEvent
            /\ f.ev.state \in ScriptStates /\ f.ev.payload \in BOOLEAN
  /\ \A a \in Actions :
       /\ \A c \in {"ok", "refused", "gone"} : [type |-> "reply", to |-> a, code |-> c] \in Frame
       /\ \A e \in ScriptEvent : [type |-> "event", to |-> a, ev |-> e] \in Frame
  /\ [type |-> "ended"] \in Frame
  BY DEF Frame, ScriptEvent

LEMMA HandlerParts ==
  /\ \A h \in Handler :
       /\ h.at \in {"idle", "applying", "checking", "unregistering", "ending"}
       /\ h.at \in {"applying", "checking", "unregistering"} =>
            h.act \in Actions /\ h.ev \in ScriptEvent
       /\ h.at = "idle" => h = Idle
  /\ \A a \in Actions, e \in ScriptEvent :
       [at |-> "applying", act |-> a, ev |-> e] \in Handler
  /\ Idle \in Handler /\ [at |-> "ending"] \in Handler /\ Idle.at = "idle"
  BY DEF Handler, Idle

\* In the middle of an event the read thread stays with its action.
LEMMA ReaderMoves ==
  ASSUME Types, Apply \/ CheckCompleted
  PROVE  /\ reader.act \in Actions /\ reader.ev \in ScriptEvent
         /\ reader' \in Handler
         /\ reader'.at \in {"idle", "checking", "unregistering"}
         /\ reader'.at # "idle" => reader'.act = reader.act
  <1>1. reader \in Handler /\ reader.at \in {"applying", "checking"}
    BY DEF Types, Apply, CheckCompleted
  <1>2. /\ reader = [at |-> reader.at, act |-> reader.act, ev |-> reader.ev]
        /\ reader.act \in Actions /\ reader.ev \in ScriptEvent
    BY <1>1 DEF Handler, Idle
  <1>3. \/ reader' = Idle
        \/ reader' = [at |-> "checking", act |-> reader.act, ev |-> reader.ev]
        \/ reader' = [at |-> "unregistering", act |-> reader.act, ev |-> reader.ev]
    <2>1. \/ reader' = Idle
          \/ reader' = [reader EXCEPT !.at = "checking"]
          \/ reader' = [reader EXCEPT !.at = "unregistering"]
      BY DEF Apply, CheckCompleted
    <2>2. QED
      BY <1>2, <2>1
  <1>4. QED
    BY <1>2, <1>3 DEF Handler, Idle

\* A frame of the server comes last.
LEMMA SentFrame ==
  ASSUME Types, NEW f \in Frame, Sends(f)
  PROVE  /\ inbox' \in Seq(Frame) /\ Len(inbox') <= MaxInbox
         /\ InFlight' = InFlight \cup {f}
  <1>1. /\ inbox \in Seq(Frame) /\ Len(inbox) \in Nat /\ inbox' = Append(inbox, f)
        /\ Len(inbox) < MaxInbox /\ MaxInbox \in Nat
    BY LenProperties, ConstantsAssumption DEF Types, Sends
  <1>2. /\ Append(inbox, f) \in Seq(Frame) /\ Len(Append(inbox, f)) = Len(inbox) + 1
        /\ \A i \in 1..Len(inbox) : Append(inbox, f)[i] = inbox[i]
        /\ Append(inbox, f)[Len(inbox) + 1] = f
    BY <1>1, AppendProperties
  <1>3. QED
    BY <1>1, <1>2 DEF InFlight

\* The read thread takes the first one.
LEMMA TakenFrame ==
  ASSUME Types, NEW t, Takes(t)
  PROVE  /\ Head(inbox) \in InFlight /\ Head(inbox) \in Frame /\ Head(inbox).type = t
         /\ inbox' \in Seq(Frame) /\ Len(inbox') <= MaxInbox
         /\ InFlight' \subseteq InFlight
         /\ reader = Idle
  <1>1. /\ inbox \in Seq(Frame) /\ inbox # <<>> /\ inbox' = Tail(inbox) /\ reader = Idle
        /\ Head(inbox).type = t /\ Len(inbox) <= MaxInbox /\ MaxInbox \in Nat
    BY ConstantsAssumption DEF Types, TypeOK, Takes
  <1>2. Len(inbox) \in Nat /\ Len(inbox) >= 1
    BY <1>1, EmptySeq, LenProperties
  <1>3. /\ Head(inbox) = inbox[1] /\ inbox[1] \in Frame
        /\ Tail(inbox) \in Seq(Frame) /\ Len(Tail(inbox)) = Len(inbox) - 1
        /\ \A i \in 1..(Len(inbox) - 1) : Tail(inbox)[i] = inbox[i+1]
    BY <1>1, <1>2, HeadTailProperties, ElementOfSeq
  <1>4. QED
    BY <1>1, <1>2, <1>3 DEF InFlight
-----------------------------------------------------------------------------
(* Types. *)

LEMMA InitTypes == Init => Types
  <1> SUFFICES ASSUME Init PROVE Types
    OBVIOUS
  <1>1. inbox \in Seq(Frame) /\ Len(inbox) <= MaxInbox
    <2>1. inbox = <<>>
      BY DEF Init
    <2>2. <<>> \in Seq(Frame) /\ Len(<<>>) = 0 /\ 0 <= MaxInbox
      BY EmptySeq, ConstantsAssumption
    <2>3. QED
      BY ONLY <2>1, <2>2
  <1>2. reader = Idle /\ Idle \in Handler /\ reader.at = "idle"
    BY HandlerParts DEF Init
  <1>3. /\ done \in [Actions -> BOOLEAN] /\ callKnown \in BOOLEAN /\ hungUp \in BOOLEAN
        /\ crashed \in BOOLEAN
    BY DEF Init
  <1>4. 0 \in 0..2 /\ 1 \in 1..4
    OBVIOUS
  <1>5. fired \in [Actions -> 0..2] /\ next \in [Actions -> 1..4]
    BY <1>4 DEF Init
  <1>6. QED
    BY <1>1, <1>2, <1>3, <1>5 DEF Init, Types, TypeOK

\* Who completes an action: the thread that starts it, an event, and the end of the call.
LEMMA WhoCompletes ==
  ASSUME [Next]_vars
  PROVE  /\ kind' = kind
         /\ \/ UNCHANGED <<state, done, cause>>
            \/ \E a \in Actions : ResolveRefused(a)
            \/ Apply
            \/ ReadEnded
  BY DEF Next, App, Start, ExecuteFails, ExecuteReturns, SetFilter, User, SetCallback, Drop,
         Server, ServerReplies, ServerSendsEvent, ServerEndsCall, Reader, ReadReply,
         ReadEvent, CheckCompleted, Unregister, ForgetCall, actionVars, vars

LEMMA StepFlags ==
  ASSUME Types, [Next]_vars
  PROVE  /\ done' \in [Actions -> BOOLEAN] /\ crashed' \in BOOLEAN
         /\ callKnown' \in BOOLEAN /\ hungUp' \in BOOLEAN
  <1>1. /\ done \in [Actions -> BOOLEAN] /\ crashed \in BOOLEAN
        /\ callKnown \in BOOLEAN /\ hungUp \in BOOLEAN
    BY DEF Types, TypeOK
  <1>2. ASSUME NEW a \in Actions, NEW s, NEW why, Complete(a, s, why)
        PROVE  done' \in [Actions -> BOOLEAN]
    <2>1. (done[a] \/ s \in TerminalStates) \in BOOLEAN
      OBVIOUS
    <2>2. done' = [done EXCEPT ![a] = done[a] \/ s \in TerminalStates]
      BY <1>2 DEF Complete
    <2>3. QED
      BY <1>1, <2>1, <2>2
  <1>3. ASSUME Apply PROVE done' \in [Actions -> BOOLEAN]
    <2>1. reader.act \in Actions
      BY <1>3, HandlerParts DEF Types, Apply
    <2>2. CASE UNCHANGED done
      BY <1>1, <2>2
    <2>3. CASE Complete(reader.act, reader.ev.state, "state")
      BY <1>2, <2>1, <2>3
    <2>4. CASE Complete(reader.act, "finished", "payload")
      BY <1>2, <2>1, <2>4
    <2>5. QED
      BY <1>3, <2>2, <2>3, <2>4 DEF Apply, actionVars
  <1>4. ASSUME ReadEnded PROVE done' \in [Actions -> BOOLEAN]
    <2>1. done' = [a \in Actions |-> done[a] \/ a \in Open]
      BY <1>4 DEF ReadEnded
    <2>2. ASSUME NEW a \in Actions PROVE (done[a] \/ a \in Open) \in BOOLEAN
      OBVIOUS
    <2>3. QED
      BY <2>1, <2>2
  <1>5. done' \in [Actions -> BOOLEAN]
    BY <1>1, <1>2, <1>3, <1>4, WhoCompletes DEF ResolveRefused
  <1>6. crashed' \in BOOLEAN
    <2>1. \/ crashed' = crashed \/ ReadEvent \/ Apply \/ CheckCompleted \/ ReadEnded
      BY DEF Next, App, Start, ExecuteFails, ExecuteReturns, ResolveRefused, SetFilter, User,
             SetCallback, Drop, Server, ServerReplies, ServerSendsEvent, ServerEndsCall,
             Reader, ReadReply, Unregister, ForgetCall, vars
    <2>2. ReadEvent => crashed' \in BOOLEAN
      BY Zenon DEF ReadEvent
    <2>3. CheckCompleted => crashed' \in BOOLEAN
      BY DEF CheckCompleted
    <2>4. Apply => crashed' \in BOOLEAN
      BY DEF Apply
    <2>5. ReadEnded => crashed' \in BOOLEAN
      BY Zenon DEF ReadEnded
    <2>6. QED
      BY <1>1, <2>1, <2>2, <2>3, <2>4, <2>5
  <1>7. callKnown' = callKnown \/ callKnown' = FALSE
    BY DEF Next, App, Start, ExecuteFails, ExecuteReturns, ResolveRefused, SetFilter, User,
           SetCallback, Drop, Server, ServerReplies, ServerSendsEvent, ServerEndsCall,
           Reader, ReadReply, ReadEvent, Apply, CheckCompleted, Unregister, ReadEnded,
           ForgetCall, callVars, vars
  <1>8. hungUp' = hungUp \/ hungUp' = TRUE
    BY DEF Next, App, Start, ExecuteFails, ExecuteReturns, ResolveRefused, SetFilter, User,
           SetCallback, Drop, Server, ServerReplies, ServerSendsEvent, ServerEndsCall,
           Reader, ReadReply, ReadEvent, Apply, CheckCompleted, Unregister, ReadEnded,
           ForgetCall, serverVars, vars
  <1>9. QED
    BY <1>1, <1>5, <1>6, <1>7, <1>8, Zenon

LEMMA StepQueue ==
  ASSUME Types, [Next]_vars
  PROVE  inbox' \in Seq(Frame) /\ Len(inbox') <= MaxInbox
  <1>1. CASE \E a \in Actions : ServerReplies(a)
    <2>1. PICK a \in Actions, c \in {"ok", "refused", "gone"} :
            Sends([type |-> "reply", to |-> a, code |-> c])
      BY <1>1 DEF ServerReplies
    <2>2. QED
      BY <2>1, FrameParts, SentFrame
  <1>2. CASE \E a \in Actions : ServerSendsEvent(a)
    <2>1. PICK a \in Actions : ServerSendsEvent(a)
      BY <1>2
    <2>2. next[a] \in 1..4 /\ Len(Script(a)) \in {2, 3}
      BY ScriptFacts DEF Types, TypeOK
    <2>3. PICK i \in 1..Len(Script(a)) :
            Sends([type |-> "event", to |-> a, ev |-> Script(a)[i]])
      BY <2>1, <2>2 DEF ServerSendsEvent
    <2>4. Script(a)[i] \in ScriptEvent
      BY ScriptFacts DEF Types, TypeOK
    <2>5. QED
      BY <2>3, <2>4, FrameParts, SentFrame
  <1>3. CASE ServerEndsCall
    BY <1>3, FrameParts, SentFrame DEF ServerEndsCall
  <1>4. CASE \E t : Takes(t)
    BY <1>4, TakenFrame
  <1>5. CASE inbox' = inbox
    BY <1>5 DEF Types, TypeOK
  <1>6. QED
    <2>1. ReadReply \/ ReadEvent \/ ReadEnded => \E t : Takes(t)
      BY DEF ReadReply, ReadEvent, ReadEnded
    <2>2. QED
      BY <1>1, <1>2, <1>3, <1>4, <1>5, <2>1
      DEF Next, App, Start, ExecuteFails, ExecuteReturns, ResolveRefused, SetFilter, User,
          SetCallback, Drop, Server, Reader, Apply, CheckCompleted, Unregister, ForgetCall,
          vars

LEMMA StepReader ==
  ASSUME Types, [Next]_vars
  PROVE  reader' \in Handler
  <1>1. reader \in Handler
    BY DEF Types
  <1>2. CASE ReadEvent
    <2>1. Head(inbox).to \in Actions /\ Head(inbox).ev \in ScriptEvent
      BY <1>2, TakenFrame, FrameParts DEF ReadEvent
    <2>2. QED
      BY <1>2, <2>1, HandlerParts DEF ReadEvent
  <1>3. CASE Apply \/ CheckCompleted
    BY <1>3, ReaderMoves
  <1>4. CASE reader' \in {reader, Idle, [at |-> "ending"]}
    BY <1>1, <1>4, HandlerParts
  <1>5. QED
    BY <1>2, <1>3, <1>4
    DEF Next, App, Start, ExecuteFails, ExecuteReturns, ResolveRefused, SetFilter, User,
        SetCallback, Drop, Server, ServerReplies, ServerSendsEvent, ServerEndsCall, Reader,
        ReadReply, Unregister, ReadEnded, ForgetCall, vars

\* The states and the causes of the actions.
LEMMA StepOutcomes ==
  ASSUME Types, [Next]_vars
  PROVE  /\ state' \in [Actions -> {"", "playing", "finished", "error"}]
         /\ cause' \in [Actions -> {"none", "state", "payload", "ended", "rpc"}]
  <1>0. /\ state \in [Actions -> {"", "playing", "finished", "error"}]
        /\ cause \in [Actions -> {"none", "state", "payload", "ended", "rpc"}]
    BY DEF Types, TypeOK
  <1>1. ASSUME NEW a \in Actions, ResolveRefused(a)
        PROVE  /\ state' \in [Actions -> {"", "playing", "finished", "error"}]
               /\ cause' \in [Actions -> {"none", "state", "payload", "ended", "rpc"}]
    BY <1>0, <1>1 DEF ResolveRefused, Complete, RefusedState
  <1>2. CASE Apply
    <2>1. reader.act \in Actions /\ reader.ev.state \in ScriptStates
      BY <1>2, HandlerParts DEF Types, Apply, ScriptEvent
    <2>2. QED
      BY <1>0, <1>2, <2>1 DEF Apply, Complete, ScriptStates, actionVars
  <1>3. CASE ReadEnded
    BY <1>0, <1>3 DEF ReadEnded
  <1>4. QED
    BY <1>0, <1>1, <1>2, <1>3, WhoCompletes

LEMMA StepFired ==
  ASSUME Types, [Next]_vars
  PROVE  fired' \in [Actions -> 0..2]
  <1>1. fired \in [Actions -> 0..2]
    BY DEF Types, TypeOK
  <1>2. CASE \E S : Fires(S)
    <2>1. PICK S : Fires(S)
      BY <1>2
    <2>2. \A a \in Actions : fired[a] \in 0..2 /\ (fired[a] < 2 => fired[a] + 1 \in 0..2)
      BY <1>1
    <2>3. QED
      BY <2>1, <2>2 DEF Fires
  <1>3. CASE \E a \in Actions : SetCallback(a)
    BY <1>1, <1>3 DEF SetCallback, OnSet
  <1>4. Apply \/ ReadEnded => fired' = fired \/ \E S : Fires(S)
    BY DEF Apply, ReadEnded, actionVars
  <1>5. QED
    BY <1>1, <1>2, <1>3, <1>4
    DEF Next, App, Start, ExecuteFails, ExecuteReturns, ResolveRefused, SetFilter, User,
        Drop, Server, ServerReplies, ServerSendsEvent, ServerEndsCall, Reader, ReadReply,
        ReadEvent, CheckCompleted, Unregister, ForgetCall, actionVars, vars

LEMMA StepServer ==
  ASSUME Types, [Next]_vars
  PROVE  /\ server' \in [Actions -> {"none", "asked", "running", "over"}]
         /\ next' \in [Actions -> 1..4]
  <1>1. /\ server \in [Actions -> {"none", "asked", "running", "over"}]
        /\ next \in [Actions -> 1..4]
    BY DEF Types, TypeOK
  <1>2. ASSUME NEW a \in Actions, Start(a) \/ ServerReplies(a)
        PROVE  /\ server' \in [Actions -> {"none", "asked", "running", "over"}]
               /\ next' = next
    BY <1>1, <1>2 DEF Start, ServerReplies
  <1>3. ASSUME NEW a \in Actions, ServerSendsEvent(a)
        PROVE  server' = server /\ next' \in [Actions -> 1..4]
    <2>1. next[a] \in 1..4 /\ Len(Script(a)) \in {2, 3}
      BY <1>1, ScriptFacts DEF Types, TypeOK
    <2>2. QED
      BY <1>1, <1>3, <2>1 DEF ServerSendsEvent
  <1>4. QED
    BY <1>1, <1>2, <1>3
    DEF Next, App, ExecuteFails, ExecuteReturns, ResolveRefused, SetFilter, User,
        SetCallback, Drop, Server, ServerEndsCall, Reader, ReadReply, ReadEvent, Apply,
        CheckCompleted, Unregister, ReadEnded, ForgetCall, serverVars, vars

LEMMA StepThreads ==
  ASSUME Types, [Next]_vars
  PROVE  /\ pc' \in [Actions -> {"new", "executing", "resolving", "returned", "held"}]
         /\ reply' \in [Actions -> {"none", "ok", "gone", "refused", "failed"}]
         /\ registered' \subseteq Actions /\ filtered' \subseteq Filtered
         /\ watched' \subseteq Actions /\ dropped' \subseteq Actions
         /\ callState' \in {"answered", "ended"}
  <1>1. TypeOK
    BY DEF Types
  <1>2. CASE \E a \in Actions : App(a) \/ User(a)
    <2> PICK a \in Actions : App(a) \/ User(a)
      BY <1>2
    <2>1. /\ pc' = pc \/ \E s \in {"executing", "resolving", "returned", "held"} :
                          pc' = [pc EXCEPT ![a] = s]
          /\ reply' = reply \/ reply' = [reply EXCEPT ![a] = "failed"]
          /\ registered' \in {registered, registered \cup {a}, registered \ {a}}
          /\ filtered' = filtered \/ filtered' = filtered \cup ({a} \cap Filtered)
          /\ watched' \in {watched, watched \cup {a}}
          /\ dropped' \in {dropped, dropped \cup {a}}
          /\ callState' = callState
      BY DEF App, Start, ExecuteFails, ExecuteReturns, ResolveRefused, SetFilter, User,
             SetCallback, Drop, Forget, appVars, callVars
    <2>2. /\ pc' \in [Actions -> {"new", "executing", "resolving", "returned", "held"}]
          /\ reply' \in [Actions -> {"none", "ok", "gone", "refused", "failed"}]
      <3>1. /\ pc \in [Actions -> {"new", "executing", "resolving", "returned", "held"}]
            /\ reply \in [Actions -> {"none", "ok", "gone", "refused", "failed"}]
        BY <1>1 DEF TypeOK
      <3>2. pc' \in [Actions -> {"new", "executing", "resolving", "returned", "held"}]
        BY <2>1, <3>1
      <3>3. reply' \in [Actions -> {"none", "ok", "gone", "refused", "failed"}]
        BY <2>1, <3>1
      <3>4. QED
        BY <3>2, <3>3
    <2>3. /\ registered' \subseteq Actions /\ filtered' \subseteq Filtered
          /\ watched' \subseteq Actions /\ dropped' \subseteq Actions
      BY <1>1, <2>1 DEF TypeOK
    <2>4. QED
      BY <1>1, <2>1, <2>2, <2>3 DEF TypeOK
  <1>3. CASE ReadReply
    <2>1. Head(inbox).to \in Actions /\ Head(inbox).code \in {"ok", "refused", "gone"}
      BY <1>3, TakenFrame, FrameParts DEF ReadReply
    <2>2. QED
      BY <1>1, <1>3, <2>1 DEF TypeOK, ReadReply, callVars
  <1>4. CASE Reader /\ ~ReadReply
    BY <1>1, <1>4
    DEF TypeOK, Reader, ReadEvent, Apply, CheckCompleted, Unregister, Forget, ReadEnded,
        ForgetCall, appVars, callVars
  <1>5. CASE Server \/ UNCHANGED vars
    BY <1>1, <1>5
    DEF TypeOK, Server, ServerReplies, ServerSendsEvent, ServerEndsCall, appVars, callVars,
        vars
  <1>6. QED
    BY <1>2, <1>3, <1>4, <1>5 DEF Next

LEMMA StepTypes == Types /\ [Next]_vars => Types'
  <1> SUFFICES ASSUME Types, [Next]_vars PROVE Types'
    OBVIOUS
  <1>1. kind' = kind /\ kind \in [Filtered -> {"detect", "collect"}]
    BY WhoCompletes DEF Types, TypeOK
  <1>2. reader' \in Handler /\ reader'.at \in {"idle", "applying", "checking", "unregistering", "ending"}
    BY StepReader, HandlerParts
  <1>3. QED
    BY <1>1, <1>2, StepFlags, StepQueue, StepOutcomes, StepFired, StepServer, StepThreads
    DEF Types, TypeOK
-----------------------------------------------------------------------------
(***************************************************************************)
(* Completing one action, and the types of the tables this depends on.      *)
(***************************************************************************)
TableTypes ==
    /\ pc \in [Actions -> {"new", "executing", "resolving", "returned", "held"}]
    /\ reply \in [Actions -> {"none", "ok", "gone", "refused", "failed"}]
    /\ state \in [Actions -> {"", "playing", "finished", "error"}]
    /\ done \in [Actions -> BOOLEAN] /\ fired \in [Actions -> 0..2]
    /\ cause \in [Actions -> {"none", "state", "payload", "ended", "rpc"}]
    /\ server \in [Actions -> {"none", "asked", "running", "over"}]
    /\ registered \subseteq Actions /\ watched \subseteq Actions

LEMMA TablesAreTyped == TypeOK => TableTypes
  BY DEF TypeOK, TableTypes

\* What Complete does to the action it is about, and to the others.
LEMMA CompleteEffect ==
  ASSUME TableTypes, NEW a \in Actions, NEW b \in Actions, NEW s, NEW why,
         Complete(b, s, why)
  PROVE  /\ a # b => state'[a] = state[a] /\ done'[a] = done[a] /\ cause'[a] = cause[a]
         /\ done[a] => done'[a] /\ cause'[a] = cause[a]
  <1>1. state'[a] = IF a = b THEN s ELSE state[a]
    BY DEF Complete, TableTypes
  <1>2. done'[a] = IF a = b THEN done[a] \/ s \in TerminalStates ELSE done[a]
    BY DEF Complete, TableTypes
  <1>3. cause'[a] = IF a = b /\ ~done[a] /\ s \in TerminalStates THEN why ELSE cause[a]
    BY DEF Complete, TableTypes
  <1>4. QED
    BY <1>1, <1>2, <1>3

LEMMA FiresEffect ==
  ASSUME TableTypes, NEW a \in Actions, NEW S, Fires(S), a \notin S
  PROVE  fired'[a] = fired[a]
  BY DEF Fires

\* The event in hand acts on one action.
LEMMA ApplyEffect ==
  ASSUME TableTypes, Apply, reader.act \in Actions, NEW a \in Actions
  PROVE  /\ a # reader.act => /\ state'[a] = state[a] /\ done'[a] = done[a]
                              /\ cause'[a] = cause[a] /\ fired'[a] = fired[a]
         /\ done[a] => done'[a] /\ cause'[a] = cause[a]
  <1>1. \/ UNCHANGED <<state, done, cause, fired>>
        \/ \E s, why, S : /\ Complete(reader.act, s, why)
                          /\ Fires(S) /\ S \subseteq {reader.act}
    BY DEF Apply, actionVars
  <1>2. CASE UNCHANGED <<state, done, cause, fired>>
    BY <1>2
  <1>3. ASSUME NEW s, NEW why, NEW S, Complete(reader.act, s, why), Fires(S),
               S \subseteq {reader.act}
        PROVE  /\ a # reader.act => /\ state'[a] = state[a] /\ done'[a] = done[a]
                                    /\ cause'[a] = cause[a] /\ fired'[a] = fired[a]
               /\ done[a] => done'[a] /\ cause'[a] = cause[a]
    <2>1. a # reader.act => fired'[a] = fired[a]
      BY <1>3, FiresEffect
    <2>2. QED
      BY <1>3, <2>1, CompleteEffect
  <1>4. QED
    BY <1>1, <1>2, <1>3
-----------------------------------------------------------------------------
(* Registration and the server. *)

LEMMA StartedFirstStep == IInv /\ [Next]_vars => StartedFirst'
  <1> SUFFICES ASSUME IInv, [Next]_vars PROVE StartedFirst'
    OBVIOUS
  <1>0. TypeOK /\ TableTypes /\ StartedFirst /\ Types
    BY TablesAreTyped DEF IInv, Types
  <1>1. ASSUME NEW a \in Actions, App(a) PROVE StartedFirst'
    <2>1. CASE ResolveRefused(a)
      BY <1>0, <2>1 DEF ResolveRefused, Complete, StartedFirst, TableTypes, callVars, serverVars
    <2>2. CASE Start(a)
      BY <1>0, <2>2 DEF Start, StartedFirst, TableTypes, actionVars
    <2>3. CASE ExecuteFails(a)
      BY <1>0, <2>3
      DEF ExecuteFails, StartedFirst, TableTypes, actionVars, callVars, serverVars
    <2>4. CASE ExecuteReturns(a)
      <3>1. /\ UNCHANGED <<reply, done, server, watched>>
            /\ pc[a] = "executing" /\ reply[a] # "none"
            /\ \/ pc' = [pc EXCEPT ![a] = "returned"] /\ registered' = registered
               \/ pc' = [pc EXCEPT ![a] = "resolving"] /\ registered' = registered \ {a}
        BY <2>4 DEF ExecuteReturns, Forget, actionVars, serverVars
      <3>2. CASE pc' = [pc EXCEPT ![a] = "returned"] /\ registered' = registered
        <4>1. \A b \in Actions : pc'[b] = IF b = a THEN "returned" ELSE pc[b]
          BY <1>0, <3>2 DEF TableTypes
        <4>2. QED
          BY <1>0, <3>1, <3>2, <4>1 DEF StartedFirst
      <3>3. CASE pc' = [pc EXCEPT ![a] = "resolving"] /\ registered' = registered \ {a}
        <4>1. \A b \in Actions : pc'[b] = IF b = a THEN "resolving" ELSE pc[b]
          BY <1>0, <3>3 DEF TableTypes
        <4>2. QED
          BY <1>0, <3>1, <3>3, <4>1 DEF StartedFirst
      <3>4. QED
        BY <3>1, <3>2, <3>3
    <2>5. CASE SetFilter(a)
      BY <1>0, <2>5 DEF SetFilter, StartedFirst, TableTypes, actionVars, callVars, serverVars
    <2>6. QED
      BY <1>1, <2>1, <2>2, <2>3, <2>4, <2>5 DEF App
  <1>2. ASSUME NEW a \in Actions, User(a) PROVE StartedFirst'
    BY <1>0, <1>2
    DEF User, SetCallback, Drop, StartedFirst, TableTypes, appVars, actionVars, callVars, serverVars
  <1>3. CASE Server \/ ReadReply \/ ReadEvent \/ CheckCompleted \/ Unregister \/ ForgetCall
    <2>1. /\ UNCHANGED <<pc, done, watched>> /\ registered' \subseteq registered
          /\ \A a \in Actions : server[a] = "none" => server'[a] = "none"
          /\ \A a \in Actions : reply[a] # "none" => reply'[a] # "none"
      <3>1. CASE Server
        <4>1. /\ UNCHANGED <<pc, done, watched, registered, reply>>
              /\ \/ server' = server
                 \/ \E b \in Actions : \E p :
                       server[b] = "asked" /\ server' = [server EXCEPT ![b] = p]
          BY <3>1 DEF Server, ServerReplies, ServerSendsEvent, ServerEndsCall, appVars,
                      actionVars, callVars
        <4>2. QED
          BY <1>0, <4>1 DEF TableTypes
      <3>2. CASE ReadReply
        <4>1. Head(inbox).to \in Actions
          BY <1>0, <3>2, TakenFrame, FrameParts DEF ReadReply
        <4>2. QED
          BY <1>0, <3>2, <4>1 DEF ReadReply, TableTypes, actionVars, callVars, serverVars
      <3>3. CASE ReadEvent \/ CheckCompleted \/ Unregister \/ ForgetCall
        BY <3>3
        DEF ReadEvent, CheckCompleted, Unregister, Forget, ForgetCall, appVars, actionVars,
            callVars, serverVars
      <3>4. QED
        BY <1>3, <3>1, <3>2, <3>3
    <2>2. QED
      BY <1>0, <2>1 DEF StartedFirst
  <1>4. CASE Apply
    <2>1. /\ reader.act \in Actions /\ server[reader.act] = "running"
          /\ UNCHANGED <<appVars, callVars, serverVars, watched>>
      BY <1>0, <1>4, HandlerParts DEF Apply, Types, IInv, ServerPhases
    <2>2. \A a \in Actions : a # reader.act => done'[a] = done[a]
      BY <1>0, <2>1, <1>4, ApplyEffect
    <2>3. QED
      BY <1>0, <2>1, <2>2 DEF StartedFirst, appVars, callVars, serverVars
  <1>5. CASE ReadEnded
    <2>1. /\ UNCHANGED <<appVars, serverVars, watched>> /\ registered' = {}
          /\ \A a \in Actions : a \notin registered => done'[a] = done[a]
      BY <1>0, <1>5 DEF ReadEnded, Open, TypeOK
    <2>2. QED
      BY <1>0, <2>1 DEF StartedFirst, appVars, serverVars
  <1>6. CASE UNCHANGED vars
    BY <1>0, <1>6
    DEF StartedFirst, vars, appVars, actionVars, callVars, serverVars
  <1>7. QED
    BY <1>1, <1>2, <1>3, <1>4, <1>5, <1>6 DEF Next, Reader

LEMMA ServerPhasesStep == IInv /\ [Next]_vars => ServerPhases'
  <1> SUFFICES ASSUME IInv, [Next]_vars PROVE ServerPhases'
    OBVIOUS
  <1>0. TypeOK /\ TableTypes /\ StartedFirst /\ Types /\ ServerPhases
    BY TablesAreTyped DEF IInv, Types
  <1>1. /\ \A a \in Actions : server[a] \in {"running", "over"} => server'[a] = server[a]
        /\ \A f \in InFlight' : f.type # "ended" => f.to \in Actions
        /\ reader' \in Handler /\ inbox' \in Seq(Frame)
    <2>1. ASSUME NEW a \in Actions, server[a] \in {"running", "over"}
          PROVE  server'[a] = server[a]
      <3>1. \/ server' = server
            \/ \E b \in Actions : Start(b)
            \/ \E b \in Actions : ServerReplies(b)
        BY DEF Next, App, ExecuteFails, ExecuteReturns, ResolveRefused, SetFilter, User,
               SetCallback, Drop, Server, ServerSendsEvent, ServerEndsCall, Reader,
               ReadReply, ReadEvent, Apply, CheckCompleted, Unregister, ReadEnded,
               ForgetCall, serverVars, vars
      <3>2. ASSUME NEW b \in Actions, Start(b) \/ ServerReplies(b)
            PROVE  server[b] \in {"none", "asked"} /\ \E p : server' = [server EXCEPT ![b] = p]
        BY <1>0, <3>2 DEF Start, ServerReplies, StartedFirst
      <3>3. QED
        BY <1>0, <2>1, <3>1, <3>2 DEF TableTypes
    <2>2. inbox' \in Seq(Frame) /\ reader' \in Handler
      BY <1>0, StepQueue, StepReader
    <2>3. \A f \in InFlight' : f \in Frame
      BY <2>2, ElementOfSeq, LenProperties DEF InFlight
    <2>4. QED
      BY <2>1, <2>2, <2>3, FrameParts
  <1>2. \A f \in InFlight' : /\ f.type = "event" => server'[f.to] = "running"
                             /\ Refuses(f) => server'[f.to] = "over"
    <2>1. \A f \in InFlight' \cap InFlight :
            /\ f.type = "event" => server'[f.to] = "running"
            /\ Refuses(f) => server'[f.to] = "over"
      BY <1>0, <1>1 DEF ServerPhases, Refuses
    <2>2. ASSUME NEW a \in Actions, ServerReplies(a)
          PROVE  \A f \in InFlight' \ InFlight :
                   f.type = "reply" /\ (Refuses(f) => server'[f.to] = "over")
      <3>1. PICK c \in {"ok", "refused", "gone"} :
              /\ Sends([type |-> "reply", to |-> a, code |-> c])
              /\ c # "ok" => server' = [server EXCEPT ![a] = "over"]
        BY <2>2 DEF ServerReplies
      <3>2. InFlight' = InFlight \cup {[type |-> "reply", to |-> a, code |-> c]}
        BY <1>0, <3>1, SentFrame, FrameParts
      <3>3. c # "ok" => server'[a] = "over"
        BY <1>0, <3>1 DEF TableTypes
      <3>4. QED
        BY <3>2, <3>3 DEF Refuses
    <2>3. ASSUME NEW a \in Actions, ServerSendsEvent(a)
          PROVE  \A f \in InFlight' \ InFlight :
                   f.type = "event" /\ server'[f.to] = "running"
      <3>1. next[a] \in 1..4 /\ Len(Script(a)) \in {2, 3}
        BY <1>0, ScriptFacts DEF TypeOK
      <3>2. PICK i \in 1..Len(Script(a)) :
              Sends([type |-> "event", to |-> a, ev |-> Script(a)[i]])
        BY <2>3, <3>1 DEF ServerSendsEvent
      <3>3. InFlight' = InFlight \cup {[type |-> "event", to |-> a, ev |-> Script(a)[i]]}
        BY <1>0, <3>2, SentFrame, FrameParts, ScriptFacts DEF TypeOK
      <3>4. QED
        BY <2>3, <3>3 DEF ServerSendsEvent
    <2>4. ServerEndsCall => \A f \in InFlight' \ InFlight : f.type = "ended"
      BY <1>0, SentFrame, FrameParts DEF ServerEndsCall
    <2>5. CASE InFlight' \subseteq InFlight
      BY <2>1, <2>5
    <2>6. CASE Server
      BY <2>1, <2>2, <2>3, <2>4, <2>6 DEF Server, Refuses
    <2>7. ~Server => InFlight' \subseteq InFlight
      BY <1>0, TakenFrame
      DEF Next, App, Start, ExecuteFails, ExecuteReturns, ResolveRefused, SetFilter, User,
          SetCallback, Drop, Reader, ReadReply, ReadEvent, Apply, CheckCompleted,
          Unregister, ReadEnded, ForgetCall, vars, InFlight
    <2>8. QED
      BY <2>5, <2>6, <2>7
  <1>3. \A a \in Actions : /\ reply'[a] \in {"gone", "refused"} => server'[a] = "over"
                           /\ pc'[a] = "resolving" => reply'[a] # "ok"
    <2>1. CASE ReadReply
      <3>1. /\ Head(inbox) \in InFlight /\ Head(inbox).type = "reply"
            /\ Head(inbox).to \in Actions /\ Head(inbox).code \in {"ok", "refused", "gone"}
        BY <1>0, <2>1, TakenFrame, FrameParts DEF ReadReply
      <3>2. Head(inbox).code # "ok" => server[Head(inbox).to] = "over"
        BY <1>0, <3>1 DEF ServerPhases, Refuses
      <3>3. /\ pc' = pc /\ server' = server
            /\ \A a \in Actions : reply'[a] # reply[a] =>
                 /\ a = Head(inbox).to /\ reply[a] = "none"
                 /\ reply'[a] = Head(inbox).code
        BY <1>0, <2>1, <3>1 DEF ReadReply, TableTypes, serverVars
      <3>4. QED
        BY <1>0, <3>2, <3>3 DEF ServerPhases, StartedFirst
    <2>2. ASSUME NEW a \in Actions, App(a)
          PROVE  \A b \in Actions : /\ reply'[b] \in {reply[b], "failed"}
                                    /\ pc'[b] = "resolving" /\ pc[b] # "resolving" =>
                                         reply[b] # "ok" /\ reply' = reply
                                    /\ reply'[b] = "failed" \/ reply'[b] = reply[b]
      BY <1>0, <2>2
      DEF App, Start, ExecuteFails, ExecuteReturns, ResolveRefused, SetFilter, TableTypes
    <2>3. CASE reply' = reply /\ pc' = pc
      BY <1>0, <1>1, <2>3 DEF ServerPhases
    <2>4. QED
      BY <1>0, <1>1, <2>1, <2>2, <2>3
      DEF ServerPhases, Next, User, SetCallback, Drop, Server, ServerReplies,
          ServerSendsEvent, ServerEndsCall, Reader, ReadEvent, Apply, CheckCompleted,
          Unregister, ReadEnded, ForgetCall, appVars, vars
  <1>4. reader'.at \in {"applying", "checking", "unregistering"} =>
          server'[reader'.act] = "running"
    <2>1. CASE ReadEvent
      <3>1. /\ Head(inbox) \in InFlight /\ Head(inbox).type = "event"
            /\ Head(inbox).to \in Actions
        BY <1>0, <2>1, TakenFrame, FrameParts DEF ReadEvent
      <3>2. server[Head(inbox).to] = "running"
        BY <1>0, <3>1 DEF ServerPhases
      <3>3. QED
        BY <1>1, <2>1, <3>1, <3>2 DEF ReadEvent, Idle
    <2>2. CASE Apply \/ CheckCompleted
      <3>1. reader.act \in Actions /\ (reader'.at # "idle" => reader'.act = reader.act)
        BY <1>0, <2>2, ReaderMoves
      <3>2. server[reader.act] = "running"
        BY <1>0, <2>2 DEF Apply, CheckCompleted, ServerPhases
      <3>3. QED
        BY <1>1, <3>1, <3>2
    <2>3. CASE reader' = reader
      <3>1. reader.at \in {"applying", "checking", "unregistering"} =>
              reader.act \in Actions /\ server[reader.act] = "running"
        BY <1>0, HandlerParts DEF ServerPhases, Types
      <3>2. QED
        BY <1>1, <2>3, <3>1
    <2>4. CASE reader' \in {Idle, [at |-> "ending"]}
      BY <2>4 DEF Idle
    <2>5. QED
      BY <2>1, <2>2, <2>3, <2>4
      DEF Next, App, Start, ExecuteFails, ExecuteReturns, ResolveRefused, SetFilter, User,
          SetCallback, Drop, Server, ServerReplies, ServerSendsEvent, ServerEndsCall,
          Reader, ReadReply, Unregister, ReadEnded, ForgetCall, vars
  <1>5. QED
    BY <1>2, <1>3, <1>4 DEF ServerPhases, Refuses
-----------------------------------------------------------------------------
(* Completion. *)

\* Who completes this action, or changes what is known of its outcome.
LEMMA OutcomeStep ==
  ASSUME Types, [Next]_vars, NEW a \in Actions
  PROVE  \/ state'[a] = state[a] /\ done'[a] = done[a] /\ cause'[a] = cause[a]
         \/ ResolveRefused(a)
         \/ Apply /\ a = reader.act
         \/ ReadEnded /\ a \in registered /\ ~done[a]
  <1>0. TypeOK /\ TableTypes /\ (Apply => reader.act \in Actions)
    BY TablesAreTyped, ReaderMoves DEF Types
  <1>1. ASSUME NEW b \in Actions, ResolveRefused(b), a # b
        PROVE  state'[a] = state[a] /\ done'[a] = done[a] /\ cause'[a] = cause[a]
    BY <1>0, <1>1 DEF ResolveRefused, Complete, TableTypes
  <1>2. ASSUME Apply, a # reader.act
        PROVE  state'[a] = state[a] /\ done'[a] = done[a] /\ cause'[a] = cause[a]
    BY <1>0, <1>2, ApplyEffect
  <1>3. ASSUME ReadEnded, a \notin Open
        PROVE  state'[a] = state[a] /\ done'[a] = done[a] /\ cause'[a] = cause[a]
    BY <1>0, <1>3 DEF ReadEnded, TableTypes
  <1>4. QED
    BY <1>1, <1>2, <1>3, WhoCompletes DEF Open

\* An RPC that has ended without a reply stays so.
LEMMA FailedStays ==
  ASSUME Types, [Next]_vars, NEW a \in Actions, reply[a] = "failed"
  PROVE  reply'[a] = "failed"
  <1>1. \/ reply' = reply
        \/ \E b \in Actions : reply' = [reply EXCEPT ![b] = "failed"]
        \/ ReadReply
    BY DEF Next, App, Start, ExecuteFails, ExecuteReturns, ResolveRefused, SetFilter, User,
           SetCallback, Drop, Server, ServerReplies, ServerSendsEvent, ServerEndsCall,
           Reader, ReadEvent, Apply, CheckCompleted, Unregister, ReadEnded, ForgetCall,
           appVars, vars
  <1>2. reply \in [Actions -> {"none", "ok", "gone", "refused", "failed"}]
    BY DEF Types, TypeOK
  <1>3. QED
    BY <1>1, <1>2 DEF ReadReply

LEMMA CompletedIsForgottenStep == IInv /\ [Next]_vars => CompletedIsForgotten'
  <1> SUFFICES ASSUME IInv, [Next]_vars, NEW a \in registered', done'[a]
               PROVE  \/ reader'.at \in {"checking", "unregistering"} /\ reader'.act = a
                      \/ a \in Collectors /\ cause'[a] = "state"
    BY WhoCompletes DEF CompletedIsForgotten, Collectors
  <1>0. /\ Types /\ TypeOK /\ TableTypes /\ StartedFirst /\ CompletedIsForgotten /\ a \in Actions
        /\ Idle.at = "idle" /\ reader.at \in {"idle", "applying", "checking", "unregistering", "ending"}
    BY StepThreads, HandlerParts, TablesAreTyped DEF IInv, Types, TypeOK
  <1>1. CASE \E b \in Actions : Start(b)
    <2>1. PICK b \in Actions : Start(b)
      BY <1>1
    <2>2. registered' = registered \cup {b} /\ ~done[b] /\ UNCHANGED <<done, cause, reader>>
      BY <1>0, <2>1 DEF Start, StartedFirst, actionVars
    <2>3. QED
      BY <1>0, <2>2 DEF CompletedIsForgotten
  <1>2. CASE \E b \in Actions : ResolveRefused(b)
    <2>1. PICK b \in Actions : ResolveRefused(b)
      BY <1>2
    <2>2. b \notin registered /\ registered' = registered /\ reader' = reader
      BY <1>0, <2>1 DEF ResolveRefused, StartedFirst, callVars
    <2>3. done[a] /\ cause'[a] = cause[a]
      BY <1>0, <2>1, <2>2 DEF ResolveRefused, Complete, TableTypes
    <2>4. QED
      BY <1>0, <2>2, <2>3 DEF CompletedIsForgotten
  <1>3. CASE Apply
    <2>1. reader.at = "applying" /\ registered' = registered /\ reader.act \in Actions
      BY <1>0, <1>3, ReaderMoves DEF Apply, callVars
    <2>2. CASE a # reader.act
      <3>1. done'[a] = done[a] /\ cause'[a] = cause[a]
        BY <1>0, <1>3, <2>1, <2>2, ApplyEffect
      <3>2. QED
        BY <1>0, <2>1, <3>1 DEF CompletedIsForgotten
    <2>3. CASE a = reader.act /\ done[a]
      <3>1. a \in Collectors /\ cause[a] = "state"
        BY <1>0, <2>1, <2>3 DEF CompletedIsForgotten
      <3>2. cause'[a] = cause[a]
        BY <1>0, <1>3, <2>1, <2>3, ApplyEffect
      <3>3. QED
        BY <3>1, <3>2
    <2>4. CASE a = reader.act /\ ~done[a]
      <3>1. \/ reader'.at \in {"checking", "unregistering"}
            \/ a \in Collectors /\ Complete(a, reader.ev.state, "state")
        <4>1. \/ reader' = [reader EXCEPT !.at = "checking"]
              \/ reader' = [reader EXCEPT !.at = "unregistering"]
              \/ a \in Collectors /\ Complete(a, reader.ev.state, "state")
          BY <1>3, <2>4 DEF Apply, actionVars
        <4>2. reader = [at |-> "applying", act |-> reader.act, ev |-> reader.ev]
          BY <1>0, <2>1 DEF Types, Handler, Idle
        <4>3. QED
          BY <4>1, <4>2
      <3>2. Complete(a, reader.ev.state, "state") => cause'[a] = "state"
        BY <1>0, <2>4 DEF Complete, TableTypes
      <3>3. QED
        BY <1>0, <1>3, <2>4, <3>1, <3>2, ReaderMoves
    <2>5. QED
      BY <2>2, <2>3, <2>4
  <1>4. CASE CheckCompleted
    <2>1. /\ UNCHANGED <<registered, done, cause>>
          /\ IF done[reader.act] THEN reader'.at # "idle" ELSE reader' = Idle
      <3>1. reader = [at |-> "checking", act |-> reader.act, ev |-> reader.ev]
        BY <1>0, <1>4 DEF CheckCompleted, Types, Handler, Idle
      <3>2. QED
        BY <1>4, <3>1 DEF CheckCompleted, actionVars, callVars
    <2>2. QED
      BY <1>0, <1>4, <2>1, ReaderMoves DEF CompletedIsForgotten, CheckCompleted
  <1>5. CASE Unregister
    BY <1>0, <1>5 DEF Unregister, Forget, actionVars, CompletedIsForgotten
  <1>6. CASE reader.at \in {"idle", "ending"} /\ UNCHANGED <<done, cause>> /\ registered' \subseteq registered
    BY <1>0, <1>6 DEF CompletedIsForgotten
  <1>7. CASE UNCHANGED <<done, cause, reader>> /\ registered' \subseteq registered
    BY <1>0, <1>7 DEF CompletedIsForgotten
  <1>8. CASE ReadEnded
    BY <1>8 DEF ReadEnded
  <1>9. QED
    <2>1. ASSUME NEW b \in Actions, App(b) \/ User(b), ~Start(b), ~ResolveRefused(b)
          PROVE  UNCHANGED <<done, cause, reader>> /\ registered' \subseteq registered
      BY <2>1
      DEF App, ExecuteFails, ExecuteReturns, SetFilter, Forget, User, SetCallback, Drop,
          actionVars, callVars
    <2>2. Server \/ UNCHANGED vars => UNCHANGED <<done, cause, reader, registered>>
      BY DEF Server, ServerReplies, ServerSendsEvent, ServerEndsCall, actionVars, callVars, vars
    <2>3. ReadReply \/ ReadEvent \/ ForgetCall =>
            /\ reader.at \in {"idle", "ending"} /\ UNCHANGED <<done, cause, registered>>
      BY <1>0 DEF ReadReply, ReadEvent, ForgetCall, Takes, actionVars, callVars
    <2>4. QED
      BY <1>1, <1>2, <1>3, <1>4, <1>5, <1>6, <1>7, <1>8, <2>1, <2>2, <2>3 DEF Next, Reader

\* A refused action has no event in the hands of the read thread; neither has one that
\* the read thread has just found completed.
LEMMA ApplyingIsOpenStep == IInv /\ [Next]_vars => ApplyingIsOpen'
  <1> SUFFICES ASSUME IInv, [Next]_vars, reader'.at = "applying",
                      reader'.act \in Plain \cup Detectors, reply'[reader'.act] # "failed",
                      done'[reader'.act]
               PROVE  FALSE
    BY WhoCompletes DEF ApplyingIsOpen, Settled, Detectors
  <1>0. /\ Types /\ TypeOK /\ ServerPhases /\ ApplyingIsOpen /\ CompletedIsForgotten
        /\ Idle.at = "idle" /\ reader' \in Handler /\ reader \in Handler
    BY StepReader, HandlerParts DEF IInv, Types
  <1>1. CASE ReadEvent
    <2>1. /\ reader = Idle /\ done' = done /\ kind' = kind /\ reply' = reply
          /\ reader'.act \in registered
      BY <1>1, WhoCompletes DEF ReadEvent, Takes, Idle, actionVars, appVars
    <2>2. reader'.act \in Plain \cup Detectors /\ reader'.act \notin Collectors
      BY <1>0, ConstantsAssumption DEF Detectors, Collectors
    <2>3. QED
      BY <1>0, <2>1, <2>2 DEF CompletedIsForgotten
  <1>2. CASE reader' = reader
    <2>1. reader.act \in Actions /\ server[reader.act] = "running"
      BY <1>0, <1>2, HandlerParts DEF ServerPhases
    <2>2. Settled(reader.act)
      BY <1>0, <1>2, <2>1, FailedStays DEF Settled
    <2>3. ~ResolveRefused(reader.act)
      <3>1. ASSUME pc[reader.act] = "resolving" PROVE FALSE
        <4>1. reply[reader.act] \in {"gone", "refused"}
          BY <2>1, <2>2, <3>1 DEF ServerPhases, TypeOK, IInv, Types, StartedFirst, Settled
        <4>2. QED
          BY <1>0, <2>1, <4>1 DEF ServerPhases
      <3>2. QED
        BY <3>1 DEF ResolveRefused
    <2>4. ~done[reader.act]
      BY <1>0, <1>2, <2>2 DEF ApplyingIsOpen
    <2>5. ~Apply /\ ~ReadEnded
      BY <1>0, <1>2, ReaderMoves DEF ReadEnded, Takes
    <2>6. QED
      BY <1>0, <1>2, <2>1, <2>3, <2>4, <2>5, OutcomeStep
  <1>3. CASE reader'.at # "applying"
    BY <1>3
  <1>4. QED
    <2>1. ASSUME NEW a \in Actions, App(a) \/ User(a) PROVE reader' = reader
      BY <2>1
      DEF App, Start, ExecuteFails, ExecuteReturns, ResolveRefused, SetFilter, User,
          SetCallback, Drop
    <2>2. Server \/ ReadReply \/ UNCHANGED vars => reader' = reader
      BY DEF Server, ServerReplies, ServerSendsEvent, ServerEndsCall, ReadReply, vars
    <2>3. Unregister \/ ReadEnded \/ ForgetCall => reader'.at # "applying"
      BY <1>0 DEF Unregister, ReadEnded, ForgetCall
    <2>4. Apply \/ CheckCompleted => reader'.at # "applying"
      BY <1>0, ReaderMoves
    <2>5. QED
      BY <1>1, <1>2, <1>3, <2>1, <2>2, <2>3, <2>4 DEF Next, Reader

LEMMA RunsWhenCompletedStep == IInv /\ [Next]_vars => RunsWhenCompleted'
  <1> SUFFICES ASSUME IInv, [Next]_vars, NEW a \in Plain \cup Detectors, reply'[a] # "failed"
               PROVE  fired'[a] = IF a \in watched' /\ done'[a] THEN 1 ELSE 0
    BY WhoCompletes DEF RunsWhenCompleted, Settled, Detectors
  <1>0. /\ Types /\ TypeOK /\ TableTypes /\ StartedFirst /\ ApplyingIsOpen /\ a \in Actions
        /\ a \notin Collectors
    BY ConstantsAssumption, TablesAreTyped DEF IInv, Types, Actions, Detectors, Collectors
  <1>1. /\ Settled(a)
        /\ fired[a] = IF a \in watched /\ done[a] THEN 1 ELSE 0
    BY <1>0, FailedStays DEF IInv, RunsWhenCompleted, Settled
  <1>2. CASE \E b \in Actions : SetCallback(b)
    <2>1. PICK b \in Actions : SetCallback(b)
      BY <1>2
    <2>2. /\ done' = done /\ watched' = watched \cup {b} /\ b \notin watched
          /\ fired' = [fired EXCEPT ![b] = IF done[b] THEN 1 ELSE @]
      BY <2>1 DEF SetCallback, OnSet
    <2>3. fired'[a] = IF a = b /\ done[a] THEN 1 ELSE fired[a]
      BY <1>0, <2>2 DEF TableTypes
    <2>4. QED
      BY <1>1, <2>2, <2>3
  <1>3. CASE \E b \in Actions : ResolveRefused(b)
    <2>1. PICK b \in Actions : ResolveRefused(b)
      BY <1>3
    <2>2. b \notin watched /\ UNCHANGED <<fired, watched>>
      BY <1>0, <2>1 DEF ResolveRefused, StartedFirst
    <2>3. a # b => done'[a] = done[a]
      BY <1>0, <2>1 DEF ResolveRefused, Complete, TableTypes
    <2>4. QED
      BY <1>1, <2>2, <2>3
  <1>4. CASE Apply
    <2>1. watched' = watched /\ reader.act \in Actions
      BY <1>0, <1>4, ReaderMoves DEF Apply
    <2>2. CASE a # reader.act
      <3>1. done'[a] = done[a]
        BY <1>0, <1>4, <2>1, <2>2, ApplyEffect
      <3>2. fired'[a] = fired[a]
        BY <1>0, <1>4, <2>1, <2>2, ApplyEffect
      <3>3. QED
        BY <1>1, <2>1, <3>1, <3>2
    <2>3. CASE a = reader.act
      <3>1. ~done[a] /\ fired[a] = 0
        BY <1>0, <1>1, <1>4, <2>3 DEF Apply, ApplyingIsOpen
      <3>2. CASE UNCHANGED actionVars
        BY <1>1, <2>1, <3>2 DEF actionVars
      <3>3. ASSUME NEW s, NEW w, Complete(a, s, w),
                   Fires(IF s \in TerminalStates THEN {a} ELSE {})
            PROVE  fired'[a] = IF a \in watched' /\ done'[a] THEN 1 ELSE 0
        <4>1. done'[a] <=> s \in TerminalStates
          BY <1>0, <3>1, <3>3 DEF Complete, TableTypes
        <4>2. fired'[a] = IF a \in watched /\ s \in TerminalStates THEN 1 ELSE 0
          BY <1>0, <3>1, <3>3 DEF Fires
        <4>3. QED
          BY <2>1, <4>1, <4>2
      <3>4. "finished" \in TerminalStates
        BY DEF TerminalStates
      <3>5. \/ UNCHANGED actionVars
            \/ /\ Complete(a, reader.ev.state, "state")
               /\ Fires(IF reader.ev.state \in TerminalStates THEN {a} ELSE {})
            \/ Complete(a, "finished", "payload") /\ Fires({a})
        BY <1>4, <2>3 DEF Apply
      <3>6. QED
        BY <3>2, <3>3, <3>4, <3>5
    <2>4. QED
      BY <2>2, <2>3
  <1>5. CASE ReadEnded
    <2>1. /\ watched' = watched
          /\ done'[a] <=> done[a] \/ a \in Open
          /\ fired'[a] = IF a \in Open \cap watched /\ fired[a] < 2 THEN fired[a] + 1
                                                                   ELSE fired[a]
      BY <1>0, <1>5 DEF ReadEnded, Fires
    <2>2. QED
      BY <1>1, <2>1 DEF Open
  <1>6. CASE UNCHANGED <<fired, watched, done>>
    BY <1>1, <1>6
  <1>7. QED
    BY <1>2, <1>3, <1>4, <1>5, <1>6
    DEF Next, App, Start, ExecuteFails, ExecuteReturns, SetFilter, User, Drop, Server,
        ServerReplies, ServerSendsEvent, ServerEndsCall, Reader, ReadReply, ReadEvent,
        CheckCompleted, Unregister, ForgetCall, actionVars, vars
-----------------------------------------------------------------------------
LEMMA InitIInv == Init => IInv
  <1> SUFFICES ASSUME Init PROVE IInv
    OBVIOUS
  <1>1. InFlight = {} /\ reader.at = "idle"
    <2>1. Len(inbox) = 0
      BY EmptySeq DEF Init
    <2>2. InFlight = {}
      BY <2>1 DEF InFlight
    <2>3. reader.at = "idle"
      BY DEF Init, Idle
    <2>4. QED
      BY <2>2, <2>3
  <1>2. StartedFirst /\ ServerPhases /\ ApplyingIsOpen
    BY <1>1 DEF Init, StartedFirst, ServerPhases, ApplyingIsOpen
  <1>3. RunsWhenCompleted /\ CompletedIsForgotten
    BY DEF Init, RunsWhenCompleted, CompletedIsForgotten
  <1>4. QED
    BY <1>2, <1>3, InitTypes DEF IInv

LEMMA StepIInv == IInv /\ [Next]_vars => IInv'
  <1>1. IInv => Types
    BY DEF IInv
  <1>2. QED
    BY <1>1, StepTypes, StartedFirstStep, ServerPhasesStep, ApplyingIsOpenStep,
       RunsWhenCompletedStep, CompletedIsForgottenStep DEF IInv

LEMMA Invariance == SafeSpec => []IInv
  BY InitIInv, StepIInv, PTL DEF SafeSpec

\* Action and SharedState::actions agree, whichever thread completes an action: its
\* callback runs when it is completed and once, and a completed action is in the map only
\* while a thread is about to take it out.
THEOREM CompletionClean == SafeSpec => []CompletionIsClean
  <1>1. ASSUME IInv PROVE CallbackRunsOnce
    <2>1. \A a \in Plain \cup Detectors : a \in Actions
      BY DEF Actions, Detectors
    <2>2. RunsWhenCompleted
      BY <1>1 DEF IInv
    <2>3. QED
      BY <2>1, <2>2 DEF RunsWhenCompleted, CallbackRunsOnce, Settled
  <1>2. IInv => CompletionIsClean
    BY <1>1 DEF IInv, Types, CompletionIsClean
  <1>3. QED
    BY <1>2, Invariance, PTL

\* What the application has seen of a completed action, through wait() or its callback,
\* does not change when the events of the call go on.
THEOREM OutcomesFinal == SafeSpec => OutcomeIsFinal
  <1>1. ASSUME IInv, Next, NEW a \in Plain \cup Detectors, done[a], pc[a] = "held",
               reply[a] # "failed"
        PROVE  state'[a] = state[a]
    <2>1. Types /\ a \in Actions /\ Settled(a)
      BY <1>1 DEF IInv, Actions, Detectors, Settled
    <2>2. ~ResolveRefused(a)
      BY <1>1 DEF ResolveRefused
    <2>3. ~(Apply /\ a = reader.act)
      BY <1>1, <2>1 DEF Apply, IInv, ApplyingIsOpen
    <2>4. QED
      BY <1>1, <2>1, <2>2, <2>3, OutcomeStep
  <1>2. IInv /\ [Next]_vars =>
          [\A a \in Plain \cup Detectors :
             done[a] /\ pc[a] = "held" /\ reply[a] # "failed" => state'[a] = state[a]]_vars
    BY <1>1
  <1>3. QED
    BY <1>2, Invariance, PTL DEF SafeSpec, OutcomeIsFinal
=============================================================================
