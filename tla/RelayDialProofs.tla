-------------------------- MODULE RelayDialProofs --------------------------
(***************************************************************************)
(* Theorems about RelayDial, for any dialers, legs and bound on the queue:   *)
(* what pending_dials_ and calls_ hold, what dial() returns, and that the    *)
(* call it returns stays routed. They rest on what the frames on their way   *)
(* say of the server, and on the order in which the last one of a leg comes. *)
(***************************************************************************)
EXTENDS RelayDial, SequenceTheorems, TLAPS

Frame == [type : {"reply"}, to : Dialers]
           \cup [type : {"state"}, leg : Legs, tag : Dialers, value : {"ringing", "ended"}]
           \cup [type : {"dial"}, leg : Legs, tag : Dialers, value : {"answered"}]
           \cup [type : {"dial"}, leg : {None}, tag : Dialers, value : {"dialing", "failed"}]

Handler == {Idle} \cup [at : {"resolving"}, dial : Dialers, value : Legs \cup {NoCall}]
             \cup [at : {"ending"}, leg : Legs]

\* The frames and the handler of the read thread, which TypeOK leaves open.
Types == TypeOK /\ inbox \in Seq(Frame) /\ reader \in Handler

InFlight == {inbox[i] : i \in 1..Len(inbox)}

IsOf(f, c) == f.type \in {"state", "dial"} /\ f.leg = c

\* The server hears of a dial from its request, answers it once, and ends a leg that it
\* has created.
ServerKnows ==
    /\ \A d \in Dialers : pc[d] = "new" => server[d] = "none"
    /\ \A d \in Dialers : server[d] # "over" => winner[d] = None
    /\ \A c \in hungUp : legOf[c] # None

\* What a frame says of a dial or a leg is so in the view of the server.
FrameIsTrue(f) ==
    /\ f.type = "state" /\ f.value = "ended" => f.leg \in hungUp
    /\ f.type = "dial" => /\ server[f.tag] \in {"dialing", "over"}
                          /\ f.value = "answered" => f.leg = winner[f.tag]
                          /\ f.value = "dialing" => f.tag \in reported
FramesAreTrue == \A f \in InFlight : FrameIsTrue(f)

\* Nothing about a leg comes after its end, on the way and at the client.
EndedIsLast ==
    \A i \in 1..Len(inbox) : inbox[i].type = "state" /\ inbox[i].value = "ended" =>
        \A j \in (i+1)..Len(inbox) : ~IsOf(inbox[j], inbox[i].leg)
EndedIsOver ==
    \A c \in Legs : callState[c] = "ended" =>
        c \in hungUp /\ \A f \in InFlight : ~IsOf(f, c)

\* A dial whose promise has its value, or is about to get it, has no entry any more,
\* and the value is the leg of the server or nothing.
Settled(d, v) == d \notin pending /\ pc[d] # "new" /\ v \in {NoCall, winner[d]}
PromisesAreTrue ==
    /\ \A d \in Dialers : promise[d] # None => Settled(d, promise[d])
    /\ \A d \in Dialers : pc[d] = "ready" => promise[d] # None
    /\ reader.at = "resolving" => Settled(reader.dial, reader.value)

\* The Call that is unregistered is that of a leg that has ended.
EndingIsEnded == reader.at = "ending" => callState[reader.leg] = "ended"

\* The leg in a promise is routed like the one that dial() has returned.
Routed(c) == c \in calls \/ callState[c] = "ended"
LegsAreRouted ==
    /\ \A d \in Dialers : promise[d] \in Legs => Routed(promise[d])
    /\ reader.at = "resolving" /\ reader.value \in Legs => Routed(reader.value)

IInv == /\ Types
        /\ ServerKnows /\ FramesAreTrue /\ EndedIsLast /\ EndedIsOver
        /\ PromisesAreTrue /\ EndingIsEnded /\ LegsAreRouted
        /\ PendingHasDialer /\ WaiterIsPending /\ EndedIsForgotten
        /\ OutcomeIsTrue /\ ReturnedCallIsRouted
-----------------------------------------------------------------------------
(* Queues. *)

LEMMA AppendAt ==
  ASSUME NEW S, NEW q \in Seq(S), NEW f \in S
  PROVE  /\ Append(q, f) \in Seq(S)
         /\ Len(q) \in Nat /\ Len(Append(q, f)) = Len(q) + 1
         /\ \A i \in 1..Len(q) : Append(q, f)[i] = q[i]
         /\ Append(q, f)[Len(q) + 1] = f
  BY AppendProperties, LenProperties

LEMMA TailAt ==
  ASSUME NEW S, NEW q \in Seq(S), q # <<>>
  PROVE  /\ Len(q) \in Nat /\ Len(q) >= 1
         /\ Head(q) = q[1] /\ q[1] \in S
         /\ Tail(q) \in Seq(S)
         /\ Len(Tail(q)) = Len(q) - 1
         /\ \A i \in 1..(Len(q) - 1) : Tail(q)[i] = q[i+1]
  <1>1. Len(q) \in Nat /\ Len(q) >= 1
    BY EmptySeq, LenProperties
  <1>2. q[1] \in S
    BY <1>1, ElementOfSeq
  <1>3. QED
    BY <1>1, <1>2, HeadTailProperties

\* What a frame of the server does to the queue.
LEMMA SendsFrame ==
  ASSUME Types, NEW f \in Frame, Sends(f)
  PROVE  /\ inbox' \in Seq(Frame) /\ Len(inbox') <= MaxInbox
         /\ Len(inbox) \in Nat /\ Len(inbox') = Len(inbox) + 1
         /\ \A i \in 1..Len(inbox) : inbox'[i] = inbox[i]
         /\ inbox'[Len(inbox) + 1] = f
         /\ InFlight' = InFlight \cup {f}
  <1>1. /\ inbox' \in Seq(Frame)
        /\ Len(inbox) \in Nat /\ Len(inbox') = Len(inbox) + 1
        /\ \A i \in 1..Len(inbox) : inbox'[i] = inbox[i]
        /\ inbox'[Len(inbox) + 1] = f
    BY AppendAt DEF Types, Sends
  <1>2. Len(inbox') <= MaxInbox
    BY <1>1, ConstantsAssumption DEF Sends
  <1>3. InFlight' = InFlight \cup {f}
    BY <1>1 DEF InFlight
  <1>4. QED
    BY <1>1, <1>2, <1>3

\* What the read thread does to it.
LEMMA TakesFrame ==
  ASSUME Types, NEW t, Takes(t)
  PROVE  /\ inbox' \in Seq(Frame) /\ Len(inbox') <= MaxInbox
         /\ Len(inbox) \in Nat /\ Len(inbox) >= 1 /\ Len(inbox') = Len(inbox) - 1
         /\ \A i \in 1..Len(inbox') : inbox'[i] = inbox[i+1]
         /\ Head(inbox) = inbox[1] /\ inbox[1] \in Frame /\ inbox[1].type = t
         /\ inbox[1] \in InFlight /\ InFlight' \subseteq InFlight
  <1>1. /\ Len(inbox) \in Nat /\ Len(inbox) >= 1
        /\ Head(inbox) = inbox[1] /\ inbox[1] \in Frame /\ inbox[1].type = t
        /\ inbox' \in Seq(Frame) /\ Len(inbox') = Len(inbox) - 1
        /\ \A i \in 1..Len(inbox') : inbox'[i] = inbox[i+1]
    BY TailAt DEF Types, Takes
  <1>2. Len(inbox) <= MaxInbox /\ MaxInbox \in Nat
    BY ConstantsAssumption DEF Types, TypeOK
  <1>3. Len(inbox') <= MaxInbox
    BY <1>1, <1>2
  <1>4. inbox[1] \in InFlight /\ InFlight' \subseteq InFlight
    <2>1. 1 \in 1..Len(inbox) /\ \A i \in 1..Len(inbox') : i + 1 \in 1..Len(inbox)
      BY <1>1
    <2>2. QED
      BY <1>1, <2>1 DEF InFlight
  <1>5. QED
    BY <1>1, <1>3, <1>4

LEMMA FrameFields ==
  ASSUME NEW f \in Frame
  PROVE  /\ f.type \in {"reply", "state", "dial"}
         /\ f.type = "reply" => f.to \in Dialers
         /\ f.type = "state" => f.leg \in Legs /\ f.tag \in Dialers /\ f.value \in {"ringing", "ended"}
         /\ f.type = "dial" => /\ f.tag \in Dialers /\ f.value \in {"answered", "dialing", "failed"}
                               /\ f.leg \in Legs \cup {None}
                               /\ f.value = "answered" => f.leg \in Legs
  BY DEF Frame

LEMMA HandlerFields ==
  ASSUME NEW r \in Handler
  PROVE  /\ r.at \in {"idle", "resolving", "ending"}
         /\ r.at = "idle" => r = Idle
         /\ r.at = "resolving" => r.dial \in Dialers /\ r.value \in Legs \cup {NoCall}
         /\ r.at = "ending" => r.leg \in Legs
  BY DEF Handler, Idle

\* The frames the server sends.
LEMMA FramesMade ==
  ASSUME NEW d \in Dialers, NEW c \in Legs
  PROVE  /\ [type |-> "reply", to |-> d] \in Frame
         /\ StateEvent(c, d, "ringing") \in Frame /\ StateEvent(c, d, "ended") \in Frame
         /\ DialEvent(d, "answered", c) \in Frame
         /\ DialEvent(d, "dialing", None) \in Frame /\ DialEvent(d, "failed", None) \in Frame
  BY DEF Frame, StateEvent, DialEvent
-----------------------------------------------------------------------------
(* Types. *)

LEMMA InitTypes == Init => Types
  <1> SUFFICES ASSUME Init PROVE Types
    OBVIOUS
  <1>1. inbox \in Seq(Frame) /\ Len(inbox) <= MaxInbox
    BY EmptySeq, ConstantsAssumption DEF Init
  <1>2. reader \in Handler /\ reader.at = "idle"
    BY DEF Init, Handler, Idle
  <1>3. QED
    BY <1>1, <1>2 DEF Init, Types, TypeOK

\* What the steps of the server leave alone, and that each sends a frame.
LEMMA ServerTypes == Types /\ Server => Types' /\ \E f \in Frame : Sends(f)
  <1> SUFFICES ASSUME Types, Server PROVE Types' /\ \E f \in Frame : Sends(f)
    OBVIOUS
  <1> USE DEF dialVars, callVars, serverVars
  <1>1. ASSUME NEW f \in Frame, Sends(f)
        PROVE  inbox' \in Seq(Frame) /\ Len(inbox') <= MaxInbox
    BY <1>1, SendsFrame
  <1>2. ASSUME NEW d \in Dialers, ServerReplies(d)
        PROVE  Types' /\ \E f \in Frame : Sends(f)
    <2>1. [type |-> "reply", to |-> d] \in Frame /\ Sends([type |-> "reply", to |-> d])
      BY <1>2 DEF Frame, ServerReplies
    <2>2. server' \in [Dialers -> {"none", "asked", "dialing", "over"}]
      BY <1>2 DEF ServerReplies, Types, TypeOK
    <2>3. inbox' \in Seq(Frame) /\ Len(inbox') <= MaxInbox
      BY <1>1, <2>1
    <2>4. QED
      BY <1>2, <2>1, <2>2, <2>3 DEF ServerReplies, Types, TypeOK
  <1>3. ASSUME NEW d \in Dialers, ServerReportsProgress(d) \/ ServerGivesUp(d)
        PROVE  Types' /\ \E f \in Frame : Sends(f)
    <2>1. PICK f \in Frame : Sends(f)
      BY <1>3 DEF Frame, DialEvent, ServerReportsProgress, ServerGivesUp
    <2>2. inbox' \in Seq(Frame) /\ Len(inbox') <= MaxInbox
      BY <1>1, <2>1
    <2>3. QED
      BY <1>3, <2>1, <2>2 DEF ServerReportsProgress, ServerGivesUp, Types, TypeOK
  <1>4. ASSUME NEW d \in Dialers, NEW c \in Legs, ServerRings(d, c) \/ ServerAnswers(d, c)
        PROVE  Types' /\ \E f \in Frame : Sends(f)
    <2>1. PICK f \in Frame : Sends(f)
      BY <1>4, FramesMade DEF ServerRings, ServerAnswers
    <2>2. inbox' \in Seq(Frame) /\ Len(inbox') <= MaxInbox
      BY <1>1, <2>1
    <2>3. /\ legOf' \in [Legs -> Dialers \cup {None}]
          /\ winner' \in [Dialers -> Legs \cup {None}]
          /\ server' \in [Dialers -> {"none", "asked", "dialing", "over"}]
      BY <1>4 DEF ServerRings, ServerAnswers, Types, TypeOK
    <2>4. QED
      BY <1>4, <2>1, <2>2, <2>3 DEF ServerRings, ServerAnswers, Types, TypeOK
  <1>5. ASSUME NEW c \in Legs, ServerEndsLeg(c)
        PROVE  Types' /\ \E f \in Frame : Sends(f)
    <2>1. legOf[c] \in Dialers
      BY <1>5 DEF ServerEndsLeg, Types, TypeOK
    <2>2. StateEvent(c, legOf[c], "ended") \in Frame
      BY <2>1 DEF Frame, StateEvent
    <2>3. inbox' \in Seq(Frame) /\ Len(inbox') <= MaxInbox
      BY <1>1, <1>5, <2>2 DEF ServerEndsLeg
    <2>4. QED
      BY <1>5, <2>2, <2>3 DEF ServerEndsLeg, Types, TypeOK
  <1>6. QED
    BY <1>2, <1>3, <1>4, <1>5 DEF Server

LEMMA StepTypes == Types /\ [Next]_vars => Types'
  <1> SUFFICES ASSUME Types, [Next]_vars PROVE Types'
    OBVIOUS
  <1> USE DEF dialVars, callVars, serverVars
  <1>0. Len(inbox) <= MaxInbox /\ inbox \in Seq(Frame) /\ reader \in Handler
    BY DEF Types, TypeOK
  <1>1. ASSUME NEW d \in Dialers, Dialer(d) PROVE Types'
    <2>1. pc' \in [Dialers -> {"new", "executing", "waiting", "ready", "expired", "done"}]
      <3>1. \E s \in {"executing", "waiting", "ready", "expired", "done"} :
              pc' = [pc EXCEPT ![d] = s]
        BY <1>1 DEF Dialer, Register, ExecuteThrows, ExecuteReturns, WaitReturns, Return
      <3>2. QED
        BY <3>1 DEF Types, TypeOK
    <2>2. outcome' \in [Dialers -> Legs \cup {NoCall, None}]
      BY <1>1 DEF Dialer, Register, ExecuteThrows, ExecuteReturns, WaitReturns, Return,
         Types, TypeOK
    <2>3. pending' \subseteq Dialers
      BY <1>1 DEF Dialer, Register, ExecuteThrows, ExecuteReturns, WaitReturns, Return,
         Erase, Types, TypeOK
    <2>4. server' \in [Dialers -> {"none", "asked", "dialing", "over"}]
      BY <1>1 DEF Dialer, Register, ExecuteThrows, ExecuteReturns, WaitReturns, Return,
         Types, TypeOK
    <2>5. UNCHANGED <<replied, promise, callVars, reported, legOf, winner, hungUp, inbox>>
      BY <1>1 DEF Dialer, Register, ExecuteThrows, ExecuteReturns, WaitReturns, Return
    <2>6. QED
      BY <2>1, <2>2, <2>3, <2>4, <2>5 DEF Types, TypeOK
  <1>2. CASE Server
    BY <1>2, ServerTypes
  <1>3. CASE ReadReply
    <2>1. inbox' \in Seq(Frame) /\ Len(inbox') <= MaxInbox /\ Head(inbox).to \in Dialers
      BY <1>3, TakesFrame, FrameFields DEF ReadReply
    <2>2. QED
      BY <1>3, <2>1 DEF ReadReply, Types, TypeOK
  <1>4. CASE ReadDial
    <2> DEFINE f == Head(inbox)
    <2>1. /\ inbox' \in Seq(Frame) /\ Len(inbox') <= MaxInbox
          /\ f \in Frame /\ f.type = "dial" /\ reader = Idle
      BY <1>4, TakesFrame DEF ReadDial, Takes
    <2>2. /\ f.tag \in Dialers /\ f.leg \in Legs \cup {None}
          /\ f.value = "answered" => f.leg \in Legs
      BY <2>1, FrameFields
    <2>3. calls' \subseteq Legs /\ pending' \subseteq Dialers
      BY <1>4, <2>2 DEF ReadDial, Adopt, Erase, Types, TypeOK
    <2>4. callState' \in [Legs -> {"none", "ringing", "answered", "ended"}]
      BY <1>4, <2>2 DEF ReadDial, Types, TypeOK
    <2>5. reader' \in Handler
      <3>1. DialResult(f) \in Legs \cup {NoCall}
        BY <2>2 DEF DialResult
      <3>2. [at |-> "resolving", dial |-> f.tag, value |-> DialResult(f)] \in Handler
        BY <2>2, <3>1 DEF Handler
      <3>3. QED
        BY <1>0, <1>4, <3>2 DEF ReadDial, Handler
    <2>6. reader'.at \in {"idle", "resolving", "ending"}
      BY <2>5, HandlerFields
    <2>7. QED
      BY <1>4, <2>1, <2>3, <2>4, <2>5, <2>6 DEF ReadDial, Types, TypeOK
  <1>5. CASE ResolveDial
    <2>1. reader.dial \in Dialers /\ reader.value \in Legs \cup {NoCall}
      BY <1>0, <1>5, HandlerFields DEF ResolveDial
    <2>2. reader' \in Handler /\ reader'.at = "idle"
      BY <1>5 DEF ResolveDial, Handler, Idle
    <2>3. promise' \in [Dialers -> Legs \cup {NoCall, None}]
      BY <1>5, <2>1 DEF ResolveDial, Types, TypeOK
    <2>4. QED
      BY <1>5, <2>2, <2>3 DEF ResolveDial, Types, TypeOK
  <1>6. CASE ReadState
    <2> DEFINE f == Head(inbox)
    <2>1. /\ inbox' \in Seq(Frame) /\ Len(inbox') <= MaxInbox
          /\ f \in Frame /\ f.type = "state"
      BY <1>6, TakesFrame DEF ReadState, Takes
    <2>2. f.leg \in Legs /\ f.value \in {"ringing", "ended"}
      BY <2>1, FrameFields
    <2>3. calls' \subseteq Legs
      BY <1>6, <2>2 DEF ReadState, Adopt, Types, TypeOK
    <2>4. callState' \in [Legs -> {"none", "ringing", "answered", "ended"}]
      BY <1>6, <2>2 DEF ReadState, Types, TypeOK
    <2>5. reader' \in Handler
      BY <1>6, <2>2 DEF ReadState, Handler
    <2>6. reader'.at \in {"idle", "resolving", "ending"}
      BY <2>5, HandlerFields
    <2>7. QED
      BY <1>6, <2>1, <2>3, <2>4, <2>5, <2>6 DEF ReadState, Types, TypeOK
  <1>7. CASE UnregisterCall
    <2>1. reader' \in Handler /\ reader'.at = "idle" /\ calls' \subseteq Legs
      BY <1>7 DEF UnregisterCall, Unregister, Handler, Idle, Types, TypeOK
    <2>2. QED
      BY <1>7, <2>1 DEF UnregisterCall, Types, TypeOK
  <1>8. CASE ConnectionLost
    <2>1. inbox' \in Seq(Frame) /\ Len(inbox') = 0
      BY <1>8, EmptySeq DEF ConnectionLost
    <2>2. Len(inbox') <= MaxInbox
      BY <2>1, ConstantsAssumption
    <2>3. promise' \in [Dialers -> Legs \cup {NoCall, None}] /\ pending' = {}
      BY <1>8 DEF ConnectionLost, RejectDials, Types, TypeOK
    <2>4. QED
      BY <1>8, <2>1, <2>2, <2>3 DEF ConnectionLost, Types, TypeOK
  <1>9. CASE UNCHANGED vars
    BY <1>9 DEF vars, Types, TypeOK
  <1>10. QED
    BY <1>1, <1>2, <1>3, <1>4, <1>5, <1>6, <1>7, <1>8, <1>9 DEF Next, Reader

\* RelayDial is type-correct: the tables of dial() and of the read thread hold tags,
\* call ids and states, and the queue keeps its bound.
THEOREM TypeCorrect == SafeSpec => []TypeOK
  <1>1. Types => TypeOK
    BY DEF Types
  <1>2. QED
    BY <1>1, InitTypes, StepTypes, PTL DEF SafeSpec
-----------------------------------------------------------------------------
(* What the server says, and when. *)

\* The frame that a step of the server sends is true, and it is not about a leg that
\* has ended; what earlier frames say stays true.
LEMMA ServerStep ==
  ASSUME Types, ServerKnows, Server
  PROVE  \E f \in Frame :
           /\ Sends(f) /\ FrameIsTrue(f)'
           /\ \A c \in hungUp : ~IsOf(f, c)
           /\ hungUp \subseteq hungUp' /\ reported \subseteq reported'
           /\ \A d \in Dialers :
                /\ server[d] \in {"dialing", "over"} => server'[d] \in {"dialing", "over"}
                /\ winner[d] # None => winner'[d] = winner[d]
           /\ ServerKnows'
           /\ UNCHANGED <<dialVars, promise, pending, callVars>>
  <1> DEFINE Goal(f) ==
               /\ Sends(f) /\ FrameIsTrue(f)'
               /\ \A c \in hungUp : ~IsOf(f, c)
               /\ hungUp \subseteq hungUp' /\ reported \subseteq reported'
               /\ \A d \in Dialers :
                    /\ server[d] \in {"dialing", "over"} => server'[d] \in {"dialing", "over"}
                    /\ winner[d] # None => winner'[d] = winner[d]
               /\ ServerKnows'
               /\ UNCHANGED <<dialVars, promise, pending, callVars>>
  <1> USE DEF dialVars, callVars, serverVars, Types, TypeOK
  <1>0. None \notin Legs
    BY ConstantsAssumption
  <1>1. ASSUME NEW d \in Dialers, ServerReplies(d) PROVE \E f \in Frame : Goal(f)
    <2>1. [type |-> "reply", to |-> d] \in Frame /\ Sends([type |-> "reply", to |-> d])
      BY <1>1 DEF Frame, ServerReplies
    <2>2. ServerKnows'
      BY <1>1 DEF ServerReplies, ServerKnows
    <2>3. Goal([type |-> "reply", to |-> d])
      BY <1>1, <2>1, <2>2 DEF ServerReplies, FrameIsTrue, IsOf
    <2>4. QED
      BY <2>1, <2>3
  <1>2. ASSUME NEW d \in Dialers, NEW c \in Legs, ServerRings(d, c)
        PROVE  \E f \in Frame : Goal(f)
    <2> DEFINE f == StateEvent(c, d, "ringing")
    <2>1. f \in Frame /\ Sends(f) /\ f.type = "state" /\ f.value = "ringing" /\ f.leg = c
      BY <1>2, FramesMade DEF ServerRings, StateEvent
    <2>2. c \notin hungUp
      BY <1>2 DEF ServerRings, ServerKnows
    <2>3. ServerKnows'
      BY <1>2, ConstantsAssumption DEF ServerRings, ServerKnows
    <2> HIDE DEF f
    <2>4. Goal(f)
      BY <1>2, <2>1, <2>2, <2>3 DEF ServerRings, FrameIsTrue, IsOf
    <2>5. QED
      BY <2>1, <2>4
  <1>3. ASSUME NEW d \in Dialers, ServerReportsProgress(d) PROVE \E f \in Frame : Goal(f)
    <2> DEFINE f == DialEvent(d, "dialing", None)
    <2>1. /\ f \in Frame /\ Sends(f)
          /\ f.type = "dial" /\ f.value = "dialing" /\ f.leg = None /\ f.tag = d
      BY <1>3 DEF ServerReportsProgress, DialEvent, Frame
    <2>2. ServerKnows' /\ d \in reported' /\ server'[d] = "dialing"
      BY <1>3 DEF ServerReportsProgress, ServerKnows
    <2> HIDE DEF f
    <2>3. Goal(f)
      BY <1>0, <1>3, <2>1, <2>2 DEF ServerReportsProgress, FrameIsTrue, IsOf
    <2>4. QED
      BY <2>1, <2>3
  <1>4. ASSUME NEW d \in Dialers, ServerGivesUp(d) PROVE \E f \in Frame : Goal(f)
    <2> DEFINE f == DialEvent(d, "failed", None)
    <2>1. /\ f \in Frame /\ Sends(f)
          /\ f.type = "dial" /\ f.value = "failed" /\ f.leg = None /\ f.tag = d
      BY <1>4 DEF ServerGivesUp, DialEvent, Frame
    <2>2. ServerKnows' /\ server'[d] = "over"
      BY <1>4 DEF ServerGivesUp, ServerKnows
    <2> HIDE DEF f
    <2>3. Goal(f)
      BY <1>0, <1>4, <2>1, <2>2 DEF ServerGivesUp, FrameIsTrue, IsOf
    <2>4. QED
      BY <2>1, <2>3
  <1>5. ASSUME NEW d \in Dialers, NEW c \in Legs, ServerAnswers(d, c)
        PROVE  \E f \in Frame : Goal(f)
    <2> DEFINE f == DialEvent(d, "answered", c)
    <2>1. /\ f \in Frame /\ Sends(f)
          /\ f.type = "dial" /\ f.value = "answered" /\ f.leg = c /\ f.tag = d
      BY <1>5, FramesMade DEF ServerAnswers, DialEvent
    <2>2. c \notin hungUp /\ server'[d] = "over" /\ winner'[d] = c
      BY <1>5 DEF ServerAnswers
    <2>3. ServerKnows'
      <3>1. \A e \in Dialers : pc'[e] = "new" => server'[e] = "none"
        BY <1>5 DEF ServerAnswers, ServerKnows
      <3>2. \A e \in Dialers : server'[e] # "over" => winner'[e] = None
        BY <1>5 DEF ServerAnswers, ServerKnows
      <3>3. \A b \in hungUp' : legOf'[b] # None
        BY <1>5, ConstantsAssumption DEF ServerAnswers, ServerKnows
      <3>4. QED
        BY <3>1, <3>2, <3>3 DEF ServerKnows
    <2>4. \A e \in Dialers : winner[e] # None => winner'[e] = winner[e]
      BY <1>5 DEF ServerAnswers, ServerKnows
    <2> HIDE DEF f
    <2>5. Goal(f)
      BY <1>5, <2>1, <2>2, <2>3, <2>4 DEF ServerAnswers, FrameIsTrue, IsOf
    <2>6. QED
      BY <2>1, <2>5
  <1>6. ASSUME NEW c \in Legs, ServerEndsLeg(c) PROVE \E f \in Frame : Goal(f)
    <2>1. PICK d \in Dialers : legOf[c] = d
      BY <1>6 DEF ServerEndsLeg
    <2> DEFINE f == StateEvent(c, d, "ended")
    <2>2. f \in Frame /\ Sends(f) /\ f.type = "state" /\ f.value = "ended" /\ f.leg = c
      BY <1>6, <2>1, FramesMade DEF ServerEndsLeg, StateEvent
    <2>3. ServerKnows' /\ c \in hungUp' /\ c \notin hungUp
      BY <1>6 DEF ServerEndsLeg, ServerKnows
    <2> HIDE DEF f
    <2>4. Goal(f)
      BY <1>6, <2>2, <2>3 DEF ServerEndsLeg, FrameIsTrue, IsOf
    <2>5. QED
      BY <2>2, <2>4
  <1>7. QED
    BY <1>1, <1>2, <1>3, <1>4, <1>5, <1>6 DEF Server

Client == (\E d \in Dialers : Dialer(d)) \/ Reader \/ ConnectionLost \/ UNCHANGED vars

\* The client takes frames from the front of the queue, or loses them all.
LEMMA ClientQueue ==
  ASSUME Types, EndedIsLast, Client
  PROVE  InFlight' \subseteq InFlight /\ EndedIsLast'
  <1>1. ASSUME NEW t, Takes(t) PROVE InFlight' \subseteq InFlight /\ EndedIsLast'
    <2>1. /\ InFlight' \subseteq InFlight
          /\ Len(inbox) \in Nat /\ Len(inbox') = Len(inbox) - 1
          /\ \A i \in 1..Len(inbox') : inbox'[i] = inbox[i+1]
      BY <1>1, TakesFrame
    <2> SUFFICES ASSUME NEW i \in 1..Len(inbox'), NEW j \in (i+1)..Len(inbox'),
                        inbox'[i].type = "state", inbox'[i].value = "ended"
                 PROVE  ~IsOf(inbox'[j], inbox'[i].leg)
      BY <2>1 DEF EndedIsLast, IsOf
    <2>2. /\ i + 1 \in 1..Len(inbox) /\ j + 1 \in (i+1+1)..Len(inbox)
          /\ inbox'[i] = inbox[i+1] /\ inbox'[j] = inbox[j+1]
      BY <2>1
    <2>3. QED
      BY <2>2 DEF EndedIsLast
  <1>2. ASSUME inbox' = inbox PROVE InFlight' \subseteq InFlight /\ EndedIsLast'
    BY <1>2 DEF InFlight, EndedIsLast, IsOf
  <1>3. ASSUME inbox' = <<>> PROVE InFlight' \subseteq InFlight /\ EndedIsLast'
    <2>1. Len(inbox') = 0
      BY <1>3, EmptySeq
    <2>2. QED
      BY <2>1 DEF InFlight, EndedIsLast
  <1>4. QED
    BY <1>1, <1>2, <1>3
    DEF Client, Dialer, Register, ExecuteThrows, ExecuteReturns, WaitReturns, Return,
        Reader, ReadReply, ReadDial, ReadState, ResolveDial, UnregisterCall,
        ConnectionLost, vars

\* The client leaves the view of the server alone, but for the request of a dial.
LEMMA ClientServer ==
  ASSUME Types, ServerKnows, Client
  PROVE  /\ UNCHANGED <<reported, legOf, winner, hungUp>>
         /\ \A d \in Dialers : \/ server'[d] = server[d] /\ (pc[d] # "new" => pc'[d] # "new")
                               \/ /\ server[d] = "none" /\ server'[d] = "asked"
                                  /\ pc'[d] = "executing"
  <1> USE DEF dialVars, callVars, serverVars, Types, TypeOK
  <1>1. ASSUME NEW d \in Dialers, Register(d) PROVE server[d] = "none"
    BY <1>1 DEF Register, ServerKnows
  <1>2. ASSUME NEW e \in Dialers, Dialer(e)
        PROVE  /\ UNCHANGED <<reported, legOf, winner, hungUp>>
               /\ \A d \in Dialers : \/ server'[d] = server[d] /\ (pc[d] # "new" => pc'[d] # "new")
                                     \/ /\ server[d] = "none" /\ server'[d] = "asked"
                                        /\ pc'[d] = "executing"
    BY <1>1, <1>2 DEF Dialer, Register, ExecuteThrows, ExecuteReturns, WaitReturns, Return
  <1>3. CASE Reader \/ ConnectionLost \/ UNCHANGED vars
    BY <1>3 DEF Reader, ReadReply, ReadDial, ReadState, ResolveDial, UnregisterCall,
       ConnectionLost, vars
  <1>4. QED
    BY <1>2, <1>3 DEF Client

LEMMA NextCases == [Next]_vars <=> Client \/ Server
  BY DEF Next, Client, Reader

LEMMA ServerKnowsStep == IInv /\ [Next]_vars => ServerKnows'
  <1> SUFFICES ASSUME IInv, [Next]_vars PROVE ServerKnows'
    OBVIOUS
  <1>0. Types /\ ServerKnows
    BY DEF IInv
  <1>1. CASE Client
    BY <1>0, <1>1, ClientServer DEF ServerKnows
  <1>2. CASE Server
    BY <1>0, <1>2, ServerStep
  <1>3. QED
    BY <1>1, <1>2, NextCases

LEMMA FramesAreTrueStep == IInv /\ [Next]_vars => FramesAreTrue'
  <1> SUFFICES ASSUME IInv, [Next]_vars, NEW f \in InFlight' PROVE FrameIsTrue(f)'
    BY DEF FramesAreTrue
  <1>0. /\ Types /\ ServerKnows /\ EndedIsLast
        /\ \A g \in InFlight : g \in Frame /\ FrameIsTrue(g)
    <2>1. inbox \in Seq(Frame)
      BY DEF IInv, Types
    <2>2. \A g \in InFlight : g \in Frame
      BY <2>1, LenProperties, ElementOfSeq DEF InFlight
    <2>3. QED
      BY <2>2 DEF IInv, FramesAreTrue
  <1>1. CASE Client
    <2>1. f \in InFlight
      BY <1>0, <1>1, ClientQueue
    <2>2. FrameIsTrue(f) /\ (f.type = "dial" => f.tag \in Dialers)
      BY <1>0, <2>1, FrameFields
    <2>3. QED
      BY <1>0, <1>1, <2>2, ClientServer DEF FrameIsTrue
  <1>2. CASE Server
    <2>1. PICK g \in Frame :
            /\ Sends(g) /\ FrameIsTrue(g)'
            /\ hungUp \subseteq hungUp' /\ reported \subseteq reported'
            /\ \A d \in Dialers :
                 /\ server[d] \in {"dialing", "over"} => server'[d] \in {"dialing", "over"}
                 /\ winner[d] # None => winner'[d] = winner[d]
      BY <1>0, <1>2, ServerStep
    <2>2. InFlight' = InFlight \cup {g}
      BY <1>0, <2>1, SendsFrame
    <2>3. CASE f \in InFlight
      <3>1. /\ FrameIsTrue(f) /\ (f.type = "dial" => f.tag \in Dialers)
            /\ f.type = "dial" /\ f.value = "answered" => f.leg \in Legs
        BY <1>0, <2>3, FrameFields
      <3>2. None \notin Legs
        BY ConstantsAssumption
      <3>3. QED
        BY <2>1, <3>1, <3>2 DEF FrameIsTrue
    <2>4. QED
      BY <2>1, <2>2, <2>3
  <1>3. QED
    BY <1>1, <1>2, NextCases

LEMMA EndedIsLastStep == IInv /\ [Next]_vars => EndedIsLast'
  <1> SUFFICES ASSUME IInv, [Next]_vars PROVE EndedIsLast'
    OBVIOUS
  <1>0. Types /\ ServerKnows /\ FramesAreTrue /\ EndedIsLast
    BY DEF IInv
  <1>1. CASE Client
    BY <1>0, <1>1, ClientQueue
  <1>2. CASE Server
    <2>1. PICK g \in Frame : Sends(g) /\ \A c \in hungUp : ~IsOf(g, c)
      BY <1>0, <1>2, ServerStep
    <2>2. /\ Len(inbox) \in Nat /\ Len(inbox') = Len(inbox) + 1
          /\ \A i \in 1..Len(inbox) : inbox'[i] = inbox[i]
          /\ inbox'[Len(inbox) + 1] = g
      BY <1>0, <2>1, SendsFrame
    <2> SUFFICES ASSUME NEW i \in 1..Len(inbox'), NEW j \in (i+1)..Len(inbox'),
                        inbox'[i].type = "state", inbox'[i].value = "ended"
                 PROVE  ~IsOf(inbox'[j], inbox'[i].leg)
      BY <2>2 DEF EndedIsLast, IsOf
    <2>3. i \in 1..Len(inbox) /\ inbox'[i] = inbox[i] /\ inbox[i] \in InFlight
      BY <2>2 DEF InFlight
    <2>4. CASE j \in 1..Len(inbox)
      BY <2>2, <2>3, <2>4 DEF EndedIsLast, IInv
    <2>5. CASE j = Len(inbox) + 1
      <3>1. inbox[i].leg \in hungUp
        BY <1>0, <2>3 DEF FramesAreTrue, FrameIsTrue
      <3>2. QED
        BY <2>1, <2>2, <2>3, <2>5, <3>1
    <2>6. QED
      BY <2>2, <2>4, <2>5
  <1>3. QED
    BY <1>1, <1>2, NextCases
-----------------------------------------------------------------------------
(* The read thread. *)

\* A dial event that the read thread takes.
LEMMA DialTaken ==
  ASSUME IInv, ReadDial
  PROVE  \E f \in InFlight :
           /\ f.type = "dial" /\ f.tag \in Dialers /\ reader = Idle
           /\ f.value \in {"answered", "dialing", "failed"}
           /\ f.value = "answered" => f.leg \in Legs /\ callState[f.leg] # "ended"
           /\ FrameIsTrue(f) /\ pc[f.tag] # "new"
           /\ UNCHANGED <<dialVars, promise, serverVars>>
           /\ \/ f.tag \notin pending /\ UNCHANGED <<pending, callVars>>
              \/ /\ f.tag \in pending /\ pending' = pending \ {f.tag}
                 /\ \/ UNCHANGED <<calls, callState>>
                       /\ (f.value = "answered" => f.leg \in calls)
                    \/ /\ f.value = "answered"
                       /\ calls' = calls \cup {f.leg}
                       /\ callState' = [callState EXCEPT ![f.leg] = "answered"]
                 /\ reader' = IF f.value \in {"answered", "failed"}
                                THEN [at |-> "resolving", dial |-> f.tag, value |-> DialResult(f)]
                                ELSE Idle
  <1> DEFINE f == Head(inbox)
  <1>0. Types /\ FramesAreTrue /\ EndedIsOver /\ ServerKnows
    BY DEF IInv
  <1>1. f \in InFlight /\ f \in Frame /\ f.type = "dial" /\ reader = Idle
    BY <1>0, TakesFrame DEF ReadDial, Takes
  <1>2. /\ f.tag \in Dialers /\ f.value \in {"answered", "dialing", "failed"}
        /\ f.value = "answered" => f.leg \in Legs
    BY <1>1, FrameFields
  <1>3. f.value = "answered" => callState[f.leg] # "ended"
    BY <1>0, <1>1, <1>2 DEF EndedIsOver, IsOf
  <1>4. FrameIsTrue(f) /\ pc[f.tag] # "new"
    BY <1>0, <1>1, <1>2 DEF FramesAreTrue, FrameIsTrue, ServerKnows
  <1>5. UNCHANGED <<dialVars, promise, serverVars>>
    BY DEF ReadDial
  <1>6. CASE f.tag \notin pending
    <2>1. UNCHANGED <<pending, callVars>>
      BY <1>6 DEF ReadDial
    <2>2. QED
      BY <1>1, <1>2, <1>3, <1>4, <1>5, <1>6, <2>1
  <1>7. CASE f.tag \in pending
    <2>1. /\ pending' = pending \ {f.tag}
          /\ reader' = IF f.value \in {"answered", "failed"}
                         THEN [at |-> "resolving", dial |-> f.tag, value |-> DialResult(f)]
                         ELSE Idle
          /\ IF f.value = "answered" /\ f.leg \notin calls
               THEN /\ calls' = calls \cup {f.leg}
                    /\ callState' = [callState EXCEPT ![f.leg] = "answered"]
               ELSE UNCHANGED <<calls, callState>>
      BY <1>7 DEF ReadDial, Erase, Adopt
    <2>2. QED
      BY <1>1, <1>2, <1>3, <1>4, <1>5, <1>7, <2>1
  <1>8. QED
    BY <1>6, <1>7

\* A state event that the read thread takes: nothing about a leg comes after its end.
LEMMA StateTaken ==
  ASSUME IInv, ReadState
  PROVE  \E f \in InFlight :
           /\ f.leg \in Legs /\ f.value \in {"ringing", "ended"} /\ reader = Idle
           /\ callState[f.leg] # "ended"
           /\ f.value = "ended" => f.leg \in hungUp /\ \A g \in InFlight' : ~IsOf(g, f.leg)
           /\ UNCHANGED <<dialVars, promise, pending, serverVars>>
           /\ \/ UNCHANGED <<calls, callState>> /\ reader' = Idle
              \/ /\ calls' = calls \cup {f.leg}
                 /\ callState' = [callState EXCEPT ![f.leg] = f.value]
                 /\ reader' = IF f.value = "ended" THEN [at |-> "ending", leg |-> f.leg]
                                                   ELSE Idle
  <1> DEFINE f == Head(inbox)
  <1>0. Types /\ FramesAreTrue /\ EndedIsLast /\ EndedIsOver
    BY DEF IInv
  <1>1. /\ f \in InFlight /\ f \in Frame /\ f.type = "state" /\ reader = Idle
        /\ f = inbox[1] /\ Len(inbox) \in Nat /\ Len(inbox) >= 1
        /\ Len(inbox') = Len(inbox) - 1
        /\ \A i \in 1..Len(inbox') : inbox'[i] = inbox[i+1]
    BY <1>0, TakesFrame DEF ReadState, Takes
  <1>2. f.leg \in Legs /\ f.value \in {"ringing", "ended"}
    BY <1>1, FrameFields
  <1>3. callState[f.leg] # "ended"
    BY <1>0, <1>1, <1>2 DEF EndedIsOver, IsOf
  <1>4. ASSUME f.value = "ended"
        PROVE  f.leg \in hungUp /\ \A g \in InFlight' : ~IsOf(g, f.leg)
    <2>1. f.leg \in hungUp
      BY <1>0, <1>1, <1>4 DEF FramesAreTrue, FrameIsTrue
    <2>2. \A j \in 2..Len(inbox) : ~IsOf(inbox[j], f.leg)
      <3>1. 1 \in 1..Len(inbox)
        BY <1>1
      <3>2. QED
        BY <1>0, <1>1, <1>4, <3>1 DEF EndedIsLast
    <2>3. \A i \in 1..Len(inbox') : i + 1 \in 2..Len(inbox)
      BY <1>1
    <2>4. QED
      BY <1>1, <2>1, <2>2, <2>3 DEF InFlight
  <1>5. UNCHANGED <<dialVars, promise, pending, serverVars>>
    BY DEF ReadState
  <1>6. \/ UNCHANGED <<calls, callState>> /\ reader' = Idle
        \/ /\ calls' = calls \cup {f.leg}
           /\ callState' = [callState EXCEPT ![f.leg] = f.value]
           /\ reader' = IF f.value = "ended" THEN [at |-> "ending", leg |-> f.leg] ELSE Idle
    BY DEF ReadState, Adopt
  <1>7. QED
    BY <1>1, <1>2, <1>3, <1>4, <1>5, <1>6

LEMMA EndedIsOverStep == IInv /\ [Next]_vars => EndedIsOver'
  <1> SUFFICES ASSUME IInv, [Next]_vars, NEW c \in Legs, callState'[c] = "ended"
               PROVE  c \in hungUp' /\ \A f \in InFlight' : ~IsOf(f, c)
    BY DEF EndedIsOver, IsOf
  <1>0. Types /\ ServerKnows /\ EndedIsLast /\ EndedIsOver
    BY DEF IInv
  <1>1. CASE ReadDial
    <2>1. PICK f \in InFlight :
            /\ f.value = "answered" => f.leg \in Legs
            /\ \/ UNCHANGED callVars
               \/ UNCHANGED <<calls, callState>>
               \/ /\ f.value = "answered"
                  /\ callState' = [callState EXCEPT ![f.leg] = "answered"]
      BY <1>1, DialTaken
    <2>2. callState[c] = "ended"
      BY <1>0, <2>1 DEF Types, TypeOK, callVars
    <2>3. InFlight' \subseteq InFlight /\ hungUp' = hungUp
      BY <1>0, <1>1, ClientQueue, ClientServer DEF Client, Reader
    <2>4. QED
      BY <1>0, <2>2, <2>3 DEF EndedIsOver
  <1>2. CASE ReadState
    <2>1. PICK f \in InFlight :
            /\ f.leg \in Legs
            /\ f.value = "ended" => f.leg \in hungUp /\ \A g \in InFlight' : ~IsOf(g, f.leg)
            /\ callState' = callState \/ callState' = [callState EXCEPT ![f.leg] = f.value]
      BY <1>2, StateTaken
    <2>2. InFlight' \subseteq InFlight /\ hungUp' = hungUp
      BY <1>0, <1>2, ClientQueue, ClientServer DEF Client, Reader
    <2>3. CASE callState[c] = "ended"
      BY <1>0, <2>2, <2>3 DEF EndedIsOver
    <2>4. CASE callState[c] # "ended"
      <3>1. f.leg = c /\ f.value = "ended"
        BY <1>0, <2>1, <2>4 DEF Types, TypeOK
      <3>2. QED
        BY <2>1, <2>2, <3>1
    <2>5. QED
      BY <2>3, <2>4
  <1>3. CASE Client /\ ~ReadDial /\ ~ReadState
    <2>1. callState' = callState
      BY <1>3 DEF Client, Dialer, Register, ExecuteThrows, ExecuteReturns, WaitReturns,
         Return, Reader, ReadReply, ResolveDial, UnregisterCall, ConnectionLost, callVars,
         vars
    <2>2. InFlight' \subseteq InFlight /\ hungUp' = hungUp
      BY <1>0, <1>3, ClientQueue, ClientServer
    <2>3. QED
      BY <1>0, <2>1, <2>2 DEF EndedIsOver
  <1>4. CASE Server
    <2>1. PICK g \in Frame :
            /\ Sends(g) /\ \A b \in hungUp : ~IsOf(g, b)
            /\ hungUp \subseteq hungUp' /\ callState' = callState
      BY <1>0, <1>4, ServerStep DEF callVars
    <2>2. InFlight' = InFlight \cup {g}
      BY <1>0, <2>1, SendsFrame
    <2>3. QED
      BY <1>0, <2>1, <2>2 DEF EndedIsOver
  <1>5. QED
    BY <1>1, <1>2, <1>3, <1>4, NextCases

LEMMA EndedIsForgottenStep ==
  IInv /\ [Next]_vars => EndedIsForgotten' /\ EndingIsEnded'
  <1> SUFFICES ASSUME IInv, [Next]_vars PROVE EndedIsForgotten' /\ EndingIsEnded'
    OBVIOUS
  <1>0. Types /\ EndedIsForgotten /\ EndingIsEnded /\ Idle.at = "idle"
    BY DEF IInv, Idle
  <1> USE DEF callVars
  <1>1. CASE ReadDial
    <2>1. PICK f \in InFlight :
            /\ reader = Idle
            /\ \/ UNCHANGED callVars
               \/ /\ \/ UNCHANGED <<calls, callState>>
                     \/ /\ calls' = calls \cup {f.leg} /\ f.leg \in Legs
                        /\ callState' = [callState EXCEPT ![f.leg] = "answered"]
                  /\ reader' = IF f.value \in {"answered", "failed"}
                       THEN [at |-> "resolving", dial |-> f.tag, value |-> DialResult(f)]
                       ELSE Idle
      BY <1>1, DialTaken
    <2>2. reader'.at # "ending"
      BY <1>0, <2>1
    <2>3. \A c \in calls : callState[c] # "ended"
      BY <1>0, <2>1 DEF EndedIsForgotten
    <2>4. \A c \in calls' : callState'[c] # "ended"
      BY <1>0, <2>1, <2>3 DEF Types, TypeOK
    <2>5. QED
      BY <2>2, <2>4 DEF EndedIsForgotten, EndingIsEnded
  <1>2. CASE ReadState
    <2>1. PICK f \in InFlight :
            /\ f.leg \in Legs /\ reader = Idle
            /\ \/ UNCHANGED <<calls, callState>> /\ reader' = Idle
               \/ /\ calls' = calls \cup {f.leg}
                  /\ callState' = [callState EXCEPT ![f.leg] = f.value]
                  /\ reader' = IF f.value = "ended" THEN [at |-> "ending", leg |-> f.leg]
                                                    ELSE Idle
      BY <1>2, StateTaken
    <2>2. \A c \in calls : callState[c] # "ended"
      BY <1>0, <2>1 DEF EndedIsForgotten
    <2>3. \A c \in calls' : callState'[c] = "ended" => reader' = [at |-> "ending", leg |-> c]
      BY <1>0, <2>1, <2>2 DEF Types, TypeOK
    <2>4. reader'.at = "ending" => callState'[reader'.leg] = "ended"
      BY <1>0, <2>1 DEF Types, TypeOK
    <2>5. QED
      BY <2>3, <2>4 DEF EndedIsForgotten, EndingIsEnded
  <1>3. CASE UnregisterCall \/ ResolveDial
    <2>1. reader' = Idle /\ callState' = callState
      BY <1>3 DEF UnregisterCall, ResolveDial
    <2>2. \A c \in calls' : callState[c] # "ended"
      BY <1>0, <1>3 DEF UnregisterCall, Unregister, ResolveDial, EndedIsForgotten
    <2>3. QED
      BY <1>0, <2>1, <2>2 DEF EndedIsForgotten, EndingIsEnded
  <1>4. CASE UNCHANGED callVars
    BY <1>0, <1>4 DEF EndedIsForgotten, EndingIsEnded
  <1>5. QED
    BY <1>1, <1>2, <1>3, <1>4
    DEF Next, Dialer, Register, ExecuteThrows, ExecuteReturns, WaitReturns, Return, Server,
        ServerReplies, ServerReportsProgress, ServerGivesUp, ServerRings, ServerAnswers,
        ServerEndsLeg, Reader, ReadReply, ConnectionLost, vars
-----------------------------------------------------------------------------
(* Promises and entries. *)

LEMMA NoneIsNothing == None # NoCall /\ None \notin Legs
  BY ConstantsAssumption

\* What a thread in dial() does: it enters its own tag first, and erases it last.
LEMMA DialerStep ==
  ASSUME Types, NEW d \in Dialers, Dialer(d)
  PROVE  /\ UNCHANGED <<replied, promise, callVars, reported, legOf, winner, hungUp, inbox>>
         /\ \A e \in Dialers : e # d => pc'[e] = pc[e] /\ outcome'[e] = outcome[e]
         /\ \/ /\ pc[d] = "new" /\ pc'[d] = "executing"
               /\ pending' = pending \cup {d} /\ outcome' = outcome
            \/ /\ pc[d] = "executing" /\ pc'[d] = "waiting"
               /\ pending' = pending /\ outcome' = outcome
            \/ /\ pc[d] = "waiting" /\ pending' = pending /\ outcome' = outcome
               /\ pc'[d] = IF promise[d] # None THEN "ready" ELSE "expired"
            \/ /\ pc[d] # "new" /\ pc'[d] = "done" /\ pending' = pending \ {d}
               /\ outcome'[d] = NoCall \/ outcome'[d] = promise[d]
  <1> USE DEF Types, TypeOK, dialVars, callVars, serverVars
  <1>1. CASE Register(d)
    BY <1>1 DEF Register
  <1>2. CASE ExecuteThrows(d)
    BY <1>2 DEF ExecuteThrows, Erase
  <1>3. CASE ExecuteReturns(d)
    BY <1>3 DEF ExecuteReturns
  <1>4. CASE WaitReturns(d)
    BY <1>4 DEF WaitReturns
  <1>5. CASE Return(d)
    BY <1>5 DEF Return, Erase
  <1>6. QED
    BY <1>1, <1>2, <1>3, <1>4, <1>5 DEF Dialer

LEMMA PromisesAreTrueStep == IInv /\ [Next]_vars => PromisesAreTrue'
  <1> SUFFICES ASSUME IInv, [Next]_vars PROVE PromisesAreTrue'
    OBVIOUS
  <1>0. Types /\ ServerKnows /\ PromisesAreTrue /\ Idle.at = "idle"
    BY DEF IInv, Idle
  <1> USE NoneIsNothing DEF Settled
  <1>1. ASSUME NEW d \in Dialers, Dialer(d) PROVE PromisesAreTrue'
    <2>1. UNCHANGED <<promise, reader, winner>>
      BY <1>0, <1>1, DialerStep DEF callVars
    <2>2. \A e \in Dialers : pc[e] # "new" /\ e \notin pending =>
                               pc'[e] # "new" /\ e \notin pending'
      BY <1>0, <1>1, DialerStep
    <2>3. \A e \in Dialers : pc'[e] = "ready" => promise[e] # None
      BY <1>0, <1>1, DialerStep DEF PromisesAreTrue
    <2>4. reader.at = "resolving" => reader.dial \in Dialers
      BY <1>0, HandlerFields DEF Types
    <2>5. QED
      BY <1>0, <2>1, <2>2, <2>3, <2>4 DEF PromisesAreTrue
  <1>2. CASE Server
    <2>1. /\ UNCHANGED <<pc, promise, pending, reader>>
          /\ \A d \in Dialers : winner[d] # None => winner'[d] = winner[d]
      BY <1>0, <1>2, ServerStep DEF dialVars, callVars
    <2>2. reader.at = "resolving" => reader.dial \in Dialers /\ reader.value # None
      BY <1>0, HandlerFields DEF Types
    <2>3. QED
      BY <1>0, <2>1, <2>2 DEF PromisesAreTrue
  <1>3. CASE ReadDial
    <2>1. PICK f \in InFlight :
            /\ f.tag \in Dialers /\ reader = Idle
            /\ f.type = "dial" /\ FrameIsTrue(f) /\ pc[f.tag] # "new"
            /\ UNCHANGED <<dialVars, promise, serverVars>>
            /\ \/ f.tag \notin pending /\ UNCHANGED <<pending, callVars>>
               \/ /\ f.tag \in pending /\ pending' = pending \ {f.tag}
                  /\ reader' = IF f.value \in {"answered", "failed"}
                       THEN [at |-> "resolving", dial |-> f.tag, value |-> DialResult(f)]
                       ELSE Idle
      BY <1>3, DialTaken
    <2>2. /\ UNCHANGED <<pc, promise, winner>> /\ pending' \subseteq pending
          /\ reader'.at = "resolving" =>
               /\ reader'.dial = f.tag /\ f.tag \notin pending'
               /\ reader'.value = DialResult(f)
      BY <1>0, <2>1 DEF dialVars, serverVars, callVars
    <2>3. DialResult(f) \in {NoCall, winner[f.tag]}
      BY <2>1 DEF DialResult, FrameIsTrue
    <2>4. QED
      BY <1>0, <2>1, <2>2, <2>3 DEF PromisesAreTrue
  <1>4. CASE ResolveDial
    <2>1. reader.at = "resolving" /\ reader.dial \in Dialers /\ reader.value # None
      BY <1>0, <1>4, HandlerFields DEF ResolveDial, Types
    <2>2. /\ reader' = Idle /\ UNCHANGED <<pc, pending, winner>>
          /\ promise' = [promise EXCEPT ![reader.dial] = reader.value]
      BY <1>4 DEF ResolveDial, dialVars, serverVars
    <2>3. QED
      BY <1>0, <2>1, <2>2 DEF PromisesAreTrue, Types, TypeOK
  <1>5. CASE ConnectionLost
    <2>1. /\ UNCHANGED <<pc, winner, reader>> /\ reader = Idle /\ pending' = {}
          /\ promise' = [d \in Dialers |-> IF d \in pending THEN NoCall ELSE promise[d]]
      BY <1>5 DEF ConnectionLost, RejectDials, callVars, serverVars
    <2>2. \A d \in pending : pc[d] # "new"
      BY DEF IInv, PendingHasDialer
    <2>3. QED
      BY <1>0, <2>1, <2>2 DEF PromisesAreTrue
  <1>6. CASE ReadReply \/ ReadState \/ UnregisterCall \/ UNCHANGED vars
    <2>1. UNCHANGED <<pc, promise, pending, winner>> /\ (reader' = reader \/ reader'.at # "resolving")
      BY <1>0, <1>6 DEF ReadReply, ReadState, UnregisterCall, dialVars, callVars, serverVars, vars
    <2>2. QED
      BY <1>0, <2>1 DEF PromisesAreTrue
  <1>7. QED
    BY <1>1, <1>2, <1>3, <1>4, <1>5, <1>6 DEF Next, Reader

LEMMA PendingHasDialerStep == IInv /\ [Next]_vars => PendingHasDialer'
  <1> SUFFICES ASSUME IInv, [Next]_vars PROVE PendingHasDialer'
    OBVIOUS
  <1>0. Types /\ PromisesAreTrue /\ PendingHasDialer /\ pending \subseteq Dialers
    BY DEF IInv, Types, TypeOK
  <1>1. ASSUME NEW d \in Dialers, Dialer(d) PROVE PendingHasDialer'
    <2>1. d \in pending => promise[d] = None
      BY <1>0 DEF PromisesAreTrue, Settled
    <2>2. \A e \in pending' : e \in pending \/ e = d
      BY <1>0, <1>1, DialerStep
    <2>3. \A e \in pending : e # d => pc'[e] = pc[e]
      BY <1>0, <1>1, DialerStep
    <2>4. d \in pending' => pc'[d] \in {"executing", "waiting", "expired"}
      BY <1>0, <1>1, <2>1, DialerStep DEF PendingHasDialer
    <2>5. QED
      BY <1>0, <2>2, <2>3, <2>4 DEF PendingHasDialer
  <1>2. CASE Server \/ Reader \/ ConnectionLost \/ UNCHANGED vars
    <2>1. pc' = pc /\ pending' \subseteq pending
      BY <1>2
      DEF Server, ServerReplies, ServerReportsProgress, ServerGivesUp, ServerRings,
          ServerAnswers, ServerEndsLeg, Reader, ReadReply, ReadDial, Erase, ResolveDial,
          ReadState, UnregisterCall, ConnectionLost, RejectDials, dialVars, vars
    <2>2. QED
      BY <1>0, <2>1 DEF PendingHasDialer
  <1>3. QED
    BY <1>1, <1>2 DEF Next

LEMMA WaiterIsPendingStep == IInv /\ [Next]_vars => WaiterIsPending'
  <1> DEFINE Found(d) == \/ d \in pending \cup reported
                         \/ reader.at = "resolving" /\ reader.dial = d
  <1> SUFFICES ASSUME IInv, [Next]_vars, NEW d \in Dialers, InDial(d)', promise'[d] = None
               PROVE  Found(d)'
    BY DEF WaiterIsPending, InDial
  <1>0. /\ Types /\ ServerKnows /\ Idle.at = "idle"
        /\ pc[d] \in {"executing", "waiting"} /\ promise[d] = None => Found(d)
    BY DEF IInv, WaiterIsPending, InDial, Idle
  <1>1. ASSUME NEW e \in Dialers, Dialer(e) PROVE Found(d)'
    <2>1. UNCHANGED <<promise, reader, reported>>
      BY <1>0, <1>1, DialerStep DEF callVars
    <2>2. CASE e = d
      BY <1>0, <1>1, <2>1, <2>2, DialerStep DEF InDial
    <2>3. CASE e # d
      BY <1>0, <1>1, <2>1, <2>3, DialerStep DEF InDial
    <2>4. QED
      BY <2>2, <2>3
  <1>2. CASE Server
    <2>1. UNCHANGED <<pc, promise, pending, reader>> /\ reported \subseteq reported'
      BY <1>0, <1>2, ServerStep DEF dialVars, callVars
    <2>2. QED
      BY <1>0, <2>1 DEF InDial
  <1>3. CASE ReadDial
    <2>1. PICK f \in InFlight :
            /\ f.value \in {"answered", "dialing", "failed"} /\ f.type = "dial"
            /\ FrameIsTrue(f) /\ reader = Idle
            /\ UNCHANGED <<dialVars, promise, serverVars>>
            /\ \/ f.tag \notin pending /\ UNCHANGED <<pending, callVars>>
               \/ /\ f.tag \in pending /\ pending' = pending \ {f.tag}
                  /\ reader' = IF f.value \in {"answered", "failed"}
                       THEN [at |-> "resolving", dial |-> f.tag, value |-> DialResult(f)]
                       ELSE Idle
      BY <1>3, DialTaken
    <2>2. UNCHANGED <<pc, promise, reported>> /\ d \in pending \cup reported
      BY <1>0, <2>1 DEF dialVars, serverVars, InDial
    <2>3. d = f.tag => d \in reported \/ f.value # "dialing"
      BY <2>1 DEF FrameIsTrue
    <2>4. QED
      BY <2>1, <2>2, <2>3
  <1>4. CASE ResolveDial
    <2>1. /\ reader.at = "resolving" /\ reader.dial \in Dialers /\ reader.value # None
      BY <1>0, <1>4, HandlerFields, NoneIsNothing DEF ResolveDial, Types
    <2>2. /\ UNCHANGED <<pc, pending, reported>>
          /\ promise' = [promise EXCEPT ![reader.dial] = reader.value]
      BY <1>4 DEF ResolveDial, dialVars, serverVars
    <2>3. promise[d] = None /\ reader.dial # d
      BY <1>0, <2>1, <2>2 DEF Types, TypeOK
    <2>4. QED
      BY <1>0, <2>2, <2>3 DEF InDial
  <1>5. CASE ConnectionLost
    <2>1. /\ UNCHANGED <<pc, reported>> /\ reader = Idle
          /\ promise'[d] = IF d \in pending THEN NoCall ELSE promise[d]
      BY <1>5 DEF ConnectionLost, RejectDials, callVars, serverVars
    <2>2. QED
      BY <1>0, <2>1, NoneIsNothing DEF InDial
  <1>6. CASE ReadReply \/ ReadState \/ UnregisterCall \/ UNCHANGED vars
    <2>1. /\ UNCHANGED <<pc, promise, pending, reported>>
          /\ reader.at = "resolving" => reader' = reader
      BY <1>0, <1>6
      DEF ReadReply, ReadState, Takes, UnregisterCall, dialVars, callVars, serverVars, vars
    <2>2. QED
      BY <1>0, <2>1 DEF InDial
  <1>7. QED
    BY <1>1, <1>2, <1>3, <1>4, <1>5, <1>6 DEF Next, Reader

LEMMA OutcomeIsTrueStep == IInv /\ [Next]_vars => OutcomeIsTrue'
  <1> SUFFICES ASSUME IInv, [Next]_vars, NEW d \in Dialers
               PROVE  outcome'[d] \in {None, NoCall, winner'[d]}
    BY DEF OutcomeIsTrue
  <1>0. /\ Types /\ ServerKnows /\ outcome[d] \in {None, NoCall, winner[d]}
        /\ promise[d] \in {None, NoCall, winner[d]}
    BY DEF IInv, OutcomeIsTrue, PromisesAreTrue, Settled
  <1>1. ASSUME NEW e \in Dialers, Dialer(e)
        PROVE  outcome'[d] \in {None, NoCall, winner'[d]}
    BY <1>0, <1>1, DialerStep
  <1>2. CASE Server
    <2>1. outcome' = outcome /\ (winner[d] # None => winner'[d] = winner[d])
      BY <1>0, <1>2, ServerStep DEF dialVars
    <2>2. QED
      BY <1>0, <2>1
  <1>3. CASE Reader \/ ConnectionLost \/ UNCHANGED vars
    <2>1. UNCHANGED <<outcome, winner>>
      BY <1>3 DEF Reader, ReadReply, ReadDial, ResolveDial, ReadState, UnregisterCall,
         ConnectionLost, dialVars, serverVars, vars
    <2>2. QED
      BY <1>0, <2>1
  <1>4. QED
    BY <1>1, <1>2, <1>3 DEF Next
-----------------------------------------------------------------------------
(* Routing. *)

\* A leg stays routed until it has ended, and remains ended.
LEMMA RoutedStep ==
  ASSUME IInv, [Next]_vars, NEW c \in Legs, Routed(c)
  PROVE  Routed(c)'
  <1>0. Types
    BY DEF IInv
  <1>1. CASE ReadDial
    <2>1. PICK f \in InFlight :
            /\ f.value = "answered" => f.leg \in Legs /\ callState[f.leg] # "ended"
            /\ \/ UNCHANGED callVars
               \/ UNCHANGED <<calls, callState>>
               \/ /\ f.value = "answered"
                  /\ calls' = calls \cup {f.leg}
                  /\ callState' = [callState EXCEPT ![f.leg] = "answered"]
      BY <1>1, DialTaken
    <2>2. QED
      BY <1>0, <2>1 DEF Routed, callVars, Types, TypeOK
  <1>2. CASE ReadState
    <2>1. PICK f \in InFlight :
            /\ f.leg \in Legs
            /\ \/ UNCHANGED <<calls, callState>>
               \/ /\ calls' = calls \cup {f.leg}
                  /\ callState' = [callState EXCEPT ![f.leg] = f.value]
      BY <1>2, StateTaken
    <2>2. QED
      BY <1>0, <2>1 DEF Routed, Types, TypeOK
  <1>3. CASE UnregisterCall
    <2>1. callState[reader.leg] = "ended"
      BY <1>3 DEF UnregisterCall, IInv, EndingIsEnded
    <2>2. QED
      BY <1>3, <2>1 DEF UnregisterCall, Unregister, Routed
  <1>4. CASE UNCHANGED <<calls, callState>>
    BY <1>4 DEF Routed
  <1>5. QED
    BY <1>1, <1>2, <1>3, <1>4
    DEF Next, Dialer, Register, ExecuteThrows, ExecuteReturns, WaitReturns, Return, Server,
        ServerReplies, ServerReportsProgress, ServerGivesUp, ServerRings, ServerAnswers,
        ServerEndsLeg, Reader, ReadReply, ResolveDial, ConnectionLost, callVars, vars

LEMMA LegsAreRoutedStep == IInv /\ [Next]_vars => LegsAreRouted' /\ ReturnedCallIsRouted'
  <1> SUFFICES ASSUME IInv, [Next]_vars PROVE LegsAreRouted' /\ ReturnedCallIsRouted'
    OBVIOUS
  <1>0. Types /\ LegsAreRouted /\ NoCall \notin Legs /\ Idle.at = "idle"
    BY ConstantsAssumption DEF IInv, Idle
  <1>1. /\ \A d \in Dialers : outcome[d] \in Legs => Routed(outcome[d])
        /\ \A c \in Legs : Routed(c) => c \in calls' \/ callState'[c] = "ended"
    BY RoutedStep DEF IInv, ReturnedCallIsRouted, Routed
  <1>2. \A d \in Dialers : promise'[d] \in Legs =>
          \/ promise'[d] = promise[d]
          \/ reader.at = "resolving" /\ promise'[d] = reader.value
    <2>1. CASE ResolveDial
      BY <1>0, <2>1 DEF ResolveDial, Types, TypeOK
    <2>2. CASE ConnectionLost
      BY <1>0, <2>2 DEF ConnectionLost, RejectDials
    <2>3. CASE promise' = promise
      BY <2>3
    <2>4. QED
      BY <2>1, <2>2, <2>3
      DEF Next, Dialer, Register, ExecuteThrows, ExecuteReturns, WaitReturns, Return, Server,
          ServerReplies, ServerReportsProgress, ServerGivesUp, ServerRings, ServerAnswers,
          ServerEndsLeg, Reader, ReadReply, ReadDial, ReadState, UnregisterCall, vars
  <1>3. reader'.at = "resolving" /\ reader'.value \in Legs =>
          reader' = reader \/ reader'.value \in calls'
    <2>1. CASE ReadDial
      <3>1. PICK f \in InFlight :
              \/ UNCHANGED <<pending, callVars>>
              \/ /\ \/ /\ UNCHANGED <<calls, callState>>
                       /\ f.value = "answered" => f.leg \in calls
                    \/ calls' = calls \cup {f.leg}
                 /\ reader' = IF f.value \in {"answered", "failed"}
                      THEN [at |-> "resolving", dial |-> f.tag, value |-> DialResult(f)]
                      ELSE Idle
        BY <2>1, DialTaken
      <3>2. CASE reader' = reader
        BY <3>2
      <3>3. CASE reader' # reader
        <4>1. reader'.at = "resolving" => reader'.value = DialResult(f)
          BY <1>0, <3>1, <3>3 DEF callVars
        <4>2. DialResult(f) \in Legs => f.value = "answered" /\ DialResult(f) = f.leg
          BY <1>0 DEF DialResult
        <4>3. f.value = "answered" => f.leg \in calls'
          BY <3>1, <3>3 DEF callVars
        <4>4. QED
          BY <4>1, <4>2, <4>3
      <3>4. QED
        BY <3>2, <3>3
    <2>2. CASE ReadState
      BY <1>0, <2>2 DEF ReadState
    <2>3. CASE reader' = reader \/ reader' = Idle
      BY <1>0, <2>3
    <2>4. QED
      BY <2>1, <2>2, <2>3
      DEF Next, Dialer, Register, ExecuteThrows, ExecuteReturns, WaitReturns, Return, Server,
          ServerReplies, ServerReportsProgress, ServerGivesUp, ServerRings, ServerAnswers,
          ServerEndsLeg, Reader, ReadReply, ResolveDial, UnregisterCall, ConnectionLost,
          callVars, vars
  <1>4. \A d \in Dialers : outcome'[d] \in Legs =>
          outcome'[d] = outcome[d] \/ outcome'[d] = promise[d]
    <2>1. ASSUME NEW e \in Dialers, Dialer(e), NEW d \in Dialers, outcome'[d] \in Legs
          PROVE  outcome'[d] = outcome[d] \/ outcome'[d] = promise[d]
      BY <1>0, <2>1, DialerStep
    <2>2. CASE outcome' = outcome
      BY <2>2
    <2>3. QED
      BY <2>1, <2>2
      DEF Next, Server, ServerReplies, ServerReportsProgress, ServerGivesUp, ServerRings,
          ServerAnswers, ServerEndsLeg, Reader, ReadReply, ReadDial, ReadState, ResolveDial,
          UnregisterCall, ConnectionLost, dialVars, vars
  <1>5. reader'.at = "resolving" /\ reader'.value \in Legs =>
          reader'.value \in calls' \/ callState'[reader'.value] = "ended"
    BY <1>0, <1>1, <1>3 DEF LegsAreRouted
  <1>6. \A d \in Dialers : promise'[d] \in Legs =>
          promise'[d] \in calls' \/ callState'[promise'[d]] = "ended"
    BY <1>0, <1>1, <1>2 DEF LegsAreRouted
  <1>7. \A d \in Dialers : outcome'[d] \in Legs =>
          outcome'[d] \in calls' \/ callState'[outcome'[d]] = "ended"
    BY <1>0, <1>1, <1>4 DEF LegsAreRouted
  <1>8. QED
    BY <1>5, <1>6, <1>7 DEF LegsAreRouted, ReturnedCallIsRouted, Routed
-----------------------------------------------------------------------------
LEMMA InitIInv == Init => IInv
  <1> SUFFICES ASSUME Init PROVE IInv
    OBVIOUS
  <1>1. Len(inbox) = 0 /\ InFlight = {}
    BY EmptySeq DEF Init, InFlight
  <1>2. reader.at = "idle"
    BY DEF Init, Idle
  <1>3. ServerKnows /\ FramesAreTrue /\ EndedIsLast /\ EndedIsOver
    BY <1>1 DEF Init, ServerKnows, FramesAreTrue, EndedIsLast, EndedIsOver
  <1>4. PromisesAreTrue /\ EndingIsEnded /\ LegsAreRouted
    BY <1>2, NoneIsNothing DEF Init, PromisesAreTrue, EndingIsEnded, LegsAreRouted
  <1>5. /\ PendingHasDialer /\ WaiterIsPending /\ EndedIsForgotten
        /\ OutcomeIsTrue /\ ReturnedCallIsRouted
    BY NoneIsNothing DEF Init, PendingHasDialer, WaiterIsPending, InDial, EndedIsForgotten,
       OutcomeIsTrue, ReturnedCallIsRouted
  <1>6. QED
    BY <1>3, <1>4, <1>5, InitTypes DEF IInv

LEMMA StepIInv == IInv /\ [Next]_vars => IInv'
  <1>1. IInv => Types
    BY DEF IInv
  <1>2. QED
    BY <1>1, StepTypes, ServerKnowsStep, FramesAreTrueStep, EndedIsLastStep,
       EndedIsOverStep, EndedIsForgottenStep, PromisesAreTrueStep, PendingHasDialerStep,
       WaiterIsPendingStep, OutcomeIsTrueStep, LegsAreRoutedStep DEF IInv

LEMMA Invariance == SafeSpec => []IInv
  BY InitIInv, StepIInv, PTL DEF SafeSpec

\* pending_dials_ and calls_ are what dial() and the read thread need: an entry belongs
\* to a dial() that has not returned, a dial that waits can be found by the event it
\* waits for, and an ended call is not in calls_.
THEOREM TablesConsistent == SafeSpec => []TablesAreConsistent
  <1>1. IInv => TablesAreConsistent
    BY DEF IInv, Types, TablesAreConsistent
  <1>2. QED
    BY <1>1, Invariance, PTL

\* dial() returns the leg with which the server has answered that dial, or nullptr,
\* whichever of timeout, loss and calling.call.dial comes first.
THEOREM OutcomesTrue == SafeSpec => []OutcomeIsTrue
  <1>1. IInv => OutcomeIsTrue
    BY DEF IInv
  <1>2. QED
    BY <1>1, Invariance, PTL

\* Events reach the Call that dial() has returned until its leg has ended: it is the
\* object registered in calls_.
THEOREM ReturnedCallsRouted == SafeSpec => []ReturnedCallIsRouted
  <1>1. IInv => ReturnedCallIsRouted
    BY DEF IInv
  <1>2. QED
    BY <1>1, Invariance, PTL
=============================================================================
