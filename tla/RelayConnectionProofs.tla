----------------------- MODULE RelayConnectionProofs -----------------------
(***************************************************************************)
(* Theorems about RelayConnection, for any sessions, delays, attempts and    *)
(* bound on the frames in flight: its types, the backoff of reconnect(), the *)
(* meaning of connected_, and the credentials of signalwire.connect.         *)
(*                                                                         *)
(* The schedule needs facts about powers of two, which are proved here by    *)
(* counting subsets.                                                        *)
(***************************************************************************)
EXTENDS MCRelayConnection, SequenceTheorems, FiniteSetTheorems, FunctionTheorems, TLAPS

\* The frames on their way to the client.
InFlight == {inbox[i] : i \in 1..Len(inbox)}

\* What the thread in run() does between the start of a dial and its outcome.
Attempting == {"dialing", "sending", "waiting", "storing", "authenticated", "rejected",
               "joining"}

\* The delay is that of the failures so far; it lags behind attempts from the moment
\* an attempt is counted until its outcome is known.
DelayFits ==
    /\ attempts <= MaxAttempts
    /\ main \in {"looping", "deciding"} => delay = Backoff(attempts)
    /\ mode = "connect" /\ main \in Attempting \cup {"idle", "starting"} =>
         attempts = 0 /\ delay = BaseDelay
    /\ mode = "reconnect" /\ main \in Attempting \cup {"sleeping", "replacing"} =>
         attempts >= 1 /\ delay = Backoff(attempts - 1)
    /\ main \in {"idle", "starting"} => mode = "connect"
    /\ main \in {"sleeping", "replacing", "deciding"} => mode = "reconnect"

\* Only disconnect() clears running_ once run() has set it.
StillRunning == app = "idle" /\ (mode = "reconnect" \/ main = "looping") => running

\* connected_ is set when an attempt has succeeded and cleared before the next one.
ConnectedWhen == connected => main \in {"starting", "looping", "stopped"}

\* The promise of signalwire.connect is in use only while the thread waits for it.
PromiseInUse == auth # "none" => main = "waiting"

HasAccepted == server \in {"accepted", "leaving"}

\* The server of this socket has sent every acceptance that is on its way, and the one
\* that the thread is acting on.
AcceptsAreReal ==
    /\ main = "sending" /\ ws = "open" => server = "none"
    /\ \A f \in InFlight : f.type = "accept" => HasAccepted
    /\ ws = "open" /\ ((main = "waiting" /\ Accepted) \/ main \in {"storing", "authenticated"}) =>
         HasAccepted

IInv == /\ TypeOK
        /\ DelayFits /\ StillRunning /\ GivesUpLast
        /\ ConnectedWhen /\ PromiseInUse /\ AcceptsAreReal /\ ConnectedIsAccepted
-----------------------------------------------------------------------------
(* Frames and queues. *)

LEMMA FrameParts ==
  ASSUME NEW f \in Frames
  PROVE  /\ f.type \in {"accept", "push", "refuse", "restart"}
         /\ f.protocol \in Sessions \cup {None}
         /\ f.auth \in AuthStates \cup {None}
  BY DEF Frames, Accept, Push, Plain

LEMMA FramesMade ==
  /\ \A p \in Sessions, a \in AuthStates \cup {None} : Accept(p, a) \in Frames
  /\ \A a \in AuthStates : Push(a) \in Frames
  /\ Plain("refuse") \in Frames /\ Plain("restart") \in Frames
  BY DEF Frames

LEMMA TakenFrame ==
  ASSUME inbox \in Seq(Frames), inbox # <<>>, inbox' = Tail(inbox)
  PROVE  /\ Head(inbox) \in InFlight /\ Head(inbox) \in Frames
         /\ inbox' \in Seq(Frames) /\ InFlight' \subseteq InFlight
  <1>1. Len(inbox) \in Nat /\ Len(inbox) >= 1 /\ Head(inbox) = inbox[1]
    BY EmptySeq, LenProperties
  <1>2. /\ Head(inbox) \in Frames /\ inbox' \in Seq(Frames)
        /\ Len(inbox') = Len(inbox) - 1
        /\ \A i \in 1..Len(inbox') : inbox'[i] = inbox[i+1]
    BY HeadTailProperties
  <1>3. \A i \in 1..Len(inbox') : i + 1 \in 1..Len(inbox)
    BY <1>1, <1>2
  <1>4. QED
    BY <1>1, <1>2, <1>3 DEF InFlight

LEMMA SentFrame ==
  ASSUME inbox \in Seq(Frames), NEW f \in Frames, inbox' = Append(inbox, f)
  PROVE  inbox' \in Seq(Frames) /\ InFlight' = InFlight \cup {f}
  <1>1. Len(inbox) \in Nat
    BY LenProperties
  <1>2. /\ inbox' \in Seq(Frames) /\ Len(inbox') = Len(inbox) + 1
        /\ \A i \in 1..Len(inbox) : inbox'[i] = inbox[i]
        /\ inbox'[Len(inbox) + 1] = f
    BY AppendProperties
  <1>3. QED
    BY <1>1, <1>2 DEF InFlight

LEMMA LostFrames ==
  ASSUME inbox \in Seq(Frames), NEW n \in 0..Len(inbox), inbox' = SubSeq(inbox, 1, n)
  PROVE  inbox' \in Seq(Frames) /\ InFlight' \subseteq InFlight
  <1>1. Len(inbox) \in Nat /\ \A i \in 1..n : inbox[i] \in Frames
    BY LenProperties, ElementOfSeq
  <1>2. /\ inbox' \in Seq(Frames) /\ Len(inbox') = n
        /\ \A i \in 1..n : inbox'[i] = inbox[i]
    <2>1. /\ SubSeq(inbox, 1, n) \in Seq(Frames)
          /\ Len(SubSeq(inbox, 1, n)) = IF 1 <= n THEN n - 1 + 1 ELSE 0
          /\ \A i \in 1..(n - 1 + 1) : SubSeq(inbox, 1, n)[i] = inbox[1 + i - 1]
      BY <1>1, SubSeqProperties
    <2>2. QED
      BY <1>1, <2>1
  <1>3. QED
    BY <1>1, <1>2 DEF InFlight

LEMMA NoFrames ==
  ASSUME inbox' = <<>>
  PROVE  inbox' \in Seq(Frames) /\ InFlight' = {}
  <1>1. inbox' \in Seq(Frames) /\ Len(inbox') = 0
    BY EmptySeq
  <1>2. QED
    BY <1>1 DEF InFlight


\* A step of any thread, or a loss, takes frames away.
LEMMA QueueShrinks ==
  ASSUME TypeOK, Main \/ Reader \/ LinkDies \/ Disconnect \/ UNCHANGED vars
  PROVE  inbox' \in Seq(Frames) /\ InFlight' \subseteq InFlight
  <1>0. inbox \in Seq(Frames)
    BY DEF TypeOK
  <1>1. ASSUME inbox' = inbox PROVE inbox' \in Seq(Frames) /\ InFlight' \subseteq InFlight
    BY <1>0, <1>1 DEF InFlight
  <1>2. ASSUME inbox' = <<>> PROVE inbox' \in Seq(Frames) /\ InFlight' \subseteq InFlight
    BY <1>2, NoFrames
  <1>3. CASE Main
    <2>1. inbox' = inbox \/ inbox' = <<>>
      BY <1>3 DEF Main, Run, DialSucceeds, DialFails, SendConnect, ConnectAnswered,
         StoreCredentials, SetConnected, SetRunning, CloseRejected, CloseSocket,
         JoinRejected, LoopEnds, LoopSeesLoss, NextAttempt, ReplaceSocket,
         OldReaderJoined, DialFreedSocket, netVars
    <2>2. QED
      BY <1>1, <1>2, <2>1
  <1>4. CASE ReadFrame
    BY <1>0, <1>4, TakenFrame DEF ReadFrame
  <1>5. CASE ReadFails \/ OnCloseClears \/ OnCloseRejects \/ ReaderExits
    BY <1>1, <1>5 DEF ReadFails, OnCloseClears, OnCloseRejects, ReaderExits, netVars
  <1>6. CASE LinkDies
    BY <1>0, <1>6, LostFrames DEF LinkDies
  <1>7. CASE Disconnect
    <2>1. inbox' = inbox \/ inbox' = <<>>
      BY <1>7 DEF Disconnect, ClearRunning, ClearConnected, DisconnectRejects,
         DisconnectCloses, CloseSocket, DisconnectFrees, netVars
    <2>2. QED
      BY <1>1, <1>2, <2>1
  <1>8. CASE UNCHANGED vars
    BY <1>1, <1>8 DEF vars, netVars
  <1>9. QED
    BY <1>3, <1>4, <1>5, <1>6, <1>7, <1>8 DEF Reader

\* The server adds one.
LEMMA QueueGrows ==
  ASSUME TypeOK, NEW f \in Frames, ServerSends(f)
  PROVE  inbox' \in Seq(Frames) /\ InFlight' = InFlight \cup {f}
  BY SentFrame DEF TypeOK, ServerSends
-----------------------------------------------------------------------------
(* Types. *)

LEMMA ConstantRanges ==
  /\ BaseDelay \in Nat /\ BaseDelay >= 1 /\ MaxDelay \in Nat /\ BaseDelay <= MaxDelay
  /\ MaxAttempts \in Nat
  <1>1. /\ BaseDelay \in Nat /\ BaseDelay # 0 /\ MaxDelay \in Nat /\ BaseDelay <= MaxDelay
        /\ MaxAttempts \in Nat
    BY ConstantsAssumption
  <1>2. QED
    BY <1>1

LEMMA InitTypes == Init => TypeOK
  <1> SUFFICES ASSUME Init PROVE TypeOK
    OBVIOUS
  <1>1. inbox \in Seq(Frames) /\ result \in Frames
    BY EmptySeq, FramesMade DEF Init
  <1>2. delay \in BaseDelay..MaxDelay /\ attempts \in Nat
    BY ConstantRanges DEF Init
  <1>3. /\ running \in BOOLEAN /\ connected \in BOOLEAN
        /\ linkUp \in BOOLEAN /\ crashed \in BOOLEAN
    BY Zenon DEF Init
  <1>4. lastRead \in [protocol : Sessions \cup {None}, auth : AuthStates \cup {None}]
    BY DEF Init
  <1>5. QED
    BY <1>1, <1>2, <1>3, <1>4 DEF Init, TypeOK

\* The delay stays between its bounds.
LEMMA BackOffTyped ==
  ASSUME delay \in BaseDelay..MaxDelay, BackOff
  PROVE  delay' \in BaseDelay..MaxDelay
  BY ConstantRanges DEF BackOff, Min2

\* The flags stay truth values.
LEMMA FlagsStep ==
  ASSUME TypeOK, [Next]_vars
  PROVE  /\ running' \in BOOLEAN /\ connected' \in BOOLEAN
         /\ linkUp' \in BOOLEAN /\ crashed' \in BOOLEAN
  <1>0. /\ running \in BOOLEAN /\ connected \in BOOLEAN
        /\ linkUp \in BOOLEAN /\ crashed \in BOOLEAN
    BY Zenon DEF TypeOK
  <1>1. running' \in {running, TRUE, FALSE}
    BY Zenon DEF Next, Main, Run, DialSucceeds, DialFails, SendConnect, ConnectAnswered,
       StoreCredentials, SetConnected, SetRunning, CloseRejected, CloseSocket, JoinRejected,
       LoopEnds, LoopSeesLoss, NextAttempt, ReplaceSocket, OldReaderJoined,
       DialFreedSocket, Reader, ReadFrame, ReadFails, OnCloseClears, MarkLost,
       OnCloseRejects, ReaderExits, Environment, ServerAnswers, ServerPushes,
       ServerRestarts, ServerSends, LinkDies, Disconnect, ClearRunning, StopRunning,
       ClearConnected, DisconnectRejects, DisconnectCloses, DisconnectFrees,
       appUnchanged, netVars, vars
  <1>2. connected' \in {connected, TRUE, FALSE}
    BY Zenon DEF Next, Main, Run, DialSucceeds, DialFails, SendConnect, ConnectAnswered,
       StoreCredentials, SetConnected, SetRunning, CloseRejected, CloseSocket, JoinRejected,
       LoopEnds, LoopSeesLoss, NextAttempt, ReplaceSocket, OldReaderJoined,
       DialFreedSocket, Reader, ReadFrame, ReadFails, OnCloseClears, MarkLost,
       OnCloseRejects, ReaderExits, Environment, ServerAnswers, ServerPushes,
       ServerRestarts, ServerSends, LinkDies, Disconnect, ClearRunning, StopRunning,
       ClearConnected, DisconnectRejects, DisconnectCloses, DisconnectFrees,
       appUnchanged, netVars, vars
  <1>3. linkUp' \in {linkUp, TRUE, FALSE}
    BY Zenon DEF Next, Main, Run, DialSucceeds, DialFails, SendConnect, ConnectAnswered,
       StoreCredentials, SetConnected, SetRunning, CloseRejected, CloseSocket, JoinRejected,
       LoopEnds, LoopSeesLoss, NextAttempt, ReplaceSocket, OldReaderJoined,
       DialFreedSocket, Reader, ReadFrame, ReadFails, OnCloseClears, MarkLost,
       OnCloseRejects, ReaderExits, Environment, ServerAnswers, ServerPushes,
       ServerRestarts, ServerSends, LinkDies, Disconnect, ClearRunning, StopRunning,
       ClearConnected, DisconnectRejects, DisconnectCloses, DisconnectFrees,
       appUnchanged, netVars, vars
  <1>4. crashed' \in {crashed, TRUE, FALSE}
    BY Zenon DEF Next, Main, Run, DialSucceeds, DialFails, SendConnect, ConnectAnswered,
       StoreCredentials, SetConnected, SetRunning, CloseRejected, CloseSocket, JoinRejected,
       LoopEnds, LoopSeesLoss, NextAttempt, ReplaceSocket, OldReaderJoined,
       DialFreedSocket, Reader, ReadFrame, ReadFails, OnCloseClears, MarkLost,
       OnCloseRejects, ReaderExits, Environment, ServerAnswers, ServerPushes,
       ServerRestarts, ServerSends, LinkDies, Disconnect, ClearRunning, StopRunning,
       ClearConnected, DisconnectRejects, DisconnectCloses, DisconnectFrees,
       appUnchanged, netVars, vars
  <1>5. QED
    BY <1>0, <1>1, <1>2, <1>3, <1>4, Zenon

LEMMA StepTypes == TypeOK /\ [Next]_vars => TypeOK'
  <1> SUFFICES ASSUME TypeOK, [Next]_vars PROVE TypeOK'
    OBVIOUS
  <1> USE DEF netVars, authVars, backoffVars, credentialVars, threadVars
  <1>0. BaseDelay \in BaseDelay..MaxDelay /\ 0 \in Nat
    BY ConstantRanges
  <1>10. /\ running' \in BOOLEAN /\ connected' \in BOOLEAN
         /\ linkUp' \in BOOLEAN /\ crashed' \in BOOLEAN
    BY FlagsStep
  <1>1. CASE Main
    <2>1. inbox' \in Seq(Frames)
      BY <1>1, QueueShrinks
    <2>2. CASE Run \/ DialSucceeds \/ DialFreedSocket \/ OldReaderJoined \/ SetRunning
      BY <1>10, <2>1, <2>2 DEF Run, DialSucceeds, DialFreedSocket, OldReaderJoined, SetRunning, TypeOK
    <2>3. CASE DialFails
      BY <2>1, <2>3, BackOffTyped DEF DialFails, TypeOK
    <2>4. CASE SendConnect \/ ConnectAnswered
      BY <2>1, <2>4 DEF SendConnect, ConnectAnswered, TypeOK
    <2>5. CASE StoreCredentials
      BY <2>1, <2>5, FrameParts DEF StoreCredentials, TypeOK
    <2>6. CASE SetConnected
      BY <1>0, <2>1, <2>6 DEF SetConnected, ResetBackoff, TypeOK
    <2>7. CASE CloseRejected
      <3>1. delay' \in BaseDelay..MaxDelay
        BY <2>7, BackOffTyped DEF CloseRejected, TypeOK
      <3>2. ws' \in {ws, "closed"} /\ main' \in {main, "joining", "deciding"}
        BY <2>7 DEF CloseRejected, CloseSocket
      <3>3. QED
        BY <1>10, <2>1, <2>7, <3>1, <3>2 DEF CloseRejected, TypeOK
    <2>8. CASE JoinRejected
      BY <2>1, <2>8, BackOffTyped DEF JoinRejected, TypeOK
    <2>9. CASE LoopEnds \/ LoopSeesLoss \/ NextAttempt \/ ReplaceSocket
      BY <1>10, <2>1, <2>9 DEF LoopEnds, LoopSeesLoss, NextAttempt, ReplaceSocket, TypeOK
    <2>10. QED
      BY <1>1, <2>2, <2>3, <2>4, <2>5, <2>6, <2>7, <2>8, <2>9 DEF Main
  <1>2. CASE ReadFrame
    <2> DEFINE f == Head(inbox)
    <2>1. f \in Frames /\ inbox' \in Seq(Frames)
      BY <1>2, TakenFrame DEF ReadFrame, TypeOK
    <2>2. /\ f.type \in {"accept", "push", "refuse", "restart"}
          /\ f.protocol \in Sessions \cup {None} /\ f.auth \in AuthStates \cup {None}
      BY <2>1, FrameParts
    <2>3. /\ auth' \in {"none", "pending", "set"} /\ result' \in Frames
          /\ protocol' \in Sessions \cup {None} /\ authState' \in AuthStates \cup {None}
      BY <1>2, <2>1, <2>2 DEF ReadFrame, ForgetSession, TypeOK
    <2>4. lastRead' \in [protocol : Sessions \cup {None}, auth : AuthStates \cup {None}]
      <3>1. /\ lastRead.protocol \in Sessions \cup {None}
            /\ lastRead.auth \in AuthStates \cup {None}
            /\ lastRead \in [protocol : Sessions \cup {None}, auth : AuthStates \cup {None}]
        BY DEF TypeOK
      <3>2. \E p \in Sessions \cup {None}, a \in AuthStates \cup {None} :
              lastRead' \in {lastRead, [protocol |-> p, auth |-> a], [lastRead EXCEPT !.auth = a]}
        BY <1>2, <2>2, <3>1 DEF ReadFrame
      <3>3. QED
        BY <3>1, <3>2
    <2>5. QED
      BY <1>2, <2>1, <2>3, <2>4 DEF ReadFrame, TypeOK
  <1>3. CASE ReadFails \/ OnCloseClears \/ OnCloseRejects \/ ReaderExits
    <2>1. inbox' \in Seq(Frames)
      BY <1>3, QueueShrinks DEF Reader
    <2>2. QED
      BY <1>3, <1>10, <2>1, FramesMade
      DEF ReadFails, OnCloseClears, MarkLost, OnCloseRejects, RejectAllPending,
          ReaderExits, TypeOK
  <1>4. CASE ServerAnswers
    <2>1. PICK f \in Frames : ServerSends(f)
      BY <1>4, FramesMade DEF ServerAnswers
    <2>2. server' \in {"accepted", "refused"}
      BY <1>4 DEF ServerAnswers
    <2>3. QED
      BY <2>1, <2>2, QueueGrows DEF ServerSends, TypeOK
  <1>5. CASE ServerPushes \/ ServerRestarts
    <2>1. PICK f \in Frames : ServerSends(f)
      BY <1>5, FramesMade DEF ServerPushes, ServerRestarts
    <2>2. server' \in {server, "leaving"}
      BY <1>5 DEF ServerPushes, ServerRestarts
    <2>3. QED
      BY <2>1, <2>2, QueueGrows DEF ServerSends, TypeOK
  <1>6. CASE LinkDies
    <2>1. inbox' \in Seq(Frames)
      BY <1>6, QueueShrinks
    <2>2. QED
      BY <1>6, <1>10, <2>1 DEF LinkDies, TypeOK
  <1>7. CASE Disconnect
    <2>1. inbox' \in Seq(Frames)
      BY <1>7, QueueShrinks
    <2>2. QED
      BY <1>7, <1>10, <2>1, FramesMade
      DEF Disconnect, ClearRunning, StopRunning, ClearConnected, DisconnectRejects,
          RejectAllPending, DisconnectCloses, CloseSocket, DisconnectFrees,
          appUnchanged, TypeOK
  <1>8. CASE UNCHANGED vars
    BY <1>8 DEF vars, TypeOK
  <1>9. QED
    BY <1>1, <1>2, <1>3, <1>4, <1>5, <1>6, <1>7, <1>8 DEF Next, Reader, Environment
-----------------------------------------------------------------------------
(* The schedule. *)

\* 2^n is the number of subsets of 1..n.
LEMMA PowIsNat == \A n \in Nat : 2 ^ n \in Nat
  <1> SUFFICES ASSUME NEW n \in Nat PROVE 2 ^ n \in Nat
    OBVIOUS
  <1>1. IsFiniteSet(1..n) /\ Cardinality(1..n) = n
    BY FS_Interval
  <1>2. IsFiniteSet(SUBSET (1..n)) /\ Cardinality(SUBSET (1..n)) = 2 ^ Cardinality(1..n)
    BY <1>1, FS_SUBSET, Zenon
  <1>3. Cardinality(SUBSET (1..n)) \in Nat
    BY <1>2, FS_CardinalityType
  <1>4. QED
    BY <1>1, <1>2, <1>3, Zenon

\* Half of the subsets of 1..n+1 are subsets of 1..n; the other half are these with
\* n+1 added to each.
LEMMA PowDoubles == \A n \in Nat : 2 ^ (n + 1) = 2 ^ n + 2 ^ n
  <1> SUFFICES ASSUME NEW n \in Nat PROVE 2 ^ (n + 1) = 2 ^ n + 2 ^ n
    OBVIOUS
  <1> DEFINE Old == SUBSET (1..n)
             All == SUBSET (1..(n + 1))
             New == {T \in All : n + 1 \in T}
             f == [T \in Old |-> T \cup {n + 1}]
  <1>1. /\ IsFiniteSet(1..n) /\ Cardinality(1..n) = n
        /\ IsFiniteSet(1..(n + 1)) /\ Cardinality(1..(n + 1)) = n + 1
    BY FS_Interval
  <1>2. /\ IsFiniteSet(Old) /\ Cardinality(Old) = 2 ^ n
        /\ Cardinality(All) = 2 ^ (n + 1)
    BY <1>1, FS_SUBSET, Zenon
  <1>3. f \in Bijection(Old, New)
    <2>1. f \in [Old -> New]
      OBVIOUS
    <2>2. ASSUME NEW a \in Old, NEW b \in Old, f[a] = f[b] PROVE a = b
      BY <2>2
    <2>3. ASSUME NEW t \in New PROVE \E s \in Old : f[s] = t
      <3>1. t \ {n + 1} \in Old /\ f[t \ {n + 1}] = t
        OBVIOUS
      <3>2. QED
        BY <3>1
    <2>4. QED
      BY <2>1, <2>2, <2>3, Fun_IsBij
  <1>4. ExistsBijection(Old, New)
    BY <1>3, Fun_ExistsBij
  <1>5. IsFiniteSet(New) /\ Cardinality(New) = Cardinality(Old)
    BY <1>2, <1>4, FS_Bijection
  <1>6. All = Old \cup New
    OBVIOUS
  <1>7. Cardinality(Old \cap New) = 0
    <2>1. Old \cap New = {}
      OBVIOUS
    <2>2. QED
      BY <2>1, FS_EmptySet
  <1>8. Cardinality(Old \cup New) = Cardinality(Old) + Cardinality(New) - Cardinality(Old \cap New)
    BY <1>2, <1>5, FS_Union
  <1>9. Cardinality(Old) \in Nat
    BY <1>2, FS_CardinalityType
  <1> HIDE DEF Old, All, New
  <1>10. Cardinality(All) = Cardinality(Old) + Cardinality(Old)
    BY <1>5, <1>6, <1>7, <1>8, <1>9
  <1>11. QED
    BY <1>2, <1>10, Zenon

\* Doubling under the cap, as reconnect() does, is the capped power of two.
LEMMA BackoffNext ==
  ASSUME NEW n \in Nat
  PROVE  /\ Backoff(0) = BaseDelay
         /\ Backoff(n + 1) = Min2(2 * Backoff(n), MaxDelay)
  <1>1. Backoff(0) = BaseDelay
    <2>1. BaseDelay * 2 ^ 0 = BaseDelay
      <3>1. 2 ^ 0 = 1
        OBVIOUS
      <3>2. QED
        BY <3>1, ConstantRanges
    <2>2. QED
      BY <2>1, ConstantRanges DEF Backoff, Min2
  <1>2. PICK x \in Nat : 2 ^ n = x /\ 2 ^ (n + 1) = x + x
    BY PowIsNat, PowDoubles, Zenon
  <1>3. PICK y \in Nat : BaseDelay * x = y /\ BaseDelay * (x + x) = y + y
    BY ConstantRanges
  <1>4. Backoff(n) = Min2(y, MaxDelay) /\ Backoff(n + 1) = Min2(y + y, MaxDelay)
    BY <1>2, <1>3, Zenon DEF Backoff
  <1>5. Min2(y + y, MaxDelay) = Min2(2 * Min2(y, MaxDelay), MaxDelay)
    BY ConstantRanges DEF Min2
  <1>6. QED
    BY <1>1, <1>4, <1>5, Zenon
-----------------------------------------------------------------------------
(* The inductive invariant. *)

LEMMA InitIInv == Init => IInv
  <1> SUFFICES ASSUME Init PROVE IInv
    OBVIOUS
  <1>1. InFlight = {}
    BY EmptySeq DEF Init, InFlight
  <1>2. DelayFits
    BY ConstantRanges DEF Init, DelayFits, Attempting
  <1>3. QED
    BY <1>1, <1>2, InitTypes
    DEF Init, IInv, StillRunning, GivesUpLast, ConnectedWhen, PromiseInUse,
        AcceptsAreReal, ConnectedIsAccepted

\* Everything but the thread in run() leaves the schedule alone.
LEMMA OthersKeepSchedule ==
  ASSUME Reader \/ Environment \/ Disconnect \/ UNCHANGED vars
  PROVE  UNCHANGED <<attempts, delay, main, mode>>
  BY DEF Reader, ReadFrame, ReadFails, OnCloseClears, OnCloseRejects, ReaderExits,
     Environment, ServerAnswers, ServerPushes, ServerRestarts, ServerSends, LinkDies,
     Disconnect, ClearRunning, ClearConnected, DisconnectRejects, DisconnectCloses,
     DisconnectFrees, appUnchanged, threadVars, backoffVars, vars

\* A failed attempt of reconnect() backs off to the delay of the failures so far.
LEMMA BackOffStep ==
  ASSUME TypeOK, attempts >= 1, delay = Backoff(attempts - 1), BackOff
  PROVE  delay' = Backoff(attempts)
  <1>1. attempts - 1 \in Nat /\ attempts = (attempts - 1) + 1
    BY DEF TypeOK
  <1>2. Backoff((attempts - 1) + 1) = Min2(2 * Backoff(attempts - 1), MaxDelay)
    BY <1>1, BackoffNext
  <1>3. QED
    BY <1>1, <1>2 DEF BackOff

LEMMA DelayFitsStep == IInv /\ [Next]_vars => DelayFits'
  <1> SUFFICES ASSUME IInv, [Next]_vars PROVE DelayFits'
    OBVIOUS
  <1> USE DEF backoffVars, Attempting
  <1>0. TypeOK /\ DelayFits
    BY DEF IInv
  <1>1. CASE Run
    BY <1>0, <1>1 DEF Run, DelayFits
  <1>2. CASE DialSucceeds \/ DialFreedSocket
    BY <1>0, <1>2 DEF DialSucceeds, DialFreedSocket, threadVars, DelayFits
  <1>3. CASE DialFails
    <2>1. attempts' = attempts /\ mode' = mode
      BY <1>3 DEF DialFails
    <2>2. CASE mode = "connect"
      BY <1>0, <1>3, <2>2 DEF DialFails, DelayFits
    <2>3. CASE mode = "reconnect"
      <3>1. delay' = Backoff(attempts) /\ main' = "deciding"
        BY <1>0, <1>3, <2>3, BackOffStep DEF DialFails, DelayFits
      <3>2. QED
        BY <1>0, <2>1, <2>3, <3>1 DEF DelayFits
    <2>4. QED
      BY <1>0, <2>2, <2>3 DEF TypeOK
  <1>4. CASE SendConnect \/ ConnectAnswered \/ StoreCredentials
    BY <1>0, <1>4 DEF SendConnect, ConnectAnswered, StoreCredentials, DelayFits
  <1>5. CASE SetConnected
    <2>1. Backoff(0) = BaseDelay /\ 0 <= MaxAttempts
      BY BackoffNext, ConstantRanges
    <2>2. QED
      BY <1>0, <1>5, <2>1 DEF SetConnected, ResetBackoff, DelayFits, TypeOK
  <1>6. CASE SetRunning
    <2>1. Backoff(0) = BaseDelay
      BY BackoffNext
    <2>2. QED
      BY <1>0, <1>6, <2>1 DEF SetRunning, DelayFits
  <1>7. CASE CloseRejected
    BY <1>0, <1>7, BackOffStep DEF CloseRejected, DelayFits, TypeOK
  <1>8. CASE JoinRejected
    BY <1>0, <1>8, BackOffStep DEF JoinRejected, DelayFits, TypeOK
  <1>9. CASE LoopEnds \/ LoopSeesLoss
    BY <1>0, <1>9 DEF LoopEnds, LoopSeesLoss, DelayFits
  <1>10. CASE NextAttempt
    <2>1. CASE MayTry
      <3>1. /\ main' = "sleeping" /\ attempts' = attempts + 1 /\ mode' = mode
            /\ delay' = delay /\ attempts < MaxAttempts /\ attempts \in Nat
            /\ delay = Backoff(attempts) /\ mode = "reconnect"
        BY <1>0, <1>10, <2>1 DEF NextAttempt, MayTry, DelayFits, TypeOK
      <3>2. attempts' <= MaxAttempts /\ attempts' >= 1 /\ attempts' - 1 = attempts
        BY <3>1, ConstantRanges
      <3>3. QED
        BY <3>1, <3>2 DEF DelayFits
    <2>2. CASE ~MayTry
      BY <1>0, <1>10, <2>2 DEF NextAttempt, DelayFits
    <2>3. QED
      BY <2>1, <2>2
  <1>11. CASE ReplaceSocket \/ OldReaderJoined
    BY <1>0, <1>11 DEF ReplaceSocket, OldReaderJoined, DelayFits
  <1>12. CASE Reader \/ Environment \/ Disconnect \/ UNCHANGED vars
    BY <1>0, <1>12, OthersKeepSchedule DEF DelayFits
  <1>13. QED
    BY <1>1, <1>2, <1>3, <1>4, <1>5, <1>6, <1>7, <1>8, <1>9, <1>10, <1>11, <1>12
    DEF Next, Main

LEMMA StillRunningStep == IInv /\ [Next]_vars => StillRunning'
  <1> SUFFICES ASSUME IInv, [Next]_vars PROVE StillRunning'
    OBVIOUS
  <1>0. TypeOK /\ DelayFits /\ StillRunning
    BY DEF IInv
  <1>1. CASE Main
    <2>1. app' = app /\ (running' = running \/ running' = TRUE)
      BY <1>1 DEF Main, Run, DialSucceeds, DialFails, SendConnect, ConnectAnswered,
         StoreCredentials, SetConnected, SetRunning, CloseRejected, JoinRejected,
         LoopEnds, LoopSeesLoss, NextAttempt, ReplaceSocket, OldReaderJoined,
         DialFreedSocket, threadVars
    <2>2. mode' = "reconnect" \/ main' = "looping" =>
            mode = "reconnect" \/ main = "looping" \/ running' = TRUE
      BY <1>0, <1>1 DEF Main, Run, DialSucceeds, DialFails, SendConnect, ConnectAnswered,
         StoreCredentials, SetConnected, SetRunning, CloseRejected, JoinRejected,
         LoopEnds, LoopSeesLoss, NextAttempt, ReplaceSocket, OldReaderJoined,
         DialFreedSocket, threadVars, TypeOK
    <2>3. QED
      BY <1>0, <2>1, <2>2 DEF StillRunning
  <1>2. CASE Reader \/ Environment \/ UNCHANGED vars
    BY <1>0, <1>2
    DEF Reader, ReadFrame, ReadFails, OnCloseClears, OnCloseRejects, ReaderExits,
        Environment, ServerAnswers, ServerPushes, ServerRestarts, ServerSends, LinkDies,
        threadVars, vars, StillRunning
  <1>3. CASE Disconnect
    <2>1. app' # "idle"
      BY <1>3 DEF Disconnect, ClearRunning, ClearConnected, DisconnectRejects,
         DisconnectCloses, DisconnectFrees
    <2>2. QED
      BY <2>1 DEF StillRunning
  <1>4. QED
    BY <1>1, <1>2, <1>3 DEF Next

LEMMA GivesUpLastStep == IInv /\ [Next]_vars => GivesUpLast'
  <1> SUFFICES ASSUME IInv, [Next]_vars,
                      main' = "stopped", app' = "idle", mode' = "reconnect"
               PROVE  attempts' = MaxAttempts
    BY DEF GivesUpLast
  <1>0. TypeOK /\ DelayFits /\ StillRunning /\ GivesUpLast
    BY DEF IInv
  <1>1. CASE NextAttempt
    <2>1. running /\ ~MayTry /\ attempts' = attempts
      BY <1>0, <1>1 DEF NextAttempt, StillRunning
    <2>2. attempts <= MaxAttempts /\ attempts \in Nat
      BY <1>0 DEF DelayFits, TypeOK
    <2>3. QED
      BY <2>1, <2>2, ConstantRanges DEF MayTry
  <1>2. CASE main = "stopped"
    <2>1. UNCHANGED <<attempts, mode, app>>
      BY <1>2 DEF Next, Main, Run, DialSucceeds, DialFails, SendConnect, ConnectAnswered,
         StoreCredentials, SetConnected, SetRunning, CloseRejected, JoinRejected,
         LoopEnds, LoopSeesLoss, NextAttempt, ReplaceSocket, OldReaderJoined,
         DialFreedSocket, Reader, ReadFrame, ReadFails, OnCloseClears, OnCloseRejects,
         ReaderExits, Environment, ServerAnswers, ServerPushes, ServerRestarts,
         ServerSends, LinkDies, Disconnect, ClearRunning, ClearConnected,
         DisconnectRejects, DisconnectCloses, DisconnectFrees, appUnchanged, threadVars,
         backoffVars, vars
    <2>2. QED
      BY <1>0, <1>2, <2>1 DEF GivesUpLast
  <1>3. CASE Main /\ ~NextAttempt /\ main # "stopped"
    BY <1>0, <1>3
    DEF Main, Run, DialSucceeds, DialFails, SendConnect, ConnectAnswered,
        StoreCredentials, SetConnected, SetRunning, CloseRejected, JoinRejected,
        LoopEnds, LoopSeesLoss, ReplaceSocket, OldReaderJoined, DialFreedSocket,
        threadVars, StillRunning
  <1>4. CASE Reader \/ Environment \/ Disconnect \/ UNCHANGED vars
    BY <1>2, <1>4, OthersKeepSchedule
  <1>5. QED
    BY <1>1, <1>2, <1>3, <1>4 DEF Next

LEMMA ConnectedWhenStep == IInv /\ [Next]_vars => ConnectedWhen'
  <1> SUFFICES ASSUME IInv, [Next]_vars, connected'
               PROVE  main' \in {"starting", "looping", "stopped"}
    BY DEF ConnectedWhen
  <1>0. TypeOK /\ ConnectedWhen
    BY DEF IInv
  <1>1. CASE Main
    BY <1>0, <1>1
    DEF Main, Run, DialSucceeds, DialFails, SendConnect, ConnectAnswered,
        StoreCredentials, SetConnected, SetRunning, CloseRejected, JoinRejected,
        LoopEnds, LoopSeesLoss, NextAttempt, ReplaceSocket, OldReaderJoined,
        DialFreedSocket, threadVars, ConnectedWhen, TypeOK
  <1>2. CASE Reader \/ Environment \/ Disconnect \/ UNCHANGED vars
    <2>1. connected' = FALSE \/ connected' = connected
      BY <1>2, Zenon
      DEF Reader, ReadFrame, ReadFails, OnCloseClears, MarkLost, OnCloseRejects,
          ReaderExits, Environment, ServerAnswers, ServerPushes, ServerRestarts,
          ServerSends, LinkDies, Disconnect, ClearRunning, ClearConnected,
          DisconnectRejects, DisconnectCloses, DisconnectFrees, vars
    <2>2. main' = main
      BY <1>2, OthersKeepSchedule
    <2>3. QED
      BY <1>0, <2>1, <2>2 DEF ConnectedWhen
  <1>3. QED
    BY <1>1, <1>2 DEF Next

LEMMA PromiseInUseStep == IInv /\ [Next]_vars => PromiseInUse'
  <1> SUFFICES ASSUME IInv, [Next]_vars, auth' # "none" PROVE main' = "waiting"
    BY DEF PromiseInUse
  <1>0. TypeOK /\ PromiseInUse
    BY DEF IInv
  <1>1. CASE Main
    BY <1>0, <1>1
    DEF Main, Run, DialSucceeds, DialFails, SendConnect, ConnectAnswered,
        StoreCredentials, SetConnected, SetRunning, CloseRejected, JoinRejected,
        LoopEnds, LoopSeesLoss, NextAttempt, ReplaceSocket, OldReaderJoined,
        DialFreedSocket, threadVars, authVars, PromiseInUse
  <1>2. CASE Reader \/ Environment \/ Disconnect \/ UNCHANGED vars
    <2>1. auth # "none"
      <3>1. CASE ReadFrame
        <4>1. Head(inbox).type \in {"accept", "push", "refuse", "restart"}
          BY <1>0, <3>1, TakenFrame, FrameParts DEF ReadFrame, TypeOK
        <4>2. auth' = auth \/ auth = "pending"
          BY <3>1, <4>1 DEF ReadFrame, authVars
        <4>3. QED
          BY <4>2
      <3>2. CASE OnCloseRejects \/ DisconnectRejects
        BY <3>2 DEF OnCloseRejects, DisconnectRejects, RejectAllPending, authVars
      <3>3. CASE ReadFails \/ OnCloseClears \/ ReaderExits \/ Environment
                   \/ (Disconnect /\ ~DisconnectRejects) \/ UNCHANGED vars
        BY <3>3
        DEF ReadFails, OnCloseClears, ReaderExits, Environment, ServerAnswers,
            ServerPushes, ServerRestarts, ServerSends, LinkDies, Disconnect, ClearRunning,
            ClearConnected, DisconnectCloses, DisconnectFrees, authVars, vars
      <3>4. QED
        BY <1>2, <3>1, <3>2, <3>3 DEF Reader
    <2>2. QED
      BY <1>0, <1>2, <2>1, OthersKeepSchedule DEF PromiseInUse
  <1>3. QED
    BY <1>1, <1>2 DEF Next

\* The frames a server sends, and what it then knows.
LEMMA ServerStep ==
  ASSUME TypeOK, ServerAnswers \/ ServerPushes \/ ServerRestarts
  PROVE  \E f \in Frames :
           /\ InFlight' = InFlight \cup {f}
           /\ f.type = "accept" => HasAccepted'
           /\ HasAccepted => HasAccepted'
           /\ server # "none"
           /\ ServerAnswers => /\ server = "asked" /\ server' \in {"accepted", "refused"}
                               /\ f.type \in {"accept", "refuse"}
           /\ ~ServerAnswers => HasAccepted
           /\ UNCHANGED <<main, mode, ws, auth, result, connected>>
  <1>1. CASE ServerAnswers
    <2>1. CASE \E p \in Sessions, a \in AuthStates \cup {None} :
                 ServerSends(Accept(p, a)) /\ server' = "accepted"
      <3>1. PICK p \in Sessions, a \in AuthStates \cup {None} :
              ServerSends(Accept(p, a)) /\ server' = "accepted"
        BY <2>1
      <3>2. Accept(p, a) \in Frames /\ Accept(p, a).type = "accept"
        BY FramesMade DEF Accept
      <3>3. QED
        BY <1>1, <3>1, <3>2, QueueGrows
        DEF ServerAnswers, ServerSends, HasAccepted, threadVars, authVars
    <2>2. CASE ServerSends(Plain("refuse")) /\ server' = "refused"
      <3>1. Plain("refuse") \in Frames /\ Plain("refuse").type = "refuse"
        BY FramesMade DEF Plain
      <3>2. InFlight' = InFlight \cup {Plain("refuse")}
        BY <2>2, <3>1, QueueGrows
      <3>3. server = "asked"
        BY <1>1 DEF ServerAnswers
      <3>4. QED
        BY <1>1, <2>2, <3>1, <3>2, <3>3 DEF ServerSends, HasAccepted, threadVars, authVars
    <2>3. QED
      BY <1>1, <2>1, <2>2 DEF ServerAnswers
  <1>2. CASE ServerPushes
    <2>1. PICK a \in AuthStates : ServerSends(Push(a))
      BY <1>2 DEF ServerPushes
    <2>2. Push(a) \in Frames /\ Push(a).type = "push"
      BY FramesMade DEF Push
    <2>3. InFlight' = InFlight \cup {Push(a)}
      BY <2>1, <2>2, QueueGrows
    <2>4. server = "accepted" /\ server' = server
      BY <1>2 DEF ServerPushes
    <2>5. QED
      BY <2>1, <2>2, <2>3, <2>4
      DEF ServerSends, ServerAnswers, HasAccepted, threadVars, authVars
  <1>3. CASE ServerRestarts
    <2>1. ServerSends(Plain("restart"))
      BY <1>3 DEF ServerRestarts
    <2>2. Plain("restart") \in Frames /\ Plain("restart").type = "restart"
      BY FramesMade DEF Plain
    <2>3. InFlight' = InFlight \cup {Plain("restart")}
      BY <2>1, <2>2, QueueGrows
    <2>4. server = "accepted" /\ server' = "leaving"
      BY <1>3 DEF ServerRestarts
    <2>5. QED
      BY <2>1, <2>2, <2>3, <2>4
      DEF ServerSends, ServerAnswers, HasAccepted, threadVars, authVars
  <1>4. QED
    BY <1>1, <1>2, <1>3

LEMMA AcceptsAreRealStep == IInv /\ [Next]_vars => AcceptsAreReal'
  <1> SUFFICES ASSUME IInv, [Next]_vars PROVE AcceptsAreReal'
    OBVIOUS
  <1> USE DEF HasAccepted
  <1>0. TypeOK /\ PromiseInUse /\ AcceptsAreReal
    BY DEF IInv
  <1>1. CASE ServerAnswers \/ ServerPushes \/ ServerRestarts
    <2>1. PICK f \in Frames :
            /\ InFlight' = InFlight \cup {f}
            /\ f.type = "accept" => HasAccepted'
            /\ HasAccepted => HasAccepted'
            /\ server # "none"
            /\ UNCHANGED <<main, ws, auth, result>>
      BY <1>0, <1>1, ServerStep
    <2>2. QED
      BY <1>0, <2>1 DEF AcceptsAreReal, Accepted
  <1>2. CASE Main \/ Reader \/ LinkDies \/ Disconnect \/ UNCHANGED vars
    <2>1. InFlight' \subseteq InFlight
      BY <1>0, <1>2, QueueShrinks
    <2>2. CASE DialSucceeds
      <3>1. InFlight' = {}
        BY <2>2, NoFrames DEF DialSucceeds
      <3>2. QED
        BY <2>2, <3>1 DEF DialSucceeds, AcceptsAreReal
    <2>3. CASE SendConnect
      <3>1. ws = "open" => \A f \in InFlight : f.type # "accept"
        BY <1>0, <2>3 DEF SendConnect, AcceptsAreReal
      <3>2. QED
        BY <1>0, <2>1, <2>3, <3>1 DEF SendConnect, AcceptsAreReal, Accepted
    <2>4. CASE Main /\ ~DialSucceeds /\ ~SendConnect
      <3>1. /\ server' = server /\ UNCHANGED result
            /\ main' # "sending" /\ (main' = "waiting" => UNCHANGED <<main, auth, ws>>)
            /\ main' \in {"storing", "authenticated"} =>
                 /\ ws' = ws
                 /\ (main = "waiting" /\ Accepted) \/ main = "storing"
        BY <1>0, <2>4
        DEF Main, Run, DialFails, ConnectAnswered, StoreCredentials, SetConnected,
            SetRunning, CloseRejected, CloseSocket, JoinRejected, LoopEnds, LoopSeesLoss,
            NextAttempt, ReplaceSocket, OldReaderJoined, DialFreedSocket, threadVars,
            authVars, netVars
      <3>2. QED
        BY <1>0, <2>1, <3>1 DEF AcceptsAreReal, Accepted
    <2>5. CASE ReadFrame
      <3>1. Head(inbox) \in InFlight /\ Head(inbox) \in Frames
        BY <1>0, <2>5, TakenFrame DEF ReadFrame, TypeOK
      <3>2. Head(inbox).type \in {"accept", "push", "refuse", "restart"}
        BY <3>1, FrameParts
      <3>3. /\ server' = server /\ main' = main /\ ws' = ws
            /\ (auth' = auth /\ result' = result) \/ result' = Head(inbox)
        BY <2>5, <3>2 DEF ReadFrame, threadVars, authVars
      <3>4. QED
        BY <1>0, <2>1, <3>1, <3>3 DEF AcceptsAreReal, Accepted
    <2>6. CASE (Reader /\ ~ReadFrame) \/ LinkDies \/ Disconnect \/ UNCHANGED vars
      <3>1. server' = server
        BY <2>6
        DEF Reader, ReadFails, OnCloseClears, OnCloseRejects, ReaderExits, LinkDies,
            Disconnect, ClearRunning, ClearConnected, DisconnectRejects,
            DisconnectCloses, DisconnectFrees, netVars, vars
      <3>2. main' = main /\ (ws' = "open" => ws = "open")
        BY <2>6
        DEF Reader, ReadFails, OnCloseClears, OnCloseRejects, ReaderExits, LinkDies,
            Disconnect, ClearRunning, ClearConnected, DisconnectRejects,
            DisconnectCloses, CloseSocket, DisconnectFrees, appUnchanged, threadVars, vars
      <3>3. Accepted' => Accepted
        BY <2>6
        DEF Reader, ReadFails, OnCloseClears, OnCloseRejects, RejectAllPending, Plain,
            ReaderExits, LinkDies, Disconnect, ClearRunning, ClearConnected,
            DisconnectRejects, DisconnectCloses, DisconnectFrees, Accepted, authVars, vars
      <3>4. QED
        BY <1>0, <2>1, <3>1, <3>2, <3>3 DEF AcceptsAreReal
    <2>7. QED
      BY <1>2, <2>2, <2>3, <2>4, <2>5, <2>6
  <1>3. QED
    BY <1>1, <1>2 DEF Next, Environment

LEMMA ConnectedIsAcceptedStep == IInv /\ [Next]_vars => ConnectedIsAccepted'
  <1> SUFFICES ASSUME IInv, [Next]_vars, connected', ws' = "open"
               PROVE  HasAccepted'
    BY DEF ConnectedIsAccepted, HasAccepted
  <1>0. /\ TypeOK /\ ConnectedWhen /\ AcceptsAreReal
        /\ connected /\ ws = "open" => HasAccepted
    BY DEF IInv, ConnectedIsAccepted, HasAccepted
  <1>1. CASE SetConnected
    BY <1>0, <1>1 DEF SetConnected, netVars, AcceptsAreReal, HasAccepted
  <1>2. CASE Main /\ ~SetConnected
    <2>1. connected' = connected /\ main' \in {"starting", "looping", "stopped"}
      BY <1>0, <1>2, ConnectedWhenStep
      DEF Main, Run, DialSucceeds, DialFails, SendConnect, ConnectAnswered,
          StoreCredentials, SetRunning, CloseRejected, JoinRejected, LoopEnds,
          LoopSeesLoss, NextAttempt, ReplaceSocket, OldReaderJoined, DialFreedSocket,
          ConnectedWhen
    <2>2. ws' = ws /\ server' = server
      BY <1>0, <1>2, <2>1
      DEF Main, Run, DialSucceeds, DialFails, SendConnect, ConnectAnswered,
          StoreCredentials, SetRunning, CloseRejected, CloseSocket, JoinRejected, LoopEnds,
          LoopSeesLoss, NextAttempt, ReplaceSocket, OldReaderJoined, DialFreedSocket,
          ConnectedWhen, netVars
    <2>3. QED
      BY <1>0, <2>1, <2>2 DEF HasAccepted
  <1>3. CASE ServerAnswers \/ ServerPushes \/ ServerRestarts
    BY <1>0, <1>3, ServerStep
  <1>4. CASE Reader \/ LinkDies \/ Disconnect \/ UNCHANGED vars
    <2>1. connected' = FALSE \/ connected' = connected
      BY <1>4, Zenon
      DEF Reader, ReadFrame, ReadFails, OnCloseClears, MarkLost, OnCloseRejects,
          ReaderExits, LinkDies, Disconnect, ClearRunning, ClearConnected,
          DisconnectRejects, DisconnectCloses, DisconnectFrees, vars
    <2>2. server' = server /\ (ws' = "open" => ws = "open")
      BY <1>4
      DEF Reader, ReadFrame, ReadFails, OnCloseClears, OnCloseRejects, ReaderExits,
          LinkDies, Disconnect, ClearRunning, ClearConnected, DisconnectRejects,
          DisconnectCloses, CloseSocket, DisconnectFrees, netVars, vars
    <2>3. QED
      BY <1>0, <2>1, <2>2 DEF HasAccepted
  <1>5. QED
    BY <1>1, <1>2, <1>3, <1>4 DEF Next, Environment

LEMMA StepIInv == IInv /\ [Next]_vars => IInv'
  <1>1. IInv => TypeOK
    BY DEF IInv
  <1>2. QED
    BY <1>1, StepTypes, DelayFitsStep, StillRunningStep, GivesUpLastStep,
       ConnectedWhenStep, PromiseInUseStep, AcceptsAreRealStep, ConnectedIsAcceptedStep
    DEF IInv

LEMMA Invariance == SafeSpec => []IInv
  BY InitIInv, StepIInv, PTL DEF SafeSpec

\* RelayConnection is type-correct: the flags, credentials, counters and threads of
\* client.cpp keep to their ranges, the delay between its two bounds.
THEOREM TypeCorrect == SafeSpec => []TypeOK
  BY InitTypes, StepTypes, PTL DEF SafeSpec

\* However the attempts end, the sleep of reconnect() before the n-th attempt in a row
\* is BaseDelay * 2^(n-1), capped, and run() ends by itself only after the last one.
THEOREM BackoffKept == SafeSpec => []BackoffIsKept
  <1>1. IInv => BackoffSchedule
    BY DEF IInv, DelayFits, BackoffSchedule
  <1>2. IInv => BackoffIsKept
    BY <1>1 DEF IInv, BackoffIsKept
  <1>3. QED
    BY <1>2, Invariance, PTL

\* connected_ is TRUE over an open socket only after the server of that socket has
\* accepted signalwire.connect, in every interleaving of run(), the read thread and
\* disconnect().
THEOREM ConnectedMeansAccepted == SafeSpec => []ConnectedIsAccepted
  <1>1. IInv => ConnectedIsAccepted
    BY DEF IInv
  <1>2. QED
    BY <1>1, Invariance, PTL
-----------------------------------------------------------------------------
(* The credentials. *)

\* As long as the server waits for the client to store its reply, nothing but the
\* answer to signalwire.connect reaches the client before that.
AnswersOnly ==
    /\ server \in {"none", "asked"} => InFlight = {}
    /\ main \in {"waiting", "storing"} =>
         \A f \in InFlight : f.type \in {"accept", "refuse"}

\* The client holds the credentials of the last frame it took, or is about to store
\* them from the promise of its request.
CredentialsKept ==
    IF (main = "waiting" /\ Accepted) \/ main = "storing"
      THEN lastRead = [protocol |-> result.protocol,
                       auth |-> IF result.auth # None THEN result.auth ELSE authState]
      ELSE lastRead = [protocol |-> protocol, auth |-> authState]

\* A step, in which the server sends no frame of its own while the client has its reply
\* to store.
OrderlyNext ==
  /\ ~crashed
  /\ \/ Main \/ Reader \/ Disconnect \/ ServerAnswers \/ LinkDies
     \/ (ServerPushes \/ ServerRestarts) /\ ~BeforeStored

CInv == TypeOK /\ PromiseInUse /\ AcceptsAreReal /\ AnswersOnly /\ CredentialsKept

LEMMA InitCInv == Init => CInv
  <1> SUFFICES ASSUME Init PROVE CInv
    OBVIOUS
  <1>1. InFlight = {}
    BY EmptySeq DEF Init, InFlight
  <1>2. QED
    BY <1>1, InitTypes, InitIInv DEF Init, IInv, CInv, AnswersOnly, CredentialsKept

\* A server that waits for the client to store its reply sends nothing but the reply.
LEMMA AnswersOnlyStep ==
  ASSUME CInv, IInv, [OrderlyNext]_vars
  PROVE  AnswersOnly'
  <1>0. TypeOK /\ AnswersOnly /\ AcceptsAreReal
    BY DEF CInv
  <1>1. CASE ServerAnswers
    <2>1. PICK f \in Frames :
            /\ InFlight' = InFlight \cup {f} /\ main' = main
            /\ f.type \in {"accept", "refuse"}
            /\ server = "asked" /\ server' \in {"accepted", "refused"}
      BY <1>0, <1>1, ServerStep
    <2>2. QED
      BY <1>0, <2>1 DEF AnswersOnly
  <1>2. CASE (ServerPushes \/ ServerRestarts) /\ ~BeforeStored
    <2>1. server' \notin {"none", "asked"} /\ main \notin {"waiting", "storing"} /\ main' = main
      BY <1>2 DEF ServerPushes, ServerRestarts, ServerSends, BeforeStored, threadVars
    <2>2. QED
      BY <2>1 DEF AnswersOnly
  <1>3. CASE Main \/ Reader \/ LinkDies \/ Disconnect \/ UNCHANGED vars
    <2>1. InFlight' \subseteq InFlight
      BY <1>0, <1>3, QueueShrinks
    <2>2. CASE DialSucceeds
      <3>1. InFlight' = {}
        BY <2>2, NoFrames DEF DialSucceeds
      <3>2. QED
        BY <3>1 DEF AnswersOnly
    <2>3. CASE SendConnect
      <3>1. main' = "waiting" => InFlight = {}
        BY <1>0, <2>3 DEF SendConnect, AnswersOnly, AcceptsAreReal
      <3>2. server' # server => InFlight = {}
        BY <1>0, <2>3 DEF SendConnect, AnswersOnly, AcceptsAreReal
      <3>3. main' # "storing"
        BY <2>3 DEF SendConnect
      <3>4. QED
        BY <1>0, <2>1, <3>1, <3>2, <3>3 DEF AnswersOnly
    <2>4. CASE ~DialSucceeds /\ ~SendConnect
      <3>1. server' = server
        BY <1>3, <2>4
        DEF Main, Run, DialFails, ConnectAnswered, StoreCredentials, SetConnected,
            SetRunning, CloseRejected, JoinRejected, LoopEnds, LoopSeesLoss, NextAttempt,
            ReplaceSocket, OldReaderJoined, DialFreedSocket, Reader, ReadFrame, ReadFails,
            OnCloseClears, OnCloseRejects, ReaderExits, LinkDies, Disconnect,
            ClearRunning, ClearConnected, DisconnectRejects, DisconnectCloses,
            DisconnectFrees, netVars, vars
      <3>2. main' \in {"waiting", "storing"} => main \in {"waiting", "storing"}
        BY <1>3, <2>4, OthersKeepSchedule
        DEF Main, Run, DialFails, ConnectAnswered, StoreCredentials, SetConnected,
            SetRunning, CloseRejected, JoinRejected, LoopEnds, LoopSeesLoss, NextAttempt,
            ReplaceSocket, OldReaderJoined, DialFreedSocket, threadVars, Environment
      <3>3. QED
        BY <1>0, <2>1, <3>1, <3>2 DEF AnswersOnly
    <2>5. QED
      BY <2>2, <2>3, <2>4
  <1>4. QED
    BY <1>1, <1>2, <1>3 DEF OrderlyNext

LEMMA CredentialsKeptStep ==
  ASSUME CInv, [Next]_vars
  PROVE  CredentialsKept'
  <1>0. TypeOK /\ PromiseInUse /\ AnswersOnly /\ CredentialsKept
    BY DEF CInv
  <1> USE DEF credentialVars, authVars, threadVars
  <1>1. CASE ReadFrame
    <2> DEFINE f == Head(inbox)
    <2>1. f \in InFlight /\ f \in Frames
      BY <1>0, <1>1, TakenFrame DEF ReadFrame, TypeOK
    <2>2. f.type \in {"accept", "push", "refuse", "restart"} /\ main' = main
      BY <1>1, <2>1, FrameParts DEF ReadFrame
    <2>3. CASE f.type = "accept" /\ auth = "pending"
      <3>1. main = "waiting" /\ ~Accepted
        BY <1>0, <2>3 DEF PromiseInUse, Accepted
      <3>2. lastRead.auth = authState
        BY <1>0, <3>1 DEF CredentialsKept
      <3>3. /\ auth' = "set" /\ result' = f /\ authState' = authState
            /\ lastRead' = [protocol |-> f.protocol,
                            auth |-> IF f.auth # None THEN f.auth ELSE lastRead.auth]
        BY <1>1, <2>3 DEF ReadFrame
      <3>4. QED
        BY <2>2, <2>3, <3>1, <3>2, <3>3 DEF CredentialsKept, Accepted
    <2>4. CASE f.type \in {"accept", "refuse"} /\ (f.type = "refuse" \/ auth # "pending")
      <3>1. UNCHANGED <<protocol, authState, lastRead>>
        BY <1>1, <2>4 DEF ReadFrame
      <3>2. Accepted' <=> Accepted
        BY <1>1, <2>4 DEF ReadFrame, Accepted
      <3>3. main = "storing" \/ Accepted => result' = result
        BY <1>0, <1>1, <2>4 DEF ReadFrame, PromiseInUse, Accepted
      <3>4. QED
        BY <1>0, <2>2, <3>1, <3>2, <3>3 DEF CredentialsKept
    <2>5. CASE f.type \in {"push", "restart"}
      <3>1. main \notin {"waiting", "storing"}
        BY <1>0, <2>1, <2>5 DEF AnswersOnly
      <3>2. lastRead = [protocol |-> protocol, auth |-> authState]
        BY <1>0, <3>1 DEF CredentialsKept
      <3>3. lastRead' = [protocol |-> protocol', auth |-> authState']
        BY <1>1, <2>5, <3>2 DEF ReadFrame, ForgetSession
      <3>4. QED
        BY <2>2, <3>1, <3>3 DEF CredentialsKept
    <2>6. QED
      BY <2>2, <2>3, <2>4, <2>5
  <1>2. CASE StoreCredentials
    BY <1>0, <1>2 DEF StoreCredentials, CredentialsKept
  <1>3. CASE SendConnect \/ ConnectAnswered
    BY <1>0, <1>3 DEF SendConnect, ConnectAnswered, CredentialsKept, Accepted
  <1>4. CASE OnCloseRejects \/ DisconnectRejects
    <2>1. UNCHANGED <<protocol, authState, lastRead, main>>
      BY <1>4 DEF OnCloseRejects, DisconnectRejects, appUnchanged
    <2>2. /\ Accepted' <=> Accepted
          /\ Accepted \/ main = "storing" => result' = result
      BY <1>0, <1>4 DEF OnCloseRejects, DisconnectRejects, RejectAllPending, Accepted,
         Plain, PromiseInUse
    <2>3. QED
      BY <1>0, <2>1, <2>2 DEF CredentialsKept
  <1>5. CASE Main /\ ~StoreCredentials /\ ~SendConnect /\ ~ConnectAnswered
    <2>1. /\ UNCHANGED <<protocol, authState, lastRead>>
          /\ main \notin {"waiting", "storing"} /\ main' \notin {"waiting", "storing"}
      BY <1>5
      DEF Main, Run, DialSucceeds, DialFails, SetConnected, SetRunning, CloseRejected,
          JoinRejected, LoopEnds, LoopSeesLoss, NextAttempt, ReplaceSocket,
          OldReaderJoined, DialFreedSocket
    <2>2. QED
      BY <1>0, <2>1 DEF CredentialsKept
  <1>6. CASE ReadFails \/ OnCloseClears \/ ReaderExits \/ Environment
               \/ (Disconnect /\ ~DisconnectRejects) \/ UNCHANGED vars
    <2>1. UNCHANGED <<protocol, authState, lastRead, main, auth, result>>
      BY <1>6
      DEF ReadFails, OnCloseClears, ReaderExits, Environment, ServerAnswers,
          ServerPushes, ServerRestarts, ServerSends, LinkDies, Disconnect, ClearRunning,
          ClearConnected, DisconnectCloses, DisconnectFrees, appUnchanged, vars
    <2>2. QED
      BY <1>0, <2>1 DEF CredentialsKept, Accepted
  <1>7. QED
    BY <1>1, <1>2, <1>3, <1>4, <1>5, <1>6 DEF Next, Reader

\* What an orderly server does keeps the credentials of the client the latest.
LEMMA CInvStep ==
  ASSUME IInv, CInv, [OrderlyNext]_vars
  PROVE  IInv' /\ CInv'
  <1>1. [Next]_vars
    BY DEF OrderlyNext, Next, Environment
  <1>2. QED
    BY <1>1, StepIInv, AnswersOnlyStep, CredentialsKeptStep DEF IInv, CInv

LEMMA CInvResends == CInv => Resends
  BY DEF CInv, CredentialsKept, Resends

\* signalwire.connect carries the credentials as the last frames left them, from any
\* server that sends nothing between its reply and the moment the client has stored it:
\* authenticate(), on_event and the restart branch of handle_message.
THEOREM LatestCredentialsResent ==
  ASSUME ~EarlyFrames
  PROVE  SafeSpec => ResendsLatestCredentials
  <1>1. Init => IInv /\ CInv
    BY InitIInv, InitCInv
  <1>2. Next => OrderlyNext
    BY DEF Next, OrderlyNext, Environment, ServerPushes, ServerRestarts
  <1>3. (IInv /\ CInv) /\ [Next]_vars => (IInv /\ CInv)'
    BY <1>2, CInvStep
  <1>4. (IInv /\ CInv) /\ [Next]_vars => [Resends]_vars
    BY CInvResends
  <1>5. QED
    BY <1>1, <1>3, <1>4, PTL DEF SafeSpec, ResendsLatestCredentials
-----------------------------------------------------------------------------
(* Calm behaviours. *)

\* What a thread of a calm client does, and what its server does, is what the thread and
\* the server of another do; and the server is orderly.
LEMMA CalmMain == Calm!Main => Main
  BY Zenon DEF Calm!Main, Main, Calm!Run, Run, Calm!DialSucceeds, DialSucceeds,
     Calm!DialFails, DialFails, Calm!SendConnect, SendConnect, Calm!ConnectAnswered,
     ConnectAnswered, Calm!StoreCredentials, StoreCredentials, Calm!SetConnected, SetConnected,
     Calm!SetRunning, SetRunning, Calm!CloseRejected, CloseRejected, Calm!JoinRejected,
     JoinRejected, Calm!LoopEnds, LoopEnds, Calm!LoopSeesLoss, LoopSeesLoss,
     Calm!NextAttempt, NextAttempt, Calm!ReplaceSocket, ReplaceSocket,
     Calm!OldReaderJoined, OldReaderJoined, Calm!DialFreedSocket, DialFreedSocket,
     Calm!BackOff, BackOff, Calm!Min2, Min2, Calm!ResetBackoff, ResetBackoff,
     Calm!MayTry, MayTry, Calm!Accepted, Accepted, Calm!CloseSocket, CloseSocket,
     Calm!credentialVars, credentialVars, Calm!backoffVars, backoffVars,
     Calm!authVars, authVars, Calm!netVars, netVars, Calm!threadVars, threadVars

LEMMA CalmReader == Calm!Reader => Reader
  BY Zenon DEF Calm!Reader, Reader, Calm!ReadFrame, ReadFrame, Calm!ReadFails, ReadFails,
     Calm!OnCloseClears, OnCloseClears, Calm!OnCloseRejects, OnCloseRejects,
     Calm!ReaderExits, ReaderExits, Calm!Reading, Reading, Calm!ForgetSession, ForgetSession,
     Calm!BeforeConnected, BeforeConnected, Calm!MarkLost, MarkLost,
     Calm!RejectAllPending, RejectAllPending, Calm!Plain, Plain,
     Calm!credentialVars, credentialVars, Calm!backoffVars, backoffVars,
     Calm!authVars, authVars, Calm!netVars, netVars, Calm!threadVars, threadVars

LEMMA CalmMayDisconnect == Calm!MayDisconnect => MayDisconnect
  BY ConstantsAssumption, CalmAssumption DEF Calm!MayDisconnect, MayDisconnect

LEMMA CalmDisconnect == Calm!Disconnect => Disconnect
  BY CalmMayDisconnect, Zenon DEF Calm!Disconnect, Disconnect, Calm!ClearRunning, ClearRunning,
     Calm!ClearConnected, ClearConnected, Calm!DisconnectRejects, DisconnectRejects,
     Calm!DisconnectCloses, DisconnectCloses, Calm!DisconnectFrees, DisconnectFrees,
     Calm!StopRunning, StopRunning,
     Calm!appUnchanged, appUnchanged, Calm!CloseSocket, CloseSocket,
     Calm!RejectAllPending, RejectAllPending, Calm!Plain, Plain,
     Calm!credentialVars, credentialVars, Calm!backoffVars, backoffVars,
     Calm!authVars, authVars, Calm!netVars, netVars, Calm!threadVars, threadVars

\* Of the frames a calm server sends, none but the reply comes before it is stored.
LEMMA CalmEnvironment ==
  ASSUME Calm!Environment
  PROVE  \/ ServerAnswers \/ LinkDies
         \/ (ServerPushes \/ ServerRestarts) /\ ~BeforeStored
  <1> USE DEF Calm!ServerSends, ServerSends, Calm!Accept, Accept, Calm!Plain, Plain,
          Calm!Push, Push, Calm!BeforeConnected, BeforeConnected, Calm!BeforeStored,
          BeforeStored, Calm!credentialVars, credentialVars, Calm!backoffVars, backoffVars,
          Calm!authVars, authVars, Calm!netVars, netVars, Calm!threadVars, threadVars
  <1>1. Calm!ServerAnswers => ServerAnswers
    <2>1. {CHOOSE p \in Sessions : TRUE} \subseteq Sessions
      BY CalmAssumption, Zenon
    <2>2. QED
      BY <2>1, Zenon DEF Calm!ServerAnswers, ServerAnswers
  <1>2. Calm!ServerPushes => ServerPushes /\ ~BeforeStored
    BY Zenon DEF Calm!ServerPushes, ServerPushes
  <1>3. Calm!ServerRestarts => ServerRestarts /\ ~BeforeStored
    BY Zenon DEF Calm!ServerRestarts, ServerRestarts
  <1>4. Calm!LinkDies => LinkDies
    BY Zenon DEF Calm!LinkDies, LinkDies
  <1> QED
    BY <1>1, <1>2, <1>3, <1>4, Zenon DEF Calm!Environment

LEMMA CalmStep == Calm!Next => OrderlyNext
  BY CalmMain, CalmReader, CalmDisconnect, CalmEnvironment, Zenon DEF Calm!Next, OrderlyNext

SafeMC == MCInit /\ [][MCNext]_<<vars, calm>>

\* In calm behaviours signalwire.connect carries the latest credentials, whatever is
\* lost, refused or restarted: the property of the run, for any constants.
THEOREM CalmResendsLatest == SafeMC => ResendsLatestCredentialsWhenCalm
  <1>1. MCInit => IInv /\ (calm => CInv)
    BY InitIInv, InitCInv DEF MCInit
  <1>2. /\ IInv /\ (calm => CInv)
        /\ [MCNext]_<<vars, calm>>
        => (IInv /\ (calm => CInv))'
    <2>1. ASSUME IInv, calm => CInv, calm, calm' = calm, [Calm!Next]_vars
          PROVE  (IInv /\ (calm => CInv))'
      BY <2>1, CalmStep, CInvStep
    <2>2. ASSUME IInv, ~calm, calm' = calm, [Next]_vars
          PROVE  (IInv /\ (calm => CInv))'
      BY <2>2, StepIInv
    <2>3. QED
      BY <2>1, <2>2 DEF MCNext
  <1>3. /\ IInv /\ (calm => CInv)
        /\ [MCNext]_<<vars, calm>>
        => [calm => Resends]_vars
    BY CInvResends
  <1>4. QED
    BY <1>1, <1>2, <1>3, PTL DEF SafeMC, ResendsLatestCredentialsWhenCalm
=============================================================================
