--------------------------- MODULE RelayRpcProofs ---------------------------
(***************************************************************************)
(* Proofs about RelayRpc, for any set of callers and any number of requests. *)
(***************************************************************************)
EXTENDS RelayRpc, SequenceTheorems, TLAPS

USE DEF callerVars, socketVars, serverVars, threadVars

-----------------------------------------------------------------------------
(* Type correctness. *)

LEMMA SubSeqType ==
  ASSUME NEW S, NEW s \in Seq(S), NEW n \in 0..Len(s)
  PROVE  SubSeq(s, 1, n) \in Seq(S)
  <1>1. \A i \in 1..n : s[i] \in S
    BY ElementOfSeq, LenProperties
  <1>2. QED
    BY <1>1, SubSeqProperties

LEMMA InitTypeOK == Init => TypeOK
  <1> SUFFICES ASSUME Init PROVE TypeOK
    OBVIOUS
  <1>1. inbox \in Seq(Ids \cup {Event})
    BY EmptySeq DEF Init
  <1>2. found \in Ids \X Ids
    BY DEF Init
  <1>3. QED
    BY <1>1, <1>2 DEF Init, TypeOK, CallerStates, ReaderStates

\* Each step keeps the types, thread by thread.
LEMMA StepTypeOK == TypeOK /\ [Next]_vars => TypeOK'
  <1> SUFFICES ASSUME TypeOK, [Next]_vars PROVE TypeOK'
    OBVIOUS
  <1> USE DEF TypeOK
  <1>1. ASSUME NEW c \in Callers, Caller(c) PROVE TypeOK'
    <2>1. ASSUME NEW id \in Ids, Register(c, id) PROVE TypeOK'
      BY <2>1 DEF Register, Enter, CallerStates
    <2>2. CASE CheckOpen(c)
      BY <2>2 DEF CheckOpen, CallerStates
    <2>3. CASE WriteFrame(c)
      BY <2>3 DEF WriteFrame, CallerStates
    <2>4. CASE SendFailed(c)
      BY <2>4 DEF SendFailed, Erase, CallerStates
    <2>5. CASE WaitReturns(c)
      BY <2>5 DEF WaitReturns, CallerStates
    <2>6. CASE Return(c)
      <3>1. Result(c) \in {"reply", "lost", "timeout"}
        BY <2>6 DEF Return, Result
      <3>2. QED
        BY <2>6, <3>1 DEF Return, Erase, CallerStates
    <2>7. QED
      BY <1>1, <2>1, <2>2, <2>3, <2>4, <2>5, <2>6 DEF Caller
  <1>2. CASE Environment
    <2>1. ASSUME NEW id \in Ids, ServerReplies(id) PROVE TypeOK'
      BY <2>1, AppendProperties DEF ServerReplies
    <2>2. CASE ServerSendsEvent
      BY <2>2, AppendProperties DEF ServerSendsEvent
    <2>3. CASE LinkDies
      <3>1. PICK n \in 0..Len(inbox) : inbox' = SubSeq(inbox, 1, n)
        BY <2>3 DEF LinkDies
      <3>2. inbox' \in Seq(Ids \cup {Event})
        BY <3>1, SubSeqType
      <3>3. QED
        BY <2>3, <3>2 DEF LinkDies
    <2>4. QED
      BY <1>2, <2>1, <2>2, <2>3 DEF Environment
  <1>3. CASE Reader
    <2>1. CASE ReadReply
      BY <2>1, HeadTailProperties DEF ReadReply, Matching, ReaderStates
    <2>2. CASE SetValue
      BY <2>2 DEF SetValue, ReaderStates
    <2>3. CASE ReadEvent
      BY <2>3, HeadTailProperties DEF ReadEvent, ReaderStates
    <2>4. CASE CallbackReturns
      BY <2>4 DEF CallbackReturns, ReaderStates
    <2>5. CASE ReadFails
      BY <2>5 DEF ReadFails, ReaderStates
    <2>6. CASE OnClose
      BY <2>6 DEF OnClose, RejectAllPending, ReaderStates
    <2>7. CASE ReaderExits
      BY <2>7 DEF ReaderExits, ReaderStates
    <2>8. QED
      BY <1>3, <2>1, <2>2, <2>3, <2>4, <2>5, <2>6, <2>7 DEF Reader
  <1>4. CASE Main
    <2>1. CASE OpenSocket
      BY <2>1, EmptySeq DEF OpenSocket, ReaderStates
    <2>2. CASE Authenticated
      BY <2>2 DEF Authenticated
    <2>3. CASE AuthenticationFailed
      BY <2>3, EmptySeq DEF AuthenticationFailed, CloseSocket
    <2>4. CASE MainJoins
      BY <2>4 DEF MainJoins
    <2>5. QED
      BY <1>4, <2>1, <2>2, <2>3, <2>4 DEF Main
  <1>5. CASE Disconnect
    <2>1. CASE BeginDisconnect
      BY <2>1 DEF BeginDisconnect
    <2>2. CASE DisconnectRejects
      BY <2>2 DEF DisconnectRejects, RejectAllPending
    <2>3. CASE DisconnectCloses
      BY <2>3, EmptySeq DEF DisconnectCloses, CloseSocket
    <2>4. CASE DisconnectJoins
      BY <2>4 DEF DisconnectJoins
    <2>5. QED
      BY <1>5, <2>1, <2>2, <2>3, <2>4 DEF Disconnect
  <1>6. CASE UNCHANGED vars
    BY <1>6 DEF vars
  <1>7. QED
    BY <1>1, <1>2, <1>3, <1>4, <1>5, <1>6 DEF Next

\* Every variable keeps its type, in particular every promise holds no value, the
\* "Connection lost" stub or a reply.
THEOREM TypeCorrect == SafeSpec => []TypeOK
  BY InitTypeOK, StepTypeOK, PTL DEF SafeSpec
-----------------------------------------------------------------------------
(* The inductive invariant. *)

\* Callers that are in send_request use different ids, and their requests are open.
OwnRequest ==
    /\ \A c, d \in Callers : Active(c) /\ Active(d) /\ req[c] = req[d] => c = d
    /\ \A c \in Callers : Active(c) => status[req[c]] = "open"

\* The server has not heard of a request before its frame is written, nor of a
\* request that was withdrawn.
ServerKnowsSent ==
    /\ \A c \in Callers : pc[c] \in {"registered", "writing"} =>
                              req[c] \notin atServer \cup answered
    /\ \A id \in Ids : status[id] \in {"fresh", "unsent"} =>
                              id \notin atServer \cup answered

\* Replies in flight, in the hands of the read thread and in promises are the
\* server's, and in the promise of their own request.
RepliesAreTrue ==
    /\ inbox \in Seq(answered \cup {Event})
    /\ reader = "resolving" => found[1] = found[2] /\ found[2] \in answered
    /\ \A id \in Ids : promise[id] \in {Unset, Rejected}
                          \/ (promise[id] = id /\ id \in answered)

\* A caller that found its promise set, and a request that got a reply, have it.
ValuesStay ==
    /\ \A c \in Callers : pc[c] = "ready" => promise[req[c]] # Unset
    /\ \A id \in Ids : status[id] = "reply" => promise[id] \in Ids

\* The read thread learns that its socket is closed from close(), or has closed it
\* itself and is about to reject; when it is gone, callers past the test of
\* connected_ have a value.
LossIsHandled ==
    /\ ~wsOpen /\ ~closing => reader \in {"none", "closing"}
    /\ reader = "closing" => ~wsOpen
    /\ reader = "none" /\ ~wsOpen /\ ~closing =>
         \A c \in Callers : pc[c] \in {"writing", "waiting"} => promise[req[c]] # Unset

IInv == /\ TypeOK
        /\ WaiterIsRegistered /\ PendingHasCaller
        /\ OwnRequest /\ ServerKnowsSent /\ RepliesAreTrue /\ ValuesStay
        /\ LossIsHandled

LEMMA InitIInv == Init => IInv
  <1> SUFFICES ASSUME Init PROVE IInv
    OBVIOUS
  <1>1. TypeOK
    BY InitTypeOK
  <1>2. RepliesAreTrue
    <2>1. inbox \in Seq(answered \cup {Event})
      BY EmptySeq DEF Init
    <2>2. QED
      BY <2>1 DEF Init, RepliesAreTrue
  <1>3. WaiterIsRegistered /\ PendingHasCaller
    BY DEF Init, WaiterIsRegistered, PendingHasCaller
  <1>4. OwnRequest /\ ServerKnowsSent
    BY DEF Init, OwnRequest, Active, ServerKnowsSent
  <1>5. ValuesStay /\ LossIsHandled
    BY DEF Init, ValuesStay, LossIsHandled
  <1>6. QED
    BY <1>1, <1>2, <1>3, <1>4, <1>5 DEF IInv

\* The steps that touch a caller, the pending map or a promise.
LEMMA RequestSteps ==
  ASSUME [Next]_vars
  PROVE  \/ \E c \in Callers : Caller(c)
         \/ SetValue \/ OnClose \/ DisconnectRejects
         \/ UNCHANGED <<pc, req, status, pending, promise>>
  <1>1. Environment => UNCHANGED <<pc, req, status, pending, promise>>
    BY DEF Environment, ServerReplies, ServerSendsEvent, LinkDies
  <1>2. Reader => SetValue \/ OnClose \/ UNCHANGED <<pc, req, status, pending, promise>>
    BY DEF Reader, ReadReply, ReadEvent, CallbackReturns, ReadFails, ReaderExits
  <1>3. Main => UNCHANGED <<pc, req, status, pending, promise>>
    BY DEF Main, OpenSocket, Authenticated, AuthenticationFailed, MainJoins
  <1>4. Disconnect => DisconnectRejects \/ UNCHANGED <<pc, req, status, pending, promise>>
    BY DEF Disconnect, BeginDisconnect, DisconnectCloses, DisconnectJoins
  <1>5. QED
    BY <1>1, <1>2, <1>3, <1>4 DEF Next, vars

\* What one step of a caller does to it; the other callers stay as they are.
LEMMA CallerStep ==
  ASSUME TypeOK, NEW c \in Callers, Caller(c)
  PROVE  /\ \A d \in Callers : d # c => pc'[d] = pc[d] /\ req'[d] = req[d]
         /\ UNCHANGED promise
         /\ \/ \E id \in Ids : Register(c, id)
            \/ CheckOpen(c) \/ WriteFrame(c) \/ SendFailed(c)
            \/ WaitReturns(c) \/ Return(c)
  BY DEF TypeOK, Caller, Register, CheckOpen, WriteFrame, SendFailed, WaitReturns,
         Return

\* Requests of different callers are different: the ids are fresh.
LEMMA OwnRequestStep == IInv /\ [Next]_vars => OwnRequest'
  <1> SUFFICES ASSUME IInv, [Next]_vars PROVE OwnRequest'
    OBVIOUS
  <1> USE DEF IInv, OwnRequest, Active
  <1>1. ASSUME NEW c \in Callers, Caller(c) PROVE OwnRequest'
    <2>1. ASSUME NEW id \in Ids, Register(c, id) PROVE OwnRequest'
      <3>1. \A d \in Callers : Active(d) => req[d] # id
        BY <2>1 DEF Register
      <3>2. QED
        BY <2>1, <3>1 DEF Register, TypeOK
    <2>2. CASE CheckOpen(c) \/ WriteFrame(c) \/ WaitReturns(c)
      BY <2>2 DEF CheckOpen, WriteFrame, WaitReturns, TypeOK
    <2>3. CASE SendFailed(c)
      BY <2>3 DEF SendFailed, TypeOK
    <2>4. CASE Return(c)
      BY <2>4 DEF Return, TypeOK
    <2>5. QED
      BY <1>1, <2>1, <2>2, <2>3, <2>4, CallerStep
  <1>2. CASE SetValue \/ OnClose \/ DisconnectRejects
    BY <1>2 DEF SetValue, OnClose, DisconnectRejects
  <1>3. CASE UNCHANGED <<pc, req, status, pending, promise>>
    BY <1>3
  <1>4. QED
    BY <1>1, <1>2, <1>3, RequestSteps

\* Only the caller itself takes its entry out of the map before it has a value.
LEMMA WaiterIsRegisteredStep == IInv /\ [Next]_vars => WaiterIsRegistered'
  <1> SUFFICES ASSUME IInv, [Next]_vars PROVE WaiterIsRegistered'
    OBVIOUS
  <1> USE DEF IInv, WaiterIsRegistered
  <1>1. ASSUME NEW c \in Callers, Caller(c) PROVE WaiterIsRegistered'
    <2>1. ASSUME NEW id \in Ids, Register(c, id) PROVE WaiterIsRegistered'
      BY <2>1 DEF Register, Enter, TypeOK
    <2>2. CASE CheckOpen(c) \/ WriteFrame(c) \/ WaitReturns(c)
      BY <2>2 DEF CheckOpen, WriteFrame, WaitReturns, TypeOK, CallerStates
    <2>3. CASE SendFailed(c)
      BY <2>3 DEF SendFailed, Erase, TypeOK, OwnRequest, Active
    <2>4. CASE Return(c)
      BY <2>4 DEF Return, Erase, TypeOK, OwnRequest, Active
    <2>5. QED
      BY <1>1, <2>1, <2>2, <2>3, <2>4, CallerStep
  <1>2. CASE SetValue
    BY <1>2, ConstantsAssumption DEF SetValue, TypeOK
  <1>3. CASE OnClose \/ DisconnectRejects
    BY <1>3, ConstantsAssumption DEF OnClose, DisconnectRejects, RejectAllPending, TypeOK
  <1>4. CASE UNCHANGED <<pc, req, status, pending, promise>>
    BY <1>4
  <1>5. QED
    BY <1>1, <1>2, <1>3, <1>4, RequestSteps

\* Every way out of send_request erases the entry.
LEMMA PendingHasCallerStep == IInv /\ [Next]_vars => PendingHasCaller'
  <1> SUFFICES ASSUME IInv, [Next]_vars PROVE PendingHasCaller'
    OBVIOUS
  <1> USE DEF IInv, PendingHasCaller, Active
  <1>1. ASSUME NEW c \in Callers, Caller(c) PROVE PendingHasCaller'
    <2>1. ASSUME NEW id \in Ids, Register(c, id) PROVE PendingHasCaller'
      <3> SUFFICES ASSUME NEW e \in pending'
                   PROVE  \E d \in Callers : Active(d)' /\ req'[d] = e
        OBVIOUS
      <3>1. CASE e = id
        BY <2>1, <3>1 DEF Register, TypeOK
      <3>2. CASE e # id
        <4>1. PICK d \in Callers : Active(d) /\ req[d] = e
          BY <2>1, <3>2 DEF Register, Enter
        <4>2. d # c
          BY <2>1, <4>1 DEF Register
        <4>3. QED
          BY <2>1, <4>1, <4>2 DEF Register, TypeOK
      <3>3. QED
        BY <3>1, <3>2
    <2>2. CASE CheckOpen(c) \/ WriteFrame(c) \/ WaitReturns(c)
      BY <2>2 DEF CheckOpen, WriteFrame, WaitReturns, TypeOK, CallerStates
    <2>3. CASE SendFailed(c) \/ Return(c)
      <3> SUFFICES ASSUME NEW e \in pending'
                   PROVE  \E d \in Callers : Active(d)' /\ req'[d] = e
        OBVIOUS
      <3>1. e \in pending /\ e # req[c]
        BY <2>3 DEF SendFailed, Return, Erase
      <3>2. PICK d \in Callers : Active(d) /\ req[d] = e
        BY <3>1
      <3>3. QED
        BY <2>3, <3>1, <3>2 DEF SendFailed, Return, TypeOK
    <2>4. QED
      BY <1>1, <2>1, <2>2, <2>3, CallerStep
  <1>2. CASE SetValue
    BY <1>2 DEF SetValue
  <1>3. CASE OnClose \/ DisconnectRejects
    BY <1>3 DEF OnClose, DisconnectRejects, RejectAllPending
  <1>4. CASE UNCHANGED <<pc, req, status, pending, promise>>
    BY <1>4
  <1>5. QED
    BY <1>1, <1>2, <1>3, <1>4, RequestSteps

\* A promise keeps its value, and what was true of a value stays true.
LEMMA ValuesStayStep == IInv /\ [Next]_vars => ValuesStay'
  <1> SUFFICES ASSUME IInv, [Next]_vars PROVE ValuesStay'
    OBVIOUS
  <1> USE DEF IInv, ValuesStay
  <1>1. ASSUME NEW c \in Callers, Caller(c) PROVE ValuesStay'
    <2>1. ASSUME NEW id \in Ids, Register(c, id) PROVE ValuesStay'
      BY <2>1 DEF Register, TypeOK
    <2>2. CASE CheckOpen(c) \/ WriteFrame(c)
      BY <2>2 DEF CheckOpen, WriteFrame, TypeOK
    <2>3. CASE WaitReturns(c)
      BY <2>3 DEF WaitReturns, TypeOK
    <2>4. CASE SendFailed(c)
      BY <2>4 DEF SendFailed, TypeOK
    <2>5. CASE Return(c)
      <3>1. Result(c) = "reply" => promise[req[c]] \in Ids
        BY <2>5 DEF Return, Result, TypeOK
      <3>2. QED
        BY <2>5, <3>1 DEF Return, TypeOK
    <2>6. QED
      BY <1>1, <2>1, <2>2, <2>3, <2>4, <2>5, CallerStep
  <1>2. CASE SetValue
    BY <1>2, ConstantsAssumption DEF SetValue, TypeOK
  <1>3. CASE OnClose \/ DisconnectRejects
    BY <1>3, ConstantsAssumption DEF OnClose, DisconnectRejects, RejectAllPending, TypeOK
  <1>4. CASE UNCHANGED <<pc, req, status, pending, promise>>
    BY <1>4
  <1>5. QED
    BY <1>1, <1>2, <1>3, <1>4, RequestSteps

\* The server learns of a request from its frame alone.
LEMMA ServerKnowsSentStep == IInv /\ [Next]_vars => ServerKnowsSent'
  <1> SUFFICES ASSUME IInv, [Next]_vars PROVE ServerKnowsSent'
    OBVIOUS
  <1> USE DEF IInv, ServerKnowsSent
  <1>1. ASSUME NEW c \in Callers, Caller(c) PROVE ServerKnowsSent'
    <2>1. ASSUME NEW id \in Ids, Register(c, id) PROVE ServerKnowsSent'
      BY <2>1 DEF Register, TypeOK
    <2>2. CASE CheckOpen(c)
      BY <2>2 DEF CheckOpen, TypeOK
    <2>3. CASE WriteFrame(c)
      <3>1. status[req[c]] = "open"
        BY <2>3 DEF WriteFrame, OwnRequest, Active
      <3>2. \A d \in Callers : pc[d] \in {"registered", "writing"} /\ d # c
                                  => req[d] # req[c]
        BY <2>3 DEF WriteFrame, OwnRequest, Active
      <3>3. QED
        BY <2>3, <3>1, <3>2 DEF WriteFrame, TypeOK
    <2>4. CASE SendFailed(c)
      BY <2>4 DEF SendFailed, TypeOK
    <2>5. CASE WaitReturns(c)
      BY <2>5 DEF WaitReturns, TypeOK
    <2>6. CASE Return(c)
      <3>1. Result(c) \notin {"fresh", "unsent"}
        BY <2>6 DEF Return, Result
      <3>2. QED
        BY <2>6, <3>1 DEF Return, TypeOK
    <2>7. QED
      BY <1>1, <2>1, <2>2, <2>3, <2>4, <2>5, <2>6, CallerStep
  <1>2. CASE Environment
    BY <1>2 DEF Environment, ServerReplies, ServerSendsEvent, LinkDies
  <1>3. CASE Reader
    BY <1>3 DEF Reader, ReadReply, SetValue, ReadEvent, CallbackReturns, ReadFails,
                OnClose, ReaderExits
  <1>4. CASE Main
    BY <1>4 DEF Main, OpenSocket, Authenticated, AuthenticationFailed, CloseSocket,
                MainJoins
  <1>5. CASE Disconnect
    BY <1>5 DEF Disconnect, BeginDisconnect, DisconnectRejects, DisconnectCloses,
                CloseSocket, DisconnectJoins
  <1>6. CASE UNCHANGED vars
    BY <1>6 DEF vars
  <1>7. QED
    BY <1>1, <1>2, <1>3, <1>4, <1>5, <1>6 DEF Next

\* Frames are only taken from the inbox or cut off, and matched by id.
LEMMA RepliesAreTrueStep == IInv /\ [Next]_vars => RepliesAreTrue'
  <1> SUFFICES ASSUME IInv, [Next]_vars PROVE RepliesAreTrue'
    OBVIOUS
  <1> USE DEF IInv, RepliesAreTrue
  <1>1. ASSUME NEW c \in Callers, Caller(c) PROVE RepliesAreTrue'
    BY <1>1 DEF Caller, Register, CheckOpen, WriteFrame, SendFailed, WaitReturns, Return
  <1>2. CASE Environment
    <2>1. ASSUME NEW id \in Ids, ServerReplies(id) PROVE RepliesAreTrue'
      <3>1. inbox \in Seq(answered' \cup {Event})
        BY <2>1, SeqMonotonic DEF ServerReplies
      <3>2. inbox' \in Seq(answered' \cup {Event})
        BY <2>1, <3>1, AppendProperties DEF ServerReplies
      <3>3. QED
        BY <2>1, <3>2 DEF ServerReplies
    <2>2. CASE ServerSendsEvent
      <3>1. inbox' \in Seq(answered \cup {Event})
        BY <2>2, AppendProperties DEF ServerSendsEvent
      <3>2. QED
        BY <2>2, <3>1 DEF ServerSendsEvent
    <2>3. CASE LinkDies
      <3>1. PICK n \in 0..Len(inbox) : inbox' = SubSeq(inbox, 1, n)
        BY <2>3 DEF LinkDies
      <3>2. inbox' \in Seq(answered \cup {Event})
        BY <3>1, SubSeqType
      <3>3. QED
        BY <2>3, <3>2 DEF LinkDies
    <2>4. QED
      BY <1>2, <2>1, <2>2, <2>3 DEF Environment
  <1>3. CASE Reader
    <2>1. CASE ReadReply
      <3>1. inbox' \in Seq(answered \cup {Event}) /\ Head(inbox) \in answered
        BY <2>1, HeadTailProperties DEF ReadReply
      <3>2. QED
        BY <2>1, <3>1 DEF ReadReply, Matching
    <2>2. CASE SetValue
      BY <2>2 DEF SetValue, TypeOK
    <2>3. CASE ReadEvent
      <3>1. inbox' \in Seq(answered \cup {Event})
        BY <2>3, HeadTailProperties DEF ReadEvent
      <3>2. QED
        BY <2>3, <3>1 DEF ReadEvent
    <2>4. CASE CallbackReturns \/ ReadFails \/ ReaderExits
      BY <2>4 DEF CallbackReturns, ReadFails, ReaderExits
    <2>5. CASE OnClose
      BY <2>5 DEF OnClose, RejectAllPending
    <2>6. QED
      BY <1>3, <2>1, <2>2, <2>3, <2>4, <2>5 DEF Reader
  <1>4. CASE Main
    <2>1. inbox' \in Seq(answered \cup {Event}) /\ UNCHANGED <<answered, promise, found>>
      BY <1>4, EmptySeq DEF Main, OpenSocket, Authenticated, AuthenticationFailed,
                            CloseSocket, MainJoins
    <2>2. reader' = "resolving" => reader = "resolving"
      BY <1>4 DEF Main, OpenSocket, Authenticated, AuthenticationFailed, MainJoins
    <2>3. QED
      BY <2>1, <2>2
  <1>5. CASE Disconnect
    <2>1. inbox' \in Seq(answered \cup {Event}) /\ UNCHANGED <<answered, reader, found>>
      BY <1>5, EmptySeq DEF Disconnect, BeginDisconnect, DisconnectRejects,
                            DisconnectCloses, CloseSocket, DisconnectJoins
    <2>2. \A id \in Ids : promise'[id] \in {promise[id], Rejected}
      BY <1>5 DEF Disconnect, BeginDisconnect, DisconnectRejects, RejectAllPending,
                  DisconnectCloses, DisconnectJoins
    <2>3. QED
      BY <2>1, <2>2
  <1>6. CASE UNCHANGED vars
    BY <1>6 DEF vars
  <1>7. QED
    BY <1>1, <1>2, <1>3, <1>4, <1>5, <1>6 DEF Next

\* The three orders: register before send, connected_ = false before on_close_, and
\* on_close_ before the thread ends.
LEMMA LossIsHandledStep == IInv /\ [Next]_vars => LossIsHandled'
  <1> SUFFICES ASSUME IInv, [Next]_vars PROVE LossIsHandled'
    OBVIOUS
  <1> USE DEF IInv, LossIsHandled
  <1>1. ASSUME NEW c \in Callers, Caller(c) PROVE LossIsHandled'
    <2>1. UNCHANGED <<wsOpen, closing, reader, promise>>
      BY <1>1 DEF Caller, Register, CheckOpen, WriteFrame, SendFailed, WaitReturns, Return
    <2>2. \/ wsOpen
          \/ pc'[c] \notin {"writing", "waiting"}
          \/ pc[c] \in {"writing", "waiting"} /\ req'[c] = req[c]
      BY <1>1 DEF Caller, Register, CheckOpen, WriteFrame, SendFailed, WaitReturns,
                  Return, TypeOK, CallerStates
    <2>3. QED
      BY <1>1, <2>1, <2>2, CallerStep
  <1>2. CASE Environment
    BY <1>2 DEF Environment, ServerReplies, ServerSendsEvent, LinkDies
  <1>3. CASE Reader
    <2>1. CASE SetValue
      BY <2>1, ConstantsAssumption DEF SetValue, TypeOK
    <2>2. CASE ReadReply \/ ReadEvent \/ CallbackReturns
      BY <2>2 DEF ReadReply, ReadEvent, CallbackReturns, Reading
    <2>3. CASE ReadFails
      BY <2>3 DEF ReadFails
    <2>4. CASE OnClose
      <3>1. \A c \in Callers : pc[c] \in {"writing", "waiting"} => promise'[req[c]] # Unset
        BY <2>4, ConstantsAssumption DEF OnClose, RejectAllPending, WaiterIsRegistered, TypeOK
      <3>2. QED
        BY <2>4, <3>1 DEF OnClose
    <2>5. CASE ReaderExits
      BY <2>5 DEF ReaderExits
    <2>6. QED
      BY <1>3, <2>1, <2>2, <2>3, <2>4, <2>5 DEF Reader
  <1>4. CASE Main
    <2>1. CASE OpenSocket
      BY <2>1 DEF OpenSocket
    <2>2. CASE Authenticated \/ MainJoins
      BY <2>2 DEF Authenticated, MainJoins
    <2>3. CASE AuthenticationFailed
      BY <2>3 DEF AuthenticationFailed, CloseSocket, TypeOK
    <2>4. QED
      BY <1>4, <2>1, <2>2, <2>3 DEF Main
  <1>5. CASE Disconnect
    <2>1. CASE DisconnectRejects
      BY <2>1, ConstantsAssumption DEF DisconnectRejects, RejectAllPending, TypeOK
    <2>2. CASE BeginDisconnect \/ DisconnectJoins
      BY <2>2 DEF BeginDisconnect, DisconnectJoins
    <2>3. CASE DisconnectCloses
      BY <2>3 DEF DisconnectCloses, CloseSocket
    <2>4. QED
      BY <1>5, <2>1, <2>2, <2>3 DEF Disconnect
  <1>6. CASE UNCHANGED vars
    BY <1>6 DEF vars
  <1>7. QED
    BY <1>1, <1>2, <1>3, <1>4, <1>5, <1>6 DEF Next

LEMMA StepIInv == IInv /\ [Next]_vars => IInv'
  <1>1. IInv => TypeOK
    BY DEF IInv
  <1>2. QED
    BY <1>1, StepTypeOK, OwnRequestStep, WaiterIsRegisteredStep, PendingHasCallerStep,
       ValuesStayStep, ServerKnowsSentStep, RepliesAreTrueStep, LossIsHandledStep
       DEF IInv

LEMMA Invariance == SafeSpec => []IInv
  BY InitIInv, StepIInv, PTL DEF SafeSpec
-----------------------------------------------------------------------------
(* What RelayRpc promises. *)

\* A caller that waits without a value can be found by its reply and by
\* reject_all_pending().
THEOREM WaitersAreRegistered == SafeSpec => []WaiterIsRegistered
  <1>1. IInv => WaiterIsRegistered
    BY DEF IInv
  <1>2. QED
    BY <1>1, Invariance, PTL

\* pending_requests_ does not leak.
THEOREM PendingDoesNotLeak == SafeSpec => []PendingHasCaller
  <1>1. IInv => PendingHasCaller
    BY DEF IInv
  <1>2. QED
    BY <1>1, Invariance, PTL

\* A reply is returned only to the request it answers, and a request is reported
\* as not sent only if the server never saw it.
THEOREM OutcomesAreTrue == SafeSpec => []OutcomeIsTrue
  <1>1. ASSUME IInv, NEW id \in Ids
        PROVE  /\ status[id] = "reply" => promise[id] = id /\ id \in answered
               /\ status[id] = "unsent" => id \notin answered \cup atServer
    <2>1. CASE status[id] = "reply"
      BY <1>1, <2>1, ConstantsAssumption DEF IInv, ValuesStay, RepliesAreTrue
    <2>2. CASE status[id] = "unsent"
      BY <1>1, <2>2 DEF IInv, ServerKnowsSent
    <2>3. QED
      BY <2>1, <2>2
  <1>2. IInv => OutcomeIsTrue
    BY <1>1 DEF OutcomeIsTrue
  <1>3. QED
    BY <1>2, Invariance, PTL

\* When the read thread has gone because of a loss, nobody waits without a value.
THEOREM LossIsReported == SafeSpec => []LossLeavesNoWaiter
  <1>1. IInv => LossLeavesNoWaiter
    BY DEF IInv, LossIsHandled, LossLeavesNoWaiter
  <1>2. QED
    BY <1>1, Invariance, PTL

\* Every step of the implementation is a step of Rpc or leaves the status of the
\* requests and the server's replies alone.
THEOREM SafelyImplementsRpc == SafeSpec => R!SafeSpec
  <1>1. Init => R!Init
    BY DEF Init, R!Init
  <1>2. IInv /\ [Next]_vars => [R!Next]_(R!rpcVars)
    <2> SUFFICES ASSUME IInv, [Next]_vars PROVE [R!Next]_(R!rpcVars)
      OBVIOUS
    <2> USE DEF IInv, R!Next, R!rpcVars
    <2>1. ASSUME NEW c \in Callers, Caller(c) PROVE [R!Next]_(R!rpcVars)
      <3>1. ASSUME NEW id \in Ids, Register(c, id) PROVE R!Start(id)
        BY <3>1 DEF Register, R!Start
      <3>2. CASE CheckOpen(c) \/ WriteFrame(c) \/ WaitReturns(c)
        BY <3>2 DEF CheckOpen, WriteFrame, WaitReturns
      <3>3. CASE SendFailed(c)
        <4>1. status[req[c]] = "open" /\ req[c] \in Ids /\ req[c] \notin answered
          BY <3>3 DEF SendFailed, OwnRequest, Active, ServerKnowsSent, TypeOK
        <4>2. R!Finish(req[c])
          BY <3>3, <4>1 DEF SendFailed, R!Finish, R!Outcomes
        <4>3. QED
          BY <4>1, <4>2
      <3>4. CASE Return(c)
        <4>1. status[req[c]] = "open" /\ req[c] \in Ids
          BY <3>4 DEF Return, OwnRequest, Active, TypeOK
        <4>2. Result(c) \in {"reply", "lost", "timeout"}
          BY <3>4 DEF Return, Result
        <4>3. Result(c) = "reply" => req[c] \in answered
          BY <3>4 DEF Return, Result, ValuesStay, RepliesAreTrue, TypeOK
        <4>4. R!Finish(req[c])
          BY <3>4, <4>1, <4>2, <4>3 DEF Return, R!Finish, R!Outcomes
        <4>5. QED
          BY <4>1, <4>4
      <3>5. QED
        BY <2>1, <3>1, <3>2, <3>3, <3>4, CallerStep
    <2>2. CASE Environment
      <3>1. ASSUME NEW id \in Ids, ServerReplies(id) PROVE R!Answer(id)
        BY <3>1 DEF ServerReplies, ServerKnowsSent, R!Answer
      <3>2. CASE ServerSendsEvent \/ LinkDies
        BY <3>2 DEF ServerSendsEvent, LinkDies
      <3>3. QED
        BY <2>2, <3>1, <3>2 DEF Environment
    <2>3. CASE Reader
      BY <2>3 DEF Reader, ReadReply, SetValue, ReadEvent, CallbackReturns, ReadFails,
                  OnClose, ReaderExits
    <2>4. CASE Main
      BY <2>4 DEF Main, OpenSocket, Authenticated, AuthenticationFailed, MainJoins
    <2>5. CASE Disconnect
      BY <2>5 DEF Disconnect, BeginDisconnect, DisconnectRejects, DisconnectCloses,
                  DisconnectJoins
    <2>6. CASE UNCHANGED vars
      BY <2>6 DEF vars
    <2>7. QED
      BY <2>1, <2>2, <2>3, <2>4, <2>5, <2>6 DEF Next
  <1>3. QED
    BY <1>1, <1>2, Invariance, PTL DEF SafeSpec, R!SafeSpec
=============================================================================
