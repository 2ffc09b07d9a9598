---------------------------- MODULE RelayTrafficProofs ----------------------------
(***************************************************************************)
(* Theorems about three parts of the RELAY client, for any number of          *)
(* messages, frames and offers. RelayMessage: what completes a message is what*)
(* the server said, and its callback runs once. WebSocket: a close() that has *)
(* closed the connection leaves no callback behind, on_close is called once   *)
(* at most, and frames are written one at a time. RelayInbound: no handler    *)
(* sleeps through the end of its call, and each runs once.                    *)
(***************************************************************************)
EXTENDS MCRelayTraffic, SequenceTheorems, TLAPS

(* Outbound messages. *)

Frame == [type : {"reply"}, msg : Messages, value : {"accepted", "refused"}]
           \cup [type : {"state"}, msg : Messages, value : {"sent"} \cup Terminal]

IsState(f, m) == f.type = "state" /\ f.msg = m

\* The types of the frames, which TypeOK leaves open.
Frames == inbox \in Seq(Frame)

\* A message is tracked when send_message has returned; the server has not heard
\* of one that is not sent.
SentFirst ==
    /\ \A m \in tracked : pc[m] = "held"
    /\ \A m \in Messages : pc[m] = "new" => server[m] = "none"

\* A terminal state on its way is the last word of the server on its message: in
\* the server's view and in the queue.
LastWord ==
    \A i \in 1..Len(inbox) : inbox[i].type = "state" /\ inbox[i].value \in Terminal =>
        /\ server[inbox[i].msg] = inbox[i].value
        /\ \A j \in (i+1)..Len(inbox) : ~IsState(inbox[j], inbox[i].msg)

\* A completed message is tracked, and nothing comes after the state that
\* completed it.
CompletedIsLast ==
    \A m \in Messages : completed[m] =>
        m \in tracked /\ \A i \in 1..Len(inbox) : ~IsState(inbox[i], m)

\* The callback in the hands of the read thread is that of a completed message.
PushedIsCompleted ==
    \A m \in Messages : pushing = [msg |-> m] => m \in watched /\ completed[m]

Types == TypeOK /\ Frames

IInv == /\ Types
        /\ SentFirst /\ LastWord
        /\ CompletedIsLast /\ CompletionIsTrue
        /\ PushedIsCompleted /\ CallbackRunsOnce
-----------------------------------------------------------------------------
(* Queues. *)

LEMMA AppendAt ==
  ASSUME NEW S, NEW q \in Seq(S), NEW f \in S
  PROVE  /\ Append(q, f) \in Seq(S)
         /\ Len(Append(q, f)) = Len(q) + 1
         /\ \A i \in 1..Len(q) : Append(q, f)[i] = q[i]
         /\ Append(q, f)[Len(q) + 1] = f
  BY AppendProperties

LEMMA TailAt ==
  ASSUME NEW S, NEW q \in Seq(S), q # <<>>
  PROVE  /\ Len(q) \in Nat /\ Len(q) >= 1
         /\ Head(q) = q[1] /\ q[1] \in S
         /\ Tail(q) \in Seq(S)
         /\ Len(Tail(q)) = Len(q) - 1
         /\ \A i \in 1..(Len(q) - 1) : Tail(q)[i] = q[i+1]
  <1>1. Len(q) \in Nat /\ Len(q) >= 1
    BY EmptySeq, LenProperties
  <1>2. q[1] \in S
    BY <1>1, ElementOfSeq
  <1>3. QED
    BY <1>1, <1>2, HeadTailProperties
-----------------------------------------------------------------------------
(* Types. *)

LEMMA InitTypes == Init => Types
  <1>1. <<>> \in Seq(Frame) /\ Len(<<>>) = 0
    BY EmptySeq
  <1>2. ASSUME Init PROVE pushing \in {[msg |-> m] : m \in Messages \cup {"none"}}
    BY <1>2 DEF Init, NoEvent
  <1>3. ASSUME Init PROVE inbox \in Seq(Frame) /\ Len(inbox) <= MaxInbox
    <2>1. inbox = <<>>
      BY <1>3 DEF Init
    <2>2. 0 <= MaxInbox
      BY ConstantsAssumption
    <2>3. QED
      BY ONLY <1>1, <2>1, <2>2
  <1>4. ASSUME Init PROVE /\ fired \in [Messages -> 0..2]
    <2>1. 0 \in 0..2
      OBVIOUS
    <2>2. fired = [m \in Messages |-> 0]
      BY <1>4 DEF Init
    <2>3. QED
      BY ONLY <2>1, <2>2
  <1>5. ASSUME Init PROVE /\ completed \in [Messages -> BOOLEAN]
                          /\ tracked \subseteq Messages /\ watched \subseteq Messages
    BY <1>5 DEF Init
  <1>6. ASSUME Init PROVE /\ pc \in [Messages -> {"new", "executing", "held"}]
                          /\ reply \in [Messages -> {"none", "accepted", "refused", "threw"}]
                          /\ state \in [Messages -> {"", "queued", "sent"} \cup Terminal]
                          /\ server \in [Messages -> {"none", "asked", "accepted", "refused", "sent"}
                                                        \cup Terminal]
    BY <1>6 DEF Init
  <1>7. QED
    BY <1>2, <1>3, <1>4, <1>5, <1>6 DEF Types, TypeOK, Frames

\* What a frame of the server does to the queue.
LEMMA SendsFrame ==
  ASSUME Types, NEW f \in Frame, Sends(f)
  PROVE  /\ inbox' \in Seq(Frame) /\ Len(inbox) \in Nat
         /\ Len(inbox') = Len(inbox) + 1 /\ Len(inbox') <= MaxInbox
         /\ \A i \in 1..Len(inbox) : inbox'[i] = inbox[i]
         /\ inbox'[Len(inbox) + 1] = f
  <1>1. Len(inbox) \in Nat
    BY LenProperties DEF Types, Frames
  <1>2. QED
    BY <1>1, AppendAt, ConstantsAssumption DEF Types, Frames, Sends

\* What the read thread does to it.
LEMMA TakesFrame ==
  ASSUME Types, NEW t, Takes(t)
  PROVE  /\ Len(inbox) \in Nat /\ Len(inbox) >= 1
         /\ Head(inbox) = inbox[1] /\ inbox[1] \in Frame /\ inbox[1].type = t
         /\ inbox' \in Seq(Frame)
         /\ Len(inbox') = Len(inbox) - 1 /\ Len(inbox') <= MaxInbox
         /\ \A i \in 1..(Len(inbox) - 1) : inbox'[i] = inbox[i+1]
  <1>1. inbox \in Seq(Frame) /\ inbox # <<>> /\ inbox' = Tail(inbox) /\ Head(inbox).type = t
    BY DEF Types, Frames, Takes
  <1>2. Len(inbox) <= MaxInbox /\ MaxInbox \in Nat
    BY ConstantsAssumption DEF Types, TypeOK
  <1>3. /\ Len(inbox) \in Nat /\ Len(inbox) >= 1
        /\ Head(inbox) = inbox[1] /\ inbox[1] \in Frame
        /\ inbox' \in Seq(Frame)
        /\ Len(inbox') = Len(inbox) - 1
        /\ \A i \in 1..(Len(inbox) - 1) : inbox'[i] = inbox[i+1]
    BY <1>1, TailAt
  <1>4. Len(inbox') <= MaxInbox
    BY <1>2, <1>3
  <1>5. QED
    BY <1>1, <1>3, <1>4

LEMMA StepTypes == Types /\ [Next]_vars => Types'
  <1> SUFFICES ASSUME Types, [Next]_vars PROVE Types'
    OBVIOUS
  <1>1. ASSUME NEW m \in Messages, App(m) PROVE Types'
    <2>1. CASE Send(m)
      BY <2>1 DEF Send, Types, TypeOK, Frames, Terminal
    <2>2. CASE SendThrows(m)
      BY <2>2 DEF SendThrows, ThrownState, Types, TypeOK, Frames, Terminal
    <2>3. CASE Track(m)
      BY <2>3 DEF Track, Types, TypeOK, Frames, Terminal
    <2>4. CASE SetCallback(m)
      <3>1. \E n \in 0..2 : fired' = [fired EXCEPT ![m] = n]
        <4>1. fired' = [fired EXCEPT ![m] = IF completed[m] THEN 1 ELSE fired[m]]
          BY <2>4 DEF SetCallback, OnSet
        <4>2. 1 \in 0..2
          OBVIOUS
        <4>3. fired[m] \in 0..2
          BY DEF Types, TypeOK
        <4>4. QED
          BY <4>1, <4>2, <4>3, Zenon
      <3>2. fired' \in [Messages -> 0..2]
        BY <3>1, Zenon DEF Types, TypeOK
      <3>3. QED
        BY <2>4, <3>2 DEF SetCallback, Types, TypeOK, Frames
    <2>5. QED
      BY <1>1, <2>1, <2>2, <2>3, <2>4 DEF App
  <1>2. ASSUME NEW m \in Messages, ServerReplies(m) PROVE Types'
    <2>1. PICK s \in {"accepted", "refused"} :
            /\ server' = [server EXCEPT ![m] = s]
            /\ Sends([type |-> "reply", msg |-> m, value |-> s])
      BY <1>2 DEF ServerReplies
    <2>2. [type |-> "reply", msg |-> m, value |-> s] \in Frame
      BY DEF Frame
    <2>3. inbox' \in Seq(Frame) /\ Len(inbox') <= MaxInbox
      BY <2>1, <2>2, SendsFrame
    <2>4. QED
      BY <1>2, <2>1, <2>3 DEF ServerReplies, Types, TypeOK, Frames, Terminal
  <1>3. ASSUME NEW m \in Messages, ServerPushesState(m) PROVE Types'
    <2>1. PICK s \in {"sent"} \cup Terminal :
            /\ server' = [server EXCEPT ![m] = s]
            /\ Sends([type |-> "state", msg |-> m, value |-> s])
      BY <1>3 DEF ServerPushesState
    <2>2. [type |-> "state", msg |-> m, value |-> s] \in Frame
      BY DEF Frame
    <2>3. inbox' \in Seq(Frame) /\ Len(inbox') <= MaxInbox
      BY <2>1, <2>2, SendsFrame
    <2>4. QED
      BY <1>3, <2>1, <2>3 DEF ServerPushesState, Types, TypeOK, Frames, Terminal
  <1>4. CASE ReadReply
    <2>1. Takes("reply")
      BY <1>4 DEF ReadReply
    <2>2. inbox' \in Seq(Frame) /\ Len(inbox') <= MaxInbox
      BY <2>1, TakesFrame DEF Types
    <2>3. Head(inbox).value \in {"accepted", "refused"}
      BY <2>1, TakesFrame DEF Frame
    <2>4. reply' \in [Messages -> {"none", "accepted", "refused", "threw"}]
      BY <1>4, <2>3 DEF ReadReply, Types, TypeOK
    <2>5. QED
      BY <1>4, <2>2, <2>4 DEF ReadReply, Types, TypeOK, Frames
  <1>5. CASE ReadState
    <2> DEFINE f == Head(inbox)
    <2>1. Takes("state")
      BY <1>5 DEF ReadState
    <2>2. inbox' \in Seq(Frame) /\ Len(inbox') <= MaxInbox
      BY <2>1, TakesFrame DEF Types
    <2>3. f.msg \in Messages /\ f.value \in {"sent"} \cup Terminal
      BY <2>1, TakesFrame DEF Frame
    <2>4. state' \in [Messages -> {"", "queued", "sent"} \cup Terminal]
      BY <1>5, <2>3 DEF ReadState, Types, TypeOK
    <2>5. completed' \in [Messages -> BOOLEAN]
      <3>1. completed' = [completed EXCEPT ![f.msg] =
                            @ \/ (f.msg \in tracked /\ Completes(f.value))]
        BY <1>5 DEF ReadState
      <3>2. QED
        BY <2>3, <3>1, Zenon DEF Completes, Types, TypeOK
    <2>6. pushing' \in {[msg |-> m] : m \in Messages \cup {"none"}}
      BY <1>5, <2>3 DEF ReadState, NoEvent
    <2>7. QED
      BY <1>5, <2>2, <2>4, <2>5, <2>6 DEF ReadState, Types, TypeOK, Frames
  <1>6. CASE RunCallback
    <2>1. PICK m \in Messages : pushing = [msg |-> m]
      BY <1>6 DEF RunCallback, NoEvent, Types, TypeOK
    <2>2. fired' = [fired EXCEPT ![m] = IF fired[m] < 2 THEN fired[m] + 1 ELSE fired[m]]
      BY <1>6, <2>1 DEF RunCallback
    <2>3. (IF fired[m] < 2 THEN fired[m] + 1 ELSE fired[m]) \in 0..2
      <3>1. fired[m] \in 0..2
        BY DEF Types, TypeOK
      <3>2. QED
        BY <3>1
    <2>4. fired' \in [Messages -> 0..2]
      BY <2>2, <2>3, Zenon DEF Types, TypeOK
    <2>5. pushing' \in {[msg |-> n] : n \in Messages \cup {"none"}}
      BY <1>6 DEF RunCallback, NoEvent
    <2>6. QED
      BY <1>6, <2>4, <2>5 DEF RunCallback, Types, TypeOK, Frames
  <1>7. CASE UNCHANGED vars
    BY <1>7 DEF vars, Types, TypeOK, Frames
  <1>8. QED
    BY <1>1, <1>2, <1>3, <1>4, <1>5, <1>6, <1>7 DEF Next, Server, Reader

\* RelayMessage is type-correct: the states and counters of send_message and of
\* the read thread keep to their ranges.
THEOREM TypeCorrect == SafeSpec => []TypeOK
  <1>1. Types => TypeOK
    BY DEF Types
  <1>2. QED
    BY <1>1, InitTypes, StepTypes, PTL DEF SafeSpec
-----------------------------------------------------------------------------
(* The inductive invariant. *)

LEMMA InitIInv == Init => IInv
  <1> SUFFICES ASSUME Init PROVE IInv
    OBVIOUS
  <1>1. Len(inbox) = 0
    BY EmptySeq DEF Init
  <1>2. \A m \in Messages : pushing # [msg |-> m]
    BY ConstantsAssumption DEF Init, NoEvent
  <1>3. LastWord
    BY <1>1 DEF LastWord
  <1>4. QED
    BY InitTypes, <1>2, <1>3 DEF Init, IInv, SentFirst, CompletedIsLast,
       CompletionIsTrue, PushedIsCompleted, CallbackRunsOnce

LEMMA SentFirstStep == IInv /\ [Next]_vars => SentFirst'
  <1> SUFFICES ASSUME IInv, [Next]_vars PROVE SentFirst'
    OBVIOUS
  <1> USE DEF IInv, Types, TypeOK, SentFirst
  <1>1. ASSUME NEW m \in Messages, App(m) PROVE SentFirst'
    <2>1. CASE Send(m) \/ SendThrows(m)
      BY <2>1 DEF Send, SendThrows
    <2>2. CASE Track(m)
      BY <2>2 DEF Track
    <2>3. CASE SetCallback(m)
      BY <2>3 DEF SetCallback
    <2>4. QED
      BY <1>1, <2>1, <2>2, <2>3 DEF App
  <1>2. CASE Server
    BY <1>2 DEF Server, ServerReplies, ServerPushesState
  <1>3. CASE Reader
    BY <1>3 DEF Reader, ReadReply, ReadState, RunCallback
  <1>4. CASE UNCHANGED vars
    BY <1>4 DEF vars
  <1>5. QED
    BY <1>1, <1>2, <1>3, <1>4 DEF Next

\* A frame of the server keeps the order: nothing of m that is terminal is on its way.
LEMMA ServerSends ==
  ASSUME IInv, NEW m \in Messages, ServerReplies(m) \/ ServerPushesState(m)
  PROVE  \E f \in Frame :
           /\ f.msg = m /\ Len(inbox) \in Nat
           /\ f.type = "state" => f.value = server'[m] /\ server[m] \in {"accepted", "sent"}
           /\ server[m] \notin Terminal
           /\ \A n \in Messages : n # m => server'[n] = server[n]
           /\ Len(inbox') = Len(inbox) + 1
           /\ \A i \in 1..Len(inbox) : inbox'[i] = inbox[i]
           /\ inbox'[Len(inbox) + 1] = f
  <1>1. CASE ServerReplies(m)
    <2>1. PICK s \in {"accepted", "refused"} :
            /\ server' = [server EXCEPT ![m] = s]
            /\ Sends([type |-> "reply", msg |-> m, value |-> s])
      BY <1>1 DEF ServerReplies
    <2>2. [type |-> "reply", msg |-> m, value |-> s] \in Frame
      BY DEF Frame
    <2>3. server[m] \notin Terminal
      BY <1>1 DEF ServerReplies, Terminal
    <2>4. QED
      BY <2>1, <2>2, <2>3, SendsFrame DEF IInv, Types, TypeOK
  <1>2. CASE ServerPushesState(m)
    <2>1. PICK s \in {"sent"} \cup Terminal :
            /\ server' = [server EXCEPT ![m] = s]
            /\ Sends([type |-> "state", msg |-> m, value |-> s])
      BY <1>2 DEF ServerPushesState
    <2>2. [type |-> "state", msg |-> m, value |-> s] \in Frame
      BY DEF Frame
    <2>3. server[m] \in {"accepted", "sent"} /\ server[m] \notin Terminal
      BY <1>2 DEF ServerPushesState, Terminal
    <2>4. QED
      BY <2>1, <2>2, <2>3, SendsFrame DEF IInv, Types, TypeOK
  <1>3. QED
    BY <1>1, <1>2

LEMMA LastWordStep == IInv /\ [Next]_vars => LastWord'
  <1> SUFFICES ASSUME IInv, [Next]_vars PROVE LastWord'
    OBVIOUS
  <1>0. /\ Types /\ LastWord /\ SentFirst /\ inbox \in Seq(Frame) /\ Len(inbox) \in Nat
        /\ \A i \in 1..Len(inbox) : inbox[i] \in Frame /\ inbox[i].msg \in Messages
    BY LenProperties, ElementOfSeq DEF IInv, Types, Frames, Frame
  <1>1. ASSUME NEW m \in Messages, Send(m) PROVE LastWord'
    <2>1. server[m] = "none" /\ inbox' = inbox
      BY <1>0, <1>1 DEF Send, SentFirst
    <2>2. \A n \in Messages : server[n] \in Terminal => server'[n] = server[n]
      BY <1>0, <1>1, <2>1 DEF Send, Terminal, Types, TypeOK
    <2>3. QED
      BY <1>0, <2>1, <2>2 DEF LastWord
  <1>2. ASSUME NEW m \in Messages, ServerReplies(m) \/ ServerPushesState(m) PROVE LastWord'
    <2>1. PICK f \in Frame :
            /\ f.msg = m
            /\ f.type = "state" => f.value = server'[m]
            /\ server[m] \notin Terminal
            /\ \A n \in Messages : n # m => server'[n] = server[n]
            /\ Len(inbox') = Len(inbox) + 1
            /\ \A i \in 1..Len(inbox) : inbox'[i] = inbox[i]
            /\ inbox'[Len(inbox) + 1] = f
      BY <1>2, ServerSends
    <2> SUFFICES ASSUME NEW i \in 1..Len(inbox'),
                        inbox'[i].type = "state", inbox'[i].value \in Terminal
                 PROVE  /\ server'[inbox'[i].msg] = inbox'[i].value
                        /\ \A j \in (i+1)..Len(inbox') : ~IsState(inbox'[j], inbox'[i].msg)
      BY DEF LastWord, IsState
    <2>2. CASE i = Len(inbox) + 1
      BY <1>0, <2>1, <2>2
    <2>3. CASE i \in 1..Len(inbox)
      <3>1. /\ server[inbox[i].msg] = inbox[i].value /\ inbox[i].msg \in Messages
            /\ \A j \in (i+1)..Len(inbox) : ~IsState(inbox[j], inbox[i].msg)
            /\ inbox'[i] = inbox[i]
        BY <1>0, <2>1, <2>3 DEF LastWord
      <3>2. inbox[i].msg # m
        BY <2>1, <3>1
      <3>3. \A j \in (i+1)..Len(inbox') : j = Len(inbox) + 1 \/ (j \in (i+1)..Len(inbox) /\ j \in 1..Len(inbox))
        BY <1>0, <2>1, <2>3
      <3>4. QED
        BY <2>1, <3>1, <3>2, <3>3 DEF IsState
    <2>4. QED
      BY <1>0, <2>1, <2>2, <2>3
  <1>3. ASSUME NEW t, Takes(t), server' = server PROVE LastWord'
    <2>1. /\ Len(inbox') = Len(inbox) - 1 /\ Len(inbox) >= 1
          /\ \A i \in 1..(Len(inbox) - 1) : inbox'[i] = inbox[i+1]
      BY <1>0, <1>3, TakesFrame
    <2> SUFFICES ASSUME NEW i \in 1..Len(inbox'),
                        inbox'[i].type = "state", inbox'[i].value \in Terminal
                 PROVE  /\ server'[inbox'[i].msg] = inbox'[i].value
                        /\ \A j \in (i+1)..Len(inbox') : ~IsState(inbox'[j], inbox'[i].msg)
      BY DEF LastWord, IsState
    <2>2. i + 1 \in 1..Len(inbox) /\ inbox'[i] = inbox[i+1]
      BY <1>0, <2>1
    <2>3. /\ server[inbox[i+1].msg] = inbox[i+1].value
          /\ \A j \in (i+2)..Len(inbox) : ~IsState(inbox[j], inbox[i+1].msg)
      BY <1>0, <2>2 DEF LastWord
    <2>4. \A j \in (i+1)..Len(inbox') : j + 1 \in (i+2)..Len(inbox) /\ inbox'[j] = inbox[j+1]
      BY <1>0, <2>1
    <2>5. QED
      BY <1>3, <2>2, <2>3, <2>4
  <1>4. ASSUME inbox' = inbox, server' = server PROVE LastWord'
    BY <1>0, <1>4 DEF LastWord
  <1>5. QED
    BY <1>1, <1>2, <1>3, <1>4 DEF Next, App, SendThrows, Track, SetCallback, Server,
       Reader, ReadReply, ReadState, RunCallback, vars

\* What an event that the read thread takes does to its message.
LEMMA StateEvent ==
  ASSUME IInv, ReadState
  PROVE  \E m \in Messages, s \in {"sent"} \cup Terminal :
           /\ IsState(inbox[1], m) /\ inbox[1].value = s
           /\ m \in tracked => ~completed[m]
           /\ m \notin tracked => state' = state /\ completed' = completed
           /\ m \in tracked => /\ state' = [state EXCEPT ![m] = s]
                               /\ completed' = [completed EXCEPT ![m] = s \in Terminal]
           /\ pushing = NoEvent
           /\ pushing' = IF m \in tracked /\ s \in Terminal /\ m \in watched
                           THEN [msg |-> m] ELSE NoEvent
  <1>1. /\ Types /\ Len(inbox) \in Nat /\ Len(inbox) >= 1 /\ Takes("state")
        /\ Head(inbox) = inbox[1] /\ inbox[1] \in Frame /\ inbox[1].type = "state"
    BY TakesFrame DEF IInv, ReadState
  <1> DEFINE m == inbox[1].msg
             s == inbox[1].value
             hit == m \in tracked
  <1>2. m \in Messages /\ s \in {"sent"} \cup Terminal /\ IsState(inbox[1], m)
    BY <1>1 DEF Frame, IsState
  <1>3. hit => ~completed[m]
    BY <1>1, <1>2 DEF IInv, CompletedIsLast
  <1>4. state' = [state EXCEPT ![m] = IF hit THEN s ELSE @]
    BY <1>1 DEF ReadState
  <1>5. completed' = [completed EXCEPT ![m] = @ \/ (hit /\ s \in Terminal)]
    BY <1>1 DEF ReadState, Completes
  <1>6. pushing' = IF hit /\ s \in Terminal /\ m \in watched THEN [msg |-> m] ELSE NoEvent
    BY <1>1 DEF ReadState, Completes
  <1>7. state \in [Messages -> {"", "queued", "sent"} \cup Terminal]
        /\ completed \in [Messages -> BOOLEAN]
    BY <1>1 DEF Types, TypeOK
  <1>8. ~hit => state' = state /\ completed' = completed
    BY <1>2, <1>4, <1>5, <1>7
  <1>9. ASSUME hit PROVE completed' = [completed EXCEPT ![m] = s \in Terminal]
    <2>1. (completed[m] \/ (hit /\ s \in Terminal)) = (s \in Terminal)
      BY <1>3, <1>9
    <2>2. QED
      BY <1>5, <2>1
  <1>10. QED
    BY <1>1, <1>2, <1>3, <1>4, <1>6, <1>8, <1>9 DEF Takes

LEMMA CompletedIsLastStep == IInv /\ [Next]_vars => CompletedIsLast'
  <1> SUFFICES ASSUME IInv, [Next]_vars, NEW c \in Messages, completed'[c]
               PROVE  c \in tracked' /\ \A i \in 1..Len(inbox') : ~IsState(inbox'[i], c)
    BY DEF CompletedIsLast, IsState
  <1>0. Types /\ LastWord /\ CompletedIsLast /\ Len(inbox) \in Nat
    BY LenProperties DEF IInv, Types, Frames
  <1>1. ASSUME NEW m \in Messages, App(m)
        PROVE  c \in tracked' /\ \A i \in 1..Len(inbox') : ~IsState(inbox'[i], c)
    <2>1. completed' = completed /\ inbox' = inbox /\ tracked \subseteq tracked'
      BY <1>1 DEF App, Send, SendThrows, Track, SetCallback
    <2>2. QED
      BY <1>0, <2>1 DEF CompletedIsLast
  <1>2. ASSUME NEW m \in Messages, ServerReplies(m) \/ ServerPushesState(m)
        PROVE  c \in tracked' /\ \A i \in 1..Len(inbox') : ~IsState(inbox'[i], c)
    <2>1. completed' = completed /\ tracked' = tracked
      BY <1>2 DEF ServerReplies, ServerPushesState
    <2>2. /\ c \in tracked /\ server[c] \in Terminal
          /\ \A i \in 1..Len(inbox) : ~IsState(inbox[i], c)
      BY <1>0, <2>1 DEF CompletedIsLast, CompletionIsTrue, IInv
    <2>3. PICK f \in Frame :
            /\ f.msg = m /\ server[m] \notin Terminal
            /\ Len(inbox') = Len(inbox) + 1
            /\ \A i \in 1..Len(inbox) : inbox'[i] = inbox[i]
            /\ inbox'[Len(inbox) + 1] = f
      BY <1>2, ServerSends
    <2>4. \A i \in 1..Len(inbox') : i \in 1..Len(inbox) \/ i = Len(inbox) + 1
      BY <1>0, <2>3
    <2>5. QED
      BY <2>1, <2>2, <2>3, <2>4 DEF IsState
  <1>3. ASSUME ReadReply \/ ReadState
        PROVE  c \in tracked' /\ \A i \in 1..Len(inbox') : ~IsState(inbox'[i], c)
    <2>1. PICK t : Takes(t)
      BY <1>3 DEF ReadReply, ReadState
    <2>2. /\ tracked' = tracked
          /\ \A i \in 1..Len(inbox') : i + 1 \in 1..Len(inbox) /\ inbox'[i] = inbox[i+1]
      BY <1>0, <1>3, <2>1, TakesFrame DEF ReadReply, ReadState
    <2>3. CASE completed[c]
      BY <1>0, <2>2, <2>3 DEF CompletedIsLast, IsState
    <2>4. CASE ~completed[c]
      <3>1. ReadState
        BY <1>3, <2>4 DEF ReadReply
      <3>2. PICK m \in Messages, s \in {"sent"} \cup Terminal :
              /\ IsState(inbox[1], m) /\ inbox[1].value = s
              /\ m \notin tracked => completed' = completed
              /\ m \in tracked => completed' = [completed EXCEPT ![m] = s \in Terminal]
        BY <3>1, StateEvent
      <3>3. m = c /\ c \in tracked /\ s \in Terminal
        BY <1>0, <2>4, <3>2 DEF Types, TypeOK
      <3>4. 1 \in 1..Len(inbox)
        BY <1>0, <2>1, TakesFrame
      <3>5. \A j \in 2..Len(inbox) : ~IsState(inbox[j], c)
        BY <1>0, <3>2, <3>3, <3>4 DEF LastWord, IsState
      <3>6. \A i \in 1..Len(inbox') : i + 1 \in 2..Len(inbox)
        BY <1>0, <2>2
      <3>7. QED
        BY <2>2, <3>3, <3>5, <3>6
    <2>5. QED
      BY <2>3, <2>4
  <1>4. CASE RunCallback \/ UNCHANGED vars
    BY <1>0, <1>4 DEF RunCallback, vars, CompletedIsLast
  <1>5. QED
    BY <1>1, <1>2, <1>3, <1>4 DEF Next, Server, Reader

LEMMA CompletionIsTrueStep == IInv /\ [Next]_vars => CompletionIsTrue'
  <1> SUFFICES ASSUME IInv, [Next]_vars, NEW c \in Messages, completed'[c]
               PROVE  state'[c] = server'[c] /\ state'[c] \in Terminal
    BY DEF CompletionIsTrue
  <1>0. /\ Types /\ SentFirst /\ LastWord
        /\ completed[c] => /\ c \in tracked /\ pc[c] = "held"
                           /\ state[c] = server[c] /\ state[c] \in Terminal
    BY DEF IInv, CompletedIsLast, CompletionIsTrue, SentFirst
  <1>1. ASSUME NEW m \in Messages, App(m)
        PROVE  state'[c] = server'[c] /\ state'[c] \in Terminal
    <2>1. completed' = completed
      BY <1>1 DEF App, Send, SendThrows, Track, SetCallback
    <2>2. state'[c] = state[c] /\ server'[c] = server[c]
      BY <1>0, <1>1, <2>1 DEF App, Send, SendThrows, Track, SetCallback, Types, TypeOK
    <2>3. QED
      BY <1>0, <2>1, <2>2
  <1>2. ASSUME NEW m \in Messages, ServerReplies(m) \/ ServerPushesState(m)
        PROVE  state'[c] = server'[c] /\ state'[c] \in Terminal
    <2>1. completed' = completed /\ state' = state
      BY <1>2 DEF ServerReplies, ServerPushesState
    <2>2. server[m] \notin Terminal /\ \A n \in Messages : n # m => server'[n] = server[n]
      BY <1>2, ServerSends
    <2>3. QED
      BY <1>0, <2>1, <2>2
  <1>3. CASE ReadState
    <2>1. PICK m \in Messages, s \in {"sent"} \cup Terminal :
            /\ IsState(inbox[1], m) /\ inbox[1].value = s
            /\ m \notin tracked => state' = state /\ completed' = completed
            /\ m \in tracked => /\ state' = [state EXCEPT ![m] = s]
                                /\ completed' = [completed EXCEPT ![m] = s \in Terminal]
      BY <1>3, StateEvent
    <2>2. server' = server
      BY <1>3 DEF ReadState
    <2>3. CASE m # c \/ m \notin tracked
      BY <1>0, <2>1, <2>2, <2>3 DEF Types, TypeOK
    <2>4. CASE m = c /\ m \in tracked
      <3>1. s \in Terminal /\ state'[c] = s
        BY <1>0, <2>1, <2>4 DEF Types, TypeOK
      <3>2. 1 \in 1..Len(inbox)
        BY <1>0, <1>3, TakesFrame DEF ReadState
      <3>3. server[c] = s
        BY <1>0, <2>1, <2>4, <3>1, <3>2 DEF LastWord, IsState
      <3>4. QED
        BY <2>2, <3>1, <3>3
    <2>5. QED
      BY <2>3, <2>4
  <1>4. CASE ReadReply \/ RunCallback \/ UNCHANGED vars
    BY <1>0, <1>4 DEF ReadReply, RunCallback, vars
  <1>5. QED
    BY <1>1, <1>2, <1>3, <1>4 DEF Next, Server, Reader

LEMMA PushedIsCompletedStep == IInv /\ [Next]_vars => PushedIsCompleted'
  <1> SUFFICES ASSUME IInv, [Next]_vars, NEW c \in Messages, pushing' = [msg |-> c]
               PROVE  c \in watched' /\ completed'[c]
    BY DEF PushedIsCompleted
  <1>0. /\ Types /\ (pushing = [msg |-> c] => c \in watched /\ completed[c])
        /\ NoEvent # [msg |-> c]
    BY ConstantsAssumption DEF IInv, PushedIsCompleted, NoEvent
  <1>1. CASE ReadState
    <2>1. PICK m \in Messages, s \in {"sent"} \cup Terminal :
            /\ m \in tracked => completed' = [completed EXCEPT ![m] = s \in Terminal]
            /\ pushing' = IF m \in tracked /\ s \in Terminal /\ m \in watched
                            THEN [msg |-> m] ELSE NoEvent
      BY <1>1, StateEvent
    <2>2. m = c /\ m \in tracked /\ s \in Terminal /\ m \in watched
      BY <1>0, <2>1
    <2>3. completed'[c] /\ watched' = watched
      BY <1>0, <1>1, <2>1, <2>2 DEF ReadState, Types, TypeOK
    <2>4. QED
      BY <2>2, <2>3
  <1>2. CASE RunCallback
    BY <1>0, <1>2 DEF RunCallback
  <1>3. CASE pushing' = pushing /\ completed' = completed /\ watched \subseteq watched'
    BY <1>0, <1>3
  <1>4. QED
    BY <1>1, <1>2, <1>3 DEF Next, App, Send, SendThrows, Track, SetCallback, Server,
       ServerReplies, ServerPushesState, Reader, ReadReply, vars

LEMMA CallbackRunsOnceStep == IInv /\ [Next]_vars => CallbackRunsOnce'
  <1> DEFINE Runs(c) == IF c \in watched /\ completed[c] /\ pushing # [msg |-> c] THEN 1 ELSE 0
  <1> SUFFICES ASSUME IInv, [Next]_vars, NEW c \in Messages
               PROVE  fired'[c] = Runs(c)'
    BY DEF CallbackRunsOnce
  <1>0. /\ Types /\ fired[c] = Runs(c)
        /\ (pushing = [msg |-> c] => c \in watched /\ completed[c])
        /\ NoEvent # [msg |-> c]
    BY ConstantsAssumption DEF IInv, CallbackRunsOnce, PushedIsCompleted, NoEvent
  <1>1. ASSUME NEW m \in Messages, SetCallback(m) PROVE fired'[c] = Runs(c)'
    <2>1. /\ m \notin watched /\ watched' = watched \cup {m}
          /\ completed' = completed /\ pushing' = pushing
      BY <1>1 DEF SetCallback
    <2>2. fired' = [fired EXCEPT ![m] = IF completed[m] THEN 1 ELSE @]
      BY <1>1 DEF SetCallback, OnSet
    <2>3. CASE m = c
      <3>1. fired'[c] = IF completed[c] THEN 1 ELSE fired[c]
        BY <1>0, <2>2, <2>3 DEF Types, TypeOK
      <3>2. QED
        BY <1>0, <2>1, <2>3, <3>1
    <2>4. CASE m # c
      <3>1. fired'[c] = fired[c]
        BY <1>0, <2>2, <2>4 DEF Types, TypeOK
      <3>2. QED
        BY <1>0, <2>1, <2>4, <3>1
    <2>5. QED
      BY <2>3, <2>4
  <1>2. CASE ReadState
    <2>1. PICK m \in Messages, s \in {"sent"} \cup Terminal :
            /\ m \in tracked => ~completed[m]
            /\ m \notin tracked => completed' = completed
            /\ m \in tracked => completed' = [completed EXCEPT ![m] = s \in Terminal]
            /\ pushing = NoEvent
            /\ pushing' = IF m \in tracked /\ s \in Terminal /\ m \in watched
                            THEN [msg |-> m] ELSE NoEvent
      BY <1>2, StateEvent
    <2>2. watched' = watched /\ fired' = fired
      BY <1>2 DEF ReadState
    <2>3. CASE m = c /\ m \in tracked
      <3>1. ~completed[c] /\ (completed'[c] <=> s \in Terminal) /\ fired[c] = 0
        BY <1>0, <2>1, <2>3 DEF Types, TypeOK
      <3>2. completed'[c] /\ c \in watched => pushing' = [msg |-> c]
        BY <2>1, <2>3, <3>1
      <3>3. QED
        BY <2>2, <3>1, <3>2
    <2>4. CASE m # c \/ m \notin tracked
      <3>1. completed'[c] = completed[c]
        BY <1>0, <2>1, <2>4 DEF Types, TypeOK
      <3>2. pushing # [msg |-> c] /\ pushing' # [msg |-> c]
        BY <1>0, <2>1, <2>4
      <3>3. QED
        BY <1>0, <2>2, <3>1, <3>2
    <2>5. QED
      BY <2>3, <2>4
  <1>3. CASE RunCallback
    <2>1. PICK m \in Messages : pushing = [msg |-> m]
      BY <1>0, <1>3 DEF RunCallback, NoEvent, Types, TypeOK
    <2>2. /\ fired' = [fired EXCEPT ![m] = IF fired[m] < 2 THEN fired[m] + 1 ELSE fired[m]]
          /\ pushing' = NoEvent /\ watched' = watched /\ completed' = completed
      BY <1>3, <2>1 DEF RunCallback
    <2>3. CASE m = c
      <3>1. fired[c] = 0 /\ c \in watched /\ completed[c]
        BY <1>0, <2>1, <2>3
      <3>2. fired' = [fired EXCEPT ![c] = 1]
        BY <2>2, <2>3, <3>1
      <3>3. fired'[c] = 1
        BY <1>0, <3>2 DEF Types, TypeOK
      <3>4. QED
        BY <1>0, <2>2, <3>1, <3>3
    <2>4. CASE m # c
      <3>1. fired'[c] = fired[c]
        BY <1>0, <2>2, <2>4 DEF Types, TypeOK
      <3>2. pushing # [msg |-> c]
        BY <2>1, <2>4
      <3>3. QED
        BY <1>0, <2>2, <3>1, <3>2
    <2>5. QED
      BY <2>3, <2>4
  <1>4. CASE UNCHANGED <<watched, completed, fired, pushing>>
    BY <1>0, <1>4
  <1>5. QED
    BY <1>1, <1>2, <1>3, <1>4 DEF Next, App, Send, SendThrows, Track, Server,
       ServerReplies, ServerPushesState, Reader, ReadReply, vars

LEMMA StepIInv == IInv /\ [Next]_vars => IInv'
  <1>1. IInv => Types
    BY DEF IInv
  <1>2. QED
    BY <1>1, StepTypes, SentFirstStep, LastWordStep, CompletedIsLastStep,
       CompletionIsTrueStep, PushedIsCompletedStep, CallbackRunsOnceStep DEF IInv

LEMMA Invariance == SafeSpec => []IInv
  BY InitIInv, StepIInv, PTL DEF SafeSpec
-----------------------------------------------------------------------------
\* wait() returns and the callback runs only on the last state the server has sent
\* for that message, and that state is visible then: Message::update_state.
THEOREM CompletionsAreTrue == SafeSpec => []CompletionIsTrue
  <1>1. IInv => CompletionIsTrue
    BY DEF IInv
  <1>2. QED
    BY <1>1, Invariance, PTL

\* The callback of a completed message runs once, whether on_completed comes before,
\* during or after the event that completes the message.
THEOREM CallbacksRunOnce == SafeSpec => []CallbackRunsOnce
  <1>1. IInv => CallbackRunsOnce
    BY DEF IInv
  <1>2. QED
    BY <1>1, Invariance, PTL
-----------------------------------------------------------------------------
(* The WebSocket transport. *)

\* The connection has its fields, and nothing else. (What they hold is left open: the
\* theorems depend only on where the threads are.)
TransportFields == {"plain", "connected", "closing", "transport", "reader", "sender",
                    "closer", "frame", "lock", "inbox", "sent", "lost", "reported", "broken"}
TransportShape == DOMAIN sock = TransportFields

\* write_mutex_ is held by the thread that is in raw_write.
HolderWrites ==
  /\ sock.reader = "ponging" <=> sock.lock = "reader"
  /\ sock.sender = "writing" <=> sock.lock = "sender"
  /\ sock.closer = "writing" <=> sock.lock = "closer"

\* The read thread has returned when the close() that joins it has.
ClosedIsEnded == sock.closer = "closed" => sock.reader = "ended"

\* After on_close the read thread does nothing but end.
ReportedIsLast ==
  \/ sock.reported = 0
  \/ sock.reported = 1 /\ sock.reader \in {"in on_close", "ended"}

TransportInv == TransportShape /\ HolderWrites /\ ClosedIsEnded /\ ReportedIsLast

\* No two threads are in raw_write: the bytes of a pong, of a message and of the close
\* frame do not mix.
WritesAreExclusive ==
  /\ ~(sock.reader = "ponging" /\ sock.sender = "writing")
  /\ ~(sock.reader = "ponging" /\ sock.closer = "writing")
  /\ ~(sock.sender = "writing" /\ sock.closer = "writing")

\* The application hears at most once that the connection is gone.
ReportedOnce == sock.reported <= 1
-----------------------------------------------------------------------------
LEMMA InitTransport == Transport!Init => TransportInv
  <1> SUFFICES ASSUME Transport!Init PROVE TransportInv
    OBVIOUS
  <1>1. /\ DOMAIN sock = TransportFields
        /\ sock.reader = "top" /\ sock.sender = "idle" /\ sock.closer = "idle"
        /\ sock.lock = "none" /\ sock.reported = 0
    BY DEF Transport!Init, TransportFields
  <1>2. QED
    BY <1>1 DEF TransportInv, TransportShape, HolderWrites, ClosedIsEnded, ReportedIsLast

\* Using the transport does to the threads what is meant, whether it breaks or not.
LEMMA TransportUses ==
  ASSUME NEW then, Transport!Uses(then), DOMAIN then = TransportFields
  PROVE  /\ TransportShape'
         /\ sock'.reader = then.reader /\ sock'.sender = then.sender
         /\ sock'.closer = then.closer /\ sock'.lock = then.lock
         /\ sock'.reported = then.reported
  BY DEF Transport!Uses, TransportShape, TransportFields

\* What the read thread does to the mutex and to the count of reports.
LEMMA ReaderEffect ==
  ASSUME TransportShape, Transport!Reader
  PROVE  /\ TransportShape' /\ sock'.sender = sock.sender /\ sock'.closer = sock.closer
         /\ sock.reader # "ended"
         /\ \/ /\ sock.reader = "have" /\ sock'.reader = "ponging"
               /\ sock.lock = "none" /\ sock'.lock = "reader"
               /\ sock'.reported = sock.reported
            \/ /\ sock.reader = "ponging" /\ sock'.reader = "top"
               /\ sock'.lock = IF sock.lock = "reader" THEN "none" ELSE sock.lock
               /\ sock'.reported = sock.reported
            \/ /\ sock.reader \in {"have", "losing"} /\ sock'.reader = "in on_close"
               /\ sock'.lock = sock.lock /\ sock'.reported = sock.reported + 1
            \/ /\ sock.reader = "in on_close" /\ sock'.reader = "ended"
               /\ sock'.lock = sock.lock /\ sock'.reported = sock.reported
            \/ /\ sock.reader \notin {"ponging", "in on_close"} /\ sock'.reader # "ponging"
               /\ sock'.lock = sock.lock /\ sock'.reported = sock.reported
  <1> USE DEF TransportShape, TransportFields
  <1>1. CASE Transport!ReadLoop
    BY <1>1 DEF Transport!ReadLoop
  <1>2. CASE Transport!ReadFrame
    <2> DEFINE then == [sock EXCEPT !.frame = Head(sock.inbox), !.inbox = Tail(@),
                                    !.reader = "have"]
    <2>1. /\ DOMAIN then = TransportFields
          /\ then.reader = "have" /\ then.sender = sock.sender
          /\ then.closer = sock.closer /\ then.lock = sock.lock
          /\ then.reported = sock.reported
      OBVIOUS
    <2>2. Transport!Uses(then) /\ sock.reader = "reading"
      BY <1>2 DEF Transport!ReadFrame
    <2> HIDE DEF then
    <2>3. QED
      BY <2>1, <2>2, TransportUses
  <1>3. CASE Transport!ReadFails
    BY <1>3, TransportUses DEF Transport!ReadFails
  <1>4. CASE Transport!JudgeFailure
    BY <1>4 DEF Transport!JudgeFailure
  <1>5. CASE Transport!ReportLoss
    BY <1>5 DEF Transport!ReportLoss
  <1>6. CASE Transport!HandleText
    BY <1>6 DEF Transport!HandleText
  <1>7. CASE Transport!HandleClose
    BY <1>7 DEF Transport!HandleClose
  <1>8. CASE Transport!HandlePing
    BY <1>8 DEF Transport!HandlePing, Transport!StartsWriting, Transport!MayWrite
  <1>9. CASE Transport!Ponged
    <2> DEFINE then == [[sock EXCEPT !.reader = "top"]
                          EXCEPT !.lock = IF @ = "reader" THEN "none" ELSE @]
    <2>1. /\ DOMAIN then = TransportFields
          /\ then.reader = "top" /\ then.sender = sock.sender
          /\ then.closer = sock.closer /\ then.reported = sock.reported
          /\ then.lock = IF sock.lock = "reader" THEN "none" ELSE sock.lock
      OBVIOUS
    <2>2. Transport!Uses(then) /\ sock.reader = "ponging"
      BY <1>9 DEF Transport!Ponged, Transport!StopsWriting
    <2> HIDE DEF then
    <2>3. QED
      BY <2>1, <2>2, TransportUses
  <1>10. CASE Transport!CallbackReturns
    BY <1>10 DEF Transport!CallbackReturns
  <1>11. QED
    BY <1>1, <1>2, <1>3, <1>4, <1>5, <1>6, <1>7, <1>8, <1>9, <1>10
    DEF Transport!Reader

\* What a thread that sends, one that closes, and the peer do.
NotReader ==
  \/ Transport!PeerSends \/ Transport!PeerIsLost
  \/ Transport!Send \/ Transport!SendWrites \/ Transport!Sent
  \/ Transport!CloseFindsNothing \/ Transport!Closer

LEMMA OthersEffect ==
  ASSUME TransportShape,
         NotReader
  PROVE  /\ TransportShape' /\ sock'.reader = sock.reader /\ sock'.reported = sock.reported
         /\ \/ /\ sock.sender # "writing" /\ sock'.sender = "writing"
               /\ sock.lock = "none" /\ sock'.lock = "sender" /\ sock'.closer = sock.closer
            \/ /\ sock.sender = "writing" /\ sock'.sender = "idle" /\ sock'.closer = sock.closer
               /\ sock'.lock = IF sock.lock = "sender" THEN "none" ELSE sock.lock
            \/ /\ sock.closer = "flagged" /\ sock'.closer = "writing"
               /\ sock.lock = "none" /\ sock'.lock = "closer" /\ sock'.sender = sock.sender
            \/ /\ sock.closer = "writing" /\ sock'.closer = "joining"
               /\ sock'.lock = "none" /\ sock'.sender = sock.sender
            \/ /\ sock.closer = "joining" /\ sock.reader = "ended" /\ sock'.closer = "closed"
               /\ sock'.lock = sock.lock /\ sock'.sender = sock.sender
            \/ /\ sock'.lock = sock.lock
               /\ sock'.sender = "writing" <=> sock.sender = "writing"
               /\ \/ sock'.closer = sock.closer
                  \/ sock.closer = "idle" /\ sock'.closer \in {"flagged", "nothing to close"}
  <1> USE DEF TransportShape, TransportFields
  <1>1. CASE Transport!PeerSends \/ Transport!PeerIsLost
    BY <1>1 DEF Transport!PeerSends, Transport!PeerIsLost
  <1>2. CASE Transport!Send
    BY <1>2 DEF Transport!Send
  <1>3. CASE Transport!SendWrites
    BY <1>3 DEF Transport!SendWrites, Transport!StartsWriting, Transport!MayWrite
  <1>4. CASE Transport!Sent
    <2> DEFINE then == [[sock EXCEPT !.sender = "idle"]
                          EXCEPT !.lock = IF @ = "sender" THEN "none" ELSE @]
    <2>1. /\ DOMAIN then = TransportFields /\ then.sender = "idle" /\ then.reader = sock.reader
          /\ then.closer = sock.closer /\ then.reported = sock.reported
          /\ then.lock = IF sock.lock = "sender" THEN "none" ELSE sock.lock
      OBVIOUS
    <2>2. Transport!Uses(then) /\ sock.sender = "writing"
      BY <1>4 DEF Transport!Sent, Transport!StopsWriting
    <2> HIDE DEF then
    <2>3. QED
      BY <2>1, <2>2, TransportUses
  <1>5. CASE Transport!CloseFindsNothing
    BY <1>5 DEF Transport!CloseFindsNothing
  <1>6. CASE Transport!Close
    BY <1>6 DEF Transport!Close
  <1>7. CASE Transport!CloseWrites
    BY <1>7 DEF Transport!CloseWrites, Transport!StartsWriting, Transport!MayWrite
  <1>8. CASE Transport!CloseCleansUp
    BY <1>8 DEF Transport!CloseCleansUp, Transport!LockAfterClosing
  <1>9. CASE Transport!CloseReturns
    BY <1>9 DEF Transport!CloseReturns, Transport!Joined
  <1>10. QED
    BY <1>1, <1>2, <1>3, <1>4, <1>5, <1>6, <1>7, <1>8, <1>9
    DEF NotReader, Transport!Closer

LEMMA TransportStep == TransportInv /\ [Transport!Next]_sock => TransportInv'
  <1> SUFFICES ASSUME TransportInv, [Transport!Next]_sock PROVE TransportInv'
    OBVIOUS
  <1> USE DEF TransportInv, HolderWrites, ClosedIsEnded, ReportedIsLast
  <1>1. CASE Transport!Reader
    <2>1. TransportShape' /\ HolderWrites' /\ ClosedIsEnded'
      BY <1>1, ReaderEffect
    <2>2. ReportedIsLast'
      <3>1. CASE sock'.reported = sock.reported
        BY <1>1, <3>1, ReaderEffect
      <3>2. CASE /\ sock.reader \in {"have", "losing"} /\ sock'.reader = "in on_close"
                 /\ sock'.reported = sock.reported + 1
        <4>1. sock.reported = 0
          BY <3>2
        <4>2. 0 + 1 = 1
          BY ONLY SMT
        <4>3. QED
          BY <3>2, <4>1, <4>2
      <3>3. QED
        BY <1>1, <3>1, <3>2, ReaderEffect
    <2>3. QED
      BY <2>1, <2>2
  <1>2. CASE NotReader
    BY <1>2, OthersEffect
  <1>3. CASE UNCHANGED sock
    BY <1>3 DEF TransportShape
  <1>4. QED
    BY <1>1, <1>2, <1>3 DEF Transport!Next, NotReader
-----------------------------------------------------------------------------
(* Inbound calls. *)

InboundType ==
  inb \in [handled : BOOLEAN, objects : Seq({"created", "ended"}), routed : Nat,
           handler : [Inbound!Calls -> {"none", "running", "checked", "asleep", "woken",
                                        "returned"}],
           reader : {"idle", "registered", "ending", "notifying", "forgetting"},
           object : Nat, offers : Nat, hungUp : BOOLEAN,
           inbox : Seq({"receive", "ended"})]

\* The read thread and the handlers hold Calls that have been made; the Call that has
\* just been put in calls_ is the last one, and has no handler yet.
CallsAreMade ==
  /\ inb.routed \in 0 .. Len(inb.objects)
  /\ inb.reader # "idle" => inb.object \in 1 .. Len(inb.objects)
  /\ \A o \in Inbound!Calls : inb.handler[o] # "none" => o \in 1 .. Len(inb.objects)
  /\ inb.reader = "registered" =>
       /\ inb.object = Len(inb.objects)
       /\ inb.object \in Inbound!Calls => inb.handler[inb.object] = "none"

\* A handler that has seen the state and still holds ended_mutex has seen it as it is.
CheckedIsTrue ==
  \A o \in Inbound!Calls : inb.handler[o] = "checked" => inb.objects[o] # "ended"

\* A handler sleeps on a call that has ended only until notify_all, which the read
\* thread is about to call: no wake-up is lost between the check and the wait.
NoWakeupIsLost ==
  \A o \in Inbound!Calls :
    inb.handler[o] = "asleep" /\ inb.objects[o] = "ended" =>
      inb.reader = "notifying" /\ inb.object = o

InboundInv == InboundType /\ CallsAreMade /\ CheckedIsTrue /\ NoWakeupIsLost

\* The handler of a Call is started once: call_handler_ runs once for each Call that
\* handle_inbound_call makes.
StartStep ==
  \A o \in Inbound!Calls :
    /\ inb.handler[o] # "none" => inb'.handler[o] # "none"
    /\ inb'.handler[o] = "running" => inb.handler[o] \in {"none", "running"}
StartsOnce == [][StartStep]_inb
-----------------------------------------------------------------------------
LEMMA InitInbound == Inbound!Init => InboundInv
  BY DEF Inbound!Init, Inbound!Calls, InboundInv, InboundType, CallsAreMade, CheckedIsTrue,
     NoWakeupIsLost

\* Taking an event off the inbox.
LEMMA InboxTail ==
  ASSUME InboundType, inb.inbox # <<>>
  PROVE  Tail(inb.inbox) \in Seq({"receive", "ended"})
  BY DEF InboundType

LEMMA InboxAppend ==
  ASSUME InboundType, NEW event \in {"receive", "ended"}
  PROVE  Append(inb.inbox, event) \in Seq({"receive", "ended"})
  BY DEF InboundType

\* A step that only the application or the server takes.
LEMMA OutsideStep ==
  ASSUME InboundInv, Inbound!OnCall \/ Inbound!Offer \/ Inbound!End
  PROVE  InboundInv'
  <1>1. InboundType'
    <2>1. CASE Inbound!OnCall
      BY <2>1 DEF InboundInv, InboundType, Inbound!OnCall
    <2>2. CASE Inbound!Offer
      <3>1. Append(inb.inbox, "receive") \in Seq({"receive", "ended"})
        BY InboxAppend DEF InboundInv
      <3>2. inb.offers + 1 \in Nat
        BY DEF InboundInv, InboundType
      <3>3. QED
        BY <2>2, <3>1, <3>2 DEF InboundInv, InboundType, Inbound!Offer
    <2>3. CASE Inbound!End
      BY <2>3, InboxAppend DEF InboundInv, InboundType, Inbound!End
    <2>4. QED
      BY <2>1, <2>2, <2>3
  <1>2. /\ inb'.objects = inb.objects /\ inb'.routed = inb.routed
        /\ inb'.handler = inb.handler /\ inb'.reader = inb.reader
        /\ inb'.object = inb.object
    BY DEF InboundInv, InboundType, Inbound!OnCall, Inbound!Offer, Inbound!End
  <1>3. QED
    BY <1>1, <1>2 DEF InboundInv, CallsAreMade, CheckedIsTrue, NoWakeupIsLost

LEMMA ReceiveStep ==
  ASSUME InboundInv, Inbound!Receive
  PROVE  InboundInv'
  <1> DEFINE o == Len(inb.objects) + 1
             made == Append(inb.objects, "created")
  <1>1. /\ inb.objects \in Seq({"created", "ended"}) /\ Len(inb.objects) \in Nat
        /\ made \in Seq({"created", "ended"}) /\ Len(made) = o /\ o \in Nat
        /\ \A i \in 1 .. Len(inb.objects) : made[i] = inb.objects[i]
    BY AppendProperties DEF InboundInv, InboundType
  <1>2. inb' = [inb EXCEPT !.inbox = Tail(inb.inbox), !.objects = made, !.routed = o,
                           !.object = o, !.reader = "registered"]
    BY DEF Inbound!Receive
  <1> HIDE DEF made
  <1>3. InboundType'
    BY <1>1, <1>2, InboxTail DEF InboundInv, InboundType, Inbound!Receive, Inbound!Reads
  <1>4. /\ inb'.objects = made /\ inb'.routed = o /\ inb'.object = o
        /\ inb'.reader = "registered" /\ inb'.handler = inb.handler
    BY <1>2 DEF InboundInv, InboundType
  <1>5. \A c \in Inbound!Calls : inb.handler[c] # "none" =>
          c \in 1 .. Len(inb.objects) /\ made[c] = inb.objects[c]
    BY <1>1 DEF InboundInv, CallsAreMade
  <1>6. CallsAreMade'
    BY <1>1, <1>4, <1>5 DEF CallsAreMade
  <1>7. CheckedIsTrue'
    BY <1>4, <1>5 DEF InboundInv, CheckedIsTrue
  <1>8. NoWakeupIsLost'
    BY <1>4, <1>5 DEF InboundInv, NoWakeupIsLost, Inbound!Receive, Inbound!Reads
  <1>9. QED
    BY <1>3, <1>6, <1>7, <1>8 DEF InboundInv

\* Starting the handler, waking it, and forgetting the call.
LEMMA ReaderStep ==
  ASSUME InboundInv,
         Inbound!StartHandler \/ Inbound!ReadEnded \/ Inbound!NotifyAll \/ Inbound!ForgetCall
  PROVE  InboundInv'
  <1>1. CASE Inbound!StartHandler
    BY <1>1 DEF Inbound!StartHandler, InboundInv, InboundType, CallsAreMade, CheckedIsTrue,
       NoWakeupIsLost
  <1>2. CASE Inbound!ReadEnded
    <2>1. /\ inb'.objects = inb.objects /\ inb'.routed = inb.routed
          /\ inb'.handler = inb.handler /\ inb'.object = inb.routed
          /\ inb'.reader = IF inb.routed = 0 THEN "idle" ELSE "ending"
          /\ inb.reader = "idle"
      BY <1>2 DEF Inbound!ReadEnded, Inbound!Reads, InboundInv, InboundType
    <2>2. InboundType'
      BY <1>2, InboxTail DEF Inbound!ReadEnded, Inbound!Reads, InboundInv, InboundType
    <2>3. CallsAreMade' /\ CheckedIsTrue' /\ NoWakeupIsLost'
      BY <2>1 DEF InboundInv, InboundType, CallsAreMade, CheckedIsTrue, NoWakeupIsLost
    <2>4. QED
      BY <2>2, <2>3 DEF InboundInv
  <1>3. CASE Inbound!NotifyAll
    BY <1>3 DEF Inbound!NotifyAll, InboundInv, InboundType, CallsAreMade, CheckedIsTrue,
       NoWakeupIsLost
  <1>4. CASE Inbound!ForgetCall
    <2>1. /\ inb'.objects = inb.objects /\ inb'.routed = 0 /\ inb'.handler = inb.handler
          /\ inb'.object = inb.object /\ inb'.reader = "idle" /\ inb.reader = "forgetting"
      BY <1>4 DEF Inbound!ForgetCall, InboundInv, InboundType
    <2>2. InboundType'
      BY <1>4 DEF Inbound!ForgetCall, InboundInv, InboundType
    <2>3. CallsAreMade' /\ CheckedIsTrue' /\ NoWakeupIsLost'
      BY <2>1 DEF InboundInv, InboundType, CallsAreMade, CheckedIsTrue, NoWakeupIsLost
    <2>4. QED
      BY <2>2, <2>3 DEF InboundInv
  <1>5. QED
    BY <1>1, <1>2, <1>3, <1>4

\* update_state waits for the mutex of a handler that has looked and not yet gone to
\* sleep.
LEMMA EndStep ==
  ASSUME InboundInv, Inbound!SetEnded
  PROVE  InboundInv'
  <1> DEFINE c == inb.object
             ended == [inb.objects EXCEPT ![c] = "ended"]
  <1>1. /\ inb.objects \in Seq({"created", "ended"}) /\ c \in 1 .. Len(inb.objects)
        /\ inb.reader = "ending" /\ inb.handler[c] # "checked"
    BY DEF Inbound!SetEnded, Inbound!MayEnd, InboundInv, InboundType, CallsAreMade
  <1>2. /\ ended \in Seq({"created", "ended"}) /\ Len(ended) = Len(inb.objects)
        /\ \A i \in 1 .. Len(inb.objects) : i # c => ended[i] = inb.objects[i]
    BY <1>1
  <1>3. inb' = [inb EXCEPT !.objects = ended, !.reader = "notifying"]
    BY DEF Inbound!SetEnded
  <1> HIDE DEF ended
  <1>4. InboundType'
    BY <1>2, <1>3 DEF InboundInv, InboundType
  <1>5. /\ inb'.objects = ended /\ inb'.routed = inb.routed /\ inb'.handler = inb.handler
        /\ inb'.object = c /\ inb'.reader = "notifying"
    BY <1>3 DEF InboundInv, InboundType
  <1>6. CallsAreMade'
    BY <1>1, <1>2, <1>5 DEF InboundInv, InboundType, CallsAreMade
  <1>7. \A o \in Inbound!Calls : inb.handler[o] # "none" =>
          o \in 1 .. Len(inb.objects) /\ (o # c => ended[o] = inb.objects[o])
    BY <1>2 DEF InboundInv, CallsAreMade
  <1>8. CheckedIsTrue' /\ NoWakeupIsLost'
    BY <1>1, <1>5, <1>7 DEF InboundInv, CheckedIsTrue, NoWakeupIsLost
  <1>9. QED
    BY <1>4, <1>6, <1>8 DEF InboundInv

LEMMA HandlerStep ==
  ASSUME InboundInv, NEW c \in Inbound!Calls, Inbound!Handler(c) \/ Inbound!TimeOut(c)
  PROVE  InboundInv'
  <1>1. PICK at \in {"checked", "asleep", "returned"} :
          /\ inb' = [inb EXCEPT !.handler[c] = at] /\ inb.handler[c] # "none"
          /\ at = "checked" => inb.objects[c] # "ended"
          /\ at = "asleep" => inb.handler[c] = "checked"
    BY DEF Inbound!Handler, Inbound!Check, Inbound!FallAsleep, Inbound!TimeOut
  <1>2. InboundType'
    BY <1>1 DEF InboundInv, InboundType
  <1>3. /\ inb'.objects = inb.objects /\ inb'.routed = inb.routed
        /\ inb'.object = inb.object /\ inb'.reader = inb.reader
        /\ inb'.handler = [inb.handler EXCEPT ![c] = at]
    BY <1>1 DEF InboundInv, InboundType
  <1>4. /\ inb'.handler[c] = at
        /\ \A o \in Inbound!Calls : o # c => inb'.handler[o] = inb.handler[o]
    BY <1>3 DEF InboundInv, InboundType
  <1>5. c \in 1 .. Len(inb.objects) /\ inb.handler[c] # "none"
    BY <1>1 DEF InboundInv, CallsAreMade
  <1>6. inb.reader = "registered" => inb.object # c
    BY <1>5 DEF InboundInv, CallsAreMade
  <1>7. CallsAreMade'
    BY <1>3, <1>4, <1>5, <1>6 DEF InboundInv, CallsAreMade
  <1>8. CheckedIsTrue' /\ NoWakeupIsLost'
    BY <1>1, <1>3, <1>4 DEF InboundInv, CheckedIsTrue, NoWakeupIsLost
  <1>9. QED
    BY <1>2, <1>7, <1>8 DEF InboundInv

LEMMA InboundStep == InboundInv /\ [Inbound!Next]_inb => InboundInv'
  <1> SUFFICES ASSUME InboundInv, [Inbound!Next]_inb PROVE InboundInv'
    OBVIOUS
  <1>1. CASE UNCHANGED inb
    BY <1>1 DEF InboundInv, InboundType, CallsAreMade, CheckedIsTrue, NoWakeupIsLost
  <1>2. QED
    BY <1>1, OutsideStep, ReceiveStep, ReaderStep, EndStep, HandlerStep
    DEF Inbound!Next, Inbound!ReadThread
-----------------------------------------------------------------------------
(* The three side by side. *)

SafeTraffic == TrafficInit /\ [][TrafficNext]_<<vars, part, sock, inb>>

\* A step of one part leaves the others where they are.
LEMMA StepsOfParts ==
  ASSUME [TrafficNext]_<<vars, part, sock, inb>>
  PROVE  [Next]_vars /\ [Transport!Next]_sock /\ [Inbound!Next]_inb
  BY DEF TrafficNext

\* What each part keeps, all keep.
LEMMA TrafficInvariance == SafeTraffic => [](IInv /\ TransportInv /\ InboundInv)
  <1>1. TrafficInit => IInv /\ TransportInv /\ InboundInv
    BY InitIInv, InitTransport, InitInbound DEF TrafficInit
  <1>2. /\ IInv /\ TransportInv /\ InboundInv
        /\ [TrafficNext]_<<vars, part, sock, inb>>
        => (IInv /\ TransportInv /\ InboundInv)'
    BY StepsOfParts, StepIInv, TransportStep, InboundStep
  <1>3. QED
    BY <1>1, <1>2, PTL DEF SafeTraffic

\* When a close() that has closed the connection returns, no callback of WebSocketClient
\* runs, and none will: close() has joined the read thread.
THEOREM ClosedIsSilent == SafeTraffic => []SilentAfterClose
  <1>1. TransportInv => SilentAfterClose
    BY DEF TransportInv, ClosedIsEnded, SilentAfterClose, Transport!SilentAfterClose
  <1>2. QED
    BY <1>1, TrafficInvariance, PTL

\* write_mutex_ keeps the frames apart that the read thread, send() and close() write.
THEOREM WritesExclusive == SafeTraffic => []WritesAreExclusive
  <1>1. TransportInv => WritesAreExclusive
    BY DEF TransportInv, HolderWrites, WritesAreExclusive
  <1>2. QED
    BY <1>1, TrafficInvariance, PTL

\* on_close is called at most once in the life of a connection, by a failed read or by the
\* close frame of the peer.
THEOREM OnCloseOnce == SafeTraffic => []ReportedOnce
  <1>1. TransportInv => ReportedOnce
    <2>1. \A n : n = 0 \/ n = 1 => n <= 1
      OBVIOUS
    <2>2. QED
      BY <2>1 DEF TransportInv, ReportedIsLast, ReportedOnce
  <1>2. QED
    BY <1>1, TrafficInvariance, PTL

\* wait_for_ended loses no wake-up: update_state sets the state under ended_mutex, so a
\* handler that is asleep on a call that has ended is one that notify_all is about to wake.
THEOREM WakeupsArrive == SafeTraffic => []NoWakeupIsLost
  <1>1. InboundInv => NoWakeupIsLost
    BY DEF InboundInv
  <1>2. QED
    BY <1>1, TrafficInvariance, PTL

\* handle_inbound_call starts the handler once for each Call it makes, however often the
\* server offers the call.
THEOREM HandlersStartOnce == SafeTraffic => StartsOnce
  <1>1. InboundInv /\ [Inbound!Next]_inb => [StartStep]_inb
    <2> SUFFICES ASSUME InboundInv, Inbound!Next PROVE StartStep
      OBVIOUS
    <2> USE DEF StartStep, InboundInv, InboundType
    <2>1. CASE Inbound!OnCall \/ Inbound!Offer \/ Inbound!End
      BY <2>1 DEF Inbound!OnCall, Inbound!Offer, Inbound!End
    <2>2. CASE Inbound!Receive
      BY <2>2 DEF Inbound!Receive
    <2>3. CASE Inbound!StartHandler
      BY <2>3 DEF Inbound!StartHandler, CallsAreMade
    <2>4. CASE Inbound!ReadEnded \/ Inbound!SetEnded \/ Inbound!NotifyAll \/ Inbound!ForgetCall
      <3>1. CASE Inbound!NotifyAll
        BY <3>1 DEF Inbound!NotifyAll
      <3>2. CASE Inbound!ReadEnded \/ Inbound!SetEnded \/ Inbound!ForgetCall
        <4>1. inb'.handler = inb.handler
          BY <3>2 DEF Inbound!ReadEnded, Inbound!SetEnded, Inbound!ForgetCall
        <4>2. QED
          BY <4>1
      <3>3. QED
        BY <2>4, <3>1, <3>2
    <2>5. CASE \E o \in Inbound!Calls : Inbound!Handler(o) \/ Inbound!TimeOut(o)
      BY <2>5 DEF Inbound!Handler, Inbound!Check, Inbound!FallAsleep, Inbound!TimeOut
    <2>6. QED
      BY <2>1, <2>2, <2>3, <2>4, <2>5 DEF Inbound!Next, Inbound!ReadThread
  <1>2. InboundInv /\ [TrafficNext]_<<vars, part, sock, inb>> => [StartStep]_inb
    BY <1>1, StepsOfParts
  <1>3. QED
    BY <1>2, TrafficInvariance, PTL DEF SafeTraffic, StartsOnce
=================================================================================
