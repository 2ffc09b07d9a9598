----------------------------- MODULE RelayInbound -----------------------------
(***************************************************************************)
(* Inbound calls: handle_inbound_call makes a Call for every                *)
(* calling.call.receive, puts it in calls_ under its id and runs the         *)
(* handler on a thread of its own, which waits for the end of the call; the  *)
(* read thread goes on, and the event that ends the call wakes the handler.  *)
(* The server may deliver the offer of a call again.                         *)
(*                                                                         *)
(* One call id; calls_[id] is the index of a Call in objects, or 0.          *)
(***************************************************************************)
EXTENDS Naturals, Sequences

CONSTANTS
  MaxOffers    \* bound: deliveries of the call's calling.call.receive

VARIABLE inb    \* handled: call_handler_ is set; objects: states of the Calls made;
                \* routed: calls_[id]; handler: the threads of the handlers ("checked":
                \* has seen a state other than "ended" and holds ended_mutex); reader,
                \* object: the read thread and the Call in hand; offers, hungUp: the
                \* server; inbox: frames to the client
-------------------------------------------------------------------------------
(* Faults: what a plausible mistake would make of a definition that follows. *)

\* update_state sets the state without the mutex of the waiters.
MayEndAtOnce(o) == TRUE
-------------------------------------------------------------------------------
Calls == 1 .. MaxOffers

Init ==
  inb = [handled |-> FALSE, objects |-> <<>>, routed |-> 0,
         handler |-> [o \in Calls |-> "none"], reader |-> "idle",
         object |-> 0, offers |-> 0, hungUp |-> FALSE, inbox |-> <<>>]

\* on_call()
OnCall == ~inb.handled /\ inb' = [inb EXCEPT !.handled = TRUE]
-------------------------------------------------------------------------------
(* The server. *)

Offer ==
  /\ inb.offers < MaxOffers
  /\ inb' = [inb EXCEPT !.offers = @ + 1, !.inbox = Append(@, "receive")]

End ==
  /\ inb.offers > 0 /\ ~inb.hungUp
  /\ inb' = [inb EXCEPT !.hungUp = TRUE, !.inbox = Append(@, "ended")]
-------------------------------------------------------------------------------
(* The read thread. *)

Reads(event) == inb.reader = "idle" /\ inb.inbox # <<>> /\ Head(inb.inbox) = event

\* A new Call replaces the one in calls_, if there is one.
Receive ==
  /\ Reads("receive")
  /\ LET o == Len(inb.objects) + 1
     IN  inb' = [inb EXCEPT !.inbox = Tail(@), !.objects = Append(@, "created"),
                            !.routed = o, !.object = o, !.reader = "registered"]

\* The handler set by now, if any, gets a thread of its own.
StartHandler ==
  /\ inb.reader = "registered"
  /\ inb' = [inb EXCEPT !.reader = "idle",
                        !.handler[inb.object] = IF inb.handled THEN "running" ELSE @]

\* An event of a call that is not in calls_ is ignored.
ReadEnded ==
  /\ Reads("ended")
  /\ inb' = [inb EXCEPT !.inbox = Tail(@), !.object = inb.routed,
                        !.reader = IF inb.routed = 0 THEN "idle" ELSE "ending"]

MayEnd(o) == inb.handler[o] # "checked"

SetEnded ==
  /\ inb.reader = "ending" /\ MayEnd(inb.object)
  /\ inb' = [inb EXCEPT !.objects[inb.object] = "ended", !.reader = "notifying"]

NotifyAll ==
  /\ inb.reader = "notifying"
  /\ inb' = [inb EXCEPT !.handler[inb.object] = IF @ = "asleep" THEN "woken" ELSE @,
                        !.reader = "forgetting"]

\* unregister_call
ForgetCall ==
  /\ inb.reader = "forgetting"
  /\ inb' = [inb EXCEPT !.routed = 0, !.reader = "idle"]

ReadThread ==
  Receive \/ StartHandler \/ ReadEnded \/ SetEnded \/ NotifyAll \/ ForgetCall
-------------------------------------------------------------------------------
(* The thread of a handler: wait_for_ended. *)

Check(o) ==
  /\ inb.handler[o] \in {"running", "woken"}
  /\ inb' = [inb EXCEPT !.handler[o] =
                 IF inb.objects[o] = "ended" THEN "returned" ELSE "checked"]

\* Waiting on the condition variable gives the mutex back.
FallAsleep(o) ==
  inb.handler[o] = "checked" /\ inb' = [inb EXCEPT !.handler[o] = "asleep"]

\* wait_for_ended(timeout_ms)
TimeOut(o) ==
  inb.handler[o] = "asleep" /\ inb' = [inb EXCEPT !.handler[o] = "returned"]

Handler(o) == Check(o) \/ FallAsleep(o)
-------------------------------------------------------------------------------
Next == \/ OnCall \/ Offer \/ End \/ ReadThread
        \/ \E o \in Calls : Handler(o) \/ TimeOut(o)

\* The read thread and the handlers run; nobody has to call, and a handler may wait
\* without a timeout.
Fairness == WF_inb(ReadThread) /\ \A o \in Calls : WF_inb(Handler(o))

Spec == Init /\ [][Next]_inb /\ Fairness
-------------------------------------------------------------------------------
(* Properties. *)

\* When the read thread meets the event that ends a call, the handler of the Call that
\* is in calls_ then comes to know of it, however the event falls between the steps of
\* wait_for_ended. (The handler of a Call that another offer has replaced waits on.)
EndWakesHandler ==
  \A o \in Calls :
    Reads("ended") /\ inb.routed = o /\ inb.handler[o] # "none"
      ~> inb.handler[o] = "returned"
===============================================================================
