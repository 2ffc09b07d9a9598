----------------------------- MODULE MCRelayTraffic -----------------------------
(***************************************************************************)
(* An instance for TLC of three parts of the RELAY client: outbound         *)
(* messages, the WebSocket transport and inbound calls. They share no        *)
(* state, so a behaviour is one of one part, chosen at the start, and the    *)
(* rest of the state stays as it is.                                        *)
(***************************************************************************)
EXTENDS RelayMessage

CONSTANTS MaxFrames, MaxOffers

VARIABLES part,    \* the part this behaviour is about
          sock,    \* the transport: see WebSocket
          inb      \* the inbound call: see RelayInbound

Transport == INSTANCE WebSocket
Inbound == INSTANCE RelayInbound

TrafficInit ==
  /\ part \in {"messages", "transport", "inbound"}
  /\ Init /\ Transport!Init /\ Inbound!Init

TrafficNext ==
  /\ UNCHANGED part
  /\ \/ part = "messages"  /\ Next           /\ UNCHANGED <<sock, inb>>
     \/ part = "transport" /\ Transport!Next /\ UNCHANGED <<vars, inb>>
     \/ part = "inbound"   /\ Inbound!Next   /\ UNCHANGED <<vars, sock>>

\* The fairness of the part the behaviour is about; in the others nothing moves.
TrafficFairness ==
  \/ part = "messages"  /\ Fairness
  \/ part = "transport" /\ Transport!Fairness
  \/ part = "inbound"   /\ Inbound!Fairness

TrafficSpec ==
  TrafficInit /\ [][TrafficNext]_<<vars, part, sock, inb>> /\ TrafficFairness
-------------------------------------------------------------------------------
(* The properties of the parts, each stated and explained in its module. *)

\* WebSocket: a close() that has closed ends all callbacks.
SilentAfterClose == Transport!SilentAfterClose
\* WebSocket: a loss is reported, or close() has begun.
EndIsReported == Transport!EndIsReported
\* WebSocket: a close() returns.
CloseEnds == Transport!CloseEnds
\* Inbound calls: the handler comes to know of the end of its call.
EndWakesHandler == Inbound!EndWakesHandler
===============================================================================
