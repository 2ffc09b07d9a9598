------------------------------- MODULE Rpc -------------------------------
(***************************************************************************)
(* What RelayClient::send_request promises to the code that calls it: every *)
(* request that is started ends, it ends once, and it ends with the         *)
(* server's reply only if the server did reply to that very request.        *)
(* RelayRpc is the implementation with the pending map, the promises and    *)
(* the threads.                                                             *)
(***************************************************************************)
CONSTANT Ids    \* the uuids generate_uuid() hands out, one per request

VARIABLES
    status,     \* what the caller of each request knows about it
    answered    \* the requests the server has replied to

rpcVars == <<status, answered>>

Outcomes == {"reply", "lost", "timeout", "unsent"}

Init == /\ status = [id \in Ids |-> "fresh"]
        /\ answered = {}

Start(id) == /\ status[id] = "fresh"
             /\ status' = [status EXCEPT ![id] = "open"]
             /\ UNCHANGED answered

\* The reply may come after the caller has stopped waiting.
Answer(id) == /\ status[id] # "fresh"
              /\ status[id] # "unsent"
              /\ answered' = answered \cup {id}
              /\ UNCHANGED status

Finish(id) == \E o \in Outcomes :
                /\ status[id] = "open"
                /\ o = "reply" => id \in answered
                /\ o = "unsent" => id \notin answered
                /\ status' = [status EXCEPT ![id] = o]
                /\ UNCHANGED answered

Next == \E id \in Ids : Start(id) \/ Answer(id) \/ Finish(id)

SafeSpec == Init /\ [][Next]_rpcVars

Spec == SafeSpec /\ \A id \in Ids : WF_rpcVars(Finish(id))
==========================================================================
