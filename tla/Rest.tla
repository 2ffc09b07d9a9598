---------------------------------- MODULE Rest ----------------------------------
(***************************************************************************)
(* HttpClient and the resources of RestClient against a server that may     *)
(* refuse a request, with or without a text, that may answer late, and      *)
(* whose answers may be lost. A call returns or throws. The application     *)
(* makes something, again if it was not told of it, and looks for it; or it *)
(* binds a phone number.                                                    *)
(***************************************************************************)
EXTENDS Naturals, RestResources

CONSTANTS
  MaxBindings,   \* bound: calls of set_* helpers
  None

VARIABLE rest   \* store: the collections that hold what was made; made: what the
                \* application has made; last: its last call;
                \* number: the phone number; bound: the binding that stands

-------------------------------------------------------------------------------
(* Faults: what a plausible mistake would make of a definition that follows. *)

\* Every answer with a body is a success.
TakesAnyBody(answer) == answer # "none"
-------------------------------------------------------------------------------
(* HttpClient. *)

\* What the client sees: "none" is a request or an answer that is lost, or that took
\* longer than the client waits, which for put, patch and del is httplib's default.
Answers == {"ok", "refused", "refused bodyless", "none"}
Refusals == {"refused", "refused bodyless"}

\* handle_response: an empty body is {}, whatever the status; without an answer, and
\* for any other status than 2xx, the call throws.
Returns(answer) == answer \in {"ok", "refused bodyless"}
-------------------------------------------------------------------------------
(* The helpers of PhoneNumbersNamespace. *)

Helpers == {"swml_webhook", "cxml_webhook", "cxml_application", "ai_agent",
            "call_flow", "relay_application", "relay_topic"}

Handler(helper) ==
  CASE helper = "swml_webhook"      -> "relay_script"
    [] helper = "cxml_webhook"      -> "laml_webhooks"
    [] helper = "cxml_application"  -> "laml_application"
    [] OTHER                        -> helper

Companion(helper) ==
  CASE helper = "swml_webhook"      -> "call_relay_script_url"
    [] helper = "cxml_webhook"      -> "call_request_url"
    [] helper = "cxml_application"  -> "call_laml_application_id"
    [] helper = "ai_agent"          -> "call_ai_agent_id"
    [] helper = "call_flow"         -> "call_flow_id"
    [] helper = "relay_application" -> "call_relay_application"
    [] helper = "relay_topic"       -> "call_relay_topic"

MakeBody(helper, value) ==
  [call_handler |-> Handler(helper)] @@ (Companion(helper) :> value)
-------------------------------------------------------------------------------
(* Calls. *)

Init == rest = [store |-> {}, made |-> None, last |-> None, calls |-> 0,
                number |-> << >>, bound |-> None]

Collection(path) ==
  IF path[Len(path)] = "id" THEN SubSeq(path, 1, Len(path) - 1) ELSE path

\* The operations that make, that find, and that remove one kind of thing.
Family(make, find, remove) == [make |-> make, find |-> find, remove |-> remove]
Families ==
  {Family("create", {"list", "get", "update"}, {"del", "delete_"}),
   Family("create_sip_endpoint",
          {"list_sip_endpoints", "get_sip_endpoint", "update_sip_endpoint"},
          {"delete_sip_endpoint"}),
   Family("deploy_version", {"list_versions"}, {}),
   Family("create_stream", {"list_streams"}, {}),
   Family("create_campaign", {"list_campaigns"}, {}),
   Family("create_order", {"list_orders"}, {}),
   Family("add_membership", {"list_memberships"}, {}),
   Family("purchase", {"list", "get", "update"}, {"delete_"}),
   Family("dial", {"list_calls", "get_call", "update_call"}, {"end_call"}),
   Family("create_call", {"list_calls"}, {}),
   Family("send_message", {"list_messages"}, {})}

Make ==
  \E n \in DOMAIN Namespaces, f \in Families :
    /\ rest.made = None /\ rest.calls = 0
    /\ f.make \in DOMAIN Namespaces[n]
    /\ LET request == Namespaces[n][f.make]
       IN  \E answer \in Answers, stored \in BOOLEAN :
             /\ answer = "ok" => stored
             /\ answer \in Refusals => ~stored
             /\ rest.store \subseteq {Collection(request[2])}
             /\ rest' = [rest EXCEPT
                  !.store = IF stored THEN @ \cup {Collection(request[2])} ELSE @,
                  !.made = IF Returns(answer)
                            THEN [resource |-> n, family |-> f, answer |-> answer]
                            ELSE None]

\* A list may be empty; what is not there is refused.
Find ==
  /\ rest.made # None
  /\ LET r == Namespaces[rest.made.resource]
     IN  \E op \in rest.made.family.find \cap DOMAIN r, answer \in Answers :
           LET path == r[op][2]
               here == Collection(path) \in rest.store
           IN  /\ answer = "ok" => here \/ path = Collection(path)
               /\ answer = "refused" => ~here /\ path # Collection(path)
               /\ rest' = [rest EXCEPT
                    !.last = [op |-> op, answer |-> answer, found |-> here /\ answer = "ok"]]

Remove ==
  /\ rest.made # None
  /\ LET r == Namespaces[rest.made.resource]
     IN  \E op \in rest.made.family.remove \cap DOMAIN r :
           \E answer \in Answers :
             rest' = [rest EXCEPT
               !.store = IF answer = "ok" THEN @ \ {Collection(r[op][2])} ELSE @,
               !.made = None, !.last = None]

\* set_*: the server keeps the fields it is not sent, or drops them; and it may have
\* taken a binding over whose answer is lost.
Bind ==
  /\ rest.calls < MaxBindings /\ rest.store = {} /\ rest.made = None
  /\ \E helper \in Helpers, answer \in Answers, taken, keeps \in BOOLEAN :
       LET value == rest.calls + 1
           body  == MakeBody(helper, value)
       IN  /\ answer = "ok" => taken
           /\ answer \in Refusals => ~taken
           /\ rest' = [rest EXCEPT
                !.calls = value,
                !.number = IF ~taken THEN @ ELSE IF keeps THEN body @@ @ ELSE body,
                !.bound = IF Returns(answer) THEN [answer |-> answer, value |-> value]
                          ELSE IF answer = "refused" THEN @ ELSE None]

Next == Make \/ Find \/ Remove \/ Bind

Spec == Init /\ [][Next]_rest
-------------------------------------------------------------------------------
(* Properties. *)

\* The application looks for what it has made, in a resource that makes it where it
\* lists it: imported_numbers does not.
Looked ==
  rest.made # None /\ rest.last # None
    /\ rest.made.resource # <<"rest", "imported_numbers">>
    /\ rest.last.answer \in {"ok", "refused"}

\* http_client.hpp: "Error thrown on non-2xx REST API responses". One without a body
\* is not thrown.
ErrorsAreThrown == Looked => rest.last.found

\* The fields of phone_call_handler.hpp.
Documented ==
  [relay_script |-> "call_relay_script_url", laml_webhooks |-> "call_request_url",
   laml_application |-> "call_laml_application_id", ai_agent |-> "call_ai_agent_id",
   call_flow |-> "call_flow_id", relay_application |-> "call_relay_application",
   relay_topic |-> "call_relay_topic"]

\* The field the number's handler reads is the one the last binding that returned has
\* set, though earlier bindings may have left their fields in the number.
BindingStands ==
  LET field == Documented[rest.number.call_handler]
  IN  field \in DOMAIN rest.number /\ rest.number[field] = rest.bound.value

\* A call that has returned has taken effect, whatever was refused or lost before: what
\* it has made is there for the operations of the same resource that list, get and
\* update it, which go to the path it was made at; and the binding it has set stands.
\* But for a refusal without a text.
ReturnedTookEffect ==
  /\ Looked /\ rest.made.answer # "refused bodyless" => rest.last.found
  /\ rest.bound # None /\ rest.bound.answer # "refused bodyless" => BindingStands
===============================================================================
