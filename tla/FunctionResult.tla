----------------------------- MODULE FunctionResult -----------------------------
(***************************************************************************)
(* The two builders of what a function answers with: FunctionResult, a     *)
(* response and actions for the platform, and DataMap, a function the      *)
(* platform runs by itself, made of requests ("webhooks") and of outputs,  *)
(* which are the JSON a FunctionResult has when it is handed over.         *)
(*                                                                         *)
(* DataMap's setters go by position: to the last webhook if there is one,  *)
(* else to the function. Texts and the parameters of verbs are left out.   *)
(***************************************************************************)
EXTENDS Integers, Sequences, SequencesExt

CONSTANTS
  Timeouts,       \* arguments of hold()
  ErrorKeys,      \* arguments of error_keys()
  Parameters,     \* the names of parameters
  MaxActions,     \* bound: actions of the result
  MaxCalls,       \* bound: calls on the DataMap
  None

VARIABLE answer   \* result: a FunctionResult; map: a DataMap;
                  \* log: the calls on the map that have returned

(***************************************************************************)
(* FunctionResult.                                                         *)
(***************************************************************************)
NewResult == [response |-> "", postProcess |-> FALSE, actions |-> <<>>]

AddAction(r, name, data) == [r EXCEPT !.actions = Append(@, [name |-> name, data |-> data])]

Clamp(t) == IF t > 900 THEN 900 ELSE IF t < 0 THEN 0 ELSE t
Hold(r, timeout) == AddAction(r, "hold", Clamp(timeout))

WaitForUser(r, enabled, timeout, answerFirst) ==
  AddAction(r, "wait_for_user",
            IF answerFirst THEN "answer_first"
            ELSE IF timeout # None THEN timeout
            ELSE IF enabled # None THEN enabled ELSE TRUE)

\* A system prompt alone is sent as a text.
SwitchContext(r, options) ==
  AddAction(r, "context_switch",
            IF options = {"system_prompt"} THEN "text" ELSE options)

\* connect and swml_transfer: the flag stands beside the document.
Transfer(r, verb, final) ==
  [r EXCEPT !.actions = Append(@, [name |-> "SWML", data |-> verb, transfer |-> final])]

\* execute_swml, and the calls that end in it: the flag is in the document.
ExecuteSwml(r, verb, transfer) ==
  AddAction(r, "SWML", [verb |-> verb, transfer |-> transfer])

JoinConference(r, muted, beep) ==
  ExecuteSwml(r, IF ~muted /\ beep = "true" THEN "join_conference name"
                 ELSE "join_conference with options", FALSE)

\* It throws without a body and without media.
MaySendSms(hasBody, hasMedia) == hasBody \/ hasMedia

ResultJson(r) ==
  [response |-> IF r.response = "" /\ r.actions = <<>> THEN "Action completed." ELSE r.response,
   action |-> r.actions,
   post_process |-> r.postProcess /\ r.actions # <<>>]

(***************************************************************************)
(* DataMap. Faults for the properties to notice come first.                *)
(***************************************************************************)
NewMap == [properties |-> {}, required |-> <<>>, expressions |-> <<>>,
           webhooks |-> <<>>, output |-> None, errorKeys |-> None]

NewWebhook == [output |-> None, errorKeys |-> None, options |-> {}]

OutputOfFirst(m, json) ==
  IF m.webhooks = <<>> THEN [m EXCEPT !.output = json]
  ELSE [m EXCEPT !.webhooks[1].output = json]

\* Repeated, a required parameter is listed again; made optional, it stays required.
Parameter(m, name, required) ==
  [m EXCEPT !.properties = @ \cup {name},
            !.required = IF required THEN Append(@, name) ELSE @]

Expression(m, json, nomatch) == [m EXCEPT !.expressions = Append(@, <<json, nomatch>>)]

Webhook(m) == [m EXCEPT !.webhooks = Append(@, NewWebhook)]

Output(m, json) ==
  IF m.webhooks = <<>> THEN [m EXCEPT !.output = json]
  ELSE [m EXCEPT !.webhooks[Len(m.webhooks)].output = json]

FallbackOutput(m, json) == [m EXCEPT !.output = json]

SetErrorKeys(m, keys) ==
  IF m.webhooks = <<>> THEN [m EXCEPT !.errorKeys = keys]
  ELSE [m EXCEPT !.webhooks[Len(m.webhooks)].errorKeys = keys]

GlobalErrorKeys(m, keys) == [m EXCEPT !.errorKeys = keys]

\* body and params throw without a webhook; foreach and webhook_expressions do nothing.
MaySetOption(m, option) == option \in {"body", "params"} => m.webhooks # <<>>
SetOption(m, option) ==
  IF m.webhooks = <<>> THEN m
  ELSE [m EXCEPT !.webhooks[Len(m.webhooks)].options = @ \cup {option}]

ToSwaigFunction(m) ==
  [properties |-> m.properties, required |-> m.required, expressions |-> m.expressions,
   webhooks |-> m.webhooks, output |-> m.output, errorKeys |-> m.errorKeys]
-----------------------------------------------------------------------------
Init == answer = [result |-> NewResult, map |-> NewMap, log |-> <<>>]

\* The application shapes the result.
Says(r) ==
  /\ Len(r.actions) <= MaxActions
  /\ answer' = [answer EXCEPT !.result = r]

SetResponse == \E t \in {"", "text"} : Says([answer.result EXCEPT !.response = t])
SetPostProcess == \E b \in BOOLEAN : Says([answer.result EXCEPT !.postProcess = b])

Act ==
  LET r == answer.result
  IN  \/ Says(AddAction(r, "plain", "data"))
      \/ \E t \in Timeouts : Says(Hold(r, t))
      \/ \E e \in {None, FALSE}, t \in {None, 5}, first \in BOOLEAN : Says(WaitForUser(r, e, t, first))
      \/ \E o \in {{"system_prompt"}, {"system_prompt", "consolidate"}} : Says(SwitchContext(r, o))
      \/ \E final \in BOOLEAN : Says(Transfer(r, "connect", final))
      \/ \E transfer \in BOOLEAN : Says(ExecuteSwml(r, "tap", transfer))
      \/ \E muted \in BOOLEAN : Says(JoinConference(r, muted, "true"))
      \/ \E b, m \in BOOLEAN : MaySendSms(b, m) /\ Says(ExecuteSwml(r, "send_sms", FALSE))

\* It builds the function, with the JSON of the result as it is at the time.
Called(m, call) ==
  /\ Len(answer.log) < MaxCalls
  /\ answer' = [answer EXCEPT !.map = m, !.log = Append(@, call)]

Build ==
  LET m == answer.map
      json == ResultJson(answer.result)
  IN  \/ \E p \in Parameters, required \in BOOLEAN :
           Called(Parameter(m, p, required), [call |-> "parameter", name |-> p])
      \/ Called(Expression(m, json, None), [call |-> "expression"])
      \/ Called(Webhook(m), [call |-> "webhook"])
      \/ Called(Output(m, json), [call |-> "output", json |-> json])
      \/ Called(FallbackOutput(m, json), [call |-> "fallback_output", json |-> json])
      \/ \E k \in ErrorKeys : Called(SetErrorKeys(m, k), [call |-> "error_keys", keys |-> k])
      \/ \E k \in ErrorKeys :
           Called(GlobalErrorKeys(m, k), [call |-> "global_error_keys", keys |-> k])
      \/ \E o \in {"body", "foreach"} :
           MaySetOption(m, o) /\ Called(SetOption(m, o), [call |-> o])

Next == SetResponse \/ SetPostProcess \/ Act \/ Build
Spec == Init /\ [][Next]_answer
-----------------------------------------------------------------------------
\* The JSON of the last of the calls at the places, or None.
LastOf(places) ==
  IF places = {} THEN None
  ELSE answer.log[CHOOSE i \in places : \A j \in places : j <= i].json

\* The places of such calls in the log.
Places(names) == {i \in DOMAIN answer.log : answer.log[i].call \in names}

\* The outputs set after n webhooks have been added, and before the next one is.
OutputsOf(n) ==
  {i \in Places({"output"}) : Cardinality(Places({"webhook"}) \cap (1..i)) = n}

\* What the function shows is what its calls say, in their order: each webhook
\* has the last output set after it and before the next one, and the function
\* has the last fallback, or the last output before any webhook; whatever comes
\* between, and whatever the application goes on to do with its result.
FunctionFollowsItsCalls ==
  LET f == ToSwaigFunction(answer.map)
  IN  /\ Len(f.webhooks) = Cardinality(Places({"webhook"}))
      /\ \A n \in DOMAIN f.webhooks : f.webhooks[n].output = LastOf(OutputsOf(n))
      /\ f.output = LastOf(Places({"fallback_output"}) \cup OutputsOf(0))
      /\ ToSet(f.required) \subseteq f.properties
=============================================================================
