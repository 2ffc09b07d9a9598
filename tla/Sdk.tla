---------------------------------- MODULE Sdk ----------------------------------
(***************************************************************************)
(* The parts of the SDK side by side: the Agent, and the parts that share   *)
(* no state with it or with each other. A behaviour is one of one part,     *)
(* chosen at the start; the rest of the state stays as it is. Whatever      *)
(* holds in the behaviours of each part alone holds in all their            *)
(* interleavings, for a step of one part leaves the others where they were. *)
(*                                                                         *)
(* Pom is not among them: it renders its trees by recursive operators,      *)
(* which are out of the prover's reach. MCSdk adds it for TLC.              *)
(***************************************************************************)
EXTENDS Agent

CONSTANTS
  \* Contexts
  ContextNames, StepNames, Fields, Actions, ToolNames, MaxContexts, MaxSteps, MaxListed,
  \* Hosting; Hosted: its Agents
  Hosted, Routes, Order, Bases, MaxHostCalls,
  \* AgentDocument; PromptKeys: its Keys
  Titles, Appended, Replaced, PromptKeys, Verbs, MaxDocumentCalls,
  \* FunctionResult
  Timeouts, ErrorKeys, Parameters, MaxActions, MaxMapCalls,
  \* Webhook; ParameterNames, SigningKeys and SigningKey: its Names, Keys and Key
  ParameterNames, BodyHash, Urls, Bodies, SigningKeys, SigningKey, Options,
  \* Rest
  MaxBindings,
  \* Pages
  Listing

\* Routes are made of slashes and names, and a path comes before those that go on from
\* it: the order of std::map is lexicographic.
RouteParts == {"/", "swaig", "post_prompt", "mcp", "debug", "health", "ready", "agents", "sip"}
                \cup UNION {ToSet(path) : path \in Routes \cup ToSet(Order)}
ASSUME RoutesAssumption ==
  /\ Routes \subseteq Seq(RouteParts) /\ Order \in Seq(Seq(RouteParts))
  /\ \A i, j \in DOMAIN Order : IsStrictPrefix(Order[i], Order[j]) => i < j

\* What the server lists: pages of items, of which only the last may be empty.
Items == UNION {ToSet(Listing[p]) : p \in DOMAIN Listing}
ASSUME ListingAssumption ==
  /\ Listing \in Seq(Seq(Items)) /\ Listing # <<>>
  /\ \A p \in 1..(Len(Listing) - 1) : Listing[p] # <<>>

\* What the platform posts: its URLs come without a hash of the body, which it adds by
\* itself; a form has fields; bodies that have the same hash are the same.
Parameter == [name : ToSet(ParameterNames), value : STRING]
ASSUME WebhookAssumption ==
  /\ ParameterNames \in Seq(ToSet(ParameterNames))
  /\ \A u \in Urls :
       /\ u = [scheme |-> u.scheme, host |-> u.host, port |-> u.port, query |-> u.query]
       /\ u.query \in Seq(Parameter) /\ \A i \in DOMAIN u.query : u.query[i].name # BodyHash
  /\ \A body \in Bodies :
       /\ body.form \in BOOLEAN /\ body.items \in Seq(Parameter)
       /\ body.form => body.items # <<>>
  /\ \A b, c \in Bodies : b.id = c.id => b = c

VARIABLES part,    \* the part this behaviour is about
          state    \* the variable of that part

Builders == INSTANCE Contexts WITH builder <- state

Hosts == INSTANCE Hosting WITH host <- state, Agents <- Hosted, MaxCalls <- MaxHostCalls

Documents == INSTANCE AgentDocument WITH
  conf <- state, Keys <- PromptKeys, MaxCalls <- MaxDocumentCalls

Results == INSTANCE FunctionResult WITH answer <- state, MaxCalls <- MaxMapCalls

Webhooks == INSTANCE Webhook WITH
  hook <- state, Names <- ParameterNames, Keys <- SigningKeys, Key <- SigningKey

RestCalls == INSTANCE Rest WITH rest <- state

Iterators == INSTANCE Pages WITH iter <- state
-------------------------------------------------------------------------------
SdkInit ==
  /\ Init
  /\ \/ part = "agent"    /\ state = None
     \/ part = "contexts" /\ Builders!Init
     \/ part = "hosting"  /\ Hosts!Init
     \/ part = "document" /\ Documents!Init
     \/ part = "result"   /\ Results!Init
     \/ part = "webhook"  /\ Webhooks!Init
     \/ part = "rest"     /\ RestCalls!Init
     \/ part = "pages"    /\ Iterators!Init

OtherNext ==
  \/ part = "contexts" /\ Builders!Next
  \/ part = "hosting"  /\ Hosts!Next
  \/ part = "document" /\ Documents!Next
  \/ part = "result"   /\ Results!Next
  \/ part = "webhook"  /\ Webhooks!Next
  \/ part = "rest"     /\ RestCalls!Next
  \/ part = "pages"    /\ Iterators!Next

SdkNext ==
  /\ UNCHANGED part
  /\ \/ part = "agent" /\ Next /\ UNCHANGED state
     \/ OtherNext /\ UNCHANGED vars

SdkSpec == SdkInit /\ [][SdkNext]_<<vars, part, state>>
-------------------------------------------------------------------------------
(* The properties of the parts, each stated and explained in its module. *)

\* ContextBuilder: flows that validate() accepts can be walked.
ValidFlowNavigates == part = "contexts" => Builders!ValidFlowNavigates
\* Hosting: a hook in a document leads to a route that serves it.
HooksAreServed == part = "hosting" => Hosts!HooksAreServed
\* AgentBase: a copy renders the document of the original.
CopyRendersAlike == part = "document" => Documents!CopyRendersAlike
\* DataMap: the function follows the calls that made it.
FunctionFollowsItsCalls == part = "result" => Results!FunctionFollowsItsCalls
\* Webhooks: what was changed on its way is refused.
ChangedIsRefused == part = "webhook" => Webhooks!ChangedIsRefused
\* Webhooks: a genuine request with JSON in it reaches the handler.
GenuineJsonIsAccepted == part = "webhook" => Webhooks!GenuineJsonIsAccepted
\* REST: what a call that has returned was to do is done.
ReturnedTookEffect == part = "rest" => RestCalls!ReturnedTookEffect
\* REST: an iterator gives every item once, in order.
AllItemsInOrder == part = "pages" => Iterators!AllItemsInOrder

\* Webhooks: a genuine request reaches the handler, the middleware's header says.
GenuineIsAccepted == part = "webhook" => Webhooks!GenuineIsAccepted
===============================================================================
