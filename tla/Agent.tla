-------------------------------- MODULE Agent --------------------------------
(***************************************************************************)
(* An agent's SWAIG functions: the registry it inherits from Service, the  *)
(* skills that fill it, the documents that advertise it, the session       *)
(* tokens of secure functions, and the dispatch of the platform's calls.   *)
(*                                                                         *)
(* The application configures the agent, then serve() blocks its thread    *)
(* and the HTTP workers only read the agent, so each request is one step;  *)
(* the per-request copy of the agent is a value of that step.              *)
(* No signing key is set, so no middleware stands before the handlers.     *)
(***************************************************************************)
EXTENDS Naturals, Sequences, SequencesExt

CONSTANTS
  Names,          \* the names of functions
  AppNames,       \* those the application defines or registers by itself
  Skills,         \* the names of skills an application may ask for
  Registered,     \* those SkillRegistry has a factory for
  Multiple,       \* those that support several instances
  SkillTools,     \* SkillTools[s]: the functions register_tools() returns
  SkillData,      \* SkillData[s]: the functions get_datamap_functions() returns
  CopyTools,      \* functions the dynamic configuration defines on the copy, in turn
  Calls,          \* the ids of calls; UUIDs, so none contains a colon
  Lifetime,       \* the lifetime of a token, in ticks of the clock
  MaxNow,         \* bound: the last tick
  MaxSkills,      \* bound: skills added to the agent and loaded by the manager
  MaxData,        \* bound: registrations of DataMap functions
  None

ASSUME ConstantsAssumption ==
  /\ AppNames \subseteq Names /\ CopyTools \in Seq(Names)
  /\ Registered \subseteq Skills /\ Multiple \subseteq Skills
  /\ SkillTools \in [Skills -> Seq(Names)]
  /\ SkillData \in [Skills -> Seq(Names)]
  /\ {Lifetime, MaxNow, MaxSkills, MaxData} \subseteq Nat

VARIABLES
  agent,          \* the agent: its registry, skills and dynamic configuration
  manager,        \* SkillManager::loaded_skills_: the skills it loaded
  serving,        \* serve() has been called
  now,            \* the clock, in seconds
  token,          \* a token that has been minted, or None
  response,       \* the response to the request just served, or None
  history         \* what the application and the skills have done

vars == <<agent, manager, serving, now, token, response, history>>

(***************************************************************************)
(* The registry.                                                           *)
(***************************************************************************)
NewAgent == [tools |-> <<>>, order |-> <<>>, raw |-> <<>>, datamap |-> <<>>,
             skills |-> <<>>, dynamic |-> FALSE, secret |-> "agent"]

\* The elements of a sequence that are in S, in their order.
Keep(s, S) ==
  LET kept[i \in 0..Len(s)] ==
        IF i = 0 THEN <<>>
        ELSE IF s[i] \in S THEN Append(kept[i-1], s[i]) ELSE kept[i-1]
  IN  kept[Len(s)]

Listed(order, n) == IF Contains(order, n) THEN order ELSE Append(order, n)

\* Service::define_tool: the last definition wins and keeps its place.
DefineTool(a, n, isSecure) ==
  [a EXCEPT !.tools = [m \in DOMAIN a.tools \cup {n} |->
                         IF m = n THEN [secure |-> isSecure] ELSE a.tools[m]],
            !.order = Listed(a.order, n)]

\* AgentBase::register_swaig_function and the one of Service it calls.
RegisterSwaigFunction(a, n) ==
  [a EXCEPT !.datamap = Append(a.datamap, n), !.raw = Append(a.raw, n),
            !.order = Listed(a.order, n)]

RemoveFunctionKeepsOrder(a, n) ==
  IF n \notin DOMAIN a.tools THEN a
  ELSE [a EXCEPT !.tools = [m \in DOMAIN a.tools \ {n} |-> a.tools[m]]]

\* Service::remove_function: false, and no change, for any other name.
RemoveFunction(a, n) ==
  IF n \notin DOMAIN a.tools THEN a
  ELSE [a EXCEPT !.tools = [m \in DOMAIN a.tools \ {n} |-> a.tools[m]],
                 !.order = Keep(@, ToSet(@) \ {n})]

HasTool(a, n) == n \in DOMAIN a.tools

\* The tools of the registry, in the order of their first definition.
OrderedTools(a) == Keep(a.order, DOMAIN a.tools)

FunctionsOfTools(a) ==
  LET tools == OrderedTools(a)
  IN  [i \in 1..Len(tools) |-> [name |-> tools[i], hook |-> TRUE]]

\* AgentBase::build_swaig_functions. Only a tool carries the agent's hook:
\* a DataMap function runs on the server.
Functions(a) ==
  LET tools == OrderedTools(a)
  IN  [i \in 1..Len(tools) |-> [name |-> tools[i], hook |-> TRUE]]
        \o [i \in 1..Len(a.datamap) |-> [name |-> a.datamap[i], hook |-> FALSE]]

\* Service::build_tool_registry_json, what swaig-test lists.
Introspection(a) == Keep(a.order, DOMAIN a.tools \cup ToSet(a.raw))

\* The copy constructor: neither the dynamic configuration nor the secret of
\* the session manager is copied.
Clone(a) == [a EXCEPT !.dynamic = FALSE, !.secret = "copy"]

(***************************************************************************)
(* Skills. A skill's tools are not secure: define_tool of SkillBase.       *)
(***************************************************************************)
\* A skill, or a callback, defines its tools one after the other ...
DefineAll(a, names, isSecure) ==
  LET done[i \in 0..Len(names)] ==
        IF i = 0 THEN a ELSE DefineTool(done[i-1], names[i], isSecure)
  IN  done[Len(names)]

\* ... and its DataMap functions are registered in turn.
RegisterAll(a, names) ==
  LET done[i \in 0..Len(names)] ==
        IF i = 0 THEN a ELSE RegisterSwaigFunction(done[i-1], names[i])
  IN  done[Len(names)]

InstallToolsOnly(a, s) == DefineAll(a, SkillTools[s], FALSE)

Install(a, s) == RegisterAll(DefineAll(a, SkillTools[s], FALSE), SkillData[s])

InstallAnyway(ready, a, s) == Install(a, s)

\* What setup(), given its parameters, lets a skill install.
InstallIf(ready, a, s) == IF ready THEN Install(a, s) ELSE a

(***************************************************************************)
(* Session tokens: base64 of function ":" call ":" expiry, signed with the *)
(* secret of the manager that made it.                                     *)
(***************************************************************************)
CreateToken(a, n, c) ==
  [function |-> n, call |-> c, expiry |-> now + Lifetime, secret |-> a.secret]

ValidateTokenAtOnce(a, t, n, c) ==
  /\ t # None
  /\ t.secret = a.secret
  /\ t.function = n
  /\ t.call = c
  /\ now < t.expiry

ValidateTokenOfAnyCall(a, t, n, c) ==
  /\ t # None
  /\ t.secret = a.secret
  /\ t.function = n
  /\ now <= t.expiry

ValidateToken(a, t, n, c) ==
  /\ t # None
  /\ t.secret = a.secret
  /\ t.function = n
  /\ t.call = c
  /\ now <= t.expiry

-----------------------------------------------------------------------------
Init ==
  /\ agent = NewAgent
  /\ manager = <<>>
  /\ serving = FALSE
  /\ now = 0
  /\ token = None
  /\ response = None
  /\ history = [defined |-> {}, removed |-> {}, ready |-> {}]

Bounded(a) == Len(a.datamap) <= MaxData /\ Len(a.skills) + Len(manager) <= MaxSkills

\* What the application does to the agent before serve().
Configure(a) ==
  /\ ~serving
  /\ Bounded(a)
  /\ agent' = a
  /\ UNCHANGED <<serving, now, token, response>>

\* A name that is provided again is no longer a removed one.
Provide(provided) == [history EXCEPT !.removed = @ \ provided]

Define(n, isSecure) ==
  /\ Configure(DefineTool(agent, n, isSecure))
  /\ history' = [Provide({n}) EXCEPT !.defined = @ \cup {n}]
  /\ UNCHANGED manager

Register(n) ==
  /\ Configure(RegisterSwaigFunction(agent, n))
  /\ history' = [Provide({n}) EXCEPT !.defined = @ \cup {n}]
  /\ UNCHANGED manager

Discard(n) ==
  /\ HasTool(agent, n)
  /\ Configure(RemoveFunction(agent, n))
  /\ history' = [history EXCEPT !.removed = @ \cup {n}]
  /\ UNCHANGED manager

Provided(s) == ToSet(SkillTools[s]) \cup ToSet(SkillData[s])

\* AgentBase::add_skill: it lists the skill before it has made one.
AddSkill(s, ready) ==
  LET made == s \in Registered /\ ready
  IN  /\ Configure(InstallIf(made, [agent EXCEPT !.skills = Append(@, s)], s))
      /\ history' = IF made THEN [Provide(Provided(s)) EXCEPT !.ready = @ \cup {s}]
                            ELSE history
      /\ UNCHANGED manager

\* AgentBase::remove_skill: the functions of the skill stay.
RemoveSkill(s) ==
  /\ Configure([agent EXCEPT !.skills = Keep(@, Skills \ {s})])
  /\ UNCHANGED <<manager, history>>

IsLoaded(s) == Contains(manager, s)

MayLoad(s) == s \in Registered /\ (s \in Multiple \/ ~IsLoaded(s))

\* SkillManager::load_skill; ready: its environment variables are set and
\* setup() succeeds.
LoadSkill(s, ready) ==
  LET made == MayLoad(s) /\ ready
  IN  /\ Len(agent.skills) + Len(manager) < MaxSkills
      /\ Configure(InstallIf(made, agent, s))
      /\ manager' = IF made THEN Append(manager, s) ELSE manager
      /\ history' = IF made THEN [Provide(Provided(s)) EXCEPT !.ready = @ \cup {s}]
                            ELSE history

\* SkillManager::unload_skill: the first instance; its functions stay.
UnloadSkill(s) ==
  /\ IsLoaded(s)
  /\ Configure(agent)
  /\ manager' = RemoveFirst(manager, s)
  /\ UNCHANGED history

CleanupAll ==
  /\ manager # <<>>
  /\ Configure(agent)
  /\ manager' = <<>>
  /\ UNCHANGED history

SetDynamicConfigCallback ==
  /\ Configure([agent EXCEPT !.dynamic = TRUE])
  /\ UNCHANGED <<manager, history>>

Serve ==
  /\ ~serving
  /\ serving' = TRUE
  /\ UNCHANGED <<agent, manager, now, token, response, history>>

-----------------------------------------------------------------------------
(***************************************************************************)
(* Requests. authorized: validate_auth accepts the credentials.            *)
(***************************************************************************)
Reading ==
  /\ serving
  /\ UNCHANGED <<agent, manager, serving, now, history>>

\* The agent render_swml_for_request renders: itself, or a copy configured
\* for this request.
Rendered ==
  IF agent.dynamic
  THEN DefineAll(Clone(agent), CopyTools, TRUE)
  ELSE agent

SwmlRequest ==
  /\ Reading
  /\ response' = [kind |-> "swml", functions |-> Functions(Rendered)]
  /\ UNCHANGED token

\* AgentBase::create_tool_token, on the agent or on the copy of a request.
MintToken(a, n, c) ==
  /\ Reading
  /\ token = None
  /\ token' = CreateToken(a, n, c)
  /\ response' = None

StatusWithoutTokens(authorized, c, function, t) ==
  IF ~authorized THEN 401
  ELSE IF function = None THEN 400
  ELSE IF ~HasTool(agent, function) THEN 404
  ELSE 200

\* handle_swaig_request: the checks in their order. function is None when
\* the body is empty, is not JSON or names no function.
Status(authorized, c, function, t) ==
  IF ~authorized THEN 401
  ELSE IF function = None THEN 400
  ELSE IF ~HasTool(agent, function) THEN 404
  ELSE IF agent.tools[function].secure /\ ~ValidateToken(agent, t, function, c) THEN 403
  ELSE 200

SwaigRequest(authorized, c, function, t) ==
  /\ Reading
  /\ response' = [kind |-> "swaig", status |-> Status(authorized, c, function, t),
                  call |-> c, function |-> function, token |-> t]
  /\ UNCHANGED token

Tick ==
  /\ serving
  /\ now < MaxNow
  /\ now' = now + 1
  /\ response' = None
  /\ UNCHANGED <<agent, manager, serving, token, history>>

Next ==
  \/ \E n \in AppNames, isSecure \in BOOLEAN : Define(n, isSecure)
  \/ \E n \in AppNames : Register(n)
  \/ \E n \in Names : Discard(n)
  \/ \E s \in Skills, ready \in BOOLEAN : AddSkill(s, ready)
  \/ \E s \in Skills : RemoveSkill(s)
  \/ \E s \in Skills, ready \in BOOLEAN : LoadSkill(s, ready)
  \/ \E s \in Skills : UnloadSkill(s)
  \/ CleanupAll
  \/ SetDynamicConfigCallback
  \/ Serve
  \/ SwmlRequest
  \/ \E n \in Names, c \in Calls : MintToken(agent, n, c)
  \/ \E n \in Names, c \in Calls : agent.dynamic /\ MintToken(Clone(agent), n, c)
  \/ \E authorized \in BOOLEAN, c \in Calls, n \in Names \cup {None}, t \in {token, None} :
       SwaigRequest(authorized, c, n, t)
  \/ Tick

Spec == Init /\ [][Next]_vars
-----------------------------------------------------------------------------
(***************************************************************************)
(* Properties.                                                             *)
(***************************************************************************)
Tokens == [function : Names, call : Calls, expiry : 0..(MaxNow + Lifetime),
           secret : {"agent", "copy"}]

\* The types of the variables.
TypeOK ==
  /\ agent.tools \in UNION {[S -> [secure : BOOLEAN]] : S \in SUBSET Names}
  /\ agent.order \in Seq(Names)
  /\ agent.raw \in Seq(Names) /\ agent.datamap \in Seq(Names)
  /\ agent.skills \in Seq(Skills)
  /\ agent.dynamic \in BOOLEAN
  /\ agent.secret = "agent"
  /\ manager \in Seq(Registered)
  /\ serving \in BOOLEAN
  /\ now \in 0..MaxNow
  /\ token \in Tokens \cup {None}
  /\ \/ response = None
     \/ response.kind = "swml" /\ response.functions \in Seq([name : Names, hook : BOOLEAN])
     \/ response.kind = "swaig" /\ response.status \in {200, 400, 401, 403, 404}
  /\ history \in [defined : SUBSET AppNames, removed : SUBSET Names, ready : SUBSET Registered]

\* Whatever is defined, registered, redefined and removed, and in whatever
\* order, tool_order_ names every tool once, and nothing else but DataMap
\* functions: what Service::build_tool_registry_json and list_tools rely on.
OrderNamesTools ==
  /\ IsInjective(agent.order)
  /\ DOMAIN agent.tools \subseteq ToSet(agent.order)
  /\ ToSet(agent.order) \subseteq DOMAIN agent.tools \cup ToSet(agent.raw)

Advertised(a) == {Functions(a)[i].name : i \in DOMAIN Functions(a)}

\* What the introspection of a service lists, its documents advertise.
ListedIsAdvertised == ToSet(Introspection(agent)) \subseteq Advertised(agent)

\* The three tables of the registry agree, and with them both of its readers.
RegistryIsConsistent == TypeOK /\ OrderNamesTools /\ ListedIsAdvertised

\* A skill that SkillManager says is loaded has all its functions in the
\* documents, but for those the application removed.
LoadedSkillServes ==
  \A s \in ToSet(manager) : Provided(s) \subseteq Advertised(agent) \cup history.removed

\* A skill whose environment is incomplete or whose setup() failed leaves no
\* function behind, on either way of loading it.
FailedSkillLeavesNothing ==
  Advertised(agent) \subseteq history.defined \cup UNION {Provided(s) : s \in history.ready}

\* A call of a secure function runs exactly when it carries a token this agent
\* made for that function and that call, until Lifetime seconds have passed.
SecureRunsByToken ==
  response # None /\ response.kind = "swaig" =>
    LET t == response.token
        f == response.function
    IN  response.status \in {200, 403} /\ agent.tools[f].secure =>
          (response.status = 200 <=>
             /\ t # None
             /\ t.secret = agent.secret /\ t.function = f /\ t.call = response.call
             /\ now \in (t.expiry - Lifetime)..t.expiry)

\* A function a document sends to the agent's hook is one the agent runs. Not
\* so for what the dynamic configuration defines: the document is rendered from
\* the copy, the call is answered by the agent itself.
AdvertisedIsCallable ==
  response # None /\ response.kind = "swml" =>
    \A i \in DOMAIN response.functions :
      response.functions[i].hook => HasTool(agent, response.functions[i].name)
=============================================================================
