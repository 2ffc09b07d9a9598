-------------------------------- MODULE Hosting --------------------------------
(***************************************************************************)
(* Where agents are served and where their documents send the platform.    *)
(* An agent serves itself or is mounted on an AgentServer; the URLs of its *)
(* document are built from its route by code of their own, and httplib     *)
(* gives a request to the first entry of the table that matches.           *)
(*                                                                         *)
(* A path is the sequence of its names and of its slashes. A URL has the   *)
(* path and whether it carries the credentials of its agent; the query,    *)
(* which no table looks at, is left out.                                   *)
(***************************************************************************)
EXTENDS Naturals, Sequences, SequencesExt

CONSTANTS
  Agents,
  Routes,         \* the routes agents are made with and mounted at
  Order,          \* those routes, normalised, in the order of std::map
  Bases,          \* the paths of base URLs: of a proxy, and of request headers
  MaxCalls,       \* bound: calls that configure the agents and the server
  None

VARIABLE host     \* agents: each agent; mounts, sipRouting: of the AgentServer;
                  \* server: the table of the httplib server that runs, or None;
                  \* calls: made so far

Slash == <<"/">>

\* A path with a slash in front of it, as AgentBase, Service and AgentServer have it.
Normalize(path) == IF path # <<>> /\ Head(path) # "/" THEN Slash \o path ELSE path

NewAgent(route) ==
  [route |-> Normalize(route), authInitialized |-> FALSE, proxy |-> None,
   webhook |-> None, postPrompt |-> None, mcp |-> FALSE, debug |-> FALSE]

InitAuth(ag) == [ag EXCEPT !.authInitialized = TRUE]

(***************************************************************************)
(* The URLs of a document.                                                 *)
(***************************************************************************)
\* What the request says of its base; local: the agent's own host and port.
DetectProxyUrl(ag, headers) ==
  IF ag.proxy # None THEN ag.proxy
  ELSE IF headers.forwarded # None THEN headers.forwarded
  ELSE IF headers.original # None THEN headers.original
  ELSE <<>>

BuildWebhookUrl(ag, base) ==
  IF ag.webhook # None THEN ag.webhook
  ELSE LET url == base \o ag.route
           slashed == IF url # <<>> /\ Last(url) = "/" THEN url ELSE url \o Slash
       IN  [path |-> Append(slashed, "swaig"), credentials |-> ag.authInitialized]

EndsWithSwaig(path, i) == i + 1 <= Len(path) /\ path[i] = "/" /\ path[i + 1] = "swaig"

\* The last "/swaig" of the hook and what follows it give way to "/post_prompt".
PostPromptUrl(ag, hook) ==
  LET places == {i \in DOMAIN hook.path : EndsWithSwaig(hook.path, i)}
      last == CHOOSE i \in places : \A j \in places : j <= i
  IN  IF ag.postPrompt # None THEN ag.postPrompt
      ELSE IF places = {} THEN hook
      ELSE [hook EXCEPT !.path = SubSeq(@, 1, last) \o <<"post_prompt">>]

(***************************************************************************)
(* Tables.                                                                 *)
(***************************************************************************)
Entry(method, path, a, handler) ==
  [method |-> method, path |-> path, agent |-> a, handler |-> handler]

JoinAlways(base, name) == base \o Slash \o <<name>>
Join(base, name) == IF Last(base) = "/" THEN Append(base, name) ELSE base \o Slash \o <<name>>

Health == <<Entry("GET", <<"/", "health">>, None, "health"),
            Entry("GET", <<"/", "ready">>, None, "ready")>>

Endpoints(a, base) ==
  <<Entry("GET", base, a, "swml"), Entry("POST", base, a, "swml"),
    Entry("POST", Join(base, "swaig"), a, "swaig"),
    Entry("POST", Join(base, "post_prompt"), a, "post_prompt")>>

\* AgentBase::setup_routes.
AgentTable(a, ag) ==
  LET route == IF ag.route = <<>> THEN Slash ELSE ag.route
      base == IF Len(route) > 1 /\ Last(route) = "/" THEN Front(route) ELSE route
  IN  Health \o Endpoints(a, base)
        \o (IF ag.mcp THEN <<Entry("POST", Join(base, "mcp"), a, "mcp")>> ELSE <<>>)
        \o (IF ag.debug THEN <<Entry("GET", Join(base, "debug"), a, "debug")>> ELSE <<>>)

\* AgentServer::setup_routes; it initialises the credentials of its agents.
ServerTable(mounts, sipRouting) ==
  Health \o <<Entry("GET", <<"/", "agents">>, None, "agents")>>
    \o FlattenSeq([i \in DOMAIN Order |->
         IF Order[i] \notin DOMAIN mounts THEN <<>>
         ELSE Endpoints(mounts[Order[i]], IF Order[i] = <<>> THEN Slash ELSE Order[i])])
    \o (IF sipRouting THEN <<Entry("POST", <<"/", "sip">>, None, "sip")>> ELSE <<>>)

\* The first entry that matches; an agent's handler asks for its credentials.
Answer(table, method, url) ==
  LET matching == {i \in DOMAIN table : table[i].method = method /\ table[i].path = url.path}
      first == table[CHOOSE i \in matching : \A j \in matching : i <= j]
      Refused(status) == [agent |-> None, handler |-> status]
  IN  IF matching = {} THEN Refused("404")
      ELSE IF first.agent # None /\ ~url.credentials THEN Refused("401")
      ELSE [agent |-> first.agent, handler |-> first.handler]
-----------------------------------------------------------------------------
Init ==
  \E route \in [Agents -> Routes] :
    host = [agents |-> [a \in Agents |-> NewAgent(route[a])], mounts |-> <<>>,
            sipRouting |-> FALSE, server |-> None, calls |-> 0]

Stopped == host.server = None

Becomes(h) == host.calls < MaxCalls /\ host' = [h EXCEPT !.calls = @ + 1]

\* The application sets something about an agent before it is served.
Set(a, ag) == Stopped /\ Becomes([host EXCEPT !.agents[a] = ag])

Elsewhere == {[path |-> <<"/", "hook">>, credentials |-> TRUE],
              [path |-> <<"/", "swaig", "/", "swaig">>, credentials |-> TRUE]}

SetWebhookUrl(a) == \E url \in Elsewhere : Set(a, [host.agents[a] EXCEPT !.webhook = url])
SetPostPromptUrl(a) == \E url \in Elsewhere : Set(a, [host.agents[a] EXCEPT !.postPrompt = url])
ManualSetProxyUrl(a) == \E base \in Bases : Set(a, [host.agents[a] EXCEPT !.proxy = base])
SetRoute(a) == \E r \in Routes : Set(a, [host.agents[a] EXCEPT !.route = Normalize(r)])
SetAuth(a) == Set(a, InitAuth(host.agents[a]))
EnableMcpServer(a) == Set(a, [host.agents[a] EXCEPT !.mcp = ~@])
EnableDebugRoutes(a) == Set(a, [host.agents[a] EXCEPT !.debug = ~@])
EnableSipRouting == Stopped /\ Becomes([host EXCEPT !.sipRouting = ~@])

\* Under the mutex; what a running server has mounted stays.
RegisterAgent(a, route) ==
  Becomes([host EXCEPT !.mounts = [r \in DOMAIN @ \cup {Normalize(route)} |->
                                     IF r = Normalize(route) THEN a ELSE @[r]]])

\* The route is not normalised.
UnregisterAgent(route) ==
  Becomes([host EXCEPT !.mounts = [r \in DOMAIN @ \ {route} |-> @[r]]])

Serve(a) ==
  /\ Stopped
  /\ LET ag == InitAuth(host.agents[a])
     IN  host' = [host EXCEPT !.agents[a] = ag, !.server = AgentTable(a, ag)]

MountedAgents == {host.mounts[r] : r \in DOMAIN host.mounts}

Run ==
  /\ Stopped
  /\ host' = [host EXCEPT
       !.agents = [a \in Agents |-> IF a \in MountedAgents THEN InitAuth(@[a]) ELSE @[a]],
       !.server = ServerTable(host.mounts, host.sipRouting)]

Stop == ~Stopped /\ host' = [host EXCEPT !.server = None]

Next ==
  \/ \E a \in Agents :
       \/ SetWebhookUrl(a) \/ SetPostPromptUrl(a) \/ ManualSetProxyUrl(a) \/ SetRoute(a)
       \/ SetAuth(a) \/ EnableMcpServer(a) \/ EnableDebugRoutes(a)
       \/ Serve(a)
       \/ \E route \in Routes : RegisterAgent(a, route)
  \/ \E route \in Routes : UnregisterAgent(route)
  \/ EnableSipRouting
  \/ Run
  \/ Stop

Spec == Init /\ [][Next]_host
-----------------------------------------------------------------------------
Headers == [forwarded : {None, <<>>}, original : {None} \cup Bases]

Stripped(path) == IF path # <<>> /\ Last(path) = "/" THEN Front(path) ELSE path

\* The agent whose document is served at its own route, with no other mount that
\* is its route but for a slash at the end.
ServedAtItsRoute(a) ==
  LET ag == host.agents[a]
      root == IF ag.route = <<>> THEN Slash ELSE ag.route
  IN  \A x \in {y \in ToSet(host.server) : y.method = "POST" /\ y.handler = "swml"} :
        (Stripped(x.path) = Stripped(root)) <=> x.agent = a

\* Where the document of a served agent sends the calls of its functions and its
\* post-prompt, this agent has the handler for it and takes the credentials; for
\* every way to write a route, whoever else is mounted, and on either server.
HooksAreServed ==
  ~Stopped =>
    \A a \in {x.agent : x \in ToSet(host.server)} \ {None}, headers \in Headers :
      LET ag == host.agents[a]
          base == DetectProxyUrl(ag, headers)
          hook == BuildWebhookUrl(ag, base)
      IN  base = <<>> /\ ServedAtItsRoute(a) /\ ag.webhook = None =>
            /\ Answer(host.server, "POST", hook) = [agent |-> a, handler |-> "swaig"]
            /\ ag.postPrompt = None =>
                 Answer(host.server, "POST", PostPromptUrl(ag, hook))
                   = [agent |-> a, handler |-> "post_prompt"]
=============================================================================
