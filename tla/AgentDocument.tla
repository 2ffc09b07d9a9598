----------------------------- MODULE AgentDocument -----------------------------
(***************************************************************************)
(* What an application configures of an agent and the SWML document it is  *)
(* rendered to, directly or, when a dynamic configuration callback is set, *)
(* from a copy that a hand-written constructor makes for the request.      *)
(*                                                                         *)
(* The functions of the document are in Agent, its URLs in Hosting.        *)
(***************************************************************************)
EXTENDS Naturals, Sequences, SequencesExt

CONSTANTS
  Titles,         \* titles of prompt sections; "" is the title that is empty
  Appended,       \* settings that only grow: hints, MCP servers, parameters, ...
  Replaced,       \* settings a call replaces, by nothing perhaps: languages, ...
  Keys,           \* keys of the LLM parameters of a prompt; "text" may be one
  Verbs,          \* verbs an application adds
  MaxCalls,       \* bound: configuration calls
  None

VARIABLE conf     \* AgentBase: the members a document depends on

Settings == Appended \cup Replaced
Phases == {"pre_answer", "answer", "post_answer", "post_ai"}

NewAgent ==
  [raw |-> FALSE, usePom |-> TRUE, sections |-> <<>>,
   llm |-> {}, postPrompt |-> FALSE, postLlm |-> {},
   settings |-> [s \in Settings |-> <<>>],
   verbs |-> [p \in Phases |-> <<>>],
   contexts |-> None,
   dynamic |-> FALSE, calls |-> 0]

(***************************************************************************)
(* Copies. A fault for the properties to notice, and the constructor.      *)
(***************************************************************************)
CopyWithoutAnswer(c) ==
  [c EXCEPT !.verbs["answer"] = <<>>, !.dynamic = FALSE]

\* AgentBase::AgentBase(const AgentBase&): what is not assigned is as in a new agent.
Copy(c) ==
  [NewAgent EXCEPT
     !.raw = c.raw, !.postPrompt = c.postPrompt,
     !.sections = c.sections, !.usePom = c.usePom,
     !.settings = c.settings,
     !.llm = c.llm, !.postLlm = c.postLlm,
     !.verbs["pre_answer"] = c.verbs["pre_answer"],
     !.verbs["answer"] = c.verbs["answer"],
     !.verbs["post_answer"] = c.verbs["post_answer"],
     !.verbs["post_ai"] = c.verbs["post_ai"],
     !.contexts = c.contexts]

(***************************************************************************)
(* The prompt.                                                             *)
(***************************************************************************)
NewSection(title) == [title |-> title, subsections |-> <<>>, added |-> 0]

Titled(c, title) == {i \in DOMAIN c.sections : c.sections[i].title = title}
FirstTitled(c, title) == CHOOSE i \in Titled(c, title) : \A j \in Titled(c, title) : i <= j

PromptAddSection(c, title) == [c EXCEPT !.sections = Append(@, NewSection(title))]

\* Lost when there is no section of that title.
PromptAddSubsection(c, parent, title) ==
  IF Titled(c, parent) = {} THEN c
  ELSE [c EXCEPT !.sections[FirstTitled(c, parent)].subsections = Append(@, title)]

PromptAddToSection(c, title) ==
  IF Titled(c, title) = {} THEN PromptAddSection(c, title)
  ELSE [c EXCEPT !.sections[FirstTitled(c, title)].added = @ + 1]

SetPromptPom(c, titles) ==
  [c EXCEPT !.usePom = TRUE,
            !.sections = [i \in DOMAIN titles |-> NewSection(titles[i])]]

\* get_prompt: the raw text whenever there is one.
GetPrompt(c) == IF c.raw THEN [text |-> "text"] ELSE [pom |-> c.sections]

\* A parameter stands in for the text or the sections if it has their name.
BuildPrompt(c) ==
  LET shown == IF c.usePom /\ c.sections # <<>> THEN [pom |-> c.sections]
               ELSE IF c.raw THEN [text |-> "text"] ELSE [text |-> ""]
      kept == DOMAIN shown \ c.llm
  IN  [prompt |-> [k \in kept |-> shown[k]], llm |-> c.llm]

(***************************************************************************)
(* The document.                                                           *)
(***************************************************************************)
BuildAiVerb(c) ==
  [verb |-> "ai",
   prompt |-> BuildPrompt(c),
   postPrompt |-> IF c.postPrompt THEN c.postLlm ELSE None,
   settings |-> [s \in {t \in Settings : c.settings[t] # <<>>} |-> c.settings[s]],
   contexts |-> IF c.contexts \in {None, <<>>} THEN None ELSE c.contexts]

\* render_swml_internal: five phases.
Render(c) ==
  c.verbs["pre_answer"]
    \o (IF c.verbs["answer"] = <<>> THEN <<"default answer">> ELSE c.verbs["answer"])
    \o c.verbs["post_answer"]
    \o <<BuildAiVerb(c)>>
    \o c.verbs["post_ai"]

\* What the callback does to its copy is up to the application: here, nothing.
RenderForRequest(c) == IF c.dynamic THEN Render(Copy(c)) ELSE Render(c)
-----------------------------------------------------------------------------
Init == conf = NewAgent

Becomes(c) == conf.calls < MaxCalls /\ conf' = [c EXCEPT !.calls = @ + 1]

ConfigurePrompt ==
  \/ Becomes([conf EXCEPT !.raw = TRUE])                       \* set_prompt_text
  \/ \E use \in BOOLEAN : Becomes([conf EXCEPT !.usePom = use])
  \/ \E t \in Titles : Becomes(PromptAddSection(conf, t))
  \/ \E t \in Titles : Becomes(PromptAddToSection(conf, t))
  \/ \E t, u \in Titles : Becomes(PromptAddSubsection(conf, t, u))
  \/ \E t \in Titles : Becomes(SetPromptPom(conf, <<t>>))
  \/ Becomes([conf EXCEPT !.postPrompt = TRUE])                \* set_post_prompt
  \/ \E keys \in SUBSET Keys : Becomes([conf EXCEPT !.llm = keys])
  \/ \E keys \in SUBSET Keys : Becomes([conf EXCEPT !.postLlm = keys])

ConfigureAi ==
  \/ \E s \in Appended : Becomes([conf EXCEPT !.settings[s] = Append(@, "more")])
  \/ \E s \in Replaced, value \in {<<>>, <<"new">>} :
       Becomes([conf EXCEPT !.settings[s] = value])

AddVerb ==
  \E p \in Phases, v \in Verbs : Becomes([conf EXCEPT !.verbs[p] = Append(@, v)])

ClearVerbs ==
  \E p \in Phases \ {"answer"} : Becomes([conf EXCEPT !.verbs[p] = <<>>])

DefineContexts == Becomes([conf EXCEPT !.contexts = IF @ = None THEN <<>> ELSE @])
AddContext ==
  Becomes([conf EXCEPT !.contexts = IF @ = None THEN <<"context">> ELSE Append(@, "context")])
ResetContexts == Becomes([conf EXCEPT !.contexts = IF @ = None THEN None ELSE <<>>])

SetDynamicConfigCallback == Becomes([conf EXCEPT !.dynamic = TRUE])

Next ==
  \/ ConfigurePrompt
  \/ ConfigureAi
  \/ AddVerb
  \/ ClearVerbs
  \/ DefineContexts \/ AddContext \/ ResetContexts
  \/ SetDynamicConfigCallback

Spec == Init /\ [][Next]_conf
-----------------------------------------------------------------------------
\* A callback that changes nothing changes nothing: the copy of an agent, made
\* member by member, renders the document the agent itself would render.
CopyRendersAlike == RenderForRequest(conf) = Render(conf)

\* get_prompt renders the sections when use_pom is on, the comment of
\* get_raw_prompt says, and so does the document; but it returns the raw text.
PromptIsRead == conf.usePom /\ conf.sections # <<>> => GetPrompt(conf) = [pom |-> conf.sections]
=============================================================================
