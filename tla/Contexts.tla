------------------------------- MODULE Contexts -------------------------------
(***************************************************************************)
(* ContextBuilder: contexts, their steps and the order of the steps, and   *)
(* validate(). Maps and order lists are kept in step by hand; names in     *)
(* initial_step and in a gather's completion_action are plain strings that *)
(* later calls may leave dangling.                                         *)
(*                                                                         *)
(* Texts, sections, fillers, reset parameters and the other plain fields   *)
(* are the set of the fields that have been set.                           *)
(***************************************************************************)
EXTENDS Lists

CONSTANTS
  ContextNames, StepNames,
  Fields,         \* the plain fields of a step: what its JSON shows when set
  Actions,        \* completion actions: "", "next_step" or the name of a step
  ToolNames,      \* names the agent may give its functions
  MaxContexts,    \* MAX_CONTEXTS
  MaxSteps,       \* MAX_STEPS_PER_CONTEXT
  MaxListed,      \* bound: names in all order lists, repetitions included
  None

VARIABLE builder  \* ContextBuilder: contexts_ and context_order_

Reserved == {"next_step", "change_context", "gather_submit"}

\* A function with x added, or replaced, at key.
Put(f, key, x) == [k \in DOMAIN f \cup {key} |-> IF k = key THEN x ELSE f[k]]

NewStep == [set |-> {}, gather |-> None]
NewContext == [steps |-> <<>>, order |-> <<>>, initial |-> None]
NewBuilder == [contexts |-> <<>>, order |-> <<>>]

(***************************************************************************)
(* Faults for the properties to notice; no part of the specification.      *)
(***************************************************************************)
RemoveStepOfMapOnly(c, s) ==
  [c EXCEPT !.steps = [t \in DOMAIN @ \ {s} |-> @[t]]]

GatherEndsAnywhere(c, i) ==
  LET g == c.steps[c.order[i]].gather
  IN  \/ g = None
      \/ g.action \in {"", "next_step"}
      \/ g.action \in DOMAIN c.steps

(***************************************************************************)
(* Step and Context.                                                       *)
(***************************************************************************)
SetField(step, f) == [step EXCEPT !.set = @ \cup {f}]

\* clear_sections: the text and the sections, nothing else.
ClearSections(step) == [step EXCEPT !.set = @ \ {"text", "pom"}]

SetGatherInfo(step, action) ==
  [step EXCEPT !.gather = [action |-> action, asks |-> FALSE]]

\* Without set_gather_info, no effect.
AddGatherQuestion(step) ==
  IF step.gather = None THEN step ELSE [step EXCEPT !.gather.asks = TRUE]

MayAddStep(c) == Cardinality(DOMAIN c.steps) < MaxSteps

\* A step of that name is replaced, and the name is listed once more.
AddStep(c, s) ==
  [c EXCEPT !.steps = Put(@, s, NewStep), !.order = Append(@, s)]

RemoveStep(c, s) ==
  [c EXCEPT !.steps = [t \in DOMAIN @ \ {s} |-> @[t]],
            !.order = Only(@, ToSet(@) \ {s})]

\* The first mention of s goes to position, or to the end if there is no such
\* position once it is taken out.
MoveStep(c, s, position) ==
  IF ~Contains(c.order, s) THEN c
  ELSE LET rest == RemoveFirst(c.order, s)
       IN  [c EXCEPT !.order =
              IF position \in 0..(Len(rest) - 1) THEN InsertAt(rest, position + 1, s)
              ELSE Append(rest, s)]

StepJson(step, name) ==
  [name |-> name, set |-> step.set,
   gather |-> IF step.gather # None /\ step.gather.asks THEN step.gather.action ELSE None]

\* Context::to_json: the steps in their order.
ContextJson(c) ==
  LET listed == Only(c.order, DOMAIN c.steps)
  IN  [steps |-> [i \in DOMAIN listed |-> StepJson(c.steps[listed[i]], listed[i])],
       initial |-> c.initial]

(***************************************************************************)
(* ContextBuilder.                                                         *)
(***************************************************************************)
\* An existing context stays; its name is listed once more.
AddContext(b, c) ==
  [b EXCEPT !.contexts = IF c \in DOMAIN @ THEN @ ELSE Put(@, c, NewContext),
            !.order = Append(@, c)]

BuilderJson(b) ==
  [c \in ToSet(b.order) \cap DOMAIN b.contexts |-> ContextJson(b.contexts[c])]

\* The position of a step that follows its gather has a step to go to.
GatherResolves(c, i) ==
  LET g == c.steps[c.order[i]].gather
  IN  \/ g = None
      \/ g.action = ""
      \/ g.action = "next_step" /\ i < Len(c.order)
      \/ g.action # "next_step" /\ g.action \in DOMAIN c.steps

\* validate() does not throw; tools: what the supplier of tool names returns.
Validates(b, tools) ==
  /\ DOMAIN b.contexts # {}
  /\ Cardinality(DOMAIN b.contexts) = 1 => DOMAIN b.contexts = {"default"}
  /\ \A n \in DOMAIN b.contexts :
       LET c == b.contexts[n]
       IN  /\ DOMAIN c.steps # {}
           /\ c.initial = None \/ c.initial \in DOMAIN c.steps
           /\ \A i \in DOMAIN c.order : c.order[i] \in DOMAIN c.steps => GatherResolves(c, i)
  /\ tools \cap Reserved = {}

-----------------------------------------------------------------------------
Init == builder = NewBuilder

Listed == FoldFunction(+, Len(builder.order),
                       [n \in DOMAIN builder.contexts |-> Len(builder.contexts[n].order)])

DefineContext(n) ==
  /\ Cardinality(DOMAIN builder.contexts) < MaxContexts
  /\ Listed < MaxListed
  /\ builder' = AddContext(builder, n)

Reset == builder' = NewBuilder

\* get_context, then a method of the context found.
OnContext(n, c) == builder' = [builder EXCEPT !.contexts[n] = c]

DefineStep(n, s) ==
  LET c == builder.contexts[n]
  IN  MayAddStep(c) /\ Listed < MaxListed /\ OnContext(n, AddStep(c, s))

DropStep(n, s) == OnContext(n, RemoveStep(builder.contexts[n], s))

ReorderStep(n, s, position) ==
  OnContext(n, MoveStep(builder.contexts[n], s, position))

SetInitialStep(n, s) == OnContext(n, [builder.contexts[n] EXCEPT !.initial = s])

\* get_step, then a method of the step found.
OnStep(n, s) ==
  LET step == builder.contexts[n].steps[s]
      Becomes(t) == OnContext(n, [builder.contexts[n] EXCEPT !.steps[s] = t])
  IN  \/ \E f \in Fields : Becomes(SetField(step, f))
      \/ Becomes(ClearSections(step))
      \/ \E a \in Actions : Becomes(SetGatherInfo(step, a))
      \/ Becomes(AddGatherQuestion(step))

Next ==
  \/ \E n \in ContextNames : DefineContext(n)
  \/ Reset
  \/ \E n \in DOMAIN builder.contexts, s \in StepNames :
       \/ DefineStep(n, s)
       \/ DropStep(n, s)
       \/ \E p \in -1..MaxListed : ReorderStep(n, s, p)
       \/ SetInitialStep(n, s)
  \/ \E n \in DOMAIN builder.contexts :
       \E s \in DOMAIN builder.contexts[n].steps : OnStep(n, s)

Spec == Init /\ [][Next]_builder
-----------------------------------------------------------------------------
Steps == [set : SUBSET Fields, gather : [action : Actions, asks : BOOLEAN] \cup {None}]
Partial(S, T) == UNION {[D -> T] : D \in SUBSET S}

\* The types of the builder; a name is listed once for each call that added it.
TypeOK ==
  /\ builder.order \in Seq(ContextNames)
  /\ DOMAIN builder.contexts = ToSet(builder.order)
  /\ \A n \in DOMAIN builder.contexts :
       /\ builder.contexts[n].steps \in Partial(StepNames, Steps)
       /\ builder.contexts[n].order \in Seq(StepNames)
       /\ builder.contexts[n].initial \in StepNames \cup {None}

\* In every context of a document, the place a flow starts at and the places its
\* gathers lead to are steps the document lists.
Navigable(document) ==
  \A n \in DOMAIN document :
    LET steps == document[n].steps
        names == {steps[i].name : i \in DOMAIN steps}
    IN  /\ steps # <<>>
        /\ document[n].initial \in names \cup {None}
        /\ \A i \in DOMAIN steps :
             \/ steps[i].gather \in names \cup {None, ""}
             \/ steps[i].gather = "next_step" /\ i + 1 \in DOMAIN steps

\* What validate() accepts can be walked: it looks at the maps and the order
\* lists, the document is made of what both agree on, and any sequence of adding,
\* repeating, removing and moving steps lies between the two.
ValidFlowNavigates ==
  \A tools \in SUBSET ToolNames :
    Validates(builder, tools) =>
      /\ Navigable(BuilderJson(builder))
      /\ DOMAIN BuilderJson(builder) # {}
      /\ tools \cap Reserved = {}

\* Targets are checked when a document is built, the guide says; but nothing calls
\* validate(), and to_json renders what the builder holds.
RenderedTargetsExist == Navigable(BuilderJson(builder))
=============================================================================
