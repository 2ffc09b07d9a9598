--------------------------------- MODULE MCSdk ---------------------------------
(***************************************************************************)
(* An instance of Sdk for TLC, with one more part: the prompt object model, *)
(* which has its variable in state as the others do.                        *)
(***************************************************************************)
EXTENDS Sdk, MCAgent

\* Hosting: agents at every kind of route.
MCRoutes == {<<>>, <<"/">>, <<"a">>, <<"/", "a", "/">>, <<"/", "a", "/", "swaig">>}
MCOrder == <<<<>>, <<"/">>, <<"/", "a">>, <<"/", "a", "/">>, <<"/", "a", "/", "swaig">>>>
MCBases == {<<>>, <<"/">>}

\* FunctionResult: timeouts on both sides of what hold() clamps.
MCTimeouts == {-1, 901}

\* Webhook: URLs with the standard port, another and none, with a query out of order;
\* bodies of JSON, and forms with a name that is repeated.
MCParameterNames == <<"From", "To", "bodySHA256">>
Pair(name, value) == [name |-> name, value |-> value]
Url(scheme, port, query) ==
  [scheme |-> scheme, host |-> "agent", port |-> port, query |-> query]
MCUrls ==
  {Url("https", "", <<>>), Url("https", "443", <<Pair("From", "a")>>),
   Url("https", "8443", <<Pair("To", "b"), Pair("From", "a")>>), Url("http", "", <<>>)}
Body(id, items) == [id |-> id, form |-> items # <<>>, items |-> items]
MCBodies ==
  {Body("json1", <<>>), Body("json2", <<>>),
   Body("form1", <<Pair("To", "b"), Pair("From", "a"), Pair("To", "a")>>),
   Body("form2", <<Pair("To", "a"), Pair("From", "a"), Pair("To", "b")>>)}
Origin(scheme, host, port) == [scheme |-> scheme, host |-> host, port |-> port]
MCOptions == [base : {None, Origin("https", "agent", "8443")},
              env : {None, Origin("http", "agent", "")}, trustProxy : BOOLEAN]

\* Pages: three of them.
MCListing == <<<<"a", "b">>, <<"c">>, <<"d", "e">>>>
-------------------------------------------------------------------------------
\* Five sections: untitled, numbered and not, with texts that YAML must quote.
Section(title, body, bullets, number, numberBullets) ==
  [title |-> title, body |-> body, bullets |-> bullets, subsections |-> <<>>,
   numbered |-> number, numberedBullets |-> numberBullets]
Sections ==
  {Section(None, "text", <<>>, None, FALSE),
   Section("a", "", <<"text", "true">>, TRUE, TRUE),
   Section("b", "x # y", <<>>, None, FALSE),
   Section("b", "true", <<>>, FALSE, FALSE),
   Section("a", "", <<>>, None, FALSE)}
Prompts == INSTANCE Pom WITH
  pom <- state, NewSections <- Sections, Reserved <- {"true"}, Commented <- {"x # y"},
  MaxSections <- 4

MCInit == SdkInit \/ (Init /\ part = "pom" /\ Prompts!Init)

MCNext == \/ SdkNext
          \/ part = "pom" /\ Prompts!Next /\ UNCHANGED <<part, vars>>

MCSpec == MCInit /\ [][MCNext]_<<vars, part, state>>

\* Nothing tells one call, or one agent of Hosting, from another.
MCSymmetry == Symmetry \cup Permutations(Hosted)
-------------------------------------------------------------------------------
(* The properties of the prompt object model, stated and explained in Pom. *)

\* The two renderers show the same headings and numbers.
RenderersAgree == part = "pom" => Prompts!RenderersAgree
\* JSON and YAML are read as what was written.
RoundTrips == part = "pom" => Prompts!RoundTrips
===============================================================================
