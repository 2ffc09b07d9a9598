---------------------------------- MODULE Pom ----------------------------------
(***************************************************************************)
(* The prompt object model: a tree of sections, its two renderers, and its *)
(* JSON and YAML forms with their readers.                                 *)
(*                                                                         *)
(* A rendering is the headings it shows: the title of each section and the *)
(* number before it. A line of YAML is its indentation, its dash, its key  *)
(* and its scalar.                                                         *)
(***************************************************************************)
EXTENDS Integers, Sequences, SequencesExt

CONSTANTS
  NewSections,    \* the sections an application adds, as arguments of one call
  Reserved,       \* texts that read as a boolean or a number without quotes
  Commented,      \* texts with a " #" in them
  MaxSections,    \* bound: sections in the tree
  None

VARIABLE pom      \* PromptObjectModel::sections

(***************************************************************************)
(* The tree.                                                               *)
(***************************************************************************)
RECURSIVE Preorder(_)
Preorder(sections) ==
  FlattenSeq([i \in DOMAIN sections |->
                <<sections[i]>> \o Preorder(sections[i].subsections)])

RECURSIVE FindSection(_, _)
FindSection(sections, title) ==
  IF sections = <<>> THEN None
  ELSE LET s == Head(sections)
           below == FindSection(s.subsections, title)
       IN  IF s.title = title THEN s
           ELSE IF below # None THEN below
           ELSE FindSection(Tail(sections), title)

\* What find_section points at is appended to.
RECURSIVE Extend(_, _, _)
Extend(sections, title, more) ==
  IF FindSection(sections, title) = None THEN sections
  ELSE LET s == Head(sections)
           rest == Tail(sections)
       IN  IF s.title = title
             THEN <<[s EXCEPT !.subsections = @ \o more]>> \o rest
           ELSE IF FindSection(s.subsections, title) # None
             THEN <<[s EXCEPT !.subsections = Extend(@, title, more)]>> \o rest
           ELSE <<s>> \o Extend(rest, title, more)

(***************************************************************************)
(* Rendering.                                                              *)
(***************************************************************************)
AnyNumbered(sections) == \E i \in DOMAIN sections : sections[i].numbered = TRUE

\* The number of the i-th subsection of s, which has the number given.
SubNumberOfAll(s, number, i) ==
  IF (s.title # None \/ number # <<>>) /\ AnyNumbered(s.subsections)
    THEN Append(number, i) ELSE number

SubNumber(s, number, i) ==
  IF /\ s.title # None \/ number # <<>>
     /\ AnyNumbered(s.subsections)
     /\ s.subsections[i].numbered # FALSE
    THEN Append(number, i) ELSE number

Heading(s, number) ==
  IF s.title = None THEN <<>> ELSE <<[title |-> s.title, number |-> number]>>

RECURSIVE SectionMarkdown(_, _)
SectionMarkdown(s, number) ==
  Heading(s, number) \o
    FlattenSeq([i \in DOMAIN s.subsections |->
                  SectionMarkdown(s.subsections[i], SubNumber(s, number, i))])

\* render_xml numbers the subsections by code of its own.
XmlSubNumber(s, number, i) ==
  IF /\ s.title # None \/ number # <<>>
     /\ AnyNumbered(s.subsections)
     /\ s.subsections[i].numbered # FALSE
    THEN Append(number, i) ELSE number

RECURSIVE SectionXml(_, _)
SectionXml(s, number) ==
  Heading(s, number) \o
    FlattenSeq([i \in DOMAIN s.subsections |->
                  SectionXml(s.subsections[i], XmlSubNumber(s, number, i))])

\* Sections without a title are not counted.
TopNumber(sections, i) ==
  IF sections[i].title # None /\ AnyNumbered(sections) /\ sections[i].numbered # FALSE
    THEN <<Len(SelectSeq(SubSeq(sections, 1, i), LAMBDA s : s.title # None))>>
    ELSE <<>>

RenderMarkdown(sections) ==
  FlattenSeq([i \in DOMAIN sections |->
                SectionMarkdown(sections[i], TopNumber(sections, i))])

RenderXml(sections) ==
  FlattenSeq([i \in DOMAIN sections |-> SectionXml(sections[i], TopNumber(sections, i))])

(***************************************************************************)
(* JSON: a value is tagged by its type, an object is its entries in order. *)
(***************************************************************************)
Entry(key, value, present) == IF present THEN <<[key |-> key, value |-> value]>> ELSE <<>>
Strings(texts) == [i \in DOMAIN texts |-> [string |-> texts[i]]]
Texts(strings) == [i \in DOMAIN strings |-> strings[i].string]
Is(v, type) == type \in DOMAIN v

RECURSIVE SectionJson(_)
SectionJson(s) ==
  [object |->
     Entry("title", [string |-> s.title], s.title # None)
     \o Entry("body", [string |-> s.body], s.body # "")
     \o Entry("bullets", [array |-> Strings(s.bullets)], s.bullets # <<>>)
     \o Entry("subsections",
              [array |-> [i \in DOMAIN s.subsections |-> SectionJson(s.subsections[i])]],
              s.subsections # <<>>)
     \o Entry("numbered", [bool |-> TRUE], s.numbered = TRUE)
     \o Entry("numberedBullets", [bool |-> TRUE], s.numberedBullets)]

ToJson(sections) == [array |-> [i \in DOMAIN sections |-> SectionJson(sections[i])]]

Keys(d) == {d.object[i].key : i \in DOMAIN d.object}
At(d, key) == d.object[CHOOSE i \in DOMAIN d.object : d.object[i].key = key].value
Items(d, key) == IF key \in Keys(d) THEN At(d, key).array ELSE <<>>

RECURSIVE Accepts(_, _)
\* build_section does not throw.
Accepts(d, isSubsection) ==
  /\ {"body", "bullets", "subsections"} \cap Keys(d) # {}
  /\ isSubsection => "title" \in Keys(d)
  /\ \A key \in {"title", "body"} \cap Keys(d) : Is(At(d, key), "string")
  /\ \A bullet \in ToSet(Items(d, "bullets")) : Is(bullet, "string")
  /\ \A sub \in ToSet(Items(d, "subsections")) : Accepts(sub, TRUE)

RECURSIVE BuildSection(_)
BuildSection(d) ==
  [title |-> IF "title" \in Keys(d) THEN At(d, "title").string ELSE None,
   body |-> IF "body" \in Keys(d) THEN At(d, "body").string ELSE "",
   bullets |-> Texts(Items(d, "bullets")),
   subsections |-> [i \in DOMAIN Items(d, "subsections") |->
                      BuildSection(Items(d, "subsections")[i])],
   numbered |-> IF "numbered" \in Keys(d) THEN At(d, "numbered").bool ELSE None,
   numberedBullets |-> "numberedBullets" \in Keys(d) /\ At(d, "numberedBullets").bool]

\* An untitled section after the first is given a title. None: from_json throws.
FromJson(data) ==
  LET Titled(i) == IF i > 1 /\ "title" \notin Keys(data.array[i])
                     THEN [object |-> Entry("title", [string |-> "Untitled Section"], TRUE)
                                        \o data.array[i].object]
                     ELSE data.array[i]
  IN  IF \A i \in DOMAIN data.array : Accepts(Titled(i), FALSE)
        THEN [i \in DOMAIN data.array |-> BuildSection(Titled(i))]
        ELSE None

(***************************************************************************)
(* YAML. Only a string that would read as something else is quoted.        *)
(***************************************************************************)
NeverQuotes(text) == FALSE
NeedsQuoting(text) == text \in Reserved

\* What the line of a plain text is read as: a boolean, or its part before " #".
ParseScalar(x) ==
  IF Is(x.value, "bool") \/ x.quoted THEN x.value
  ELSE IF x.value.string \in Reserved THEN [bool |-> TRUE]
  ELSE IF x.value.string \in Commented THEN [string |-> "cut"]
  ELSE x.value

Scalar(v) == [value |-> v, quoted |-> Is(v, "string") /\ NeedsQuoting(v.string)]
IsScalar(v) == Is(v, "bool") \/ Is(v, "string")

RECURSIVE EmitMapping(_, _), EmitSequence(_, _)
\* An item of a sequence: its first key follows the dash, and a sequence stands
\* at the column of its key.
EmitMapping(entries, indent) ==
  FlattenSeq([i \in DOMAIN entries |->
    LET v == entries[i].value
        Line(x) == [indent |-> IF i = 1 THEN indent - 1 ELSE indent, dash |-> i = 1,
                    key |-> entries[i].key, scalar |-> x]
    IN  IF IsScalar(v) THEN <<Line(Scalar(v))>>
        ELSE <<Line(None)>> \o EmitSequence(v.array, indent)])

EmitSequence(items, indent) ==
  FlattenSeq([i \in DOMAIN items |->
    IF IsScalar(items[i])
      THEN <<[indent |-> indent, dash |-> TRUE, key |-> None, scalar |-> Scalar(items[i])]>>
      ELSE EmitMapping(items[i].object, indent + 1)])

\* The readers return what they have read and the lines that are left.
RECURSIVE ParseSequence(_, _, _), ParseEntries(_, _, _)
\* The keys of an item: the one after its dash and those at that column below.
ParseEntries(lines, column, entries) ==
  LET line == Head(lines)
      list == ParseSequence(Tail(lines), column, <<>>)
      isList == line.scalar = None
      read == Append(entries, [key |-> line.key,
                               value |-> IF isList THEN [array |-> list[1]]
                                         ELSE ParseScalar(line.scalar)])
      left == IF isList THEN list[2] ELSE Tail(lines)
  IN  IF left # <<>> /\ Head(left).indent = column /\ ~Head(left).dash
        THEN ParseEntries(left, column, read)
        ELSE <<read, left>>

ParseSequence(lines, indent, items) ==
  IF lines = <<>> \/ Head(lines).indent < indent \/ ~Head(lines).dash THEN <<items, lines>>
  ELSE IF Head(lines).key = None
    THEN ParseSequence(Tail(lines), indent, Append(items, ParseScalar(Head(lines).scalar)))
  ELSE LET item == ParseEntries(lines, indent + 1, <<>>)
       IN  ParseSequence(item[2], indent, Append(items, [object |-> item[1]]))

ToYaml(sections) == EmitSequence(ToJson(sections).array, 0)
YamlParse(lines) == [array |-> ParseSequence(lines, 0, <<>>)[1]]
FromYaml(lines) == FromJson(YamlParse(lines))
-----------------------------------------------------------------------------
Init == pom = <<>>

Bounded == Len(Preorder(pom)) < MaxSections

\* It throws for a section without a title that is not the first.
AddSection ==
  \E s \in NewSections :
    /\ Bounded
    /\ s.title # None \/ pom = <<>>
    /\ pom' = Append(pom, s)

AddSubsection ==
  \E s \in NewSections, parent \in ToSet(Preorder(pom)) :
    /\ Bounded
    /\ s.title # None
    /\ parent.title # None
    /\ pom' = Extend(pom, parent.title, <<s>>)

\* The sections of another model, which may have no title.
AddPomAsSubsection ==
  \E s, t \in NewSections, parent \in ToSet(Preorder(pom)) :
    /\ Len(Preorder(pom)) + 1 < MaxSections
    /\ parent.title # None /\ t.title # None
    /\ pom' = Extend(pom, parent.title, <<s, t>>)

Next == AddSection \/ AddSubsection \/ AddPomAsSubsection
Spec == Init /\ [][Next]_pom
-----------------------------------------------------------------------------
\* Both renderers number the sections by code of their own: they show the same
\* headings with the same numbers, one heading for each titled section.
RenderersAgree ==
  /\ RenderMarkdown(pom) = RenderXml(pom)
  /\ Len(RenderXml(pom)) = Len(SelectSeq(Preorder(pom), LAMBDA s : s.title # None))

RECURSIVE Forget(_)
\* What no JSON form keeps: that a section has opted out of numbering.
Forget(s) ==
  [s EXCEPT !.numbered = IF @ = FALSE THEN None ELSE @,
            !.subsections = [i \in DOMAIN @ |-> Forget(@[i])]]

TextsOf(s) == {s.title, s.body} \cup ToSet(s.bullets)

\* Whatever tree has been built: what from_json reads from its JSON is the tree,
\* unless it throws, which it does just for an empty or an untitled subsection;
\* and its YAML is read as its JSON is, unless a text has a " #" in it.
RoundTrips ==
  LET read == FromJson(ToJson(pom))
      all == ToSet(Preorder(pom))
  IN  /\ read = IF /\ \A s \in all : s.body # "" \/ s.bullets # <<>> \/ s.subsections # <<>>
                   /\ \A s \in all : \A t \in ToSet(s.subsections) : t.title # None
                  THEN [i \in DOMAIN pom |-> Forget(pom[i])]
                  ELSE None
      /\ (\A s \in all : TextsOf(s) \cap Commented = {}) => FromYaml(ToYaml(pom)) = read

\* yaml_parse is the inverse of yaml_dump, its comment says.
YamlIsInverse == YamlParse(ToYaml(pom)) = ToJson(pom)
=============================================================================
