------------------------------- MODULE SdkProofs -------------------------------
(***************************************************************************)
(* Theorems about the parts of Sdk that are not the agent and not its       *)
(* contexts: copies of an agent, functions made with DataMap, iterators     *)
(* over pages, the validation of webhooks, and the tables of the servers.   *)
(***************************************************************************)
EXTENDS ContextsProofs, AgentProofs

(***************************************************************************)
(* Lists: one list after the other.                                        *)
(***************************************************************************)
\* The loop of FlattenSeq.
LEMMA FlattenLoop ==
  ASSUME NEW X, NEW s, s \in Seq(Seq(X)), Len(s) > 0
  PROVE  \E f \in [0..Len(s) -> Seq(X)] :
           /\ f[0] = <<>> /\ f[Len(s)] = FlattenSeq(s)
           /\ \A i \in 1..Len(s) : f[i] = f[i-1] \o s[i]
  <1>n. PICK n \in Nat : n = Len(s) /\ n > 0 /\ \A i \in 1..n : s[i] \in Seq(X)
    <2>1. Len(s) \in Nat /\ \A i \in 1..Len(s) : s[i] \in Seq(X)
      BY LenProperties, ElementOfSeq
    <2>2. QED
      BY <2>1
  <1>Q. PICK Q : Q = Seq(X)
    OBVIOUS
  <1>F. PICK F : F = [i \in 1..n |-> [q \in Q |-> q \o s[i]]]
    OBVIOUS
  <1>0. \A i \in 1..n, q \in Q : q \o s[i] \in Q
    BY <1>n, <1>Q, ConcatProperties
  <1>1. PICK f \in [0..n -> Q] : f[0] = <<>> /\ \A i \in 1..n : f[i] = F[i][f[i-1]]
    <2>1. F \in [1..n -> [Q -> Q]]
      BY <1>0, <1>F
    <2>2. <<>> \in Q
      BY <1>Q, EmptySeq
    <2>3. QED
      BY ONLY <2>1, <2>2, n \in Nat, LoopRuns, SMT
  <1>2. ASSUME NEW i \in 1..n PROVE f[i-1] \in Q /\ f[i] = f[i-1] \o s[i]
    <2>1. f[i-1] \in Q
      BY ONLY f \in [0..n -> Q], n \in Nat, i \in 1..n
    <2>2. F[i][f[i-1]] = f[i-1] \o s[i]
      BY <1>F, <2>1
    <2>3. QED
      BY <1>1, <2>1, <2>2, Zenon
  <1> DEFINE Body(k, i) == IF i = 1 THEN s[i] ELSE k[i-1] \o s[i]
             P(k) == k = [i \in 1..n |-> Body(k, i)]
             g == [i \in 1..n |-> f[i]]
             flatten[i \in 1..n] == IF i = 1 THEN s[i] ELSE flatten[i-1] \o s[i]
  <1>3. P(g)
    <2>1. ASSUME NEW i \in 1..n PROVE f[i] = Body(g, i)
      <3>1. CASE i = 1
        <4>1. i - 1 = 0
          BY <3>1
        <4>2. f[i] = f[0] \o s[i]
          BY <1>2, <4>1, Zenon
        <4>3. s[i] \in Seq(X)
          BY <1>n
        <4>4. f[i] = s[i]
          BY <1>1, <4>2, <4>3, ConcatEmptySeq
        <4>5. QED
          BY <3>1, <4>4
      <3>2. CASE i # 1
        <4>1. i - 1 \in 1..n
          BY <3>2
        <4>2. QED
          BY <1>2, <3>2, <4>1
      <3>3. QED
        BY <3>1, <3>2
    <2>2. QED
      BY <2>1, Zenon
  <1>4. flatten = CHOOSE k : P(k)
    OBVIOUS
  <1>5. FlattenSeq(s) = flatten[n]
    <2>1. n # 0
      BY <1>n
    <2>2. QED
      BY <1>n, <2>1, Zenon DEF FlattenSeq
  <1>6. ASSUME NEW k, P(k) PROVE \A i \in 1..n : k[i] = f[i]
    <2> DEFINE T == {i \in 0..n : i # 0 => k[i] = f[i]}
    <2>1. 0 \in T
      OBVIOUS
    <2>2. ASSUME NEW i \in 1..n, i - 1 \in T PROVE i \in T
      <3>1. k[i] = Body(k, i) /\ f[i] = Body(g, i)
        BY <1>3, <1>6, Zenon
      <3>2. i # 1 => i - 1 \in 1..n /\ k[i-1] = f[i-1] /\ g[i-1] = f[i-1]
        BY <2>2
      <3>3. Body(k, i) = Body(g, i)
        BY <3>2, Zenon
      <3>4. QED
        BY <3>1, <3>3
    <2>3. 0..n \subseteq T
      <3> HIDE DEF T
      <3>1. QED
        BY <2>1, <2>2, InductionTo
    <2>4. QED
      BY <2>3
  <1>7. P(flatten)
    <2> HIDE DEF flatten, P, g
    <2>1. QED
      BY <1>3, <1>4
  <1>8. flatten[n] = f[n]
    <2> HIDE DEF flatten, P, g
    <2>1. n \in 1..n
      BY <1>n
    <2>2. QED
      BY <1>6, <1>7, <2>1
  <1>9. QED
    <2> HIDE DEF flatten
    <2>1. QED
      BY <1>1, <1>2, <1>5, <1>8, <1>n, <1>Q
-------------------------------------------------------------------------------
(***************************************************************************)
(* Copies.                                                                 *)
(***************************************************************************)
\* The document is made of what a copy takes over, and of nothing else.
LEMMA CopyRendersTheSame ==
  ASSUME NEW c
  PROVE  Documents!Render(Documents!Copy(c)) = Documents!Render(c)
  <1>1. PICK d : d = Documents!Copy(c)
    OBVIOUS
  <1>2. /\ d.raw = c.raw /\ d.postPrompt = c.postPrompt /\ d.sections = c.sections
        /\ d.usePom = c.usePom /\ d.settings = c.settings /\ d.llm = c.llm
        /\ d.postLlm = c.postLlm /\ d.contexts = c.contexts
        /\ d.verbs["pre_answer"] = c.verbs["pre_answer"]
        /\ d.verbs["answer"] = c.verbs["answer"]
        /\ d.verbs["post_answer"] = c.verbs["post_answer"]
        /\ d.verbs["post_ai"] = c.verbs["post_ai"]
    BY <1>1 DEF Documents!Copy, Documents!NewAgent, Documents!Phases
  <1>3. Documents!BuildPrompt(d) = Documents!BuildPrompt(c)
    BY <1>2, Zenon DEF Documents!BuildPrompt
  <1>4. Documents!BuildAiVerb(d) = Documents!BuildAiVerb(c)
    BY <1>2, <1>3, Zenon DEF Documents!BuildAiVerb
  <1>5. QED
    BY <1>1, <1>2, <1>4, Zenon DEF Documents!Render

\* Whatever is set on an agent and in whatever order, its document for a request, which
\* a copy renders when there is a dynamic callback, is the one the agent itself renders.
THEOREM CopiesRenderAlike == SdkSpec => []CopyRendersAlike
  <1>1. CopyRendersAlike
    BY CopyRendersTheSame, Zenon DEF CopyRendersAlike, Documents!CopyRendersAlike,
       Documents!RenderForRequest
  <1>2. QED
    BY <1>1, PTL
-------------------------------------------------------------------------------
(***************************************************************************)
(* Pages. The items an iterator holds are those of the first pages; all of *)
(* them once it is done, unless an error has passed for an answer.         *)
(***************************************************************************)
Starts(s, t) == Len(s) <= Len(t) /\ \A i \in 1..Len(s) : s[i] = t[i]

LEMMA StartsIsPrefix ==
  ASSUME NEW S, NEW s, s \in Seq(S), NEW t, t \in Seq(S), Starts(s, t)
  PROVE  Iterators!IsPrefix(s, t)
  <1>1. PICK m, n : m \in Nat /\ n \in Nat /\ m = Len(s) /\ n = Len(t) /\ m <= n
    BY LenProperties DEF Starts
  <1>2. /\ \A i \in 1..m : s[i] \in S /\ s[i] = t[i]
        /\ \A i \in 1..m : t[i] \in S
    BY <1>1, ElementOfSeq DEF Starts
  <1>3. /\ SubSeq(s, 1, m) \in Seq(S) /\ Len(SubSeq(s, 1, m)) = m
        /\ \A i \in 1..m : SubSeq(s, 1, m)[i] = s[i]
    BY <1>1, <1>2
  <1>4. /\ SubSeq(t, 1, m) \in Seq(S) /\ Len(SubSeq(t, 1, m)) = m
        /\ \A i \in 1..m : SubSeq(t, 1, m)[i] = t[i]
    BY <1>1, <1>2
  <1>5. SubSeq(s, 1, m) = SubSeq(t, 1, m)
    <2>1. PICK u, v : u = SubSeq(s, 1, m) /\ v = SubSeq(t, 1, m)
      OBVIOUS
    <2>2. \A i \in 1..m : u[i] = v[i]
      BY <1>2, <1>3, <1>4, <2>1
    <2>3. QED
      BY <1>3, <1>4, <2>1, <2>2, SeqEqual
  <1>6. QED
    BY <1>1, <1>5 DEF Iterators!IsPrefix

\* The items of the first pages, by their number.
Running(f) ==
  /\ f \in [0..Len(Listing) -> Seq(Items)]
  /\ f[0] = <<>> /\ f[Len(Listing)] = FlattenSeq(Listing)
  /\ \A i \in 1..Len(Listing) : f[i] = f[i-1] \o Listing[i]
FirstPages == CHOOSE f : Running(f)

LEMMA FirstPagesRun == Running(FirstPages)
  <1>1. Len(Listing) \in Nat /\ Len(Listing) > 0
    BY ListingAssumption, EmptySeq
  <1>2. \E f : Running(f)
    <2>1. PICK I, s : I = Items /\ s = Listing
      OBVIOUS
    <2>2. s \in Seq(Seq(I)) /\ Len(s) > 0
      BY <1>1, <2>1, ListingAssumption
    <2>3. PICK f \in [0..Len(s) -> Seq(I)] :
            /\ f[0] = <<>> /\ f[Len(s)] = FlattenSeq(s)
            /\ \A i \in 1..Len(s) : f[i] = f[i-1] \o s[i]
      BY <2>2, FlattenLoop
    <2>4. Running(f)
      BY <2>1, <2>3, Zenon DEF Running
    <2>5. QED
      BY <2>4
  <1>3. QED
    BY <1>2, Zenon DEF FirstPages

LEMMA MorePages ==
  ASSUME NEW m \in 0..Len(Listing), NEW n \in m..Len(Listing)
  PROVE  Starts(FirstPages[m], FirstPages[n])
  <1>l. PICK l \in Nat : l = Len(Listing) /\ l > 0
    BY ListingAssumption, EmptySeq
  <1>f. PICK f : f = FirstPages
    OBVIOUS
  <1> DEFINE T == {i \in 0..l : m <= i => Starts(f[m], f[i])}
  <1>1. \A i \in 0..l : f[i] \in Seq(Items) /\ Len(f[i]) \in Nat
    BY <1>l, <1>f, FirstPagesRun, LenProperties DEF Running
  <1>2. 0 \in T
    <2>1. 0 \in 0..l /\ (m <= 0 => m = 0)
      BY <1>l
    <2>2. QED
      BY <1>1, <2>1 DEF Starts
  <1>3. ASSUME NEW i \in 1..l, i - 1 \in T PROVE i \in T
    <2>0. f[i] = f[i-1] \o Listing[i]
      BY <1>l, <1>f, FirstPagesRun DEF Running
    <2>1. f[i] = f[i-1] \o Listing[i] /\ Listing[i] \in Seq(Items)
      BY <1>l, <2>0, ListingAssumption, ElementOfSeq
    <2>2. Starts(f[i-1], f[i])
      <3>1. f[i-1] \in Seq(Items) /\ Len(Listing[i]) \in Nat
        BY <1>1, <2>1
      <3>2. PICK a, b : a = f[i-1] /\ b = Listing[i]
        OBVIOUS
      <3>3. Starts(a, a \o b)
        <4>1. PICK I : I = Items
          OBVIOUS
        <4>2. a \in Seq(I) /\ b \in Seq(I) /\ Len(a) \in Nat /\ Len(b) \in Nat
          BY <2>1, <3>1, <3>2, <4>1, LenProperties
        <4>3. /\ Len(a \o b) = Len(a) + Len(b)
              /\ \A k \in 1..(Len(a) + Len(b)) :
                   (a \o b)[k] = IF k <= Len(a) THEN a[k] ELSE b[k - Len(a)]
          BY <4>2, ConcatProperties
        <4>4. QED
          BY <4>2, <4>3 DEF Starts
      <3>4. QED
        BY <2>1, <3>2, <3>3
    <2>3. CASE m <= i - 1
      <3>1. Starts(f[m], f[i-1]) /\ i - 1 \in 0..l /\ m \in 0..l
        BY <1>3, <1>l, <2>3
      <3>2. PICK a, b, c : a = f[m] /\ b = f[i-1] /\ c = f[i]
        OBVIOUS
      <3>3. Len(a) \in Nat /\ Len(b) \in Nat /\ Len(c) \in Nat
        BY <1>1, <3>1, <3>2
      <3>4. Starts(a, c)
        BY <2>2, <3>1, <3>2, <3>3 DEF Starts
      <3>5. QED
        BY <3>2, <3>4
    <2>4. CASE m = i
      BY <1>1, <2>4 DEF Starts
    <2>5. QED
      BY <2>3, <2>4, <1>l
  <1>4. 0..l \subseteq T
    <2> HIDE DEF T
    <2>1. QED
      BY <1>2, <1>3, InductionTo
  <1>5. QED
    BY <1>4, <1>l, <1>f

PagesType ==
  state \in [params : 1..Len(Listing), items : Seq(Items), index : Nat, done : BOOLEAN,
             calling : {"none", "has_next", "next"}, given : Seq(Items), over : BOOLEAN,
             misled : BOOLEAN]
PagesInv ==
  /\ PagesType
  /\ state.items =
       FirstPages[IF state.done /\ ~state.misled THEN Len(Listing) ELSE state.params - 1]
  /\ Len(state.given) = state.index /\ state.index <= Len(state.items)
  /\ \A i \in 1..state.index : state.given[i] = state.items[i]
  /\ state.misled => state.done
  /\ state.over => state.done /\ state.index = Len(state.items)

LEMMA PagesInit == ASSUME Iterators!Init PROVE PagesInv
  <1>1. Len(Listing) \in Nat /\ Len(Listing) > 0
    BY ListingAssumption, EmptySeq
  <1>2. FirstPages[0] = <<>>
    BY FirstPagesRun DEF Running
  <1>3. QED
    BY <1>1, <1>2, EmptySeq DEF Iterators!Init, PagesInv, PagesType

LEMMA PagesStep == ASSUME PagesInv, Iterators!Next PROVE PagesInv'
  <1>l. PICK l \in Nat : l = Len(Listing) /\ l > 0
    BY ListingAssumption, EmptySeq
  <1>t. /\ Len(state.items) \in Nat
        /\ \A i \in 1..Len(state.items) : state.items[i] \in Items
    BY LenProperties, ElementOfSeq DEF PagesInv, PagesType
  <1>1. CASE Iterators!Call
    BY <1>1 DEF Iterators!Call, PagesInv, PagesType
  <1>2. CASE Iterators!HasNext
    BY <1>2 DEF Iterators!HasNext, Iterators!Returns, PagesInv, PagesType
  <1>3. CASE /\ Iterators!Returns("next") /\ state.index < Len(state.items)
             /\ state' = [state EXCEPT !.calling = "none", !.index = @ + 1,
                           !.given = Append(@, state.items[state.index + 1])]
    <2>1. PICK n, g, items : /\ n = state.index /\ g = state.given /\ items = state.items
      OBVIOUS
    <2>2. /\ n \in Nat /\ n + 1 \in 1..Len(items) /\ g \in Seq(Items) /\ Len(g) = n
          /\ items[n + 1] \in Items
      BY <1>3, <1>t, <2>1 DEF PagesInv, PagesType
    <2>3. /\ state'.params = state.params /\ state'.items = items
          /\ state'.index = n + 1 /\ state'.done = state.done /\ state'.calling = "none"
          /\ state'.given = Append(g, items[n + 1])
          /\ state'.over = state.over /\ state'.misled = state.misled
      BY <1>3, <2>1 DEF PagesInv, PagesType
    <2>4. PICK h : h = Append(g, items[n + 1])
      OBVIOUS
    <2>5. /\ h \in Seq(Items) /\ Len(h) = n + 1 /\ h[n + 1] = items[n + 1]
          /\ \A i \in 1..n : h[i] = g[i]
      BY <2>2, <2>4, AppendProperties
    <2>6. PagesType'
      <3>1. state'.given \in Seq(Items) /\ state'.index \in Nat
        BY <2>2, <2>3, <2>4, <2>5
      <3>2. QED
        BY <1>3, <2>3, <3>1 DEF PagesInv, PagesType
    <2>7. ASSUME NEW i \in 1..(n + 1) PROVE h[i] = items[i]
      <3>1. i \in 1..n \/ i = n + 1
        BY <2>2
      <3>2. \A j \in 1..n : g[j] = items[j]
        BY <2>1 DEF PagesInv
      <3>3. QED
        BY <2>5, <3>1, <3>2
    <2>8. state.over => FALSE
      BY <1>3, <1>t DEF PagesInv, PagesType
    <2>9. state'.items =
            FirstPages[IF state'.done /\ ~state'.misled THEN Len(Listing)
                       ELSE state'.params - 1]
      BY <2>1, <2>3 DEF PagesInv
    <2>10. state'.misled => state'.done
      BY <2>3 DEF PagesInv
    <2>11. /\ Len(state'.given) = state'.index /\ state'.index <= Len(state'.items)
           /\ \A i \in 1..state'.index : state'.given[i] = state'.items[i]
      BY <1>t, <2>1, <2>2, <2>3, <2>4, <2>5, <2>7
    <2>12. QED
      BY <2>3, <2>6, <2>8, <2>9, <2>10, <2>11 DEF PagesInv
  <1>4. CASE Iterators!Returns("next") /\ state.index = Len(state.items) /\ state.done
             /\ state' = [state EXCEPT !.calling = "none", !.over = TRUE]
    BY <1>4 DEF PagesInv, PagesType
  <1>5. CASE Iterators!FetchNext
    <2>1. PICK p, had, items : /\ p = state.params /\ had = Listing[p]
                               /\ items = state.items
      OBVIOUS
    <2>2. /\ p \in 1..l /\ items \in Seq(Items) /\ items = FirstPages[p - 1]
          /\ state.index = Len(items) /\ ~state.done /\ ~state.misled /\ ~state.over
      BY <1>5, <1>l, <2>1 DEF Iterators!FetchNext, Iterators!Needed, PagesInv, PagesType
    <2>3. had \in Seq(Items) /\ (had = <<>> => p = l)
      <3>1. had \in Seq(Items)
        BY <1>l, <2>1, <2>2, ListingAssumption, ElementOfSeq
      <3>2. p # l => p \in 1..(l - 1)
        BY <2>2
      <3>3. QED
        BY <1>l, <2>1, <3>1, <3>2, ListingAssumption
    <2>4. items \o had = FirstPages[p]
      BY <1>l, <2>1, <2>2, FirstPagesRun DEF Running
    <2>5. PICK more : more = items \o had
      OBVIOUS
    <2>6. /\ more \in Seq(Items) /\ Len(items) \in Nat /\ Len(more) \in Nat
          /\ Len(items) <= Len(more) /\ \A i \in 1..Len(items) : more[i] = items[i]
      <3>1. PICK I : I = Items
        OBVIOUS
      <3>2. Len(items) \in Nat /\ Len(had) \in Nat /\ items \in Seq(I) /\ had \in Seq(I)
        BY <2>2, <2>3, <3>1, LenProperties
      <3>3. /\ items \o had \in Seq(I)
            /\ Len(items \o had) = Len(items) + Len(had)
            /\ \A i \in 1..(Len(items) + Len(had)) :
                 (items \o had)[i] =
                         IF i <= Len(items) THEN items[i] ELSE had[i - Len(items)]
        BY <3>2, ConcatProperties
      <3>4. QED
        BY <2>5, <3>1, <3>2, <3>3
    <2>7. /\ state'.params = IF p < l THEN p + 1 ELSE p
          /\ state'.done = (p = l) /\ state'.items = more
          /\ state'.index = state.index /\ state'.calling = state.calling
          /\ state'.given = state.given /\ state'.over = FALSE /\ state'.misled = FALSE
      <3>1. state' = [state EXCEPT
              !.items = items \o had,
              !.params = IF had # <<>> /\ p < l THEN p + 1 ELSE p,
              !.done = (had = <<>> \/ p = l)]
        BY <1>5, <1>l, <2>1 DEF Iterators!FetchNext, Iterators!ItemsOf, Iterators!LinkOf
      <3>2. (had = <<>> \/ p = l) = (p = l) /\ (had # <<>> /\ p < l <=> p < l)
        BY <2>2, <2>3
      <3>3. QED
        BY <2>1, <2>2, <2>5, <3>1, <3>2 DEF PagesInv, PagesType
    <2>8. PagesType'
      <3>1. state'.params \in 1..l
        BY <1>l, <2>2, <2>7
      <3>2. DOMAIN state' = DOMAIN state
        BY <1>5 DEF Iterators!FetchNext
      <3>3. QED
        BY <1>5, <1>l, <2>6, <2>7, <3>1 DEF Iterators!FetchNext, PagesInv, PagesType
    <2>9. state'.items =
            FirstPages[IF state'.done /\ ~state'.misled THEN Len(Listing)
                       ELSE state'.params - 1]
      <3>1. CASE p = l
        BY <1>l, <2>4, <2>5, <2>7, <3>1
      <3>2. CASE p # l
        <4>1. ~state'.done
          BY <2>7, <3>2, Zenon
        <4>2. p < l /\ (p + 1) - 1 = p
          BY <2>2, <3>2
        <4>3. state'.params - 1 = p
          BY <2>7, <4>2
        <4>4. QED
          BY <2>4, <2>5, <2>7, <4>1, <4>3
      <3>3. QED
        BY <3>1, <3>2
    <2>10. /\ Len(state'.given) = state'.index /\ state'.index <= Len(state'.items)
           /\ \A i \in 1..state'.index : state'.given[i] = state'.items[i]
      <3>1. state.index \in Nat /\ Len(state.given) = state.index
              /\ \A i \in 1..state.index : state.given[i] = items[i]
        BY <2>1 DEF PagesInv, PagesType
      <3>2. QED
        BY <2>2, <2>6, <2>7, <3>1
    <2>11. QED
      BY <2>7, <2>8, <2>9, <2>10 DEF PagesInv
  <1>6. CASE Iterators!FetchThrows
    BY <1>6 DEF Iterators!FetchThrows, Iterators!Needed, PagesInv, PagesType
  <1>7. CASE Iterators!FetchReturnsNothing
    BY <1>7 DEF Iterators!FetchReturnsNothing, Iterators!Needed, PagesInv, PagesType
  <1>8. QED
    BY <1>1, <1>2, <1>3, <1>4, <1>5, <1>6, <1>7 DEF Iterators!Next, Iterators!NextItem

LEMMA PagesInOrder == ASSUME PagesInv PROVE Iterators!AllItemsInOrder
  <1>l. PICK l \in Nat : l = Len(Listing) /\ l > 0
    BY ListingAssumption, EmptySeq
  <1>1. PICK k \in 0..l : state.items = FirstPages[k]
                        /\ (state.done /\ ~state.misled => k = l)
    BY <1>l DEF PagesInv, PagesType
  <1>2. PICK all : all = FirstPages[l] /\ all \in Seq(Items) /\ Len(all) \in Nat
                /\ all = FlattenSeq(Listing)
    BY <1>l, FirstPagesRun, LenProperties DEF Running
  <1>3. PICK g, items : /\ g = state.given /\ items = state.items /\ g \in Seq(Items)
                        /\ items \in Seq(Items)
                        /\ Len(g) \in Nat /\ Len(items) \in Nat
    BY LenProperties DEF PagesInv, PagesType
  <1>4. Starts(g, items)
    BY <1>3 DEF PagesInv, PagesType, Starts
  <1>5. Starts(items, all)
    <2>1. k \in 0..Len(Listing) /\ l \in k..Len(Listing)
      BY <1>l
    <2>2. Starts(FirstPages[k], FirstPages[l])
      BY <2>1, MorePages
    <2>3. QED
      BY <1>1, <1>2, <1>3, <2>2
  <1>6. Starts(g, all)
    BY <1>2, <1>3, <1>4, <1>5 DEF Starts
  <1>7. Iterators!IsPrefix(g, all)
    <2>1. PICK I : I = Items
      OBVIOUS
    <2>2. QED
      BY <1>2, <1>3, <1>6, <2>1, StartsIsPrefix
  <1>8. ASSUME state.over, ~state.misled PROVE g = all
    <2>1. items = all /\ Len(g) = Len(items)
      BY <1>1, <1>2, <1>3, <1>8 DEF PagesInv
    <2>2. PICK I : I = Items
      OBVIOUS
    <2>3. QED
      BY <1>2, <1>3, <1>4, <2>1, <2>2, SeqEqual DEF Starts
  <1>9. Iterators!FlattenSeq(Listing) = all
    <2>1. Iterators!FlattenSeq(Listing) = FlattenSeq(Listing)
      BY Zenon DEF Iterators!FlattenSeq, FlattenSeq
    <2>2. QED
      BY <1>2, <2>1
  <1>10. QED
    BY <1>3, <1>7, <1>8, <1>9 DEF Iterators!AllItemsInOrder

LEMMA PagesInvariant == SdkSpec => [](part = "pages" => PagesInv)
  <1>1. SdkInit => (part = "pages" => PagesInv)
    BY PagesInit DEF SdkInit
  <1>2. ASSUME part = "pages" => PagesInv, [SdkNext]_<<vars, part, state>>
        PROVE  (part = "pages" => PagesInv)'
    <2>1. SUFFICES ASSUME part' = "pages" PROVE PagesInv'
      OBVIOUS
    <2>2. CASE UNCHANGED <<vars, part, state>>
      BY <1>2, <2>1, <2>2 DEF PagesInv, PagesType
    <2>3. CASE SdkNext
      <3>1. part = "pages"
        BY <2>1, <2>3 DEF SdkNext
      <3>2. Iterators!Next
        BY <2>3, <3>1 DEF SdkNext, OtherNext
      <3>3. QED
        BY <1>2, <3>1, <3>2, PagesStep
    <2>4. QED
      BY <1>2, <2>2, <2>3
  <1>3. QED
    BY <1>1, <1>2, PTL DEF SdkSpec

\* At every moment an iterator has given the first items of the listing, each once and in
\* the order of the pages, whatever fetch has thrown; one that has come to its end, and was
\* not misled on the way, has given them all.
THEOREM ItemsComeInOrder == SdkSpec => []AllItemsInOrder
  <1>1. (part = "pages" => PagesInv) => AllItemsInOrder
    BY PagesInOrder DEF AllItemsInOrder
  <1>2. QED
    BY <1>1, PagesInvariant, PTL
-------------------------------------------------------------------------------
(***************************************************************************)
(* DataMap. What holds of a function and the calls that made it, the calls *)
(* of the log given.                                                       *)
(***************************************************************************)
IsList(s) == \E S : s \in Seq(S)

LEMMA ListFacts ==
  ASSUME NEW s, IsList(s), NEW e
  PROVE  /\ Len(s) \in Nat /\ DOMAIN s = 1..Len(s)
         /\ IsList(Append(s, e)) /\ Len(Append(s, e)) = Len(s) + 1
         /\ DOMAIN Append(s, e) = 1..(Len(s) + 1)
         /\ \A i \in 1..Len(s) : Append(s, e)[i] = s[i]
         /\ Append(s, e)[Len(s) + 1] = e
  <1>1. PICK S : s \in Seq(S)
    BY DEF IsList
  <1>2. PICK T : T = S \cup {e}
    OBVIOUS
  <1>3. s \in Seq(T) /\ e \in T
    BY <1>1, <1>2, SeqMonotonic
  <1>4. /\ Append(s, e) \in Seq(T) /\ Len(Append(s, e)) = Len(s) + 1
        /\ \A i \in 1..Len(s) : Append(s, e)[i] = s[i]
        /\ Append(s, e)[Len(s) + 1] = e
    BY <1>3, AppendProperties
  <1>5. Len(s) \in Nat /\ DOMAIN s = 1..Len(s)
          /\ DOMAIN Append(s, e) = 1..(Len(s) + 1)
    BY <1>3, <1>4, LenProperties
  <1>6. QED
    BY <1>4, <1>5 DEF IsList

LEMMA ExceptList ==
  ASSUME NEW s, IsList(s), NEW k, k \in 1..Len(s), NEW e
  PROVE  IsList([s EXCEPT ![k] = e]) /\ Len([s EXCEPT ![k] = e]) = Len(s)
  <1>1. PICK S : s \in Seq(S)
    BY DEF IsList
  <1>2. PICK T : T = S \cup {e}
    OBVIOUS
  <1>3. s \in Seq(T) /\ e \in T
    BY <1>1, <1>2, SeqMonotonic
  <1>4. [s EXCEPT ![k] = e] \in Seq(T) /\ Len([s EXCEPT ![k] = e]) = Len(s)
    BY <1>3, ExceptSeq
  <1>5. QED
    BY <1>4 DEF IsList

LEMMA HasGreatest ==
  ASSUME NEW n \in Nat, NEW P, P \subseteq 1..n, P # {}
  PROVE  \E i \in P : \A j \in P : j <= i
  <1> DEFINE T == {k \in 0..n : P \cap (1..k) # {} =>
                     \E i \in P : i <= k /\ \A j \in P \cap (1..k) : j <= i}
  <1>1. 0 \in T
    OBVIOUS
  <1>2. ASSUME NEW k \in 1..n, k - 1 \in T PROVE k \in T
    <2>1. CASE k \in P
      <3>1. k <= k /\ \A j \in P \cap (1..k) : j <= k
        OBVIOUS
      <3>2. QED
        BY <2>1, <3>1
    <2>2. CASE k \notin P
      <3>1. P \cap (1..k) = P \cap (1..(k - 1))
        BY <2>2
      <3>2. QED
        BY <1>2, <3>1
    <2>3. QED
      BY <2>1, <2>2
  <1>3. n \in T
    <2>1. 0..n \subseteq T
      <3> HIDE DEF T
      <3>1. QED
        BY <1>1, <1>2, InductionTo
    <2>2. QED
      BY <2>1
  <1>4. QED
    BY <1>3

PlacesIn(log, names) == {i \in DOMAIN log : log[i].call \in names}

OutputsIn(log, n) ==
  {i \in PlacesIn(log, {"output"}) : Cardinality(PlacesIn(log, {"webhook"}) \cap (1..i)) =
          n}

LastIn(log, places) ==
  IF places = {} THEN None ELSE log[CHOOSE i \in places : \A j \in places : j <= i].json

IsHook(w) == w = [output |-> w.output, errorKeys |-> w.errorKeys, options |-> w.options]
IsMap(m) ==
  /\ m = [properties |-> m.properties, required |-> m.required,
          expressions |-> m.expressions, webhooks |-> m.webhooks, output |-> m.output,
          errorKeys |-> m.errorKeys]
  /\ IsList(m.required) /\ IsList(m.webhooks)
  /\ \A n \in 1..Len(m.webhooks) : IsHook(m.webhooks[n])

Follows(m, log) ==
  /\ Len(m.webhooks) = Cardinality(PlacesIn(log, {"webhook"}))
  /\ \A n \in 1..Len(m.webhooks) :
       m.webhooks[n].output = LastIn(log, OutputsIn(log, n))
  /\ m.output =
       LastIn(log, PlacesIn(log, {"fallback_output"}) \cup OutputsIn(log, 0))
  /\ ToSet(m.required) \subseteq m.properties

ResultsInv ==
  /\ state = [result |-> state.result, map |-> state.map, log |-> state.log]
  /\ IsList(state.log) /\ IsMap(state.map)
  /\ Follows(state.map, state.log)

LEMMA FollowsIsProperty ==
  ASSUME ResultsInv
  PROVE  Results!FunctionFollowsItsCalls
  <1>1. \A names : Results!Places(names) = PlacesIn(state.log, names)
    BY Zenon DEF Results!Places, PlacesIn
  <1>2. \A S : Results!Cardinality(S) = Cardinality(S)
    BY Zenon DEF Results!Cardinality, Cardinality
  <1>3. \A n : Results!OutputsOf(n) = OutputsIn(state.log, n)
    BY <1>1, <1>2, Zenon DEF Results!OutputsOf, OutputsIn
  <1>4. \A places : Results!LastOf(places) = LastIn(state.log, places)
    BY Zenon DEF Results!LastOf, LastIn
  <1>5. \A s : Results!ToSet(s) = ToSet(s)
    BY Zenon DEF Results!ToSet, ToSet
  <1>6. DOMAIN state.map.webhooks = 1..Len(state.map.webhooks)
    BY ListFacts DEF ResultsInv, IsMap
  <1>7. PICK f : f = Results!ToSwaigFunction(state.map)
    OBVIOUS
  <1>8. /\ f.webhooks = state.map.webhooks /\ f.output = state.map.output
        /\ f.required = state.map.required /\ f.properties = state.map.properties
    BY <1>7 DEF Results!ToSwaigFunction
  <1>9. Follows(state.map, state.log)
    BY DEF ResultsInv
  <1>10. QED
    BY <1>1, <1>2, <1>3, <1>4, <1>5, <1>6, <1>7, <1>8, <1>9
       DEF Results!FunctionFollowsItsCalls, Follows

LEMMA ListPlaces ==
  ASSUME NEW log, IsList(log), NEW names
  PROVE  Len(log) \in Nat /\ DOMAIN log = 1..Len(log)
           /\ PlacesIn(log, names) \subseteq 1..Len(log)
  BY ListFacts DEF PlacesIn

\* What a call adds to the places of its name, and leaves of the others.
LEMMA PlacesOfOneMore ==
  ASSUME NEW log, IsList(log), NEW call, NEW names
  PROVE  /\ call.call \in names =>
              PlacesIn(Append(log, call), names) = PlacesIn(log, names) \cup {Len(log) + 1}
         /\ call.call \notin names =>
              PlacesIn(Append(log, call), names) = PlacesIn(log, names)
  <1>0. PICK n, more : n = Len(log) /\ more = Append(log, call)
    OBVIOUS
  <1>1. /\ n \in Nat /\ DOMAIN log = 1..n /\ DOMAIN more = 1..(n + 1)
        /\ \A i \in 1..n : more[i] = log[i]
        /\ more[n + 1] = call
    BY <1>0, ListFacts
  <1>2. QED
    BY <1>0, <1>1 DEF PlacesIn

LEMMA LastStays ==
  ASSUME NEW log, IsList(log), NEW call, NEW places, places \subseteq 1..Len(log)
  PROVE  LastIn(Append(log, call), places) = LastIn(log, places)
  <1>0. PICK n, more : n = Len(log) /\ more = Append(log, call)
    OBVIOUS
  <1>1. /\ n \in Nat /\ DOMAIN log = 1..n /\ DOMAIN more = 1..(n + 1)
        /\ \A i \in 1..n : more[i] = log[i]
        /\ more[n + 1] = call
    BY <1>0, ListFacts
  <1>2. LastIn(more, places) = LastIn(log, places)
    <2>1. CASE places = {}
      BY <2>1 DEF LastIn
    <2>2. CASE places # {}
      <3>1. PICK k : k = CHOOSE i \in places : \A j \in places : j <= i
        OBVIOUS
      <3>2. \E i \in places : \A j \in places : j <= i
        BY <1>0, <1>1, <2>2, HasGreatest
      <3>3. k \in 1..n
        BY <1>0, <1>1, <3>1, <3>2
      <3>4. QED
        BY <1>1, <2>2, <3>1, <3>3 DEF LastIn
    <2>3. QED
      BY <2>1, <2>2
  <1>3. QED
    BY <1>0, <1>2

LEMMA LastIsNew ==
  ASSUME NEW log, IsList(log), NEW call, NEW places, places \subseteq 1..Len(log)
  PROVE  LastIn(Append(log, call), places \cup {Len(log) + 1}) = call.json
  <1>0. PICK n, more : n = Len(log) /\ more = Append(log, call)
    OBVIOUS
  <1>1. /\ n \in Nat /\ DOMAIN log = 1..n /\ DOMAIN more = 1..(n + 1)
        /\ \A i \in 1..n : more[i] = log[i]
        /\ more[n + 1] = call
    BY <1>0, ListFacts
  <1>2. LastIn(more, places \cup {n + 1}) = call.json
    <2>1. PICK all : all = places \cup {n + 1}
      OBVIOUS
    <2>2. \A i \in all : (\A j \in all : j <= i) <=> i = n + 1
      BY <1>0, <1>1, <2>1
    <2>3. n + 1 \in all
      BY <2>1
    <2>4. (CHOOSE i \in all : \A j \in all : j <= i) = n + 1
      BY <2>2, <2>3
    <2>5. QED
      BY <1>1, <2>1, <2>3, <2>4 DEF LastIn
  <1>3. QED
    BY <1>0, <1>2

LEMMA CountsUpTo ==
  ASSUME NEW log, IsList(log), NEW n, n = Len(log), NEW names
  PROVE  /\ IsFiniteSet(PlacesIn(log, names)) /\ Cardinality(PlacesIn(log, names)) \in Nat
         /\ \A i \in 1..n : Cardinality(PlacesIn(log, names) \cap (1..i))
                              \in 0..Cardinality(PlacesIn(log, names))
  <1>1. n \in Nat /\ PlacesIn(log, names) \subseteq 1..n
    BY ListPlaces
  <1>2. PICK P : P = PlacesIn(log, names)
    OBVIOUS
  <1>3. IsFiniteSet(P) /\ Cardinality(P) \in Nat
    <2>1. PICK L : L = 1..n
      OBVIOUS
    <2>2. IsFiniteSet(L) /\ P \in SUBSET L
      BY <1>1, <1>2, <2>1, FS_Interval
    <2>3. QED
      BY <2>2, FS_Subset, FS_CardinalityType
  <1>4. ASSUME NEW i \in 1..n PROVE Cardinality(P \cap (1..i)) \in 0..Cardinality(P)
    <2>1. PICK Q : Q = P \cap (1..i)
      OBVIOUS
    <2>2. IsFiniteSet(Q) /\ Cardinality(Q) <= Cardinality(P)
      BY <1>3, <2>1, FS_Subset
    <2>3. Cardinality(Q) \in Nat
      BY <2>2, FS_CardinalityType
    <2>4. QED
      BY <1>3, <2>1, <2>2, <2>3
  <1>5. QED
    BY <1>2, <1>3, <1>4

\* Up to a place that was there, a call more changes no count of webhooks.
LEMMA OutputsOfOneMore ==
  ASSUME NEW log, IsList(log), NEW call, NEW n \in Nat
  PROVE  /\ call.call = "output" /\ n = Cardinality(PlacesIn(log, {"webhook"})) =>
              OutputsIn(Append(log, call), n) = OutputsIn(log, n) \cup {Len(log) + 1}
         /\ ~(call.call = "output" /\ n = Cardinality(PlacesIn(log, {"webhook"}))) =>
              OutputsIn(Append(log, call), n) = OutputsIn(log, n)
  <1>1. PICK l, more, hooks, W, V, O, R :
          /\ l = Len(log) /\ more = Append(log, call)
          /\ W = PlacesIn(log, {"webhook"}) /\ V = PlacesIn(more, {"webhook"})
          /\ O = PlacesIn(log, {"output"}) /\ R = PlacesIn(more, {"output"})
          /\ hooks = Cardinality(W) /\ l \in Nat /\ W \subseteq 1..l /\ O \subseteq 1..l
    BY ListPlaces
  <1>2. /\ V = IF call.call = "webhook" THEN W \cup {l + 1} ELSE W
        /\ R = IF call.call = "output" THEN O \cup {l + 1} ELSE O
    <2>1. /\ call.call \in {"webhook"} <=> call.call = "webhook"
          /\ call.call \in {"output"} <=> call.call = "output"
      OBVIOUS
    <2>2. QED
      BY <1>1, <2>1, PlacesOfOneMore
  <1>3. ASSUME NEW i \in 1..l PROVE V \cap (1..i) = W \cap (1..i)
    BY <1>1, <1>2
  <1>4. W \cap (1..(l + 1)) = W
    BY <1>1, <1>2
  <1>5. OutputsIn(more, n) = {i \in R : Cardinality(V \cap (1..i)) = n}
    BY <1>1 DEF OutputsIn
  <1>6. OutputsIn(log, n) = {i \in O : Cardinality(W \cap (1..i)) = n}
    BY <1>1 DEF OutputsIn
  <1>7. {i \in O : Cardinality(V \cap (1..i)) = n} =
          {i \in O : Cardinality(W \cap (1..i)) = n}
    <2>1. \A i \in O : V \cap (1..i) = W \cap (1..i)
      BY <1>1, <1>3
    <2>2. QED
      BY <2>1, Zenon
  <1>8. CASE call.call # "output"
    <2>1. R = O
      BY <1>2, <1>8
    <2>2. OutputsIn(more, n) = OutputsIn(log, n)
      BY <1>5, <1>6, <1>7, <2>1, Zenon
    <2>3. QED
      BY <1>1, <1>8, <2>2
  <1>9. CASE call.call = "output"
    <2>1. V = W /\ R = O \cup {l + 1}
      BY <1>2, <1>9
    <2>2. Cardinality(W \cap (1..(l + 1))) = hooks
      BY <1>1, <1>4
    <2>3. {i \in R : Cardinality(W \cap (1..i)) = n}
            = IF n = hooks THEN {i \in O : Cardinality(W \cap (1..i)) = n} \cup {l + 1}
              ELSE {i \in O : Cardinality(W \cap (1..i)) = n}
      <3>1. PICK M : M = l + 1
        OBVIOUS
      <3>2. \A i \in R : i \in O \/ i = M
        BY <2>1, <3>1
      <3>3. O \subseteq R /\ M \in R
        BY <2>1, <3>1
      <3>4. Cardinality(W \cap (1..M)) = hooks
        BY <2>2, <3>1
      <3>5. QED
        BY <3>1, <3>2, <3>3, <3>4
    <2>4. QED
      BY <1>1, <1>5, <1>6, <1>9, <2>1, <2>3
  <1>10. QED
    BY <1>8, <1>9

\* A call that neither sets an output nor adds a webhook.
LEMMA QuietCall ==
  ASSUME NEW m, NEW log, IsMap(m), IsList(log), Follows(m, log), NEW call,
         call.call \notin {"webhook", "output", "fallback_output"},
         NEW n, IsMap(n), n.output = m.output, Len(n.webhooks) = Len(m.webhooks),
         \A k \in 1..Len(m.webhooks) : n.webhooks[k].output = m.webhooks[k].output,
         ToSet(n.required) \subseteq n.properties
  PROVE  Follows(n, Append(log, call))
  <1>1. PICK l, more, hooks :
          /\ l \in Nat /\ l = Len(log) /\ more = Append(log, call)
                  /\ hooks = Len(m.webhooks)
          /\ hooks \in Nat
    BY ListFacts DEF IsMap
  <1>2. /\ \A names : PlacesIn(log, names) \subseteq 1..l
        /\ PlacesIn(more, {"webhook"}) = PlacesIn(log, {"webhook"})
        /\ PlacesIn(more, {"fallback_output"}) = PlacesIn(log, {"fallback_output"})
        /\ \A places \in SUBSET (1..l) : LastIn(more, places) = LastIn(log, places)
    <2>1. call.call \notin {"webhook"} /\ call.call \notin {"fallback_output"}
      OBVIOUS
    <2>2. PlacesIn(Append(log, call), {"webhook"}) = PlacesIn(log, {"webhook"})
      BY <2>1, PlacesOfOneMore
    <2>3. PlacesIn(Append(log, call), {"fallback_output"}) =
            PlacesIn(log, {"fallback_output"})
      BY <2>1, PlacesOfOneMore
    <2>4. ASSUME NEW places \in SUBSET (1..l) PROVE LastIn(more, places) =
            LastIn(log, places)
      <3>1. places \subseteq 1..Len(log)
        BY <1>1
      <3>2. LastIn(Append(log, call), places) = LastIn(log, places)
        BY <3>1, LastStays, Zenon
      <3>3. QED
        BY <1>1, <3>2
    <2>5. \A names : PlacesIn(log, names) \subseteq 1..l
      BY <1>1, ListPlaces
    <2>6. QED
      BY <1>1, <2>2, <2>3, <2>4, <2>5
  <1>3. ASSUME NEW k \in Nat
        PROVE  OutputsIn(more, k) = OutputsIn(log, k) /\ OutputsIn(log, k) \subseteq 1..l
    <2>1. OutputsIn(more, k) = OutputsIn(log, k)
      BY <1>1, OutputsOfOneMore DEF Follows
    <2>2. OutputsIn(log, k) \subseteq PlacesIn(log, {"output"})
      BY DEF OutputsIn
    <2>3. QED
      BY <1>2, <2>1, <2>2, Zenon
  <1>4. ASSUME NEW k \in 1..hooks
        PROVE  n.webhooks[k].output = LastIn(more, OutputsIn(more, k))
    <2>1. k \in Nat
      BY <1>1
    <2>2. LastIn(more, OutputsIn(more, k)) = LastIn(log, OutputsIn(log, k))
      BY <1>2, <1>3, <2>1
    <2>3. QED
      BY <1>1, <2>2 DEF Follows
  <1>5. n.output =
          LastIn(more, PlacesIn(more, {"fallback_output"}) \cup OutputsIn(more, 0))
    <2>1. PICK S : S = PlacesIn(log, {"fallback_output"}) \cup OutputsIn(log, 0)
      OBVIOUS
    <2>2. S \subseteq 1..l
            /\ PlacesIn(more, {"fallback_output"}) \cup OutputsIn(more, 0) = S
      BY <1>2, <1>3, <2>1
    <2>3. n.output = LastIn(log, S)
      BY <2>1 DEF Follows
    <2>4. QED
      BY <1>2, <2>2, <2>3
  <1>6. QED
    BY <1>1, <1>2, <1>4, <1>5 DEF Follows

LEMMA WebhookCall ==
  ASSUME NEW m, NEW log, IsMap(m), IsList(log), Follows(m, log), NEW call,
         call.call = "webhook"
  PROVE  /\ Follows(Results!Webhook(m), Append(log, call))
         /\ IsMap(Results!Webhook(m))
  <1>1. PICK l, more, hooks, W, w :
          /\ l \in Nat /\ l = Len(log) /\ more = Append(log, call)
                  /\ hooks = Len(m.webhooks)
          /\ hooks \in Nat /\ W = PlacesIn(log, {"webhook"}) /\ w = Results!NewWebhook
    BY ListFacts DEF IsMap
  <1>2. PICK n : n = Results!Webhook(m)
    OBVIOUS
  <1>3. /\ n.webhooks = Append(m.webhooks, w) /\ n.output = m.output
        /\ n.required = m.required /\ n.properties = m.properties
        /\ n = [properties |-> n.properties, required |-> n.required,
                expressions |-> n.expressions, webhooks |-> n.webhooks, output |-> n.output,
                errorKeys |-> n.errorKeys]
    BY <1>1, <1>2, Zenon DEF Results!Webhook, IsMap
  <1>4. w.output = None /\ IsHook(w)
    BY <1>1 DEF Results!NewWebhook, IsHook
  <1>5. /\ IsList(n.webhooks) /\ Len(n.webhooks) = hooks + 1
        /\ \A k \in 1..hooks : n.webhooks[k] = m.webhooks[k]
        /\ n.webhooks[hooks + 1] = w
    BY <1>1, <1>3, ListFacts DEF IsMap
  <1>6. IsMap(n)
    <2>1. \A k \in 1..(hooks + 1) : k \in 1..hooks \/ k = hooks + 1
      BY <1>1
    <2>2. \A k \in 1..(hooks + 1) : IsHook(n.webhooks[k])
      BY <1>1, <1>4, <1>5, <2>1 DEF IsMap
    <2>3. IsList(n.required)
      BY <1>3 DEF IsMap
    <2>4. QED
      BY <1>3, <1>5, <2>2, <2>3, Zenon DEF IsMap
  <1>7. /\ \A names : PlacesIn(log, names) \subseteq 1..l
        /\ PlacesIn(more, {"webhook"}) = W \cup {l + 1}
        /\ PlacesIn(more, {"fallback_output"}) = PlacesIn(log, {"fallback_output"})
        /\ \A places \in SUBSET (1..l) : LastIn(more, places) = LastIn(log, places)
    <2>1. call.call \in {"webhook"} /\ call.call \notin {"fallback_output"}
      OBVIOUS
    <2>2. PlacesIn(Append(log, call), {"webhook"}) =
            PlacesIn(log, {"webhook"}) \cup {Len(log) + 1}
      BY <2>1, PlacesOfOneMore
    <2>3. PlacesIn(Append(log, call), {"fallback_output"}) =
            PlacesIn(log, {"fallback_output"})
      BY <2>1, PlacesOfOneMore
    <2>4. ASSUME NEW places \in SUBSET (1..l) PROVE LastIn(more, places) =
            LastIn(log, places)
      <3>1. places \subseteq 1..Len(log)
        BY <1>1
      <3>2. LastIn(Append(log, call), places) = LastIn(log, places)
        BY <3>1, LastStays, Zenon
      <3>3. QED
        BY <1>1, <3>2
    <2>5. \A names : PlacesIn(log, names) \subseteq 1..l
      BY <1>1, ListPlaces
    <2>6. QED
      BY <1>1, <2>2, <2>3, <2>4, <2>5
  <1>8. ASSUME NEW k \in Nat
        PROVE  OutputsIn(more, k) = OutputsIn(log, k) /\ OutputsIn(log, k) \subseteq 1..l
    <2>1. OutputsIn(more, k) = OutputsIn(log, k)
      BY <1>1, OutputsOfOneMore DEF Follows
    <2>2. OutputsIn(log, k) \subseteq PlacesIn(log, {"output"})
      BY DEF OutputsIn
    <2>3. QED
      BY <1>7, <2>1, <2>2, Zenon
  <1>9. Cardinality(W) = hooks /\ IsFiniteSet(W) /\ Cardinality(W \cup {l + 1}) = hooks + 1
    <2>1. Cardinality(W) = hooks
      BY <1>1 DEF Follows
    <2>2. IsFiniteSet(W)
      BY <1>1, CountsUpTo
    <2>3. l + 1 \notin W
      BY <1>1, <1>7
    <2>4. QED
      BY <2>1, <2>2, <2>3, FS_AddElement
  <1>10. ASSUME NEW k \in 1..(hooks + 1)
         PROVE  n.webhooks[k].output = LastIn(more, OutputsIn(more, k))
    <2>0. k \in Nat
      BY <1>1
    <2>1. LastIn(more, OutputsIn(more, k)) = LastIn(log, OutputsIn(log, k))
      BY <1>7, <1>8, <2>0
    <2>2. CASE k \in 1..hooks
      BY <1>1, <1>5, <2>1, <2>2 DEF Follows
    <2>3. CASE k = hooks + 1
      <3>1. OutputsIn(log, k) = {}
        <4>1. \A i \in 1..l : Cardinality(W \cap (1..i)) \in 0..hooks
          BY <1>1, <1>9, CountsUpTo
        <4>2. \A i \in 1..l : Cardinality(W \cap (1..i)) # k
          BY <1>1, <2>3, <4>1
        <4>3. QED
          BY <1>1, <1>8, <2>0, <4>2 DEF OutputsIn
      <3>2. QED
        BY <1>4, <1>5, <2>1, <2>3, <3>1, Zenon DEF LastIn
    <2>4. QED
      BY <1>1, <2>2, <2>3
  <1>11. n.output =
          LastIn(more, PlacesIn(more, {"fallback_output"}) \cup OutputsIn(more, 0))
    <2>1. PICK S : S = PlacesIn(log, {"fallback_output"}) \cup OutputsIn(log, 0)
      OBVIOUS
    <2>2. S \subseteq 1..l
            /\ PlacesIn(more, {"fallback_output"}) \cup OutputsIn(more, 0) = S
      BY <1>7, <1>8, <2>1
    <2>3. n.output = LastIn(log, S)
      BY <1>3, <2>1 DEF Follows
    <2>4. QED
      BY <1>7, <2>2, <2>3
  <1>12. Follows(n, more)
    BY <1>1, <1>3, <1>5, <1>7, <1>9, <1>10, <1>11 DEF Follows
  <1>13. QED
    BY <1>1, <1>2, <1>6, <1>12

LEMMA FallbackCall ==
  ASSUME NEW m, NEW log, IsMap(m), IsList(log), Follows(m, log), NEW json,
         NEW call, call.call = "fallback_output", call.json = json
  PROVE  /\ Follows(Results!FallbackOutput(m, json), Append(log, call))
         /\ IsMap(Results!FallbackOutput(m, json))
  <1>1. PICK l, more, hooks :
          /\ l \in Nat /\ l = Len(log) /\ more = Append(log, call)
                  /\ hooks = Len(m.webhooks)
          /\ hooks \in Nat
    BY ListFacts DEF IsMap
  <1>2. PICK n : n = Results!FallbackOutput(m, json)
    OBVIOUS
  <1>3. /\ n.webhooks = m.webhooks /\ n.output = json
        /\ n.required = m.required /\ n.properties = m.properties
        /\ n = [properties |-> n.properties, required |-> n.required,
                expressions |-> n.expressions, webhooks |-> n.webhooks, output |-> n.output,
                errorKeys |-> n.errorKeys]
    BY <1>1, <1>2, Zenon DEF Results!FallbackOutput, IsMap
  <1>4. IsMap(n)
    BY <1>3, Zenon DEF IsMap
  <1>5. ASSUME NEW k \in Nat
        PROVE  OutputsIn(more, k) = OutputsIn(log, k) /\ OutputsIn(log, k) \subseteq 1..l
    <2>1. OutputsIn(more, k) = OutputsIn(log, k)
      BY <1>1, OutputsOfOneMore
    <2>2. OutputsIn(log, k) \subseteq PlacesIn(log, {"output"})
      BY DEF OutputsIn
    <2>3. QED
      BY <1>1, <2>1, <2>2, ListPlaces
  <1>6. PlacesIn(more, {"webhook"}) = PlacesIn(log, {"webhook"})
    <2>1. call.call \notin {"webhook"}
      OBVIOUS
    <2>2. QED
      BY <1>1, <2>1, PlacesOfOneMore
  <1>7. ASSUME NEW k \in 1..hooks
        PROVE  n.webhooks[k].output = LastIn(more, OutputsIn(more, k))
    <2>1. k \in Nat
      BY <1>1
    <2>2. PICK places : places = OutputsIn(log, k) /\ places \subseteq 1..Len(log)
      BY <1>1, <1>5, <2>1
    <2>3. LastIn(Append(log, call), places) = LastIn(log, places)
      BY <2>2, LastStays, Zenon
    <2>4. QED
      BY <1>1, <1>3, <1>5, <2>1, <2>2, <2>3 DEF Follows
  <1>8. n.output =
          LastIn(more, PlacesIn(more, {"fallback_output"}) \cup OutputsIn(more, 0))
    <2>1. PICK S : S = PlacesIn(log, {"fallback_output"}) \cup OutputsIn(log, 0)
      OBVIOUS
    <2>2. S \subseteq 1..Len(log)
      BY <1>1, <1>5, <2>1, ListPlaces
    <2>3. PlacesIn(Append(log, call), {"fallback_output"})
            = PlacesIn(log, {"fallback_output"}) \cup {Len(log) + 1}
      <3>1. call.call \in {"fallback_output"}
        OBVIOUS
      <3>2. QED
        BY <3>1, PlacesOfOneMore
    <2>4. PlacesIn(more, {"fallback_output"}) \cup OutputsIn(more, 0) =
            S \cup {Len(log) + 1}
      <3>1. OutputsIn(more, 0) = OutputsIn(log, 0)
        BY <1>5
      <3>2. QED
        BY <1>1, <2>1, <2>3, <3>1, Zenon
    <2>5. LastIn(Append(log, call), S \cup {Len(log) + 1}) = json
      BY <2>2, LastIsNew
    <2>6. QED
      BY <1>1, <1>3, <2>4, <2>5, Zenon
  <1>9. Follows(n, more)
    BY <1>1, <1>3, <1>6, <1>7, <1>8 DEF Follows
  <1>10. QED
    BY <1>1, <1>2, <1>4, <1>9

LEMMA OutputCall ==
  ASSUME NEW m, NEW log, IsMap(m), IsList(log), Follows(m, log), NEW json,
         NEW call, call.call = "output", call.json = json
  PROVE  /\ Follows(Results!Output(m, json), Append(log, call))
         /\ IsMap(Results!Output(m, json))
  <1>0. PICK l, more, hooks :
          l = Len(log) /\ more = Append(log, call) /\ hooks = Len(m.webhooks)
    OBVIOUS
  <1>1. /\ l \in Nat /\ l = Len(log) /\ more = Append(log, call) /\ hooks = Len(m.webhooks)
        /\ hooks \in Nat /\ hooks = Cardinality(PlacesIn(log, {"webhook"}))
    BY <1>0, ListFacts DEF IsMap, Follows
  <1>2. PICK n : n = Results!Output(m, json)
    OBVIOUS
  <1>3. /\ PlacesIn(more, {"webhook"}) = PlacesIn(log, {"webhook"})
        /\ PlacesIn(more, {"fallback_output"}) = PlacesIn(log, {"fallback_output"})
    <2>1. call.call \notin {"webhook"} /\ call.call \notin {"fallback_output"}
      OBVIOUS
    <2>2. PlacesIn(Append(log, call), {"webhook"}) = PlacesIn(log, {"webhook"})
      BY <2>1, PlacesOfOneMore
    <2>3. PlacesIn(Append(log, call), {"fallback_output"}) =
            PlacesIn(log, {"fallback_output"})
      BY <2>1, PlacesOfOneMore
    <2>4. QED
      BY <1>1, <2>2, <2>3
  <1>4. ASSUME NEW k \in Nat
        PROVE  /\ OutputsIn(log, k) \subseteq 1..Len(log)
               /\ k = hooks => OutputsIn(more, k) = OutputsIn(log, k) \cup {Len(log) + 1}
               /\ k # hooks => OutputsIn(more, k) = OutputsIn(log, k)
    <2>1. OutputsIn(log, k) \subseteq PlacesIn(log, {"output"})
      BY DEF OutputsIn
    <2>2. QED
      BY <1>1, <2>1, ListPlaces, OutputsOfOneMore
  <1>5. ASSUME NEW k \in Nat, k # hooks
        PROVE  LastIn(more, OutputsIn(more, k)) = LastIn(log, OutputsIn(log, k))
    <2>1. PICK places : places = OutputsIn(log, k) /\ places \subseteq 1..Len(log)
      BY <1>4
    <2>2. LastIn(Append(log, call), places) = LastIn(log, places)
      BY <2>1, LastStays, Zenon
    <2>3. QED
      BY <1>1, <1>4, <1>5, <2>1, <2>2
  <1>6. LastIn(more, OutputsIn(more, hooks)) = json
    <2>1. PICK places : places = OutputsIn(log, hooks) /\ places \subseteq 1..Len(log)
      BY <1>1, <1>4
    <2>2. LastIn(Append(log, call), places \cup {Len(log) + 1}) = json
      BY <2>1, LastIsNew
    <2>3. QED
      BY <1>1, <1>4, <2>1, <2>2
  <1>7. PICK S : S = PlacesIn(log, {"fallback_output"}) \cup OutputsIn(log, 0)
    OBVIOUS
  <1>8. S \subseteq 1..Len(log) /\ m.output = LastIn(log, S)
    BY <1>4, <1>7, ListPlaces DEF Follows
  <1>9. CASE m.webhooks = <<>>
    <2>1. hooks = 0
      BY <1>1, <1>9
    <2>2. n = [m EXCEPT !.output = json]
      BY <1>2, <1>9 DEF Results!Output
    <2>3. /\ n.webhooks = m.webhooks /\ n.output = json
          /\ n.required = m.required /\ n.properties = m.properties
          /\ n = [properties |-> n.properties, required |-> n.required,
                  expressions |-> n.expressions, webhooks |-> n.webhooks,
                  output |-> n.output, errorKeys |-> n.errorKeys]
      BY <2>2, Zenon DEF IsMap
    <2>4. IsMap(n)
      BY <2>3, Zenon DEF IsMap
    <2>5. n.output =
            LastIn(more, PlacesIn(more, {"fallback_output"}) \cup OutputsIn(more, 0))
      <3>1. LastIn(Append(log, call), S \cup {Len(log) + 1}) = json
        BY <1>8, LastIsNew
      <3>2. OutputsIn(more, 0) = OutputsIn(log, 0) \cup {Len(log) + 1}
        BY <1>4, <2>1
      <3>3. PlacesIn(more, {"fallback_output"}) \cup OutputsIn(more, 0) =
              S \cup {Len(log) + 1}
        BY <1>3, <1>7, <3>2
      <3>4. QED
        BY <1>1, <2>3, <3>1, <3>3
    <2>6. Follows(n, more)
      BY <1>1, <1>3, <2>1, <2>3, <2>5 DEF Follows
    <2>7. QED
      BY <1>1, <1>2, <2>4, <2>6
  <1>10. CASE m.webhooks # <<>>
    <2>1. hooks > 0
      <3>1. PICK T, s : s = m.webhooks /\ s \in Seq(T)
        BY DEF IsMap, IsList
      <3>2. Len(s) # 0
        BY <1>10, <3>1, EmptySeq
      <3>3. hooks # 0
        BY <1>1, <3>1, <3>2, Zenon
      <3>4. QED
        BY <1>1, <3>3
    <2>2. PICK w : w = [m.webhooks[hooks] EXCEPT !.output = json]
      OBVIOUS
    <2>3. w.output = json /\ IsHook(w)
      <3>1. IsHook(m.webhooks[hooks])
        BY <1>1, <2>1 DEF IsMap
      <3>2. PICK v : v = m.webhooks[hooks]
        OBVIOUS
      <3>3. v = [output |-> v.output, errorKeys |-> v.errorKeys, options |-> v.options]
              /\ w = [v EXCEPT !.output = json]
        BY <2>2, <3>1, <3>2 DEF IsHook
      <3>4. QED
        BY <3>3, Zenon DEF IsHook
    <2>4. /\ n.webhooks = [m.webhooks EXCEPT ![hooks] = w]
          /\ n.output = m.output
          /\ n.required = m.required /\ n.properties = m.properties
          /\ n = [properties |-> n.properties, required |-> n.required,
                  expressions |-> n.expressions, webhooks |-> n.webhooks,
                  output |-> n.output, errorKeys |-> n.errorKeys]
      <3>1. n = [m EXCEPT !.webhooks = [m.webhooks EXCEPT ![hooks] = w]]
        BY <1>1, <1>2, <1>10, <2>2, Zenon DEF Results!Output
      <3>2. QED
        BY <3>1, Zenon DEF IsMap
    <2>5. /\ IsList(n.webhooks) /\ Len(n.webhooks) = hooks
          /\ DOMAIN m.webhooks = 1..hooks /\ hooks \in 1..hooks
      <3>1. PICK s : s = m.webhooks /\ IsList(s) /\ Len(s) = hooks
        BY <1>1 DEF IsMap
      <3>2. hooks \in 1..Len(s)
        BY <1>1, <2>1, <3>1
      <3>3. IsList([s EXCEPT ![hooks] = w]) /\ Len([s EXCEPT ![hooks] = w]) = Len(s)
        BY <3>1, <3>2, ExceptList
      <3>4. DOMAIN s = 1..Len(s)
        BY <3>1, ListFacts
      <3>5. QED
        BY <2>4, <3>1, <3>2, <3>3, <3>4
    <2>6. \A k \in 1..hooks : n.webhooks[k] = IF k = hooks THEN w ELSE m.webhooks[k]
      BY <2>4, <2>5, Zenon
    <2>7. IsMap(n)
      <3>1. \A k \in 1..hooks : IsHook(n.webhooks[k])
        BY <1>1, <2>3, <2>6 DEF IsMap
      <3>2. IsList(n.required)
        BY <2>4 DEF IsMap
      <3>3. QED
        BY <2>4, <2>5, <3>1, <3>2, Zenon DEF IsMap
    <2>8. ASSUME NEW k \in 1..hooks
          PROVE  n.webhooks[k].output = LastIn(more, OutputsIn(more, k))
      <3>1. k \in Nat
        BY <1>1
      <3>2. CASE k = hooks
        BY <1>6, <2>3, <2>6, <3>2
      <3>3. CASE k # hooks
        <4>1. m.webhooks[k].output = LastIn(log, OutputsIn(log, k))
          BY <1>1 DEF Follows
        <4>2. QED
          BY <1>5, <2>6, <3>1, <3>3, <4>1
      <3>4. QED
        BY <3>2, <3>3
    <2>9. n.output =
            LastIn(more, PlacesIn(more, {"fallback_output"}) \cup OutputsIn(more, 0))
      <3>1. LastIn(Append(log, call), S) = LastIn(log, S)
        BY <1>8, LastStays, Zenon
      <3>2. OutputsIn(more, 0) = OutputsIn(log, 0)
        BY <1>4, <2>1
      <3>3. PlacesIn(more, {"fallback_output"}) \cup OutputsIn(more, 0) = S
        BY <1>3, <1>7, <3>2
      <3>4. QED
        BY <1>1, <1>8, <2>4, <3>1, <3>3
    <2>10. Follows(n, more)
      BY <1>1, <1>3, <2>4, <2>5, <2>8, <2>9 DEF Follows
    <2>11. QED
      BY <1>1, <1>2, <2>7, <2>10
  <1>11. QED
    BY <1>9, <1>10

LEMMA ResultsInit == ASSUME Results!Init PROVE ResultsInv
  <1>1. IsList(<<>>) /\ Len(<<>>) = 0
    BY EmptySeq DEF IsList
  <1>2. PICK m : m = Results!NewMap
    OBVIOUS
  <1>3. /\ m = [properties |-> m.properties, required |-> m.required,
                expressions |-> m.expressions, webhooks |-> m.webhooks, output |-> m.output,
                errorKeys |-> m.errorKeys]
        /\ m.required = <<>> /\ m.webhooks = <<>> /\ m.output = None
        /\ m.properties = {}
    BY <1>2 DEF Results!NewMap
  <1>4. IsMap(m)
    BY <1>1, <1>3 DEF IsMap
  <1>5. \A names : PlacesIn(<<>>, names) = {}
    BY DEF PlacesIn
  <1>6. OutputsIn(<<>>, 0) = {}
    BY <1>5 DEF OutputsIn
  <1>7. Cardinality({}) = 0 /\ ToSet(m.required) = {}
    BY <1>3, FS_EmptySet DEF ToSet
  <1>8. Follows(m, <<>>)
    <2>1. PlacesIn(<<>>, {"fallback_output"}) \cup OutputsIn(<<>>, 0) = {}
      BY <1>5, <1>6
    <2>2. LastIn(<<>>, {}) = None
      BY DEF LastIn
    <2>3. /\ Len(m.webhooks) = Cardinality(PlacesIn(<<>>, {"webhook"}))
          /\ 1..Len(m.webhooks) = {}
      <3>1. PlacesIn(<<>>, {"webhook"}) = {} /\ Len(m.webhooks) = 0 /\ 1..0 = {}
        BY <1>1, <1>3, <1>5
      <3>2. QED
        BY <1>7, <3>1
    <2>4. QED
      BY <1>3, <1>7, <2>1, <2>2, <2>3, Zenon DEF Follows
  <1>9. QED
    BY <1>1, <1>2, <1>4, <1>8 DEF Results!Init, ResultsInv

\* The application shapes the result; the map and its log stay.
LEMMA SaysKept == ASSUME ResultsInv, NEW r, Results!Says(r) PROVE ResultsInv'
  <1>1. /\ state'.map = state.map /\ state'.log = state.log
        /\ state' = [result |-> state'.result, map |-> state'.map, log |-> state'.log]
    BY DEF Results!Says, ResultsInv
  <1>2. QED
    BY <1>1 DEF ResultsInv

LEMMA CalledKept ==
  ASSUME ResultsInv, NEW m, NEW call, Results!Called(m, call),
         IsMap(m), Follows(m, Append(state.log, call))
  PROVE  ResultsInv'
  <1>1. /\ state'.map = m /\ state'.log = Append(state.log, call)
        /\ state' = [result |-> state'.result, map |-> state'.map, log |-> state'.log]
    BY DEF Results!Called, ResultsInv
  <1>2. IsList(Append(state.log, call))
    BY ListFacts DEF ResultsInv
  <1>3. QED
    BY <1>1, <1>2 DEF ResultsInv

LEMMA LastHook ==
  ASSUME NEW m, IsMap(m), m.webhooks # <<>>
  PROVE  IsHook(m.webhooks[Len(m.webhooks)])
  <1>1. PICK T, s : s = m.webhooks /\ s \in Seq(T)
    BY DEF IsMap, IsList
  <1>2. Len(s) \in 1..Len(s)
    BY <1>1, EmptySeq, LenProperties
  <1>3. QED
    BY <1>1, <1>2 DEF IsMap

\* What parameter, expression, error_keys and the options of a webhook change of a map.
LEMMA QuietMaps ==
  ASSUME NEW m, IsMap(m), ToSet(m.required) \subseteq m.properties, NEW n,
         \/ \E p \in Parameters, r \in BOOLEAN : n = Results!Parameter(m, p, r)
         \/ \E json : n = Results!Expression(m, json, None)
         \/ \E k \in ErrorKeys : n = Results!SetErrorKeys(m, k)
         \/ \E k \in ErrorKeys : n = Results!GlobalErrorKeys(m, k)
         \/ \E o \in {"body", "foreach"} : n = Results!SetOption(m, o)
  PROVE  /\ IsMap(n) /\ n.output = m.output /\ Len(n.webhooks) = Len(m.webhooks)
         /\ \A k \in 1..Len(m.webhooks) : n.webhooks[k].output = m.webhooks[k].output
         /\ ToSet(n.required) \subseteq n.properties
  <1>m. m = [properties |-> m.properties, required |-> m.required,
             expressions |-> m.expressions, webhooks |-> m.webhooks, output |-> m.output,
             errorKeys |-> m.errorKeys]
    BY DEF IsMap
  <1>1. ASSUME NEW p \in Parameters, NEW r \in BOOLEAN, n = Results!Parameter(m, p, r)
        PROVE  /\ IsMap(n) /\ n.output = m.output /\ n.webhooks = m.webhooks
               /\ ToSet(n.required) \subseteq n.properties
    <2>1. PICK q : q = IF r THEN Append(m.required, p) ELSE m.required
      OBVIOUS
    <2>2. /\ n.required = q /\ n.webhooks = m.webhooks /\ n.output = m.output
          /\ n.properties = m.properties \cup {p}
          /\ n = [properties |-> n.properties, required |-> n.required,
                  expressions |-> n.expressions, webhooks |-> n.webhooks,
                  output |-> n.output, errorKeys |-> n.errorKeys]
      BY <1>1, <1>m, <2>1, Zenon DEF Results!Parameter
    <2>3. IsList(q) /\ ToSet(q) \subseteq ToSet(m.required) \cup {p}
      <3>1. CASE ~r
        BY <2>1, <3>1 DEF IsMap
      <3>2. CASE r
        <4>1. PICK s : s = m.required /\ IsList(s)
          BY DEF IsMap
        <4>2. q = Append(s, p)
          BY <2>1, <3>2, <4>1
        <4>3. /\ IsList(q) /\ DOMAIN s = 1..Len(s) /\ Len(s) \in Nat
              /\ DOMAIN q = 1..(Len(s) + 1)
              /\ \A i \in 1..Len(s) : q[i] = s[i]
              /\ q[Len(s) + 1] = p
          BY <4>1, <4>2, ListFacts
        <4>4. \A i \in 1..(Len(s) + 1) : i \in 1..Len(s) \/ i = Len(s) + 1
          BY <4>3
        <4>5. QED
          BY <4>1, <4>3, <4>4 DEF ToSet
      <3>3. QED
        BY <3>1, <3>2
    <2>4. IsMap(n)
      BY <2>2, <2>3, Zenon DEF IsMap
    <2>5. QED
      BY <2>2, <2>3, <2>4
  <1>2. ASSUME NEW json, n = Results!Expression(m, json, None)
        PROVE  /\ IsMap(n) /\ n.output = m.output /\ n.webhooks = m.webhooks
               /\ ToSet(n.required) \subseteq n.properties
    <2>1. /\ n.required = m.required /\ n.webhooks = m.webhooks /\ n.output = m.output
          /\ n.properties = m.properties
          /\ n = [properties |-> n.properties, required |-> n.required,
                  expressions |-> n.expressions, webhooks |-> n.webhooks,
                  output |-> n.output, errorKeys |-> n.errorKeys]
      BY <1>2, <1>m, Zenon DEF Results!Expression
    <2>2. QED
      BY <2>1, Zenon DEF IsMap
  <1>3. ASSUME NEW k, n = [m EXCEPT !.errorKeys = k]
        PROVE  /\ IsMap(n) /\ n.output = m.output /\ n.webhooks = m.webhooks
               /\ ToSet(n.required) \subseteq n.properties
    <2>1. /\ n.required = m.required /\ n.webhooks = m.webhooks /\ n.output = m.output
          /\ n.properties = m.properties
          /\ n = [properties |-> n.properties, required |-> n.required,
                  expressions |-> n.expressions, webhooks |-> n.webhooks,
                  output |-> n.output, errorKeys |-> n.errorKeys]
      BY <1>3, <1>m, Zenon
    <2>2. QED
      BY <2>1, Zenon DEF IsMap
  <1>4. ASSUME NEW w, m.webhooks # <<>>, IsHook(w),
               w.output = m.webhooks[Len(m.webhooks)].output,
               n = [m EXCEPT !.webhooks = [m.webhooks EXCEPT ![Len(m.webhooks)] = w]]
        PROVE  /\ IsMap(n) /\ n.output = m.output /\ Len(n.webhooks) = Len(m.webhooks)
               /\ \A k \in 1..Len(m.webhooks) : n.webhooks[k].output = m.webhooks[k].output
               /\ ToSet(n.required) \subseteq n.properties
    <2>1. PICK s, l : s = m.webhooks /\ IsList(s) /\ l = Len(s) /\ l \in Nat
                   /\ DOMAIN s = 1..l
      BY ListFacts DEF IsMap
    <2>2. l \in 1..Len(s)
      <3>1. PICK T : s \in Seq(T)
        BY <2>1 DEF IsList
      <3>2. QED
        BY <1>4, <2>1, <3>1, EmptySeq
    <2>3. PICK u : u = [s EXCEPT ![l] = w]
      OBVIOUS
    <2>4. IsList(u) /\ Len(u) = l /\ \A k \in 1..l : u[k] = IF k = l THEN w ELSE s[k]
      <3>0. IsList(s)
        BY <2>1
      <3>1. IsList([s EXCEPT ![l] = w]) /\ Len([s EXCEPT ![l] = w]) = Len(s)
        BY <2>2, <3>0, ExceptList
      <3>2. \A k \in 1..l : u[k] = IF k = l THEN w ELSE s[k]
        BY <2>1, <2>3, Zenon
      <3>3. QED
        BY <2>1, <2>3, <3>1, <3>2
    <2>5. /\ n.required = m.required /\ n.webhooks = u /\ n.output = m.output
          /\ n.properties = m.properties
          /\ n = [properties |-> n.properties, required |-> n.required,
                  expressions |-> n.expressions, webhooks |-> n.webhooks,
                  output |-> n.output, errorKeys |-> n.errorKeys]
      BY <1>4, <1>m, <2>1, <2>3, Zenon
    <2>6. /\ \A k \in 1..l : IsHook(u[k])
          /\ \A k \in 1..l : u[k].output = s[k].output
      BY <1>4, <2>1, <2>4 DEF IsMap
    <2>7. IsMap(n)
      BY <2>4, <2>5, <2>6, Zenon DEF IsMap
    <2>8. QED
      BY <2>1, <2>4, <2>5, <2>6, <2>7
  <1>5. ASSUME NEW k, n = Results!SetErrorKeys(m, k), m.webhooks # <<>>
        PROVE  \E w : /\ IsHook(w) /\ w.output = m.webhooks[Len(m.webhooks)].output
                      /\ n = [m EXCEPT !.webhooks = [m.webhooks EXCEPT ![Len(m.webhooks)] =
                              w]]
    <2>1. PICK v, w : v = m.webhooks[Len(m.webhooks)] /\ w = [v EXCEPT !.errorKeys = k]
      OBVIOUS
    <2>2. IsHook(v)
      BY <1>5, <2>1, LastHook
    <2>3. IsHook(w) /\ w.output = v.output
      BY <2>1, <2>2, Zenon DEF IsHook
    <2>4. n = [m EXCEPT !.webhooks = [m.webhooks EXCEPT ![Len(m.webhooks)] = w]]
      BY <1>5, <2>1, Zenon DEF Results!SetErrorKeys
    <2>5. QED
      BY <2>1, <2>3, <2>4
  <1>6. ASSUME NEW o, n = Results!SetOption(m, o), m.webhooks # <<>>
        PROVE  \E w : /\ IsHook(w) /\ w.output = m.webhooks[Len(m.webhooks)].output
                      /\ n = [m EXCEPT !.webhooks = [m.webhooks EXCEPT ![Len(m.webhooks)] =
                              w]]
    <2>1. PICK v, w : v = m.webhooks[Len(m.webhooks)]
                   /\ w = [v EXCEPT !.options = v.options \cup {o}]
      OBVIOUS
    <2>2. IsHook(v)
      BY <1>6, <2>1, LastHook
    <2>3. IsHook(w) /\ w.output = v.output
      BY <2>1, <2>2, Zenon DEF IsHook
    <2>4. n = [m EXCEPT !.webhooks = [m.webhooks EXCEPT ![Len(m.webhooks)] = w]]
      BY <1>6, <2>1, Zenon DEF Results!SetOption
    <2>5. QED
      BY <2>1, <2>3, <2>4
  <1>7. CASE \E k : n = Results!SetErrorKeys(m, k)
    <2>1. CASE m.webhooks = <<>>
      BY <1>3, <1>7, <2>1 DEF Results!SetErrorKeys
    <2>2. CASE m.webhooks # <<>>
      BY <1>4, <1>5, <1>7, <2>2
    <2>3. QED
      BY <2>1, <2>2
  <1>8. CASE \E o : n = Results!SetOption(m, o)
    <2>1. CASE m.webhooks = <<>>
      BY <1>8, <2>1 DEF Results!SetOption
    <2>2. CASE m.webhooks # <<>>
      BY <1>4, <1>6, <1>8, <2>2
    <2>3. QED
      BY <2>1, <2>2
  <1>9. QED
    BY <1>1, <1>2, <1>3, <1>7, <1>8 DEF Results!GlobalErrorKeys

LEMMA ResultsStep == ASSUME ResultsInv, Results!Next PROVE ResultsInv'
  <1>1. PICK m, log, json : m = state.map /\ log = state.log
                         /\ json = Results!ResultJson(state.result)
    OBVIOUS
  <1>2. IsMap(m) /\ IsList(log) /\ Follows(m, log)
          /\ ToSet(m.required) \subseteq m.properties
    BY <1>1 DEF ResultsInv, Follows
  <1>3. CASE \E r : Results!Says(r)
    BY <1>3, SaysKept
  <1>4. ASSUME NEW n, NEW call, Results!Called(n, call),
               call.call \notin {"webhook", "output", "fallback_output"},
               \/ \E p \in Parameters, r \in BOOLEAN : n = Results!Parameter(m, p, r)
               \/ \E j : n = Results!Expression(m, j, None)
               \/ \E k \in ErrorKeys : n = Results!SetErrorKeys(m, k)
               \/ \E k \in ErrorKeys : n = Results!GlobalErrorKeys(m, k)
               \/ \E o \in {"body", "foreach"} : n = Results!SetOption(m, o)
        PROVE  ResultsInv'
    <2>1. /\ IsMap(n) /\ n.output = m.output /\ Len(n.webhooks) = Len(m.webhooks)
          /\ \A k \in 1..Len(m.webhooks) : n.webhooks[k].output = m.webhooks[k].output
          /\ ToSet(n.required) \subseteq n.properties
      BY <1>2, <1>4, QuietMaps
    <2>2. Follows(n, Append(log, call))
      BY <1>2, <1>4, <2>1, QuietCall
    <2>3. QED
      BY <1>1, <1>4, <2>1, <2>2, CalledKept
  <1>5. CASE Results!Called(Results!Webhook(m), [call |-> "webhook"])
    <2>0. PICK call : call = [call |-> "webhook"]
      OBVIOUS
    <2>1. call = [call |-> "webhook"] /\ call.call = "webhook"
      BY <2>0
    <2>2. IsMap(Results!Webhook(m)) /\ Follows(Results!Webhook(m), Append(log, call))
      BY <1>2, <2>1, WebhookCall
    <2>3. QED
      BY <1>1, <1>5, <2>1, <2>2, CalledKept
  <1>6. CASE Results!Called(Results!Output(m, json), [call |-> "output", json |-> json])
    <2>0. PICK call : call = [call |-> "output", json |-> json]
      OBVIOUS
    <2>1. /\ call = [call |-> "output", json |-> json]
          /\ call.call = "output" /\ call.json = json
      BY <2>0
    <2>2. IsMap(Results!Output(m, json))
            /\ Follows(Results!Output(m, json), Append(log, call))
      BY <1>2, <2>1, OutputCall
    <2>3. QED
      BY <1>1, <1>6, <2>1, <2>2, CalledKept
  <1>7. CASE Results!Called(Results!FallbackOutput(m, json),
                            [call |-> "fallback_output", json |-> json])
    <2>0. PICK call : call = [call |-> "fallback_output", json |-> json]
      OBVIOUS
    <2>1. /\ call = [call |-> "fallback_output", json |-> json]
          /\ call.call = "fallback_output" /\ call.json = json
      BY <2>0
    <2>2. /\ IsMap(Results!FallbackOutput(m, json))
          /\ Follows(Results!FallbackOutput(m, json), Append(log, call))
      BY <1>2, <2>1, FallbackCall
    <2>3. QED
      BY <1>1, <1>7, <2>1, <2>2, CalledKept
  <1>8. CASE Results!Build
    <2>1. CASE \E p \in Parameters, required \in BOOLEAN :
                 Results!Called(Results!Parameter(m, p, required),
                                [call |-> "parameter", name |-> p])
      BY <1>4, <2>1
    <2>2. CASE Results!Called(Results!Expression(m, json, None), [call |-> "expression"])
      BY <1>4, <2>2
    <2>3. CASE \E k \in ErrorKeys :
                 Results!Called(Results!SetErrorKeys(m, k), [call |-> "error_keys",
                         keys |-> k])
      BY <1>4, <2>3
    <2>4. CASE \E k \in ErrorKeys :
                 Results!Called(Results!GlobalErrorKeys(m, k),
                                [call |-> "global_error_keys", keys |-> k])
      BY <1>4, <2>4
    <2>5. CASE \E o \in {"body", "foreach"} :
                 Results!Called(Results!SetOption(m, o), [call |-> o])
      BY <1>4, <2>5
    <2>6. QED
      BY <1>1, <1>5, <1>6, <1>7, <1>8, <2>1, <2>2, <2>3, <2>4, <2>5, Zenon DEF Results!Build
  <1>9. QED
    BY <1>3, <1>8, Zenon DEF Results!Next, Results!SetResponse, Results!SetPostProcess,
            Results!Act

LEMMA ResultsInvariant == SdkSpec => [](part = "result" => ResultsInv)
  <1>1. SdkInit => (part = "result" => ResultsInv)
    BY ResultsInit DEF SdkInit
  <1>2. ASSUME part = "result" => ResultsInv, [SdkNext]_<<vars, part, state>>
        PROVE  (part = "result" => ResultsInv)'
    <2>1. SUFFICES ASSUME part' = "result" PROVE ResultsInv'
      OBVIOUS
    <2>2. CASE UNCHANGED <<vars, part, state>>
      BY <1>2, <2>1, <2>2 DEF ResultsInv
    <2>3. CASE SdkNext
      <3>1. part = "result"
        BY <2>1, <2>3 DEF SdkNext
      <3>2. Results!Next
        BY <2>3, <3>1 DEF SdkNext, OtherNext
      <3>3. QED
        BY <1>2, <3>1, <3>2, ResultsStep
    <2>4. QED
      BY <1>2, <2>2, <2>3
  <1>3. QED
    BY <1>1, <1>2, PTL DEF SdkSpec

\* Whatever the calls on a DataMap and their order, each webhook of its function has the
\* last output set after it and before the next webhook, and the function the last
\* fallback, or the last output before any webhook; what it requires are parameters.
THEOREM FunctionsFollowTheirCalls == SdkSpec => []FunctionFollowsItsCalls
  <1>1. (part = "result" => ResultsInv) => FunctionFollowsItsCalls
    BY FollowsIsProperty DEF FunctionFollowsItsCalls
  <1>2. QED
    BY <1>1, ResultsInvariant, PTL
-------------------------------------------------------------------------------
(***************************************************************************)
(* Webhooks. The operators of the instance are those of the libraries.     *)
(***************************************************************************)
LEMMA WebhooksLists ==
  /\ \A s : Webhooks!ToSet(s) = ToSet(s)
  /\ \A s, P : Webhooks!At(s, P) = At(s, P)
  /\ \A s, T : Webhooks!Only(s, T) = Only(s, T)
  /\ \A S : Webhooks!Min(S) = Min(S)
  /\ \A s : Webhooks!FlattenSeq(s) = FlattenSeq(s)
  <1>1. ASSUME NEW S PROVE Webhooks!Cardinality(S) = Cardinality(S)
    BY Zenon DEF Webhooks!Cardinality, Cardinality
  <1>2. ASSUME NEW s PROVE Webhooks!ToSet(s) = ToSet(s)
    BY Zenon DEF Webhooks!ToSet, ToSet
  <1>3. ASSUME NEW P, NEW k PROVE Webhooks!Nth(P, k) = Nth(P, k)
    BY Zenon DEF Webhooks!Nth, Nth, Webhooks!Cardinality, Cardinality
  <1>4. ASSUME NEW s, NEW P PROVE Webhooks!At(s, P) = At(s, P)
    BY <1>1, <1>3 DEF Webhooks!At, At
  <1>5. ASSUME NEW s, NEW T PROVE Webhooks!Only(s, T) = Only(s, T)
    BY <1>4 DEF Webhooks!Only, Only
  <1>6. ASSUME NEW S PROVE Webhooks!Min(S) = Min(S)
    BY Zenon DEF Webhooks!Min, Min
  <1>7. ASSUME NEW s PROVE Webhooks!FlattenSeq(s) = FlattenSeq(s)
    BY Zenon DEF Webhooks!FlattenSeq, FlattenSeq
  <1>8. QED
    BY <1>2, <1>4, <1>5, <1>6, <1>7, Zenon

\* The fields of one name.
LEMMA NamedFacts ==
  ASSUME NEW items, items \in Seq(Parameter), NEW n
  PROVE  /\ Webhooks!Named(items, n) \in Seq(Parameter)
         /\ \A j \in DOMAIN Webhooks!Named(items, n) : Webhooks!Named(items, n)[j].name = n
         /\ (\E i \in DOMAIN items : items[i].name = n) => Webhooks!Named(items, n) # <<>>
  <1>1. PICK T, s : T = {p \in ToSet(items) : p.name = n} /\ s = Only(items, T)
    OBVIOUS
  <1>2. Webhooks!Named(items, n) = s
    BY <1>1, WebhooksLists, Zenon DEF Webhooks!Named
  <1>3. PICK P : P = Parameter
    OBVIOUS
  <1>4. s \in Seq(P) /\ ToSet(s) = ToSet(items) \cap T
    BY <1>1, <1>3, OnlyFacts
  <1>5. ToSet(s) = T
    BY <1>1, <1>4
  <1>6. \A j \in DOMAIN s : s[j].name = n
    BY <1>1, <1>5 DEF ToSet
  <1>7. ASSUME NEW i \in DOMAIN items, items[i].name = n PROVE s # <<>>
    <2>1. items[i] \in T
      BY <1>1, <1>7 DEF ToSet
    <2>2. QED
      BY <1>5, <2>1 DEF ToSet
  <1>8. QED
    BY <1>2, <1>3, <1>4, <1>6, <1>7

\* A list of lists of which one is not empty is not empty when flattened.
LEMMA FlattenNotEmpty ==
  ASSUME NEW X, NEW s, s \in Seq(Seq(X)), NEW k \in DOMAIN s, s[k] # <<>>
  PROVE  FlattenSeq(s) # <<>>
  <1>1. PICK n \in Nat : n = Len(s) /\ k \in 1..n /\ \A i \in 1..n : s[i] \in Seq(X)
    BY LenProperties, ElementOfSeq
  <1>p. Len(s) > 0
    BY <1>1
  <1>f. PICK f \in [0..Len(s) -> Seq(X)] :
          /\ f[0] = <<>> /\ f[Len(s)] = FlattenSeq(s)
          /\ \A i \in 1..Len(s) : f[i] = f[i-1] \o s[i]
    BY <1>p, FlattenLoop
  <1>2. /\ \A i \in 0..n : f[i] \in Seq(X)
        /\ f[n] = FlattenSeq(s) /\ \A i \in 1..n : f[i] = f[i-1] \o s[i]
    BY <1>1, <1>f
  <1> DEFINE T == {i \in 0..n : k <= i => f[i] # <<>>}
  <1>3. 0 \in T
    BY <1>1
  <1>4. ASSUME NEW i \in 1..n, i - 1 \in T PROVE i \in T
    <2>0. i - 1 \in 0..n
      BY <1>1
    <2>1. /\ f[i] = f[i-1] \o s[i] /\ f[i-1] \in Seq(X) /\ s[i] \in Seq(X)
      BY <1>1, <1>2, <2>0, Zenon
    <2>2. PICK a, b : a = f[i-1] /\ b = s[i]
      OBVIOUS
    <2>3. /\ Len(a) \in Nat /\ Len(b) \in Nat /\ Len(a \o b) = Len(a) + Len(b)
          /\ (a # <<>> => Len(a) # 0) /\ (b # <<>> => Len(b) # 0) /\ a \o b \in Seq(X)
      BY <2>1, <2>2, ConcatProperties, LenProperties, EmptySeq
    <2>4. k <= i => a # <<>> \/ b # <<>>
      <3>1. k <= i => k <= i - 1 \/ k = i
        BY <1>1
      <3>2. k <= i - 1 => a # <<>>
        BY <1>4, <2>2
      <3>3. k = i => b # <<>>
        BY <2>2
      <3>4. QED
        BY <3>1, <3>2, <3>3
    <2>5. k <= i => a \o b # <<>>
      BY <2>3, <2>4, EmptySeq
    <2>6. i \in 0..n /\ f[i] = a \o b
      BY <1>1, <2>1, <2>2
    <2>7. QED
      BY <2>5, <2>6
  <1>5. n \in T
    <2>1. 0..n \subseteq T
      <3> HIDE DEF T
      <3>1. QED
        BY <1>1, <1>3, <1>4, InductionTo
    <2>2. n \in 0..n
      BY <1>1
    <2>3. QED
      BY <2>1, <2>2
  <1>6. QED
    BY <1>1, <1>2, <1>5

\* What is signed of a form is never empty: it cannot pass for the URL alone.
LEMMA FormIsSigned ==
  ASSUME NEW items, items \in Seq(Parameter), items # <<>>
  PROVE  Webhooks!SortedConcat(items) # <<>>
  <1>1. PICK l \in Nat : l = Len(ParameterNames) /\ DOMAIN ParameterNames = 1..l
    BY WebhookAssumption, LenProperties
  <1>2. PICK s : s = [i \in 1..l |-> Webhooks!Named(items, ParameterNames[i])]
    OBVIOUS
  <1>3. PICK P : P = Parameter
    OBVIOUS
  <1>4. s \in Seq(Seq(P))
    <2>1. \A i \in 1..l : s[i] \in Seq(P)
      BY <1>2, <1>3, NamedFacts
    <2>2. s \in [1..l -> Seq(P)]
      BY <1>2, <2>1
    <2>3. QED
      BY <2>2, SeqDef
  <1>5. PICK k \in 1..l : s[k] # <<>>
    <2>1. 1 \in DOMAIN items /\ items[1] \in Parameter
      BY EmptySeq, LenProperties, ElementOfSeq
    <2>2. items[1].name \in ToSet(ParameterNames)
      BY <2>1 DEF Parameter
    <2>3. PICK k \in 1..l : items[1].name = ParameterNames[k]
      BY <1>1, <2>2 DEF ToSet
    <2>4. QED
      BY <1>2, <2>1, <2>3, NamedFacts
  <1>6. FlattenSeq(s) # <<>>
    <2>1. k \in DOMAIN s
      BY <1>2
    <2>2. QED
      BY <1>4, <1>5, <2>1, FlattenNotEmpty
  <1>7. QED
    BY <1>1, <1>2, <1>6, WebhooksLists, Zenon DEF Webhooks!SortedConcat, Webhooks!ByName

\* The two ways to put a form together agree.
LEMMA FormParamsConcat ==
  ASSUME NEW items, items \in Seq(Parameter)
  PROVE  Webhooks!ConcatFormParams(Webhooks!FormParams(items)) =
           Webhooks!SortedConcat(items)
  <1>1. PICK params : params = Webhooks!FormParams(items)
    OBVIOUS
  <1>2. ASSUME NEW i \in DOMAIN ParameterNames
        PROVE  [j \in DOMAIN params[ParameterNames[i]] |->
                  [name |-> ParameterNames[i], value |-> params[ParameterNames[i]][j]]]
                 = Webhooks!Named(items, ParameterNames[i])
    <2>1. PICK n, s : n = ParameterNames[i] /\ s = Webhooks!Named(items, n)
      OBVIOUS
    <2>2. n \in Webhooks!ToSet(ParameterNames)
      BY <2>1 DEF Webhooks!ToSet
    <2>3. params[n] = [j \in DOMAIN s |-> s[j].value]
      BY <1>1, <2>1, <2>2 DEF Webhooks!FormParams
    <2>4. s \in Seq(Parameter) /\ \A j \in DOMAIN s : s[j].name = n
      BY <2>1, NamedFacts, Zenon
    <2>5. ASSUME NEW j \in DOMAIN s PROVE [name |-> n, value |-> params[n][j]] = s[j]
      <3>1. s[j] \in Parameter /\ s[j].name = n
        BY <2>4, ElementOfSeq, LenProperties
      <3>2. s[j] = [name |-> s[j].name, value |-> s[j].value]
        BY <3>1 DEF Parameter
      <3>3. QED
        BY <2>3, <3>1, <3>2
    <2>6. DOMAIN params[n] = DOMAIN s
      BY <2>3
    <2>7. s = [j \in DOMAIN s |-> s[j]]
      BY <2>4
    <2>8. QED
      BY <2>1, <2>5, <2>6, <2>7, Zenon
  <1>3. [i \in DOMAIN ParameterNames |->
           [j \in DOMAIN params[ParameterNames[i]] |->
              [name |-> ParameterNames[i], value |-> params[ParameterNames[i]][j]]]]
          = [i \in DOMAIN ParameterNames |-> Webhooks!Named(items, ParameterNames[i])]
    BY <1>2, Zenon
  <1>4. QED
    BY <1>1, <1>3, Zenon
       DEF Webhooks!ConcatFormParams, Webhooks!SortedConcat, Webhooks!ByName

\* A query without a hash passes; the hash the platform adds is that of the body.
LEMMA NoHashPasses ==
  ASSUME NEW u, u.query \in Seq(Parameter), NEW body,
         \A i \in DOMAIN u.query : u.query[i].name # BodyHash
  PROVE  Webhooks!CheckBodySha256(u, body)
  <1>1. PICK q : q = u.query /\ q \in Seq(Parameter)
    OBVIOUS
  <1>2. {i \in 1..Len(q) : q[i].name = BodyHash} = {}
    BY <1>1, LenProperties
  <1>3. QED
    BY <1>1, <1>2 DEF Webhooks!CheckBodySha256, Webhooks!SelectInSeq

LEMMA HashIsChecked ==
  ASSUME NEW q, q \in Seq(Parameter), \A i \in DOMAIN q : q[i].name # BodyHash,
         NEW body, NEW v, NEW u, u.query = q \o <<[name |-> BodyHash, value |-> v]>>
  PROVE  Webhooks!CheckBodySha256(u, body) <=> v = body.id
  <1>1. PICK e, S : e = [name |-> BodyHash, value |-> v] /\ S = Parameter \cup {e}
    OBVIOUS
  <1>2. q \in Seq(S) /\ e \in S /\ Len(q) \in Nat /\ DOMAIN q = 1..Len(q)
    BY <1>1, SeqMonotonic, LenProperties
  <1>3. PICK r : r = Append(q, e) /\ r \in Seq(S)
    BY <1>2, AppendProperties
  <1>4. u.query = r
    BY <1>1, <1>2, <1>3, AppendIsConcat
  <1>l. PICK l \in Nat : l = Len(q)
    BY <1>2
  <1>5. /\ l \in Nat /\ l = Len(q) /\ Len(r) = l + 1 /\ r[l + 1] = e
        /\ \A i \in 1..l : r[i] = q[i]
    BY <1>2, <1>3, <1>l, AppendProperties
  <1>6. {i \in 1..Len(r) : r[i].name = BodyHash} = {l + 1}
    <2>1. \A i \in 1..(l + 1) : i \in 1..l \/ i = l + 1
      BY <1>5
    <2>2. \A i \in 1..l : r[i].name # BodyHash
      BY <1>2, <1>5
    <2>3. r[l + 1].name = BodyHash
      BY <1>1, <1>5
    <2>4. QED
      BY <1>5, <2>1, <2>2, <2>3
  <1>7. Webhooks!Min({l + 1}) = l + 1
    <2>1. PICK m \in Nat : m = l + 1
      BY <1>5
    <2>2. m \in Nat /\ {m} \subseteq 1..m /\ {m} # {}
      BY <1>5, <2>1
    <2>3. Min({m}) \in {m}
      BY <2>2, MinFacts
    <2>4. QED
      BY <2>1, <2>3, WebhooksLists
  <1>8. Webhooks!CheckBodySha256(u, body) <=> r[l + 1].value = body.id
    <2>1. l + 1 # 0
      BY <1>5
    <2>2. QED
      BY <1>4, <1>6, <1>7, <2>1, Zenon DEF Webhooks!CheckBodySha256, Webhooks!SelectInSeq
  <1>9. QED
    BY <1>1, <1>5, <1>8
-------------------------------------------------------------------------------
(***************************************************************************)
(* One webhook: what was signed, what arrived, and the verdicts on it.     *)
(***************************************************************************)
Hash(scheme, body) ==
  IF scheme = "hashed" THEN <<[name |-> BodyHash, value |-> body.id]>> ELSE <<>>

SentInv(s) ==
  /\ s.body \in Bodies /\ s.scheme \in Webhooks!Schemes(s.body)
  /\ s.signature = Webhooks!Signed(s.key, s.scheme, s.url, s.body)
  /\ \E u \in Urls : s.url = [u EXCEPT !.query = @ \o Hash(s.scheme, s.body)]

CarriedInv(r, s) ==
  /\ r.query = s.url.query /\ r.body \in Bodies
  /\ Webhooks!SignatureOf(r) \in {s.signature, None}

HookInv ==
  /\ state.at \in {"wrapped", "posted", "arrived", "handled", "validated"}
  /\ state.at # "wrapped" => SentInv(state.sent)
  /\ state.at \notin {"wrapped", "posted"} => CarriedInv(state.request, state.sent)
  /\ state.at \in {"handled", "validated"} =>
       state.outcome = Webhooks!Verdict(state.request, state.options)
  /\ state.at = "validated" =>
       LET s == state.sent
           r == state.request
       IN  /\ r.body.form
           /\ state.raw = Webhooks!ValidateWebhookSignature(s.signature, s.url, r.body)
           /\ state.parsed =
                Webhooks!ValidateRequest(s.signature, s.url,
                        Webhooks!FormParams(r.body.items))

LEMMA HookInit == ASSUME Webhooks!Init PROVE HookInv
  BY DEF Webhooks!Init, HookInv

LEMMA HookStep == ASSUME HookInv, Webhooks!Next PROVE HookInv'
  <1>1. CASE Webhooks!Post
    <2>0. PICK u \in Urls, body \in Bodies, key \in SigningKeys :
            \E scheme \in Webhooks!Schemes(body) :
              LET url == [u EXCEPT !.query = @ \o Hash(scheme, body)]
              IN  state' = [at |-> "posted", options |-> state.options,
                    sent |-> [scheme |-> scheme, url |-> url, body |-> body, key |-> key,
                              signature |-> Webhooks!Signed(key, scheme, url, body)]]
      BY <1>1, Zenon DEF Webhooks!Post, Hash
    <2>1. PICK scheme \in Webhooks!Schemes(body) :
            LET url == [u EXCEPT !.query = @ \o Hash(scheme, body)]
            IN  state' = [at |-> "posted", options |-> state.options,
                  sent |-> [scheme |-> scheme, url |-> url, body |-> body, key |-> key,
                            signature |-> Webhooks!Signed(key, scheme, url, body)]]
      BY <2>0
    <2>2. /\ state'.at = "posted" /\ state'.sent.body = body /\ state'.sent.scheme = scheme
          /\ state'.sent.url = [u EXCEPT !.query = @ \o Hash(scheme, body)]
          /\ state'.sent.signature =
               Webhooks!Signed(state'.sent.key, scheme, state'.sent.url, body)
      BY <2>1
    <2>3. SentInv(state'.sent)
      BY <2>2, Zenon DEF SentInv
    <2>4. QED
      BY <2>2, <2>3 DEF HookInv
  <1>2. CASE Webhooks!Deliver
    <2>1. state.at = "posted" /\ SentInv(state.sent)
      BY <1>2 DEF Webhooks!Deliver, HookInv
    <2>2. PICK s : s = state.sent
      OBVIOUS
    <2>3. /\ state'.at = "arrived" /\ state'.sent = s
          /\ state'.request.query = s.url.query /\ state'.request.body \in Bodies
          /\ state'.request.signalwire \in {s.signature, None}
          /\ state'.request.twilio \in {s.signature, None}
      BY <1>2, <2>2 DEF Webhooks!Deliver
    <2>4. CarriedInv(state'.request, s)
      BY <2>3 DEF CarriedInv, Webhooks!SignatureOf
    <2>5. QED
      BY <2>1, <2>2, <2>3, <2>4 DEF HookInv
  <1>3. CASE Webhooks!Handle
    <2>1. /\ state.at = "arrived" /\ state'.at = "handled" /\ state'.sent = state.sent
          /\ state'.request = state.request /\ state'.options = state.options
          /\ state'.outcome = Webhooks!Verdict(state.request, state.options)
      BY <1>3 DEF Webhooks!Handle
    <2>2. QED
      BY <2>1 DEF HookInv
  <1>4. CASE Webhooks!Validate
    <2>1. PICK s, r : s = state.sent /\ r = state.request
      OBVIOUS
    <2>2. /\ state.at = "handled" /\ r.body.form /\ state'.at = "validated"
          /\ state'.sent = s /\ state'.request = r /\ state'.options = state.options
          /\ state'.outcome = state.outcome
          /\ state'.raw = Webhooks!ValidateWebhookSignature(s.signature, s.url, r.body)
          /\ state'.parsed =
               Webhooks!ValidateRequest(s.signature, s.url,
                       Webhooks!FormParams(r.body.items))
      BY <1>4, <2>1 DEF Webhooks!Validate
    <2>3. QED
      BY <2>1, <2>2 DEF HookInv
  <1>5. QED
    BY <1>1, <1>2, <1>3, <1>4 DEF Webhooks!Next

LEMMA HookInvariant == SdkSpec => [](part = "webhook" => HookInv)
  <1>1. SdkInit => (part = "webhook" => HookInv)
    BY HookInit DEF SdkInit
  <1>2. ASSUME part = "webhook" => HookInv, [SdkNext]_<<vars, part, state>>
        PROVE  (part = "webhook" => HookInv)'
    <2>1. SUFFICES ASSUME part' = "webhook" PROVE HookInv'
      OBVIOUS
    <2>2. CASE UNCHANGED <<vars, part, state>>
      BY <1>2, <2>1, <2>2 DEF HookInv
    <2>3. CASE SdkNext
      <3>1. part = "webhook"
        BY <2>1, <2>3 DEF SdkNext
      <3>2. Webhooks!Next
        BY <2>3, <3>1 DEF SdkNext, OtherNext
      <3>3. QED
        BY <1>2, <3>1, <3>2, HookStep
    <2>4. QED
      BY <1>2, <2>2, <2>3
  <1>3. QED
    BY <1>1, <1>2, PTL DEF SdkSpec

\* The URL that was posted to, with the hash in it or not.
LEMMA SentUrl ==
  ASSUME NEW s, SentInv(s)
  PROVE  /\ s.url = [scheme |-> s.url.scheme, host |-> s.url.host, port |-> s.url.port,
                     query |-> s.url.query]
         /\ \A body : s.scheme = "hashed" =>
              (Webhooks!CheckBodySha256(s.url, body) <=> s.body.id = body.id)
         /\ \A body : s.scheme # "hashed" => Webhooks!CheckBodySha256(s.url, body)
         /\ \E S : s.url.query \in Seq(S)
  <1>1. PICK u \in Urls : s.url = [u EXCEPT !.query = @ \o Hash(s.scheme, s.body)]
    BY DEF SentInv
  <1>2. /\ u = [scheme |-> u.scheme, host |-> u.host, port |-> u.port, query |-> u.query]
        /\ u.query \in Seq(Parameter)
        /\ \A i \in DOMAIN u.query : u.query[i].name # BodyHash
    BY WebhookAssumption
  <1>3. PICK v, q : v = s.url /\ q = u.query \o Hash(s.scheme, s.body)
    OBVIOUS
  <1>4. v = [scheme |-> u.scheme, host |-> u.host, port |-> u.port, query |-> q]
    BY <1>1, <1>2, <1>3, Zenon
  <1>5. ASSUME s.scheme = "hashed", NEW body
        PROVE  Webhooks!CheckBodySha256(v, body) <=> s.body.id = body.id
    <2>1. v.query = u.query \o <<[name |-> BodyHash, value |-> s.body.id]>>
      BY <1>3, <1>4, <1>5 DEF Hash
    <2>2. QED
      BY <1>2, <2>1, HashIsChecked
  <1>6. ASSUME s.scheme # "hashed", NEW body
        PROVE  Webhooks!CheckBodySha256(v, body)
    <2>1. v.query = u.query \o <<>>
      BY <1>3, <1>4, <1>6 DEF Hash
    <2>2. v.query = u.query
      BY <1>2, <2>1, ConcatEmptySeq
    <2>3. QED
      BY <1>2, <2>2, NoHashPasses
  <1>7. \E S : v.query \in Seq(S)
    <2>1. PICK e, S : e = [name |-> BodyHash, value |-> s.body.id] /\ S = Parameter \cup {e}
      OBVIOUS
    <2>2. u.query \in Seq(S) /\ Hash(s.scheme, s.body) \in Seq(S)
      <3>1. u.query \in Seq(S)
        BY <1>2, <2>1, SeqMonotonic
      <3>2. <<e>> \in Seq(S) /\ <<>> \in Seq(S)
        BY <2>1
      <3>3. QED
        BY <2>1, <3>1, <3>2 DEF Hash
    <2>3. QED
      BY <1>3, <1>4, <2>2, ConcatProperties
  <1>8. QED
    BY <1>3, <1>4, <1>5, <1>6, <1>7

\* What a signature is valid for, at either entry point.
Unchanged(s, body) ==
  /\ s.key = SigningKey
  /\ \/ body = s.body
     \/ s.scheme = "url"
     \/ s.scheme = "form" /\ Webhooks!ParsedConcat(body) = Webhooks!ParsedConcat(s.body)

LEMMA SignedParts ==
  ASSUME NEW s, SentInv(s)
  PROVE  /\ s.signature.key = s.key /\ s.signature.url = s.url
         /\ s.scheme \in {"json", "form", "url", "hashed"}
         /\ s.signature.code = IF s.scheme = "json" THEN "hex" ELSE "base64"
         /\ s.scheme = "json" => s.signature.text = Webhooks!Raw(s.body)
         /\ s.scheme = "form" => /\ s.body.form /\ s.signature.text # <<>>
                                 /\ s.signature.text = Webhooks!ParsedConcat(s.body)
         /\ s.scheme \in {"url", "hashed"} => ~s.body.form /\ s.signature.text = <<>>
  <1>1. PICK sig : sig = s.signature
    OBVIOUS
  <1>2. s.scheme \in {"json", "form", "url", "hashed"}
    BY DEF SentInv, Webhooks!Schemes
  <1>3. CASE s.scheme = "json"
    <2>1. sig = [key |-> s.key, code |-> "hex", url |-> s.url,
            text |-> Webhooks!Raw(s.body)]
      BY <1>1, <1>3 DEF SentInv, Webhooks!Signed, Webhooks!Signature
    <2>2. QED
      BY <1>1, <1>3, <2>1
  <1>4. CASE s.scheme = "form"
    <2>1. sig = [key |-> s.key, code |-> "base64", url |-> s.url,
                 text |-> Webhooks!SortedConcat(s.body.items)]
      BY <1>1, <1>4 DEF SentInv, Webhooks!Signed, Webhooks!Signature
    <2>2. s.body.form
      BY <1>4 DEF SentInv, Webhooks!Schemes
    <2>3. s.body.items \in Seq(Parameter) /\ s.body.items # <<>>
      BY <2>2, WebhookAssumption DEF SentInv
    <2>4. Webhooks!SortedConcat(s.body.items) # <<>>
      BY <2>3, FormIsSigned
    <2>5. Webhooks!ParsedConcat(s.body) = Webhooks!SortedConcat(s.body.items)
      BY <2>2 DEF Webhooks!ParsedConcat
    <2>6. QED
      BY <1>1, <1>4, <2>1, <2>2, <2>4, <2>5
  <1>5. CASE s.scheme \in {"url", "hashed"}
    <2>1. sig = [key |-> s.key, code |-> "base64", url |-> s.url, text |-> <<>>]
      BY <1>1, <1>5 DEF SentInv, Webhooks!Signed, Webhooks!Signature
    <2>2. ~s.body.form
      BY <1>5 DEF SentInv, Webhooks!Schemes
    <2>3. QED
      BY <1>1, <1>5, <2>1, <2>2
  <1>6. QED
    BY <1>2, <1>3, <1>4, <1>5

LEMMA ValidMeansUnchanged ==
  ASSUME NEW s, SentInv(s), NEW body \in Bodies, NEW url,
         Webhooks!ValidateWebhookSignature(s.signature, url, body)
  PROVE  Unchanged(s, body)
  <1>1. CASE s.signature = Webhooks!Signature(SigningKey, "hex", url, Webhooks!Raw(body))
    <2>1. s.key = SigningKey /\ s.scheme = "json"
            /\ Webhooks!Raw(s.body) = Webhooks!Raw(body)
      BY <1>1, SignedParts DEF Webhooks!Signature
    <2>2. s.body.id = body.id
      BY <2>1 DEF Webhooks!Raw
    <2>3. s.body = body
      BY <2>2, WebhookAssumption DEF SentInv
    <2>4. QED
      BY <2>1, <2>3 DEF Unchanged
  <1>2. ASSUME NEW u \in Webhooks!CandidateUrls(url),
               NEW text \in {Webhooks!ParsedConcat(body), <<>>},
               s.signature = Webhooks!Signature(SigningKey, "base64", u, text),
               Webhooks!CheckBodySha256(u, body)
        PROVE  Unchanged(s, body)
    <2>1. /\ s.key = SigningKey /\ s.url = u /\ s.signature.text = text
          /\ s.scheme # "json"
      BY <1>2, SignedParts DEF Webhooks!Signature
    <2>2. CASE s.scheme = "form"
      <3>1. text # <<>> /\ text = Webhooks!ParsedConcat(s.body)
        BY <2>1, <2>2, SignedParts
      <3>2. QED
        BY <2>1, <2>2, <3>1 DEF Unchanged
    <2>3. CASE s.scheme = "url"
      BY <2>1, <2>3 DEF Unchanged
    <2>4. CASE s.scheme = "hashed"
      <3>1. s.body.id = body.id
        BY <1>2, <2>1, <2>4, SentUrl
      <3>2. s.body = body
        BY <3>1, WebhookAssumption DEF SentInv
      <3>3. QED
        BY <2>1, <3>2 DEF Unchanged
    <2>5. QED
      BY <2>1, <2>2, <2>3, <2>4, SignedParts
  <1>3. QED
    BY <1>1, <1>2 DEF Webhooks!ValidateWebhookSignature

LEMMA ParsedMeansUnchanged ==
  ASSUME NEW s, SentInv(s), NEW body \in Bodies, body.form, NEW url,
         Webhooks!ValidateRequest(s.signature, url, Webhooks!FormParams(body.items))
  PROVE  Unchanged(s, body)
  <1>1. body.items \in Seq(Parameter) /\ body.items # <<>>
    BY WebhookAssumption
  <1>2. Webhooks!ConcatFormParams(Webhooks!FormParams(body.items))
          = Webhooks!ParsedConcat(body)
    BY <1>1, FormParamsConcat DEF Webhooks!ParsedConcat
  <1>3. Webhooks!ParsedConcat(body) # <<>>
    BY <1>1, FormIsSigned DEF Webhooks!ParsedConcat
  <1>4. PICK u : s.signature =
                   Webhooks!Signature(SigningKey, "base64", u, Webhooks!ParsedConcat(body))
    BY <1>2 DEF Webhooks!ValidateRequest
  <1>5. /\ s.key = SigningKey /\ s.scheme = "form"
        /\ Webhooks!ParsedConcat(body) = Webhooks!ParsedConcat(s.body)
    BY <1>3, <1>4, SignedParts DEF Webhooks!Signature
  <1>6. QED
    BY <1>5 DEF Unchanged

LEMMA RanMeansUnchanged ==
  ASSUME NEW s, SentInv(s), NEW r, CarriedInv(r, s), NEW options,
         Webhooks!Verdict(r, options) = "ran"
  PROVE  Unchanged(s, r.body)
  <1>1. /\ Webhooks!SignatureOf(r) # None
        /\ Webhooks!ValidateWebhookSignature(Webhooks!SignatureOf(r),
             Webhooks!ReconstructUrl(r, options), r.body)
    BY DEF Webhooks!Verdict
  <1>2. Webhooks!SignatureOf(r) = s.signature /\ r.body \in Bodies
    BY <1>1 DEF CarriedInv
  <1>3. QED
    BY <1>1, <1>2, ValidMeansUnchanged

\* Of any number of URLs, bodies and keys: what is accepted was signed with this agent's
\* key, and its body is the one that was posted, except for forms with the same fields and
\* where the platform signed the URL alone.
THEOREM ChangedBodiesAreRefused == SdkSpec => []ChangedIsRefused
  <1>1. ASSUME HookInv, Webhooks!Accepted
        PROVE  Unchanged(state.sent, state.request.body)
    <2>1. /\ state.at \in {"handled", "validated"}
          /\ SentInv(state.sent) /\ CarriedInv(state.request, state.sent)
          /\ state.outcome = Webhooks!Verdict(state.request, state.options)
      BY <1>1 DEF HookInv, Webhooks!Accepted, Webhooks!Handled
    <2>2. CASE state.outcome = "ran"
      BY <2>1, <2>2, RanMeansUnchanged
    <2>3. CASE state.at = "validated" /\ (state.raw \/ state.parsed)
      <3>1. PICK s, r : s = state.sent /\ r = state.request
        OBVIOUS
      <3>2. SentInv(s) /\ r.body \in Bodies /\ r.body.form
        BY <1>1, <2>1, <2>3, <3>1 DEF HookInv, CarriedInv
      <3>3. \/ Webhooks!ValidateWebhookSignature(s.signature, s.url, r.body)
            \/ Webhooks!ValidateRequest(s.signature, s.url,
                    Webhooks!FormParams(r.body.items))
        BY <1>1, <2>3, <3>1 DEF HookInv
      <3>4. QED
        BY <3>1, <3>2, <3>3, ValidMeansUnchanged, ParsedMeansUnchanged
    <2>4. QED
      BY <1>1, <2>2, <2>3 DEF Webhooks!Accepted
  <1>2. (part = "webhook" => HookInv) => ChangedIsRefused
    BY <1>1 DEF ChangedIsRefused, Webhooks!ChangedIsRefused, Unchanged
  <1>3. QED
    BY <1>2, HookInvariant, PTL

\* What arrives as it was sent, at the origin it was posted to, is found right; only
\* for a body that is no form, since the fields of a form are put into the URL.
LEMMA OriginIsCandidate ==
  ASSUME NEW url, NEW o,
         url = [scheme |-> url.scheme, host |-> url.host, port |-> url.port,
                query |-> url.query],
         o = [scheme |-> o.scheme, host |-> o.host, port |-> o.port, query |-> o.query],
         Webhooks!Unported(url) = Webhooks!Unported(o)
  PROVE  url \in Webhooks!CandidateUrls(o)
  <1>1. PICK v, w :
          /\ v = Webhooks!Unported(url) /\ w = Webhooks!Unported(o)
    OBVIOUS
  <1>2. /\ v.scheme = url.scheme /\ v.host = url.host /\ v.query = url.query
        /\ v.port = IF url.port = Webhooks!StandardPort(url.scheme) THEN "" ELSE url.port
    BY <1>1 DEF Webhooks!Unported
  <1>3. /\ w.scheme = o.scheme /\ w.host = o.host /\ w.query = o.query
        /\ w.port = IF o.port = Webhooks!StandardPort(o.scheme) THEN "" ELSE o.port
    BY <1>1 DEF Webhooks!Unported
  <1>4. PICK std : std = Webhooks!StandardPort(o.scheme)
    OBVIOUS
  <1>5. /\ url.scheme = o.scheme /\ url.host = o.host /\ url.query = o.query
        /\ (IF url.port = std THEN "" ELSE url.port) = (IF o.port = std THEN "" ELSE o.port)
    BY <1>1, <1>2, <1>3, <1>4
  <1>6. CASE url.port = o.port
    <2>1. url = o
      BY <1>5, <1>6, Zenon
    <2>2. QED
      BY <2>1 DEF Webhooks!CandidateUrls
  <1>7. CASE url.port = std /\ o.port = ""
    <2>1. url = [o EXCEPT !.port = std]
      BY <1>5, <1>7, Zenon
    <2>2. QED
      BY <1>4, <1>7, <2>1 DEF Webhooks!CandidateUrls
  <1>8. CASE url.port = "" /\ o.port = std
    <2>1. url = [o EXCEPT !.port = ""]
      BY <1>5, <1>8, Zenon
    <2>2. QED
      BY <1>4, <1>8, <2>1 DEF Webhooks!CandidateUrls
  <1>9. QED
    BY <1>5, <1>6, <1>7, <1>8

LEMMA GenuineJsonRuns ==
  ASSUME NEW s, SentInv(s), NEW r, CarriedInv(r, s), NEW options,
         s.key = SigningKey, r.body = s.body, ~r.body.form,
         Webhooks!SignatureOf(r) # None,
         s.url.query = Webhooks!ByName(Webhooks!Once(s.url.query)),
         LET o == Webhooks!ReconstructUrl(r, options)
             u == [s.url EXCEPT !.query = o.query]
         IN  u = o \/ (s.signature.code = "base64"
                        /\ Webhooks!Unported(u) = Webhooks!Unported(o))
  PROVE  Webhooks!Verdict(r, options) = "ran"
  <1>1. PICK o, url : o = Webhooks!ReconstructUrl(r, options) /\ url = s.url
    OBVIOUS
  <1>2. o = [scheme |-> o.scheme, host |-> o.host, port |-> o.port, query |-> o.query]
          /\ o.query = Webhooks!Params(r)
    <2>1. PICK a, b, c, d : o = [scheme |-> a, host |-> b, port |-> c, query |-> d]
                        /\ d = Webhooks!Params(r)
      BY <1>1, Zenon DEF Webhooks!ReconstructUrl
    <2>2. QED
      BY <2>1
  <1>3. o.query = url.query
    <2>1. r.query = url.query
      BY <1>1 DEF CarriedInv
    <2>2. PICK S, q : q = url.query /\ q \in Seq(S)
      BY <1>1, SentUrl
    <2>3. Webhooks!Once(q) \in Seq(S)
      <3>1. PICK P : P = {i \in DOMAIN q : \A j \in 1..(i - 1) : q[j] # q[i]}
                  /\ P \subseteq DOMAIN q
        OBVIOUS
      <3>2. At(q, P) \in Seq(S)
        BY <2>2, <3>1, AtFacts
      <3>3. QED
        BY <3>1, <3>2, WebhooksLists DEF Webhooks!Once
    <2>4. Webhooks!Once(q) \o <<>> = Webhooks!Once(q)
      BY <2>3, ConcatEmptySeq
    <2>5. Webhooks!Params(r) = Webhooks!ByName(Webhooks!Once(q))
      BY <2>1, <2>2, <2>4 DEF Webhooks!Params
    <2>6. QED
      BY <1>1, <1>2, <2>2, <2>5
  <1>4. url = [scheme |-> url.scheme, host |-> url.host, port |-> url.port,
               query |-> url.query]
    BY <1>1, SentUrl
  <1>5. url = [url EXCEPT !.query = o.query]
    BY <1>3, <1>4, Zenon
  <1>6. url = o \/ (s.signature.code = "base64"
          /\ Webhooks!Unported(url) = Webhooks!Unported(o))
    BY <1>1, <1>5
  <1>7. /\ Webhooks!SignatureOf(r) = s.signature
        /\ s.signature = Webhooks!Signed(SigningKey, s.scheme, url, s.body)
        /\ s.scheme \in {"json", "url", "hashed"}
    BY <1>1 DEF CarriedInv, SentInv, Webhooks!Schemes
  <1>8. CASE s.scheme = "json"
    <2>1. s.signature = Webhooks!Signature(SigningKey, "hex", url, Webhooks!Raw(r.body))
      BY <1>7, <1>8 DEF Webhooks!Signed
    <2>2. s.signature.code = "hex"
      BY <2>1 DEF Webhooks!Signature
    <2>3. url = o
      BY <1>6, <2>2
    <2>4. Webhooks!ValidateWebhookSignature(s.signature, o, r.body)
      BY <2>1, <2>3 DEF Webhooks!ValidateWebhookSignature
    <2>5. QED
      BY <1>1, <1>7, <2>4 DEF Webhooks!Verdict
  <1>9. CASE s.scheme \in {"url", "hashed"}
    <2>1. s.signature = Webhooks!Signature(SigningKey, "base64", url, <<>>)
      BY <1>7, <1>9 DEF Webhooks!Signed
    <2>2. url \in Webhooks!CandidateUrls(o)
      <3>1. CASE url = o
        BY <3>1 DEF Webhooks!CandidateUrls
      <3>2. CASE Webhooks!Unported(url) = Webhooks!Unported(o)
        BY <1>2, <1>4, <3>2, OriginIsCandidate
      <3>3. QED
        BY <1>6, <3>1, <3>2
    <2>3. Webhooks!CheckBodySha256(url, r.body)
      BY <1>1, <1>9, SentUrl
    <2>4. Webhooks!ValidateWebhookSignature(s.signature, o, r.body)
      BY <2>1, <2>2, <2>3 DEF Webhooks!ValidateWebhookSignature
    <2>5. QED
      BY <1>1, <1>7, <2>4 DEF Webhooks!Verdict
  <1>10. QED
    BY <1>7, <1>8, <1>9

\* Of any number of URLs, bodies and options: a genuine request with JSON in it, to a URL
\* the receiver can know and whose query is sorted, reaches the handler, however it was
\* signed and whichever header and proxies carried it.
THEOREM GenuineJsonPasses == SdkSpec => []GenuineJsonIsAccepted
  <1>1. ASSUME HookInv PROVE Webhooks!GenuineJsonIsAccepted
    <2>1. SUFFICES ASSUME Webhooks!Handled, Webhooks!Genuine, Webhooks!OriginIsKnown,
                          ~state.request.body.form,
                          state.sent.url.query
                            = Webhooks!ByName(Webhooks!Once(state.sent.url.query))
                   PROVE  state.outcome = "ran"
      BY Zenon DEF Webhooks!GenuineJsonIsAccepted
    <2>2. PICK s, r, options : s = state.sent /\ r = state.request
            /\ options = state.options
      OBVIOUS
    <2>3. /\ SentInv(s) /\ CarriedInv(r, s)
          /\ state.outcome = Webhooks!Verdict(r, options)
      BY <1>1, <2>1, <2>2 DEF HookInv, Webhooks!Handled
    <2>4. /\ s.key = SigningKey /\ r.body = s.body /\ Webhooks!SignatureOf(r) # None
      BY <2>1, <2>2 DEF Webhooks!Genuine
    <2>5. LET o == Webhooks!ReconstructUrl(r, options)
              u == [s.url EXCEPT !.query = o.query]
          IN  u = o \/ (s.signature.code = "base64"
                         /\ Webhooks!Unported(u) = Webhooks!Unported(o))
      BY <2>1, <2>2, Zenon DEF Webhooks!OriginIsKnown
    <2>6. QED
      BY <2>1, <2>2, <2>3, <2>4, <2>5, GenuineJsonRuns
  <1>2. (part = "webhook" => HookInv) => GenuineJsonIsAccepted
    BY <1>1 DEF GenuineJsonIsAccepted
  <1>3. QED
    BY <1>2, HookInvariant, PTL

(***************************************************************************)
(* Hosting. The server answers with the first entry of its table that is    *)
(* for a path, so the proof is about what comes first: of the entries for   *)
(* the path of a hook, a right one leads (Leads), and none that is wrong is *)
(* in the lists before it (Clear). First, the paths.                        *)
(***************************************************************************)
\* Hosting extends these lists itself; what it uses of them is the same.
LEMMA HostsLists ==
  /\ \A s : Hosts!ToSet(s) = ToSet(s)
  /\ \A s : Hosts!FlattenSeq(s) = FlattenSeq(s)
  /\ \A s : Hosts!Last(s) = Last(s)
  /\ \A s : Hosts!Front(s) = Front(s)
  <1>1. ASSUME NEW s PROVE Hosts!ToSet(s) = ToSet(s)
    BY Zenon DEF Hosts!ToSet, ToSet
  <1>2. ASSUME NEW s PROVE Hosts!FlattenSeq(s) = FlattenSeq(s)
    BY Zenon DEF Hosts!FlattenSeq, FlattenSeq
  <1>3. ASSUME NEW s PROVE Hosts!Last(s) = Last(s)
    BY Zenon DEF Hosts!Last, Last
  <1>4. ASSUME NEW s PROVE Hosts!Front(s) = Front(s)
    BY Zenon DEF Hosts!Front, Front
  <1>5. QED
    BY <1>1, <1>2, <1>3, <1>4, Zenon

\* The path of something below s.
Path == Seq(RouteParts)
Below(s, name) == s \o <<"/", name>>

LEMMA ConcatList ==
  ASSUME NEW S, NEW s, s \in Seq(S), NEW t, t \in Seq(S)
  PROVE  /\ s \o t \in Seq(S) /\ Len(s) \in Nat /\ Len(t) \in Nat
         /\ Len(s \o t) = Len(s) + Len(t)
         /\ \A i \in 1..Len(s) : (s \o t)[i] = s[i]
         /\ \A i \in 1..Len(t) : (s \o t)[Len(s) + i] = t[i]
  <1>1. PICK m, n : m = Len(s) /\ n = Len(t) /\ m \in Nat /\ n \in Nat
    BY LenProperties
  <1>2. /\ s \o t \in Seq(S) /\ Len(s \o t) = m + n
        /\ \A i \in 1..(m + n) : (s \o t)[i] = IF i <= m THEN s[i] ELSE t[i - m]
    BY <1>1, ConcatProperties
  <1>3. \A i \in 1..m : (s \o t)[i] = s[i]
    BY <1>1, <1>2
  <1>4. ASSUME NEW i \in 1..n PROVE (s \o t)[m + i] = t[i]
    <2>1. m + i \in 1..(m + n) /\ ~(m + i <= m) /\ (m + i) - m = i
      BY <1>1
    <2>2. QED
      BY <1>2, <2>1
  <1>5. QED
    BY <1>1, <1>2, <1>3, <1>4

LEMMA Singles ==
  ASSUME NEW S, NEW x, x \in S, NEW y, y \in S
  PROVE  /\ <<x>> \in Seq(S) /\ Len(<<x>>) = 1 /\ <<x>>[1] = x /\ <<x>> # <<>>
         /\ <<x, y>> \in Seq(S) /\ Len(<<x, y>>) = 2
         /\ <<x, y>>[1] = x /\ <<x, y>>[2] = y /\ <<x>> \o <<y>> = <<x, y>>
  <1>1. /\ <<x>> \in Seq(S) /\ Len(<<x>>) = 1 /\ <<x>>[1] = x
        /\ <<y>> \in Seq(S) /\ Len(<<y>>) = 1 /\ <<y>>[1] = y
    OBVIOUS
  <1>2. <<x, y>> \in Seq(S) /\ Len(<<x, y>>) = 2 /\ <<x, y>>[1] = x /\ <<x, y>>[2] = y
    OBVIOUS
  <1>3. PICK c : c = <<x>> \o <<y>>
    OBVIOUS
  <1>4. c \in Seq(S) /\ Len(c) = 2 /\ c[1] = x /\ c[2] = y
    <2>1. PICK a, b : a = <<x>> /\ b = <<y>>
      OBVIOUS
    <2>2. /\ a \o b \in Seq(S) /\ Len(a \o b) = 1 + 1
          /\ \A i \in 1..1 : (a \o b)[i] = a[i]
          /\ \A i \in 1..1 : (a \o b)[1 + i] = b[i]
      BY <1>1, <2>1, ConcatList
    <2>3. QED
      BY <1>1, <1>3, <2>1, <2>2
  <1>5. c = <<x, y>>
    <2>1. PICK d : d = <<x, y>>
      OBVIOUS
    <2>2. d \in Seq(S) /\ Len(d) = 2 /\ d[1] = x /\ d[2] = y
      BY <1>2, <2>1
    <2>3. \A i \in 1..Len(c) : c[i] = d[i]
      BY <1>4, <2>2
    <2>4. QED
      BY <1>4, <2>1, <2>2, <2>3, SeqEqual
  <1>6. QED
    BY <1>1, <1>2, <1>3, <1>5

LEMMA SlashIsPart ==
  /\ "/" \in RouteParts /\ "swaig" \in RouteParts /\ "post_prompt" \in RouteParts
  /\ "mcp" \in RouteParts /\ "debug" \in RouteParts /\ "health" \in RouteParts
  /\ "ready" \in RouteParts /\ "agents" \in RouteParts /\ "sip" \in RouteParts
  BY DEF RouteParts

LEMMA BelowFacts ==
  ASSUME NEW s, s \in Path, NEW name, name \in RouteParts
  PROVE  /\ Below(s, name) \in Path /\ Below(s, name) # <<>>
         /\ Len(s) \in Nat /\ Len(Below(s, name)) = Len(s) + 2
         /\ \A i \in 1..Len(s) : Below(s, name)[i] = s[i]
         /\ Below(s, name)[Len(s) + 1] = "/" /\ Below(s, name)[Len(s) + 2] = name
  <1>1. PICK t : t = <<"/", name>>
    OBVIOUS
  <1>2. t \in Path /\ Len(t) = 2 /\ t[1] = "/" /\ t[2] = name
    BY <1>1, SlashIsPart, Singles DEF Path
  <1>3. PICK b : b = s \o t
    OBVIOUS
  <1>c. /\ b \in Path /\ Len(s) \in Nat /\ Len(b) = Len(s) + Len(t)
        /\ \A i \in 1..Len(s) : b[i] = s[i]
        /\ \A i \in 1..Len(t) : b[Len(s) + i] = t[i]
    <2>1. PICK P : P = RouteParts
      OBVIOUS
    <2>2. s \in Seq(P) /\ t \in Seq(P)
      BY <1>2, <2>1 DEF Path
    <2>3. /\ s \o t \in Seq(P) /\ Len(s) \in Nat /\ Len(s \o t) = Len(s) + Len(t)
          /\ \A i \in 1..Len(s) : (s \o t)[i] = s[i]
          /\ \A i \in 1..Len(t) : (s \o t)[Len(s) + i] = t[i]
      BY <2>2, ConcatList
    <2>4. QED
      BY <1>3, <2>1, <2>3 DEF Path
  <1>4. /\ b \in Path /\ Len(s) \in Nat /\ Len(b) = Len(s) + 2
        /\ \A i \in 1..Len(s) : b[i] = s[i]
        /\ b[Len(s) + 1] = "/" /\ b[Len(s) + 2] = name
    BY <1>2, <1>c
  <1>5. b # <<>>
    BY <1>4
  <1>6. QED
    BY <1>1, <1>3, <1>4, <1>5 DEF Below

LEMMA BelowTells ==
  ASSUME NEW s, s \in Path, NEW t, t \in Path, NEW m, m \in RouteParts, NEW n,
           n \in RouteParts,
         Below(s, m) = Below(t, n)
  PROVE  s = t /\ m = n
  <1>1. PICK b : b = Below(s, m)
    OBVIOUS
  <1>2. /\ Len(s) \in Nat /\ Len(b) = Len(s) + 2 /\ \A i \in 1..Len(s) : b[i] = s[i]
        /\ b[Len(s) + 2] = m
    BY <1>1, BelowFacts
  <1>3. /\ Len(t) \in Nat /\ Len(b) = Len(t) + 2 /\ \A i \in 1..Len(t) : b[i] = t[i]
        /\ b[Len(t) + 2] = n
    BY <1>1, BelowFacts
  <1>4. Len(s) = Len(t) /\ \A i \in 1..Len(s) : s[i] = t[i]
    BY <1>2, <1>3
  <1>5. s = t
    BY <1>4, SeqEqual DEF Path
  <1>6. QED
    BY <1>2, <1>3, <1>4, <1>5

\* A path is what is left when a slash at its end is taken away, or that and a slash.
LEMMA StrippedFacts ==
  ASSUME NEW b, b \in Path
  PROVE  /\ Hosts!Stripped(b) \in Path
         /\ b = Hosts!Stripped(b) \/ b = Hosts!Stripped(b) \o <<"/">>
         /\ b # <<>> => (Last(b) = "/" <=> b = Hosts!Stripped(b) \o <<"/">>)
         /\ b = <<>> => Hosts!Stripped(b) = <<>>
         /\ b = <<>> \/ Last(b) # "/" => Hosts!Stripped(b) = b
  <1>1. CASE b = <<>> \/ Last(b) # "/"
    <2>1. Hosts!Stripped(b) = b
      BY <1>1, HostsLists DEF Hosts!Stripped
    <2>2. b # b \o <<"/">>
      <3>1. <<"/">> \in Path /\ <<"/">> # <<>>
        BY SlashIsPart, Singles DEF Path
      <3>2. QED
        BY <3>1, ConcatEqualIffEmpty DEF Path
    <2>3. QED
      BY <1>1, <2>1, <2>2
  <1>2. CASE b # <<>> /\ Last(b) = "/"
    <2>1. PICK n \in Nat : n = Len(b) /\ n > 0 /\ \A i \in 1..n : b[i] \in RouteParts
      BY <1>2, EmptySeq, LenProperties, ElementOfSeq DEF Path
    <2>2. PICK f, g : f = SubSeq(b, 1, n - 1) /\ g = f \o <<"/">>
      OBVIOUS
    <2>3. Hosts!Stripped(b) = f
      BY <1>2, <2>1, <2>2, HostsLists DEF Hosts!Stripped, Front
    <2>4. f \in Path /\ Len(f) = n - 1 /\ \A i \in 1..(n - 1) : f[i] = b[i]
      <3>1. \A i \in 1..(n-1) : b[i] \in RouteParts
        BY <2>1
      <3>2. /\ SubSeq(b, 1, n - 1) \in Path
            /\ Len(SubSeq(b, 1, n - 1)) = IF 1 <= n - 1 THEN (n - 1) - 1 + 1 ELSE 0
            /\ \A i \in 1..((n - 1) - 1 + 1) : SubSeq(b, 1, n - 1)[i] = b[1 + i - 1]
        BY <2>1, <3>1, SubSeqProperties DEF Path
      <3>3. Len(f) = n - 1
        BY <2>1, <2>2, <3>2
      <3>4. \A i \in 1..(n - 1) : f[i] = b[i]
        BY <2>1, <2>2, <3>2
      <3>5. QED
        BY <2>2, <3>2, <3>3, <3>4 DEF Path
    <2>5. g = b
      <3>1. <<"/">> \in Path /\ Len(<<"/">>) = 1 /\ <<"/">>[1] = "/"
        BY SlashIsPart, Singles DEF Path
      <3>2. /\ g \in Path /\ Len(g) = n
            /\ \A i \in 1..(n - 1) : g[i] = f[i]
            /\ g[n] = "/"
        BY <2>1, <2>2, <2>4, <3>1, ConcatList DEF Path
      <3>3. \A i \in 1..n : g[i] = b[i]
        BY <1>2, <2>1, <2>4, <3>2 DEF Last
      <3>4. QED
        BY <2>1, <3>2, <3>3, SeqEqual DEF Path
    <2>6. QED
      BY <1>2, <2>2, <2>3, <2>4, <2>5
  <1>3. QED
    BY <1>1, <1>2

\* Join gives what is below the path without the slash at its end.
LEMMA JoinFacts ==
  ASSUME NEW b, b \in Path, b # <<>>, NEW name, name \in RouteParts
  PROVE  Hosts!Join(b, name) = Below(Hosts!Stripped(b), name)
  <1>1. CASE Last(b) # "/"
    <2>1. Hosts!Stripped(b) = b
      BY <1>1, StrippedFacts
    <2>2. Hosts!Join(b, name) = (b \o <<"/">>) \o <<name>>
      BY <1>1, HostsLists DEF Hosts!Join, Hosts!Slash
    <2>3. (b \o <<"/">>) \o <<name>> = b \o (<<"/">> \o <<name>>)
      <3>1. <<"/">> \in Path /\ <<name>> \in Path
        BY SlashIsPart, Singles DEF Path
      <3>2. QED
        BY <3>1, ConcatAssociative DEF Path
    <2>4. <<"/">> \o <<name>> = <<"/", name>>
      BY SlashIsPart, Singles
    <2>5. QED
      BY <2>1, <2>2, <2>3, <2>4 DEF Below
  <1>2. CASE Last(b) = "/"
    <2>1. PICK f : f = Hosts!Stripped(b) /\ f \in Path /\ b = f \o <<"/">>
      BY <1>2, StrippedFacts
    <2>2. Hosts!Join(b, name) = Append(b, name)
      BY <1>2, HostsLists DEF Hosts!Join
    <2>3. Append(b, name) = b \o <<name>>
      BY AppendIsConcat DEF Path
    <2>4. (f \o <<"/">>) \o <<name>> = f \o (<<"/">> \o <<name>>)
      <3>1. <<"/">> \in Path /\ <<name>> \in Path
        BY SlashIsPart, Singles DEF Path
      <3>2. QED
        BY <2>1, <3>1, ConcatAssociative DEF Path
    <2>5. <<"/">> \o <<name>> = <<"/", name>>
      BY SlashIsPart, Singles
    <2>6. QED
      BY <2>1, <2>2, <2>3, <2>4, <2>5 DEF Below
  <1>3. QED
    BY <1>1, <1>2

(***************************************************************************)
(* The first of the entries for a path: in F, before any that is in W.     *)
(***************************************************************************)
Clear(t, W) == \A k \in DOMAIN t : t[k] \notin W
Leads(t, F, W) == \E i \in DOMAIN t : t[i] \in F /\ \A j \in 1..i : t[j] \notin W

LEMMA LeadsOn ==
  ASSUME NEW X, NEW t, t \in Seq(X), NEW u, u \in Seq(X), NEW F, NEW W, Leads(t, F, W)
  PROVE  Leads(t \o u, F, W)
  <1>1. PICK c, m, n : c = t \o u /\ m = Len(t) /\ n = Len(u)
    OBVIOUS
  <1>2. /\ c \in Seq(X) /\ m \in Nat /\ n \in Nat /\ Len(c) = m + n
        /\ \A i \in 1..m : c[i] = t[i]
    BY <1>1, ConcatList
  <1>3. DOMAIN c = 1..(m + n) /\ DOMAIN t = 1..m
    BY <1>1, <1>2, LenProperties
  <1>4. PICK i \in DOMAIN t : t[i] \in F /\ \A j \in 1..i : t[j] \notin W
    BY DEF Leads
  <1>5. i \in DOMAIN c /\ c[i] \in F /\ \A j \in 1..i : c[j] \notin W
    <2>1. i \in 1..m /\ \A j \in 1..i : j \in 1..m
      BY <1>2, <1>3, <1>4
    <2>2. i \in 1..(m + n)
      BY <1>2, <2>1
    <2>3. QED
      BY <1>2, <1>3, <1>4, <2>1, <2>2
  <1>6. QED
    BY <1>1, <1>5 DEF Leads

LEMMA ClearBoth ==
  ASSUME NEW X, NEW t, t \in Seq(X), NEW u, u \in Seq(X), NEW W, Clear(t, W), Clear(u, W)
  PROVE  Clear(t \o u, W)
  <1>1. PICK c, m, n : c = t \o u /\ m = Len(t) /\ n = Len(u)
    OBVIOUS
  <1>2. /\ c \in Seq(X) /\ m \in Nat /\ n \in Nat /\ Len(c) = m + n
        /\ \A i \in 1..m : c[i] = t[i]
        /\ \A i \in 1..n : c[m + i] = u[i]
    BY <1>1, ConcatList
  <1>3. DOMAIN c = 1..(m + n) /\ DOMAIN t = 1..m /\ DOMAIN u = 1..n
    BY <1>1, <1>2, LenProperties
  <1>4. ASSUME NEW k \in DOMAIN c PROVE c[k] \notin W
    <2>1. CASE k <= m
      <3>1. k \in 1..m
        BY <1>2, <1>3, <2>1
      <3>2. QED
        BY <1>2, <1>3, <3>1 DEF Clear
    <2>2. CASE ~(k <= m)
      <3>1. k - m \in 1..n /\ m + (k - m) = k
        BY <1>2, <1>3, <2>2
      <3>2. c[k] = u[k - m]
        BY <1>2, <3>1
      <3>3. QED
        BY <1>3, <3>1, <3>2 DEF Clear
    <2>3. QED
      BY <2>1, <2>2
  <1>5. QED
    BY <1>1, <1>4 DEF Clear

LEMMA LeadsAfter ==
  ASSUME NEW X, NEW t, t \in Seq(X), NEW u, u \in Seq(X), NEW F, NEW W,
         Clear(t, W), Leads(u, F, W)
  PROVE  Leads(t \o u, F, W)
  <1>1. PICK c, m, n : c = t \o u /\ m = Len(t) /\ n = Len(u)
    OBVIOUS
  <1>2. /\ c \in Seq(X) /\ m \in Nat /\ n \in Nat /\ Len(c) = m + n
        /\ \A i \in 1..m : c[i] = t[i]
        /\ \A i \in 1..n : c[m + i] = u[i]
    BY <1>1, ConcatList
  <1>3. DOMAIN c = 1..(m + n) /\ DOMAIN t = 1..m /\ DOMAIN u = 1..n
    BY <1>1, <1>2, LenProperties
  <1>4. PICK i \in DOMAIN u : u[i] \in F /\ \A j \in 1..i : u[j] \notin W
    BY DEF Leads
  <1>5. m + i \in DOMAIN c /\ c[m + i] \in F
    BY <1>2, <1>3, <1>4
  <1>6. ASSUME NEW j \in 1..(m + i) PROVE c[j] \notin W
    <2>1. CASE j <= m
      <3>1. j \in 1..m
        BY <1>2, <1>3, <2>1
      <3>2. QED
        BY <1>2, <1>3, <3>1 DEF Clear
    <2>2. CASE ~(j <= m)
      <3>1. j - m \in 1..i /\ j - m \in 1..n /\ m + (j - m) = j
        BY <1>2, <1>3, <2>2
      <3>2. c[j] = u[j - m]
        BY <1>2, <3>1
      <3>3. QED
        BY <1>4, <3>1, <3>2
    <2>3. QED
      BY <2>1, <2>2
  <1>7. QED
    BY <1>1, <1>5, <1>6 DEF Leads

\* Of a list of lists: one leads, and those before it are clear.
LEMMA LeadsInside ==
  ASSUME NEW X, NEW s, s \in Seq(Seq(X)), NEW i, i \in DOMAIN s, NEW F, NEW W,
         Leads(s[i], F, W), \A j \in DOMAIN s : j < i => Clear(s[j], W)
  PROVE  Leads(FlattenSeq(s), F, W)
  <1>1. PICK n \in Nat : n = Len(s) /\ i \in 1..n /\ DOMAIN s = 1..n
                           /\ \A j \in 1..n : s[j] \in Seq(X)
    BY LenProperties, ElementOfSeq
  <1>p. Len(s) > 0
    BY <1>1
  <1>f. PICK f \in [0..Len(s) -> Seq(X)] :
          /\ f[0] = <<>> /\ f[Len(s)] = FlattenSeq(s)
          /\ \A j \in 1..Len(s) : f[j] = f[j-1] \o s[j]
    BY <1>p, FlattenLoop
  <1>2. /\ \A j \in 0..n : f[j] \in Seq(X)
        /\ f[0] = <<>> /\ f[n] = FlattenSeq(s) /\ \A j \in 1..n : f[j] = f[j-1] \o s[j]
    BY <1>1, <1>f
  <1> DEFINE T == {j \in 0..n : /\ j < i => Clear(f[j], W)
                                /\ i <= j => Leads(f[j], F, W)}
  <1>3. 0 \in T
    <2>1. Clear(<<>>, W)
      BY DEF Clear
    <2>2. QED
      BY <1>1, <1>2, <2>1
  <1>4. ASSUME NEW j \in 1..n, j - 1 \in T PROVE j \in T
    <2>0. j - 1 \in 0..n /\ j \in 0..n
      BY <1>1
    <2>1. /\ f[j] = f[j-1] \o s[j] /\ f[j-1] \in Seq(X) /\ s[j] \in Seq(X)
      BY <1>1, <1>2, <2>0, Zenon
    <2>2. PICK a, b : a = f[j-1] /\ b = s[j]
      OBVIOUS
    <2>3. a \in Seq(X) /\ b \in Seq(X) /\ f[j] = a \o b
      BY <2>1, <2>2
    <2>p. (j - 1 < i => Clear(a, W)) /\ (i <= j - 1 => Leads(a, F, W))
      BY <1>4, <2>2, Zenon
    <2>s. (j < i => Clear(b, W)) /\ (j = i => Leads(b, F, W))
      BY <1>1, <2>2, Zenon
    <2>4. j < i => Clear(a \o b, W)
      <3>1. j < i => j - 1 < i
        BY <1>1
      <3>2. QED
        BY <2>3, <2>p, <2>s, <3>1, ClearBoth
    <2>5. j = i => Leads(a \o b, F, W)
      <3>1. j = i => j - 1 < i
        BY <1>1
      <3>2. QED
        BY <2>3, <2>p, <2>s, <3>1, LeadsAfter
    <2>6. i < j => Leads(a \o b, F, W)
      <3>1. i < j => i <= j - 1
        BY <1>1
      <3>2. QED
        BY <2>3, <2>p, <3>1, LeadsOn
    <2>7. i <= j => Leads(a \o b, F, W)
      <3>1. i <= j => i < j \/ j = i
        BY <1>1
      <3>2. QED
        BY <2>5, <2>6, <3>1
    <2>8. QED
      BY <2>0, <2>3, <2>4, <2>7, Zenon
  <1>5. n \in T
    <2>1. 0..n \subseteq T
      <3> HIDE DEF T
      <3>1. QED
        BY <1>1, <1>3, <1>4, InductionTo
    <2>2. n \in 0..n
      BY <1>1
    <2>3. QED
      BY <2>1, <2>2
  <1>6. QED
    BY <1>1, <1>2, <1>5

LEMMA ConcatElements ==
  ASSUME NEW X, NEW t, t \in Seq(X), NEW u, u \in Seq(X)
  PROVE  ToSet(t \o u) = ToSet(t) \cup ToSet(u)
  <1>1. Range(t \o u) = Range(t) \cup Range(u)
    BY RangeConcatenation
  <1>2. ToSet(t) = Range(t) /\ ToSet(u) = Range(u) /\ ToSet(t \o u) = Range(t \o u)
    BY DEF ToSet, Range
  <1>3. QED
    BY <1>1, <1>2

LEMMA FlattenElements ==
  ASSUME NEW X, NEW s, s \in Seq(Seq(X)), NEW e
  PROVE  e \in ToSet(FlattenSeq(s)) <=> \E j \in DOMAIN s : e \in ToSet(s[j])
  <1>1. PICK n \in Nat : n = Len(s) /\ DOMAIN s = 1..n /\ \A j \in 1..n : s[j] \in Seq(X)
    BY LenProperties, ElementOfSeq
  <1>e. CASE n = 0
    <2>1. FlattenSeq(s) = s /\ DOMAIN s = {}
      BY <1>1, <1>e DEF FlattenSeq
    <2>2. QED
      BY <2>1 DEF ToSet
  <1>p. CASE n > 0
    <2>f. PICK f \in [0..Len(s) -> Seq(X)] :
            /\ f[0] = <<>> /\ f[Len(s)] = FlattenSeq(s)
            /\ \A j \in 1..Len(s) : f[j] = f[j-1] \o s[j]
      BY <1>1, <1>p, FlattenLoop
    <2>2. /\ \A j \in 0..n : f[j] \in Seq(X)
          /\ f[0] = <<>> /\ f[n] = FlattenSeq(s) /\ \A j \in 1..n : f[j] = f[j-1] \o s[j]
      BY <1>1, <2>f
    <2> DEFINE T == {j \in 0..n : e \in ToSet(f[j]) <=> \E k \in 1..j : e \in ToSet(s[k])}
    <2>3. 0 \in T
      <3>1. ToSet(<<>>) = {}
        BY DEF ToSet
      <3>2. QED
        BY <1>1, <2>2, <3>1
    <2>4. ASSUME NEW j \in 1..n, j - 1 \in T PROVE j \in T
      <3>0. j - 1 \in 0..n /\ j \in 0..n /\ 1..j = (1..(j - 1)) \cup {j}
        BY <1>1
      <3>1. /\ f[j] = f[j-1] \o s[j] /\ f[j-1] \in Seq(X) /\ s[j] \in Seq(X)
        BY <1>1, <2>2, <3>0, Zenon
      <3>2. ToSet(f[j]) = ToSet(f[j-1]) \cup ToSet(s[j])
        BY <3>1, ConcatElements
      <3>3. e \in ToSet(f[j-1]) <=> \E k \in 1..(j-1) : e \in ToSet(s[k])
        BY <2>4
      <3>4. e \in ToSet(f[j]) <=> \E k \in 1..j : e \in ToSet(s[k])
        BY <3>0, <3>2, <3>3, Zenon
      <3>5. QED
        BY <3>0, <3>4
    <2>5. n \in T
      <3>1. 0..n \subseteq T
        <4> HIDE DEF T
        <4>1. QED
          BY <1>1, <2>3, <2>4, InductionTo
      <3>2. n \in 0..n
        BY <1>1
      <3>3. QED
        BY <3>1, <3>2
    <2>6. QED
      BY <1>1, <2>2, <2>5
  <1>6. QED
    BY <1>1, <1>e, <1>p

(***************************************************************************)
(* The entries of the tables.                                              *)
(***************************************************************************)
Entries == [method : {"GET", "POST"}, path : Path, agent : Hosted \cup {None},
            handler : {"swml", "swaig", "post_prompt", "mcp", "debug", "sip", "health",
                       "ready", "agents"}]
Hooks == {"swaig", "post_prompt"}

IsFor(e, path) == e.method = "POST" /\ e.path = path
\* The entries for a hook of a, right and wrong.
Right(a, s, hook) ==
  {e \in Entries : IsFor(e, Below(s, hook)) /\ e.agent = a /\ e.handler = hook}
Wrong(a, s, hook) ==
  {e \in Entries : IsFor(e, Below(s, hook)) /\ ~(e.agent = a /\ e.handler = hook)}

LEMMA EndpointsAre ==
  ASSUME NEW b, b \in Hosted, NEW base, base \in Path, base # <<>>
  PROVE  LET t == Hosts!Endpoints(b, base) IN
         /\ t \in Seq(Entries) /\ DOMAIN t = 1..4
         /\ t[1] = Hosts!Entry("GET", base, b, "swml")
         /\ t[2] = Hosts!Entry("POST", base, b, "swml")
         /\ t[3] = Hosts!Entry("POST", Below(Hosts!Stripped(base), "swaig"), b, "swaig")
         /\ t[4] = Hosts!Entry("POST", Below(Hosts!Stripped(base), "post_prompt"), b,
                               "post_prompt")
  <1>1. PICK e1, e2, e3, e4 :
          /\ e1 = Hosts!Entry("GET", base, b, "swml")
          /\ e2 = Hosts!Entry("POST", base, b, "swml")
          /\ e3 = Hosts!Entry("POST", Below(Hosts!Stripped(base), "swaig"), b, "swaig")
          /\ e4 = Hosts!Entry("POST", Below(Hosts!Stripped(base), "post_prompt"), b,
                              "post_prompt")
    OBVIOUS
  <1>2. Hosts!Endpoints(b, base) = <<e1, e2, e3, e4>>
    <2>1. /\ Hosts!Join(base, "swaig") = Below(Hosts!Stripped(base), "swaig")
          /\ Hosts!Join(base, "post_prompt") = Below(Hosts!Stripped(base), "post_prompt")
      BY JoinFacts, SlashIsPart
    <2>2. QED
      BY <1>1, <2>1 DEF Hosts!Endpoints
  <1>3. /\ e1 \in Entries /\ e2 \in Entries /\ e3 \in Entries /\ e4 \in Entries
    <2>1. /\ Below(Hosts!Stripped(base), "swaig") \in Path
          /\ Below(Hosts!Stripped(base), "post_prompt") \in Path
      BY StrippedFacts, BelowFacts, SlashIsPart
    <2>2. PICK P, p3, p4 : P = Path /\ p3 = Below(Hosts!Stripped(base), "swaig")
                             /\ p4 = Below(Hosts!Stripped(base), "post_prompt")
      OBVIOUS
    <2>3. QED
      BY <1>1, <2>1, <2>2 DEF Entries, Hosts!Entry
  <1>4. PICK E : E = Entries
    OBVIOUS
  <1>5. <<e1, e2, e3, e4>> \in Seq(E) /\ DOMAIN <<e1, e2, e3, e4>> = 1..4
    BY <1>3, <1>4
  <1>6. QED
    BY <1>1, <1>2, <1>4, <1>5

\* A path that is served below s is s, with or without a slash; what is below s goes on
\* from it.
LEMMA GoesOn ==
  ASSUME NEW b, b \in Path, NEW name, name \in RouteParts
  PROVE  Starts(b, Below(Hosts!Stripped(b), name)) /\ b # Below(Hosts!Stripped(b), name)
  <1>1. PICK s : s = Hosts!Stripped(b)
    OBVIOUS
  <1>2. s \in Path /\ (b = s \/ b = s \o <<"/">>)
    BY <1>1, StrippedFacts
  <1>3. PICK l : l = Below(s, name) /\ l \in Path
    BY <1>2, BelowFacts
  <1>4. /\ Len(s) \in Nat /\ Len(l) = Len(s) + 2 /\ \A i \in 1..Len(s) : l[i] = s[i]
        /\ l[Len(s) + 1] = "/"
    <2>1. /\ Len(s) \in Nat /\ Len(Below(s, name)) = Len(s) + 2
          /\ \A i \in 1..Len(s) : Below(s, name)[i] = s[i]
          /\ Below(s, name)[Len(s) + 1] = "/"
      BY <1>2, BelowFacts
    <2>2. QED
      BY <1>3, <2>1
  <1>5. CASE b = s
    BY <1>1, <1>3, <1>4, <1>5 DEF Starts
  <1>6. CASE b = s \o <<"/">>
    <2>1. <<"/">> \in Path /\ Len(<<"/">>) = 1 /\ <<"/">>[1] = "/"
      BY SlashIsPart, Singles DEF Path
    <2>2. /\ Len(b) = Len(s) + 1
          /\ \A i \in 1..Len(s) : b[i] = s[i]
          /\ b[Len(s) + 1] = "/"
      <3>1. PICK P, t : P = RouteParts /\ t = <<"/">>
        OBVIOUS
      <3>2. /\ Len(s \o t) = Len(s) + Len(t)
            /\ \A i \in 1..Len(s) : (s \o t)[i] = s[i]
            /\ \A i \in 1..Len(t) : (s \o t)[Len(s) + i] = t[i]
        BY <1>2, <2>1, <3>1, ConcatList DEF Path
      <3>3. QED
        BY <1>6, <2>1, <3>1, <3>2
    <2>3. \A i \in 1..Len(b) : b[i] = l[i]
      BY <1>4, <2>2
    <2>4. QED
      BY <1>1, <1>3, <1>4, <2>2, <2>3 DEF Starts
  <1>7. QED
    BY <1>2, <1>5, <1>6

LEMMA EndpointsClear ==
  ASSUME NEW b, b \in Hosted, NEW base, base \in Path, base # <<>>,
         NEW a, NEW s, s \in Path, NEW hook \in Hooks,
         base # Below(s, hook), Hosts!Stripped(base) = s => b = a
  PROVE  Clear(Hosts!Endpoints(b, base), Wrong(a, s, hook))
  <1>1. PICK t, r : t = Hosts!Endpoints(b, base) /\ r = Hosts!Stripped(base)
    OBVIOUS
  <1>2. /\ DOMAIN t = 1..4
        /\ t[1] = Hosts!Entry("GET", base, b, "swml")
        /\ t[2] = Hosts!Entry("POST", base, b, "swml")
        /\ t[3] = Hosts!Entry("POST", Below(r, "swaig"), b, "swaig")
        /\ t[4] = Hosts!Entry("POST", Below(r, "post_prompt"), b, "post_prompt")
    BY <1>1, EndpointsAre
  <1>3. r \in Path /\ hook \in RouteParts
    BY <1>1, StrippedFacts, SlashIsPart DEF Hooks
  <1>4. ASSUME NEW name \in Hooks, Below(r, name) = Below(s, hook)
        PROVE  name = hook /\ b = a
    <2>1. name \in RouteParts
      BY SlashIsPart DEF Hooks
    <2>2. r = s /\ name = hook
      BY <1>3, <1>4, <2>1, BelowTells
    <2>3. QED
      BY <1>1, <2>2
  <1>5. t[1] \notin Wrong(a, s, hook) /\ t[2] \notin Wrong(a, s, hook)
    BY <1>2 DEF Wrong, IsFor, Hosts!Entry
  <1>6. t[3] \notin Wrong(a, s, hook)
    <2>1. Below(r, "swaig") = Below(s, hook) => hook = "swaig" /\ b = a
      BY <1>4 DEF Hooks
    <2>2. t[3].path = Below(r, "swaig") /\ t[3].agent = b /\ t[3].handler = "swaig"
      BY <1>2 DEF Hosts!Entry
    <2>3. QED
      BY <2>1, <2>2 DEF Wrong, IsFor
  <1>7. t[4] \notin Wrong(a, s, hook)
    <2>1. Below(r, "post_prompt") = Below(s, hook) => hook = "post_prompt" /\ b = a
      BY <1>4 DEF Hooks
    <2>2. /\ t[4].path = Below(r, "post_prompt") /\ t[4].agent = b
          /\ t[4].handler = "post_prompt"
      BY <1>2 DEF Hosts!Entry
    <2>3. QED
      BY <2>1, <2>2 DEF Wrong, IsFor
  <1>8. \A k \in 1..4 : t[k] \notin Wrong(a, s, hook)
    <2>1. 1..4 = {1, 2, 3, 4}
      OBVIOUS
    <2>2. QED
      BY <1>5, <1>6, <1>7, <2>1
  <1>9. QED
    BY <1>1, <1>2, <1>8 DEF Clear

LEMMA EndpointsLead ==
  ASSUME NEW a, a \in Hosted, NEW base, base \in Path, base # <<>>,
         NEW s, s \in Path, NEW hook \in Hooks, Hosts!Stripped(base) = s
  PROVE  Leads(Hosts!Endpoints(a, base), Right(a, s, hook), Wrong(a, s, hook))
  <1>1. PICK t : t = Hosts!Endpoints(a, base)
    OBVIOUS
  <1>2. /\ t \in Seq(Entries) /\ DOMAIN t = 1..4
        /\ t[3] = Hosts!Entry("POST", Below(s, "swaig"), a, "swaig")
        /\ t[4] = Hosts!Entry("POST", Below(s, "post_prompt"), a, "post_prompt")
    BY <1>1, EndpointsAre
  <1>3. Clear(t, Wrong(a, s, hook))
    <2>1. hook \in RouteParts
      BY SlashIsPart DEF Hooks
    <2>2. base # Below(s, hook)
      BY <2>1, GoesOn
    <2>3. QED
      BY <1>1, <2>2, EndpointsClear
  <1>4. PICK i \in 1..4 : t[i] = Hosts!Entry("POST", Below(s, hook), a, hook)
    <2>1. 3 \in 1..4 /\ 4 \in 1..4 /\ (hook = "swaig" \/ hook = "post_prompt")
      BY DEF Hooks
    <2>2. QED
      BY <1>2, <2>1, Zenon
  <1>5. t[i] \in Right(a, s, hook)
    <2>1. t[i] \in Entries
      <3>1. i \in 1..Len(t)
        BY <1>2, LenProperties
      <3>2. QED
        BY <1>2, <3>1, ElementOfSeq
    <2>2. QED
      BY <1>4, <2>1 DEF Right, IsFor, Hosts!Entry
  <1>6. \A j \in 1..i : t[j] \notin Wrong(a, s, hook)
    <2>1. \A j \in 1..i : j \in 1..4
      OBVIOUS
    <2>2. QED
      BY <1>2, <1>3, <2>1 DEF Clear
  <1>7. QED
    BY <1>1, <1>2, <1>5, <1>6 DEF Leads

\* What is asked of a table, in which the right entry leads.
LEMMA LeaderAnswers ==
  ASSUME NEW t, t \in Seq(Entries), NEW a, a # None, NEW s, NEW hook,
         Leads(t, Right(a, s, hook), Wrong(a, s, hook))
  PROVE  Hosts!Answer(t, "POST", [path |-> Below(s, hook), credentials |-> TRUE])
           = [agent |-> a, handler |-> hook]
  <1>u. PICK url : url = [path |-> Below(s, hook), credentials |-> TRUE]
    OBVIOUS
  <1>p. url.path = Below(s, hook) /\ url.credentials
    BY <1>u
  <1>1. PICK n \in Nat : n = Len(t) /\ DOMAIN t = 1..n /\ \A j \in 1..n : t[j] \in Entries
    BY LenProperties, ElementOfSeq
  <1>2. PICK M : M = {j \in DOMAIN t : t[j].method = "POST" /\ t[j].path = url.path}
    OBVIOUS
  <1>3. PICK i \in DOMAIN t : /\ t[i] \in Right(a, s, hook)
                              /\ \A j \in 1..i : t[j] \notin Wrong(a, s, hook)
    BY DEF Leads
  <1>4. i \in M
    BY <1>2, <1>3, <1>p DEF Right, IsFor
  <1>5. PICK k : k = CHOOSE j \in M : \A l \in M : j <= l
    OBVIOUS
  <1>6. k \in M /\ \A l \in M : k <= l
    <2>1. M \in SUBSET Nat /\ M # {}
      BY <1>1, <1>2, <1>4
    <2>2. \E j \in M : \A l \in M : j <= l
      BY <2>1, Least
    <2>3. QED
      BY <1>5, <2>2, Zenon
  <1>7. k \in 1..i /\ k \in 1..n
    BY <1>1, <1>2, <1>3, <1>4, <1>6
  <1>8. t[k].agent = a /\ t[k].handler = hook
    <2>1. t[k] \in Entries /\ IsFor(t[k], Below(s, hook))
      BY <1>1, <1>2, <1>6, <1>7, <1>p DEF IsFor
    <2>2. t[k] \notin Wrong(a, s, hook)
      BY <1>3, <1>7
    <2>3. QED
      BY <2>1, <2>2 DEF Wrong
  <1>9. Hosts!Answer(t, "POST", url) = [agent |-> a, handler |-> hook]
    BY <1>2, <1>4, <1>5, <1>8, <1>p, Zenon DEF Hosts!Answer
  <1>10. QED
    BY <1>9, <1>u

(***************************************************************************)
(* The URLs of a document.                                                 *)
(***************************************************************************)
RootOf(route) == IF route = <<>> THEN <<"/">> ELSE route

LEMMA RootFacts ==
  ASSUME NEW r, r \in Path
  PROVE  /\ RootOf(r) \in Path /\ RootOf(r) # <<>>
         /\ r = <<>> => Hosts!Stripped(RootOf(r)) = <<>>
  <1>1. <<"/">> \in Path /\ <<"/">> # <<>> /\ Len(<<"/">>) = 1 /\ <<"/">>[1] = "/"
    BY SlashIsPart, Singles DEF Path
  <1>2. Hosts!Stripped(<<"/">>) = <<>>
    <2>1. PICK b, r0 : b = <<"/">> /\ r0 = Hosts!Stripped(b)
      OBVIOUS
    <2>2. b \in Path /\ b # <<>> /\ Len(b) = 1 /\ Last(b) = "/"
      BY <1>1, <2>1 DEF Last
    <2>3. r0 \in Path /\ b = r0 \o <<"/">>
      BY <2>1, <2>2, StrippedFacts
    <2>4. Len(r0 \o <<"/">>) = Len(r0) + Len(<<"/">>)
      BY <1>1, <2>3, ConcatList DEF Path
    <2>5. Len(r0) = 0
      <3>1. Len(r0) \in Nat
        BY <2>3, LenProperties DEF Path
      <3>2. Len(r0) + 1 = 1
        BY <1>1, <2>2, <2>3, <2>4
      <3>3. QED
        BY <3>1, <3>2
    <2>6. QED
      BY <2>1, <2>3, <2>5, EmptySeq DEF Path
  <1>3. QED
    BY <1>1, <1>2 DEF RootOf

\* The hook of an agent is below its route, on a document for its own host.
LEMMA HookIsBelow ==
  ASSUME NEW ag, ag.route \in Path, ag.webhook = None
  PROVE  Hosts!BuildWebhookUrl(ag, <<>>) =
           [path |-> Below(Hosts!Stripped(RootOf(ag.route)), "swaig"),
            credentials |-> ag.authInitialized]
  <1>1. PICK r : r = ag.route /\ r \in Path
    OBVIOUS
  <1>2. <<>> \o r = r
    BY <1>1, ConcatEmptySeq DEF Path
  <1>3. Hosts!BuildWebhookUrl(ag, <<>>) =
          [path |-> Append(IF r # <<>>
                  /\ Hosts!Last(r) = "/" THEN r ELSE r \o <<"/">>, "swaig"),
           credentials |-> ag.authInitialized]
    BY <1>1, <1>2, Zenon DEF Hosts!BuildWebhookUrl, Hosts!Slash
  <1> DEFINE slashed == IF r # <<>> /\ Last(r) = "/" THEN r ELSE r \o <<"/">>
             s == Hosts!Stripped(RootOf(r))
  <1>4. slashed = s \o <<"/">> /\ s \in Path
    <2>1. CASE r = <<>>
      BY <1>1, <2>1, RootFacts
    <2>2. CASE r # <<>>
      <3>1. RootOf(r) = r
        BY <2>2 DEF RootOf
      <3>2. QED
        BY <1>1, <2>2, <3>1, StrippedFacts
    <2>3. QED
      BY <2>1, <2>2
  <1>5. Append(slashed, "swaig") = Below(s, "swaig")
    <2>1. PICK u : u = s
      OBVIOUS
    <2>2. u \in Path
      BY <1>4, <2>1
    <2>3. <<"/">> \in Path /\ <<"swaig">> \in Path
            /\ <<"/">> \o <<"swaig">> = <<"/", "swaig">>
      BY SlashIsPart, Singles DEF Path
    <2>4. u \o <<"/">> \in Path
      BY <2>2, <2>3, ConcatProperties DEF Path
    <2>5. Append(u \o <<"/">>, "swaig") = (u \o <<"/">>) \o <<"swaig">>
      BY <2>4, SlashIsPart, AppendIsConcat DEF Path
    <2>6. (u \o <<"/">>) \o <<"swaig">> = u \o (<<"/">> \o <<"swaig">>)
      BY <2>2, <2>3, ConcatAssociative DEF Path
    <2>7. QED
      BY <1>4, <2>1, <2>3, <2>5, <2>6 DEF Below
  <1>6. QED
    BY <1>1, <1>3, <1>5, HostsLists, Zenon

\* The post-prompt goes beside it.
LEMMA PostPromptIsBelow ==
  ASSUME NEW ag, ag.postPrompt = None, NEW s, s \in Path, NEW c,
         NEW url, url = [path |-> Below(s, "swaig"), credentials |-> c]
  PROVE  Hosts!PostPromptUrl(ag, url) =
           [path |-> Below(s, "post_prompt"), credentials |-> c]
  <1>1. PICK p, n : p = Below(s, "swaig") /\ n = Len(s)
    OBVIOUS
  <1>2. /\ p \in Path /\ n \in Nat /\ Len(p) = n + 2
        /\ \A i \in 1..n : p[i] = s[i] /\ p[i] \in RouteParts
        /\ p[n + 1] = "/" /\ p[n + 2] = "swaig"
    <2>1. /\ Below(s, "swaig") \in Path /\ Len(s) \in Nat
          /\ Len(Below(s, "swaig")) = Len(s) + 2
          /\ \A i \in 1..Len(s) : Below(s, "swaig")[i] = s[i]
          /\ Below(s, "swaig")[Len(s) + 1] = "/" /\ Below(s, "swaig")[Len(s) + 2] = "swaig"
      <3>1. "swaig" \in RouteParts
        BY SlashIsPart
      <3>2. PICK name : name = "swaig"
        OBVIOUS
      <3>3. name \in RouteParts
        BY <3>1, <3>2
      <3>4. /\ Below(s, name) \in Path /\ Len(s) \in Nat
            /\ Len(Below(s, name)) = Len(s) + 2
            /\ \A i \in 1..Len(s) : Below(s, name)[i] = s[i]
            /\ Below(s, name)[Len(s) + 1] = "/" /\ Below(s, name)[Len(s) + 2] = name
        BY <3>3, BelowFacts
      <3>5. QED
        BY <3>2, <3>4
    <2>2. \A i \in 1..Len(s) : s[i] \in RouteParts
      BY ElementOfSeq DEF Path
    <2>3. QED
      BY <1>1, <2>1, <2>2
  <1>3. PICK places : places = {i \in DOMAIN p : Hosts!EndsWithSwaig(p, i)}
    OBVIOUS
  <1>4. n + 1 \in places /\ \A j \in places : j <= n + 1
    <2>1. DOMAIN p = 1..(n + 2)
      BY <1>2, LenProperties DEF Path
    <2>2. \A i \in DOMAIN p : Hosts!EndsWithSwaig(p, i) => i <= n + 1
      BY <1>2, <2>1 DEF Hosts!EndsWithSwaig
    <2>3. n + 1 \in DOMAIN p /\ Hosts!EndsWithSwaig(p, n + 1)
      <3>1. n + 1 \in 1..(n + 2) /\ (n + 1) + 1 = n + 2
        BY <1>2
      <3>2. QED
        BY <1>2, <2>1, <3>1 DEF Hosts!EndsWithSwaig
    <2>4. QED
      BY <1>3, <2>2, <2>3
  <1>5. PICK last : last = CHOOSE i \in places : \A j \in places : j <= i
    OBVIOUS
  <1>6. last = n + 1
    <2>1. last \in places /\ \A j \in places : j <= last
      BY <1>4, <1>5, Zenon
    <2>2. last <= n + 1 /\ n + 1 <= last /\ last \in Nat
      <3>1. last \in 1..(n + 2)
        BY <1>2, <1>3, <2>1, LenProperties DEF Path
      <3>2. QED
        BY <1>2, <1>4, <2>1, <3>1
    <2>3. QED
      BY <1>2, <2>2
  <1>7. SubSeq(p, 1, n + 1) = s \o <<"/">>
    <2>1. <<"/">> \in Path /\ Len(<<"/">>) = 1 /\ <<"/">>[1] = "/"
      BY SlashIsPart, Singles DEF Path
    <2>2. PICK u, v : u = SubSeq(p, 1, n + 1) /\ v = s \o <<"/">>
      OBVIOUS
    <2>3. /\ v \in Path /\ Len(v) = n + 1 /\ \A i \in 1..n : v[i] = s[i]
          /\ v[n + 1] = "/"
      <3>1. PICK t : t = <<"/">>
        OBVIOUS
      <3>2. /\ s \o t \in Path /\ Len(s \o t) = Len(s) + Len(t)
            /\ \A i \in 1..Len(s) : (s \o t)[i] = s[i]
            /\ \A i \in 1..Len(t) : (s \o t)[Len(s) + i] = t[i]
        BY <2>1, <3>1, ConcatList DEF Path
      <3>3. QED
        BY <1>1, <1>2, <2>1, <2>2, <3>1, <3>2
    <2>4. u \in Path /\ Len(u) = n + 1 /\ \A i \in 1..(n + 1) : u[i] = p[i]
      <3>1. \A i \in 1..(n + 1) : p[i] \in RouteParts
        BY <1>2, SlashIsPart
      <3>2. /\ SubSeq(p, 1, n + 1) \in Seq(RouteParts)
            /\ Len(SubSeq(p, 1, n + 1)) = IF 1 <= n + 1 THEN (n + 1) - 1 + 1 ELSE 0
            /\ \A i \in 1..((n + 1) - 1 + 1) : SubSeq(p, 1, n + 1)[i] = p[1 + i - 1]
        BY <1>2, <3>1, SubSeqProperties
      <3>3. Len(u) = n + 1
        BY <1>2, <2>2, <3>2
      <3>4. \A i \in 1..(n + 1) : u[i] = p[i]
        BY <1>2, <2>2, <3>2
      <3>5. QED
        BY <2>2, <3>2, <3>3, <3>4 DEF Path
    <2>5. \A i \in 1..(n + 1) : u[i] = v[i]
      BY <1>2, <2>3, <2>4
    <2>6. QED
      BY <2>2, <2>3, <2>4, <2>5, SeqEqual DEF Path
  <1>8. (s \o <<"/">>) \o <<"post_prompt">> = Below(s, "post_prompt")
    <2>1. /\ <<"/">> \in Path /\ <<"post_prompt">> \in Path
          /\ <<"/">> \o <<"post_prompt">> = <<"/", "post_prompt">>
      BY SlashIsPart, Singles DEF Path
    <2>2. (s \o <<"/">>) \o <<"post_prompt">> = s \o (<<"/">> \o <<"post_prompt">>)
      BY <2>1, ConcatAssociative DEF Path
    <2>3. QED
      BY <2>1, <2>2 DEF Below
  <1>9. Hosts!PostPromptUrl(ag, url) =
          [url EXCEPT !.path = SubSeq(p, 1, last) \o <<"post_prompt">>]
    <2>1. places # {} /\ url.path = p
      BY <1>1, <1>4
    <2>2. QED
      BY <1>3, <1>5, <2>1, Zenon DEF Hosts!PostPromptUrl
  <1>10. QED
    BY <1>6, <1>7, <1>8, <1>9

(***************************************************************************)
(* The entries beside the endpoints.                                       *)
(***************************************************************************)
LEMMA OthersAreEntries ==
  ASSUME NEW method \in {"GET", "POST"}, NEW path, path \in Path,
         NEW b, b \in Hosted \cup {None},
         NEW handler \in {"mcp", "debug", "sip", "health", "ready", "agents"}
  PROVE  Hosts!Entry(method, path, b, handler) \in Entries
  <1>1. PICK P : P = Path
    OBVIOUS
  <1>2. QED
    BY <1>1 DEF Hosts!Entry, Entries

\* Entries that are no hook.
Aside(t, s, hook) == \A e \in ToSet(t) : e.method = "GET" \/ e.path # Below(s, hook)

LEMMA AsideIsClear ==
  ASSUME NEW t, NEW a, NEW s, NEW hook, Aside(t, s, hook)
  PROVE  Clear(t, Wrong(a, s, hook))
  BY DEF Aside, Clear, Wrong, IsFor, ToSet

LEMMA HealthIs ==
  /\ Hosts!Health \in Seq(Entries)
  /\ \A e \in ToSet(Hosts!Health) : e.method = "GET" /\ e.agent = None
  <1>1. PICK e, f, E :
          /\ e = Hosts!Entry("GET", <<"/", "health">>, None, "health")
          /\ f = Hosts!Entry("GET", <<"/", "ready">>, None, "ready")
          /\ E = Entries
    OBVIOUS
  <1>2. <<"/", "health">> \in Path /\ <<"/", "ready">> \in Path
    BY SlashIsPart, Singles DEF Path
  <1>3. e \in E /\ f \in E
    BY <1>1, <1>2, OthersAreEntries
  <1>4. PICK t : t = <<e, f>>
    OBVIOUS
  <1>5. t \in Seq(E) /\ DOMAIN t = {1, 2} /\ t[1] = e /\ t[2] = f
    BY <1>3, <1>4
  <1>6. e.method = "GET" /\ f.method = "GET" /\ e.agent = None /\ f.agent = None
    BY <1>1 DEF Hosts!Entry
  <1>7. Hosts!Health = t
    BY <1>1, <1>4 DEF Hosts!Health
  <1>8. QED
    BY <1>1, <1>5, <1>6, <1>7 DEF ToSet

\* One entry, or none.
LEMMA AtMostOne ==
  ASSUME NEW e, e \in Entries, NEW given, NEW t, t = IF given THEN <<e>> ELSE <<>>
  PROVE  t \in Seq(Entries) /\ ToSet(t) \subseteq {e}
  <1>1. PICK E, u : E = Entries /\ u = <<e>>
    OBVIOUS
  <1>2. u \in Seq(E) /\ DOMAIN u = {1} /\ u[1] = e
    BY <1>1
  <1>3. <<>> \in Seq(E) /\ ToSet(<<>>) = {}
    BY DEF ToSet
  <1>4. ToSet(u) = {e}
    BY <1>2 DEF ToSet
  <1>5. t = u \/ t = <<>>
    BY <1>1
  <1>6. QED
    BY <1>1, <1>2, <1>3, <1>4, <1>5

(***************************************************************************)
(* The table of an agent that serves itself.                               *)
(***************************************************************************)
BaseOf(route) ==
  LET r == RootOf(route)
  IN  IF Len(r) > 1 /\ Last(r) = "/" THEN Front(r) ELSE r

LEMMA BaseFacts ==
  ASSUME NEW r, r \in Path
  PROVE  BaseOf(r) \in Path /\ BaseOf(r) # <<>>
  <1>1. PICK b, n : b = RootOf(r) /\ b \in Path /\ b # <<>> /\ n = Len(b) /\ n \in Nat
    <2>1. RootOf(r) \in Path /\ RootOf(r) # <<>> /\ Len(RootOf(r)) \in Nat
      BY RootFacts, LenProperties DEF Path
    <2>2. QED
      BY <2>1
  <1>2. CASE Len(b) > 1 /\ Last(b) = "/"
    <2>1. Hosts!Stripped(b) = Front(b)
      BY <1>1, <1>2, HostsLists DEF Hosts!Stripped
    <2>2. BaseOf(r) = Hosts!Stripped(b) /\ Hosts!Stripped(b) \in Path
      BY <1>1, <1>2, <2>1, StrippedFacts DEF BaseOf
    <2>3. Hosts!Stripped(b) # <<>>
      <3>1. b = Hosts!Stripped(b) \o <<"/">>
        BY <1>1, <1>2, StrippedFacts
      <3>2. <<"/">> \in Path /\ Len(<<"/">>) = 1
        BY SlashIsPart, Singles DEF Path
      <3>3. <<>> \o <<"/">> = <<"/">>
        BY <3>2, ConcatEmptySeq DEF Path
      <3>4. QED
        BY <1>2, <3>1, <3>2, <3>3
    <2>4. QED
      BY <2>2, <2>3
  <1>3. CASE ~(Len(b) > 1 /\ Last(b) = "/")
    BY <1>1, <1>3 DEF BaseOf
  <1>4. QED
    BY <1>2, <1>3

LEMMA AgentTableIs ==
  ASSUME NEW a, a \in Hosted, NEW ag, ag.route \in Path
  PROVE  LET t == Hosts!AgentTable(a, ag)
             base == BaseOf(ag.route)
         IN  /\ t \in Seq(Entries)
             /\ \A e \in ToSet(t) : e.agent \in {None, a}
             /\ Hosts!Entry("POST", base, a, "swml") \in ToSet(t)
             /\ \A hook \in Hooks :
                  LET s == Hosts!Stripped(base)
                  IN  Leads(t, Right(a, s, hook), Wrong(a, s, hook))
  <1>1. PICK base, ep : base = BaseOf(ag.route) /\ ep = Hosts!Endpoints(a, base)
    OBVIOUS
  <1>2. base \in Path /\ base # <<>>
    BY <1>1, BaseFacts
  <1>3. PICK mcp, debug :
          /\ mcp = Hosts!Entry("POST", Hosts!Join(base, "mcp"), a, "mcp")
          /\ debug = Hosts!Entry("GET", Hosts!Join(base, "debug"), a, "debug")
    OBVIOUS
  <1>4. PICK m, d : /\ m = IF ag.mcp THEN <<mcp>> ELSE <<>>
                    /\ d = IF ag.debug THEN <<debug>> ELSE <<>>
    OBVIOUS
  <1>5. Hosts!AgentTable(a, ag) = ((Hosts!Health \o ep) \o m) \o d
    BY <1>1, <1>3, <1>4, HostsLists, Zenon
    DEF Hosts!AgentTable, BaseOf, RootOf, Hosts!Slash
  <1>6. PICK s : s = Hosts!Stripped(base) /\ s \in Path
    BY <1>2, StrippedFacts
  <1>7. /\ mcp \in Entries /\ mcp.path = Below(s, "mcp") /\ mcp.agent = a
        /\ debug \in Entries /\ debug.method = "GET" /\ debug.agent = a
    <2>1. "mcp" \in RouteParts /\ "debug" \in RouteParts
      BY SlashIsPart
    <2>2. Hosts!Join(base, "mcp") = Below(s, "mcp") /\ Below(s, "mcp") \in Path
      <3>1. PICK name : name = "mcp" /\ name \in RouteParts
        BY <2>1
      <3>2. Hosts!Join(base, name) = Below(s, name) /\ Below(s, name) \in Path
        BY <1>2, <1>6, <3>1, JoinFacts, BelowFacts
      <3>3. QED
        BY <3>1, <3>2
    <2>3. Hosts!Join(base, "debug") \in Path
      <3>1. PICK name : name = "debug" /\ name \in RouteParts
        BY <2>1
      <3>2. Hosts!Join(base, name) = Below(s, name) /\ Below(s, name) \in Path
        BY <1>2, <1>6, <3>1, JoinFacts, BelowFacts
      <3>3. QED
        BY <3>1, <3>2
    <2>4. mcp \in Entries /\ debug \in Entries
      BY <1>3, <2>2, <2>3, OthersAreEntries
    <2>5. QED
      BY <1>3, <2>2, <2>4 DEF Hosts!Entry
  <1>8. m \in Seq(Entries) /\ ToSet(m) \subseteq {mcp}
          /\ d \in Seq(Entries) /\ ToSet(d) \subseteq {debug}
    BY <1>4, <1>7, AtMostOne
  <1>9. /\ ep \in Seq(Entries) /\ DOMAIN ep = 1..4
        /\ ep[1] = Hosts!Entry("GET", base, a, "swml")
        /\ ep[2] = Hosts!Entry("POST", base, a, "swml")
        /\ ep[3] = Hosts!Entry("POST", Below(s, "swaig"), a, "swaig")
        /\ ep[4] = Hosts!Entry("POST", Below(s, "post_prompt"), a, "post_prompt")
    BY <1>1, <1>2, <1>6, EndpointsAre
  <1>10. \A e \in ToSet(ep) : e.agent = a
    <2>1. \A i \in 1..4 : ep[i].agent = a
      <3>1. 1..4 = {1, 2, 3, 4}
        OBVIOUS
      <3>2. QED
        BY <1>9, <3>1 DEF Hosts!Entry
    <2>2. QED
      BY <1>9, <2>1 DEF ToSet
  <1>11. Hosts!Entry("POST", base, a, "swml") \in ToSet(ep)
    <2>1. 2 \in DOMAIN ep
      BY <1>9
    <2>2. QED
      BY <1>9, <2>1 DEF ToSet
  <1>12. PICK t1, t2 : t1 = Hosts!Health \o ep /\ t2 = t1 \o m
    OBVIOUS
  <1>13. /\ t1 \in Seq(Entries) /\ t2 \in Seq(Entries) /\ t2 \o d \in Seq(Entries)
         /\ ToSet(t1) = ToSet(Hosts!Health) \cup ToSet(ep)
         /\ ToSet(t2) = ToSet(t1) \cup ToSet(m)
         /\ ToSet(t2 \o d) = ToSet(t2) \cup ToSet(d)
    <2>1. t1 \in Seq(Entries) /\ ToSet(t1) = ToSet(Hosts!Health) \cup ToSet(ep)
      BY <1>9, <1>12, HealthIs, ConcatProperties, ConcatElements
    <2>2. t2 \in Seq(Entries) /\ ToSet(t2) = ToSet(t1) \cup ToSet(m)
      <3>1. m \in Seq(Entries) /\ t1 \in Seq(Entries)
        BY <1>8, <2>1
      <3>2. t1 \o m \in Seq(Entries) /\ ToSet(t1 \o m) = ToSet(t1) \cup ToSet(m)
        BY <3>1, ConcatProperties, ConcatElements
      <3>3. QED
        BY <1>12, <3>2
    <2>3. t2 \o d \in Seq(Entries) /\ ToSet(t2 \o d) = ToSet(t2) \cup ToSet(d)
      BY <1>8, <2>2, ConcatProperties, ConcatElements
    <2>4. QED
      BY <2>1, <2>2, <2>3
  <1>14. ASSUME NEW hook \in Hooks
         PROVE  Leads(t2 \o d, Right(a, s, hook), Wrong(a, s, hook))
    <2>1. Leads(ep, Right(a, s, hook), Wrong(a, s, hook))
      BY <1>1, <1>2, <1>6, EndpointsLead
    <2>2. Clear(Hosts!Health, Wrong(a, s, hook))
      BY HealthIs, AsideIsClear DEF Aside
    <2>3. Leads(t1, Right(a, s, hook), Wrong(a, s, hook))
      BY <1>9, <1>12, <2>1, <2>2, HealthIs, LeadsAfter
    <2>4. Leads(t2, Right(a, s, hook), Wrong(a, s, hook))
      BY <1>8, <1>12, <1>13, <2>3, LeadsOn
    <2>5. QED
      BY <1>8, <1>13, <2>4, LeadsOn
  <1>15. \A e \in ToSet(t2 \o d) : e.agent \in {None, a}
    BY <1>7, <1>8, <1>10, <1>13, HealthIs
  <1>16. QED
    BY <1>1, <1>5, <1>6, <1>11, <1>12, <1>13, <1>14, <1>15

(***************************************************************************)
(* The table of a server with mounts.                                      *)
(***************************************************************************)
IsMounts(m) == \A r \in DOMAIN m : m[r] \in Hosted
PartsOf(m) ==
  [i \in DOMAIN Order |->
     IF Order[i] \notin DOMAIN m THEN <<>>
     ELSE Hosts!Endpoints(m[Order[i]], RootOf(Order[i]))]

LEMMA PartsAre ==
  ASSUME NEW m, IsMounts(m)
  PROVE  /\ PartsOf(m) \in Seq(Seq(Entries)) /\ DOMAIN PartsOf(m) = DOMAIN Order
         /\ \A i \in DOMAIN Order : Order[i] \in Path
  <1>1. PICK n \in Nat : n = Len(Order) /\ DOMAIN Order = 1..n
          /\ \A i \in 1..n : Order[i] \in Path
    BY RoutesAssumption, LenProperties, ElementOfSeq DEF Path
  <1>2. ASSUME NEW i \in 1..n PROVE PartsOf(m)[i] \in Seq(Entries)
    <2>1. CASE Order[i] \notin DOMAIN m
      <3>1. PartsOf(m)[i] = <<>>
        BY <1>1, <2>1 DEF PartsOf
      <3>2. QED
        BY <3>1, EmptySeq
    <2>2. CASE Order[i] \in DOMAIN m
      <3>1. PartsOf(m)[i] = Hosts!Endpoints(m[Order[i]], RootOf(Order[i]))
        BY <1>1, <2>2 DEF PartsOf
      <3>2. m[Order[i]] \in Hosted /\ RootOf(Order[i]) \in Path /\ RootOf(Order[i]) # <<>>
        BY <1>1, <2>2, RootFacts DEF IsMounts
      <3>3. QED
        BY <3>1, <3>2, EndpointsAre
    <2>3. QED
      BY <2>1, <2>2
  <1>3. PICK p, S : p = PartsOf(m) /\ S = Seq(Entries)
    OBVIOUS
  <1>4. p = [i \in 1..n |-> p[i]] /\ DOMAIN p = 1..n
    BY <1>1, <1>3 DEF PartsOf
  <1>5. \A i \in 1..n : p[i] \in S
    BY <1>2, <1>3
  <1>6. p \in Seq(S)
    BY <1>4, <1>5
  <1>7. QED
    BY <1>1, <1>3, <1>4, <1>6

ServersOwn == <<Hosts!Entry("GET", <<"/", "agents">>, None, "agents")>>
SipRoute(on) == IF on THEN <<Hosts!Entry("POST", <<"/", "sip">>, None, "sip")>> ELSE <<>>

LEMMA OwnAre ==
  ASSUME NEW on
  PROVE  /\ ServersOwn \in Seq(Entries) /\ SipRoute(on) \in Seq(Entries)
         /\ \A e \in ToSet(ServersOwn) : e.method = "GET" /\ e.agent = None
         /\ \A e \in ToSet(SipRoute(on)) : e.handler = "sip" /\ e.agent = None
  <1>1. PICK e, f : /\ e = Hosts!Entry("GET", <<"/", "agents">>, None, "agents")
                    /\ f = Hosts!Entry("POST", <<"/", "sip">>, None, "sip")
    OBVIOUS
  <1>2. <<"/", "agents">> \in Path /\ <<"/", "sip">> \in Path
    BY SlashIsPart, Singles DEF Path
  <1>3. e \in Entries /\ f \in Entries
    BY <1>1, <1>2, OthersAreEntries
  <1>4. /\ e.method = "GET" /\ e.agent = None /\ f.handler = "sip" /\ f.agent = None
    BY <1>1 DEF Hosts!Entry
  <1>5. ServersOwn = IF TRUE THEN <<e>> ELSE <<>>
    BY <1>1 DEF ServersOwn
  <1>6. SipRoute(on) = IF on THEN <<f>> ELSE <<>>
    BY <1>1 DEF SipRoute
  <1>7. ServersOwn \in Seq(Entries) /\ ToSet(ServersOwn) \subseteq {e}
    BY <1>3, <1>5, AtMostOne
  <1>8. SipRoute(on) \in Seq(Entries) /\ ToSet(SipRoute(on)) \subseteq {f}
    BY <1>3, <1>6, AtMostOne
  <1>9. QED
    BY <1>4, <1>7, <1>8

LEMMA ServerTableIs ==
  ASSUME NEW m, IsMounts(m), NEW on
  PROVE  LET t == Hosts!ServerTable(m, on) IN
         /\ t = ((Hosts!Health \o ServersOwn) \o FlattenSeq(PartsOf(m))) \o SipRoute(on)
         /\ Hosts!Health \o ServersOwn \in Seq(Entries)
         /\ FlattenSeq(PartsOf(m)) \in Seq(Entries)
         /\ t \in Seq(Entries)
         /\ \A e \in ToSet(t) :
              e.agent = None \/ \E i \in DOMAIN Order : e \in ToSet(PartsOf(m)[i])
         /\ \A i \in DOMAIN Order : ToSet(PartsOf(m)[i]) \subseteq ToSet(t)
         /\ \A e \in ToSet(Hosts!Health \o ServersOwn) : e.method = "GET"
  <1>1. PICK parts, flat, own, sip, first, two, all :
          /\ parts = PartsOf(m) /\ flat = FlattenSeq(parts)
          /\ own = ServersOwn /\ sip = SipRoute(on)
          /\ first = Hosts!Health \o own /\ two = first \o flat /\ all = two \o sip
    OBVIOUS
  <1>2. Hosts!ServerTable(m, on) = all
    <2>1. parts = [i \in DOMAIN Order |->
                     IF Order[i] \notin DOMAIN m THEN <<>>
                     ELSE Hosts!Endpoints(m[Order[i]],
                            IF Order[i] = <<>> THEN Hosts!Slash ELSE Order[i])]
      BY <1>1, Zenon DEF PartsOf, RootOf, Hosts!Slash
    <2>2. QED
      BY <1>1, <2>1, HostsLists, Zenon DEF Hosts!ServerTable, ServersOwn, SipRoute
  <1>3. parts \in Seq(Seq(Entries)) /\ DOMAIN parts = DOMAIN Order
    BY <1>1, PartsAre
  <1>4. flat \in Seq(Entries)
    <2>1. CASE Len(parts) > 0
      <3>1. PICK f \in [0..Len(parts) -> Seq(Entries)] :
              /\ f[0] = <<>> /\ f[Len(parts)] = FlattenSeq(parts)
              /\ \A j \in 1..Len(parts) : f[j] = f[j-1] \o parts[j]
        BY <1>3, <2>1, FlattenLoop
      <3>2. Len(parts) \in 0..Len(parts)
        BY <2>1, <1>3, LenProperties
      <3>3. QED
        BY <1>1, <3>1, <3>2
    <2>2. CASE Len(parts) = 0
      <3>1. parts = <<>>
        BY <1>3, <2>2, EmptySeq
      <3>2. flat = <<>>
        BY <1>1, <2>2, <3>1 DEF FlattenSeq
      <3>3. QED
        BY <3>2, EmptySeq
    <2>3. QED
      BY <1>3, <2>1, <2>2, LenProperties
  <1>5. /\ own \in Seq(Entries) /\ sip \in Seq(Entries)
        /\ \A e \in ToSet(own) : e.method = "GET" /\ e.agent = None
        /\ \A e \in ToSet(sip) : e.handler = "sip" /\ e.agent = None
    BY <1>1, OwnAre
  <1>6. first \in Seq(Entries) /\ ToSet(first) = ToSet(Hosts!Health) \cup ToSet(own)
    BY <1>1, <1>5, HealthIs, ConcatProperties, ConcatElements
  <1>7. two \in Seq(Entries) /\ ToSet(two) = ToSet(first) \cup ToSet(flat)
    <2>1. first \o flat \in Seq(Entries)
            /\ ToSet(first \o flat) = ToSet(first) \cup ToSet(flat)
      BY <1>4, <1>6, ConcatProperties, ConcatElements
    <2>2. QED
      BY <1>1, <2>1
  <1>8. all \in Seq(Entries) /\ ToSet(all) = ToSet(two) \cup ToSet(sip)
    <2>1. two \o sip \in Seq(Entries) /\ ToSet(two \o sip) = ToSet(two) \cup ToSet(sip)
      BY <1>5, <1>7, ConcatProperties, ConcatElements
    <2>2. QED
      BY <1>1, <2>1
  <1>9. \A e : e \in ToSet(flat) <=> \E i \in DOMAIN Order : e \in ToSet(parts[i])
    BY <1>1, <1>3, FlattenElements
  <1>10. \A e \in ToSet(first) : e.method = "GET" /\ e.agent = None
    BY <1>5, <1>6, HealthIs
  <1>11. \A e \in ToSet(all) :
           e.agent = None \/ \E i \in DOMAIN Order : e \in ToSet(parts[i])
    BY <1>5, <1>7, <1>8, <1>9, <1>10
  <1>12. \A i \in DOMAIN Order : ToSet(parts[i]) \subseteq ToSet(all)
    BY <1>7, <1>8, <1>9
  <1>13. QED
    BY <1>1, <1>2, <1>4, <1>6, <1>8, <1>10, <1>11, <1>12

\* Order has no path before one that it goes on from.
LEMMA EarlierInOrder ==
  ASSUME NEW i, i \in DOMAIN Order, NEW j, j \in DOMAIN Order,
         NEW s, s \in Path, Hosts!Stripped(RootOf(Order[i])) = s,
         NEW name, name \in RouteParts, RootOf(Order[j]) = Below(s, name)
  PROVE  i < j
  <1>1. Order[i] \in Path /\ Order[j] \in Path
    BY RoutesAssumption, LenProperties, ElementOfSeq DEF Path
  <1>2. PICK b, l : b = Below(s, name) /\ l = Len(s) /\ b \in Path /\ b # <<>> /\ l \in Nat
                      /\ Len(b) = l + 2
    <2>1. /\ Below(s, name) \in Path /\ Below(s, name) # <<>> /\ Len(s) \in Nat
          /\ Len(Below(s, name)) = Len(s) + 2
      BY BelowFacts
    <2>2. QED
      BY <2>1
  <1>3. Order[j] = b
    <2>1. CASE Order[j] = <<>>
      <3>1. RootOf(Order[j]) = <<"/">> /\ Len(<<"/">>) = 1
        BY <2>1 DEF RootOf
      <3>2. QED
        BY <1>2, <3>1
    <2>2. CASE Order[j] # <<>>
      BY <1>2, <2>2 DEF RootOf
    <2>3. QED
      BY <2>1, <2>2
  <1>4. Starts(Order[i], b) /\ Order[i] # b
    <2>1. CASE Order[i] = <<>>
      <3>1. Len(<<>>) = 0
        OBVIOUS
      <3>2. QED
        BY <1>2, <2>1, <3>1 DEF Starts
    <2>2. CASE Order[i] # <<>>
      <3>1. RootOf(Order[i]) = Order[i]
        BY <2>2 DEF RootOf
      <3>2. PICK r : r = Order[i] /\ r \in Path /\ Hosts!Stripped(r) = s
        BY <1>1, <3>1
      <3>3. Starts(r, Below(s, name)) /\ r # Below(s, name)
        BY <3>2, GoesOn
      <3>4. QED
        BY <1>2, <3>2, <3>3
    <2>3. QED
      BY <2>1, <2>2
  <1>5. IsStrictPrefix(Order[i], Order[j])
    <2>1. PICK r : r = Order[i] /\ r \in Path
      BY <1>1
    <2>2. Iterators!IsPrefix(r, b)
      BY <1>2, <1>4, <2>1, StartsIsPrefix DEF Path
    <2>3. IsPrefix(r, b)
      BY <2>2 DEF IsPrefix, Iterators!IsPrefix
    <2>4. QED
      BY <1>3, <1>4, <2>1, <2>3 DEF IsStrictPrefix
  <1>6. QED
    BY <1>5, RoutesAssumption

LEMMA ServerTableLeads ==
  ASSUME NEW m, IsMounts(m), NEW on,
         NEW i, i \in DOMAIN Order, Order[i] \in DOMAIN m, NEW a, a = m[Order[i]],
         NEW s, s \in Path, s = Hosts!Stripped(RootOf(Order[i])),
         \A j \in DOMAIN Order :
           Order[j] \in DOMAIN m /\ Hosts!Stripped(RootOf(Order[j])) = s => m[Order[j]] = a,
         NEW hook \in Hooks
  PROVE  Leads(Hosts!ServerTable(m, on), Right(a, s, hook), Wrong(a, s, hook))
  <1>1. PICK parts, F, W : parts = PartsOf(m) /\ F = Right(a, s, hook)
          /\ W = Wrong(a, s, hook)
    OBVIOUS
  <1>2. /\ parts \in Seq(Seq(Entries)) /\ DOMAIN parts = DOMAIN Order
        /\ \A j \in DOMAIN Order : Order[j] \in Path
    BY <1>1, PartsAre
  <1>3. \A j \in DOMAIN Order :
          /\ RootOf(Order[j]) \in Path /\ RootOf(Order[j]) # <<>>
          /\ Order[j] \in DOMAIN m => m[Order[j]] \in Hosted
                /\ parts[j] = Hosts!Endpoints(m[Order[j]], RootOf(Order[j]))
          /\ Order[j] \notin DOMAIN m => parts[j] = <<>>
    BY <1>1, <1>2, RootFacts DEF IsMounts, PartsOf
  <1>4. Leads(parts[i], F, W)
    <2>1. Leads(Hosts!Endpoints(a, RootOf(Order[i])), F, W)
      BY <1>1, <1>3, EndpointsLead
    <2>2. QED
      BY <1>3, <2>1
  <1>5. ASSUME NEW j \in DOMAIN Order, j < i PROVE Clear(parts[j], W)
    <2>1. CASE Order[j] \notin DOMAIN m
      BY <1>3, <2>1 DEF Clear
    <2>2. CASE Order[j] \in DOMAIN m
      <3>1. RootOf(Order[j]) # Below(s, hook)
        <4>1. hook \in RouteParts
          BY SlashIsPart DEF Hooks
        <4>2. i \in Nat /\ j \in Nat
          BY <1>2, LenProperties
        <4>3. RootOf(Order[j]) = Below(s, hook) => i < j
          BY <4>1, EarlierInOrder
        <4>4. QED
          BY <1>5, <4>2, <4>3
      <3>2. PICK b, base : b = m[Order[j]] /\ base = RootOf(Order[j])
        OBVIOUS
      <3>3. /\ b \in Hosted /\ base \in Path /\ base # <<>> /\ base # Below(s, hook)
            /\ Hosts!Stripped(base) = s => b = a
        BY <1>3, <2>2, <3>1, <3>2
      <3>4. Clear(Hosts!Endpoints(b, base), W)
        BY <1>1, <3>3, EndpointsClear
      <3>5. QED
        BY <1>3, <2>2, <3>2, <3>4
    <2>3. QED
      BY <2>1, <2>2
  <1>6. Leads(FlattenSeq(parts), F, W)
    BY <1>2, <1>4, <1>5, LeadsInside
  <1>7. PICK t, first, flat, sip :
          /\ t = Hosts!ServerTable(m, on) /\ flat = FlattenSeq(parts)
          /\ first = Hosts!Health \o ServersOwn /\ sip = SipRoute(on)
    OBVIOUS
  <1>8. /\ t = (first \o flat) \o sip
        /\ first \in Seq(Entries) /\ flat \in Seq(Entries) /\ sip \in Seq(Entries)
        /\ \A e \in ToSet(first) : e.method = "GET"
    BY <1>1, <1>7, ServerTableIs, OwnAre
  <1>9. Clear(first, W)
    BY <1>1, <1>8, AsideIsClear DEF Aside
  <1>10. Leads(first \o flat, F, W) /\ first \o flat \in Seq(Entries)
    BY <1>6, <1>7, <1>8, <1>9, LeadsAfter, ConcatProperties
  <1>11. Leads((first \o flat) \o sip, F, W)
    BY <1>8, <1>10, LeadsOn
  <1>12. QED
    BY <1>1, <1>7, <1>8, <1>11

(***************************************************************************)
(* The invariant: the table of the server that runs was made of the agents *)
(* as they are, for nothing of an agent changes while it is served; those   *)
(* it serves have their credentials.                                        *)
(***************************************************************************)
IsAgent(ag) ==
  /\ ag = [route |-> ag.route, authInitialized |-> ag.authInitialized, proxy |-> ag.proxy,
           webhook |-> ag.webhook, postPrompt |-> ag.postPrompt, mcp |-> ag.mcp,
           debug |-> ag.debug]
  /\ ag.route \in Path

AgentServes(h, a) ==
  h.agents[a].authInitialized = TRUE /\ h.server = Hosts!AgentTable(a, h.agents[a])

ServerServes(h, m, on) ==
  /\ IsMounts(m) /\ h.server = Hosts!ServerTable(m, on)
  /\ \A r \in DOMAIN m : h.agents[m[r]].authInitialized = TRUE

HostInv ==
  /\ state = [agents |-> state.agents, mounts |-> state.mounts,
              sipRouting |-> state.sipRouting, server |-> state.server,
                      calls |-> state.calls]
  /\ state.agents = [a \in Hosted |-> state.agents[a]]
  /\ \A a \in Hosted : IsAgent(state.agents[a])
  /\ IsMounts(state.mounts)
  /\ \/ state.server = None
     \/ \E a \in Hosted : AgentServes(state, a)
     \/ \E m, on : ServerServes(state, m, on)

LEMMA NormalizeFacts ==
  ASSUME NEW r \in Routes
  PROVE  Hosts!Normalize(r) \in Path
  <1>1. r \in Path /\ <<"/">> \in Path
    BY RoutesAssumption, SlashIsPart, Singles DEF Path
  <1>2. <<"/">> \o r \in Path
    BY <1>1, ConcatProperties DEF Path
  <1>3. QED
    BY <1>1, <1>2 DEF Hosts!Normalize, Hosts!Slash

LEMMA HostInit == ASSUME Hosts!Init PROVE HostInv
  <1>1. PICK route \in [Hosted -> Routes] :
          state = [agents |-> [a \in Hosted |-> Hosts!NewAgent(route[a])], mounts |-> <<>>,
                   sipRouting |-> FALSE, server |-> None, calls |-> 0]
    BY DEF Hosts!Init
  <1>2. /\ state.agents = [a \in Hosted |-> Hosts!NewAgent(route[a])]
        /\ state.mounts = <<>> /\ state.server = None
        /\ state = [agents |-> state.agents, mounts |-> state.mounts,
                    sipRouting |-> state.sipRouting, server |-> state.server,
                    calls |-> state.calls]
    BY <1>1
  <1>3. \A a \in Hosted : IsAgent(state.agents[a])
    <2>1. ASSUME NEW a \in Hosted PROVE IsAgent(Hosts!NewAgent(route[a]))
      <3>1. Hosts!Normalize(route[a]) \in Path
        BY NormalizeFacts
      <3>2. QED
        BY <3>1 DEF IsAgent, Hosts!NewAgent
    <2>2. QED
      BY <1>2, <2>1
  <1>4. IsMounts(state.mounts)
    BY <1>2 DEF IsMounts
  <1>5. QED
    BY <1>2, <1>3, <1>4 DEF HostInv

\* Something is set about an agent that is not served.
LEMMA SetKept ==
  ASSUME HostInv, NEW a \in Hosted, NEW ag, IsAgent(ag), Hosts!Set(a, ag)
  PROVE  HostInv'
  <1>1. state.server = None
          /\ state' = [[state EXCEPT !.agents[a] = ag] EXCEPT !.calls = @ + 1]
    BY DEF Hosts!Set, Hosts!Stopped, Hosts!Becomes
  <1>2. /\ state'.agents = [state.agents EXCEPT ![a] = ag] /\ state'.server = None
        /\ state'.mounts = state.mounts
        /\ state' = [agents |-> state'.agents, mounts |-> state'.mounts,
                     sipRouting |-> state'.sipRouting, server |-> state'.server,
                     calls |-> state'.calls]
    BY <1>1 DEF HostInv
  <1>3. /\ state'.agents = [b \in Hosted |-> state'.agents[b]]
        /\ \A b \in Hosted : state'.agents[b] = IF b = a THEN ag ELSE state.agents[b]
    BY <1>2 DEF HostInv
  <1>4. \A b \in Hosted : IsAgent(state'.agents[b])
    BY <1>3 DEF HostInv
  <1>5. QED
    BY <1>2, <1>3, <1>4 DEF HostInv

LEMMA IsAgentExcept ==
  ASSUME NEW ag, IsAgent(ag), NEW x
  PROVE  /\ IsAgent([ag EXCEPT !.webhook = x]) /\ IsAgent([ag EXCEPT !.postPrompt = x])
         /\ IsAgent([ag EXCEPT !.proxy = x]) /\ IsAgent([ag EXCEPT !.mcp = x])
         /\ IsAgent([ag EXCEPT !.debug = x])
         /\ x \in Path => IsAgent([ag EXCEPT !.route = x])
         /\ IsAgent(Hosts!InitAuth(ag)) /\ Hosts!InitAuth(ag).authInitialized = TRUE
  <1>1. PICK r, i, p, w, q, m, d :
          /\ r = ag.route /\ i = ag.authInitialized /\ p = ag.proxy /\ w = ag.webhook
          /\ q = ag.postPrompt /\ m = ag.mcp /\ d = ag.debug
    OBVIOUS
  <1>2. /\ r \in Path
        /\ ag = [route |-> r, authInitialized |-> i, proxy |-> p, webhook |-> w,
                 postPrompt |-> q, mcp |-> m, debug |-> d]
    BY <1>1 DEF IsAgent
  <1>3. IsAgent([ag EXCEPT !.webhook = x]) /\ IsAgent([ag EXCEPT !.postPrompt = x])
    BY <1>2 DEF IsAgent
  <1>4. IsAgent([ag EXCEPT !.proxy = x]) /\ IsAgent([ag EXCEPT !.mcp = x])
    BY <1>2 DEF IsAgent
  <1>5. IsAgent([ag EXCEPT !.debug = x]) /\ (x \in Path => IsAgent([ag EXCEPT !.route = x]))
    BY <1>2 DEF IsAgent
  <1>6. PICK n : n = [ag EXCEPT !.authInitialized = TRUE]
    OBVIOUS
  <1>7. n = [route |-> r, authInitialized |-> TRUE, proxy |-> p, webhook |-> w,
             postPrompt |-> q, mcp |-> m, debug |-> d]
    BY <1>2, <1>6
  <1>8. IsAgent(n) /\ n.authInitialized = TRUE
    BY <1>2, <1>7 DEF IsAgent
  <1>9. QED
    BY <1>3, <1>4, <1>5, <1>6, <1>8 DEF Hosts!InitAuth

\* A mount comes or goes: not in the table of a server that runs.
LEMMA MountsKept ==
  ASSUME HostInv, NEW m, IsMounts(m), NEW on,
         state' = [state EXCEPT !.mounts = m, !.sipRouting = on, !.calls = @ + 1]
  PROVE  HostInv'
  <1>1. /\ state'.agents = state.agents /\ state'.server = state.server
        /\ state'.mounts = m
        /\ state' = [agents |-> state'.agents, mounts |-> state'.mounts,
                     sipRouting |-> state'.sipRouting, server |-> state'.server,
                     calls |-> state'.calls]
    BY DEF HostInv
  <1>2. \/ state'.server = None
        \/ \E a \in Hosted : AgentServes(state', a)
        \/ \E n, o : ServerServes(state', n, o)
    <2>1. \A a : AgentServes(state, a) => AgentServes(state', a)
      BY <1>1 DEF AgentServes
    <2>2. \A n, o : ServerServes(state, n, o) => ServerServes(state', n, o)
      BY <1>1 DEF ServerServes
    <2>3. QED
      BY <1>1, <2>1, <2>2 DEF HostInv
  <1>3. QED
    BY <1>1, <1>2 DEF HostInv

LEMMA HostStep == ASSUME HostInv, Hosts!Next PROVE HostInv'
  <1>a. \A a \in Hosted : IsAgent(state.agents[a])
    BY DEF HostInv
  <1>1. ASSUME NEW a \in Hosted,
               Hosts!SetWebhookUrl(a) \/ Hosts!SetPostPromptUrl(a) \/ Hosts!ManualSetProxyUrl(a)
                 \/ Hosts!SetRoute(a) \/ Hosts!SetAuth(a) \/ Hosts!EnableMcpServer(a)
                 \/ Hosts!EnableDebugRoutes(a)
        PROVE  HostInv'
    <2>1. CASE Hosts!SetWebhookUrl(a)
      BY <1>a, <2>1, IsAgentExcept, SetKept DEF Hosts!SetWebhookUrl
    <2>2. CASE Hosts!SetPostPromptUrl(a)
      BY <1>a, <2>2, IsAgentExcept, SetKept DEF Hosts!SetPostPromptUrl
    <2>3. CASE Hosts!ManualSetProxyUrl(a)
      BY <1>a, <2>3, IsAgentExcept, SetKept DEF Hosts!ManualSetProxyUrl
    <2>4. CASE Hosts!SetRoute(a)
      <3>1. PICK r \in Routes :
              Hosts!Set(a, [state.agents[a] EXCEPT !.route = Hosts!Normalize(r)])
        BY <2>4 DEF Hosts!SetRoute
      <3>2. Hosts!Normalize(r) \in Path
        BY NormalizeFacts
      <3>3. IsAgent([state.agents[a] EXCEPT !.route = Hosts!Normalize(r)])
        BY <1>a, <3>2, IsAgentExcept
      <3>4. QED
        BY <3>1, <3>3, SetKept
    <2>5. CASE Hosts!SetAuth(a)
      BY <1>a, <2>5, IsAgentExcept, SetKept DEF Hosts!SetAuth
    <2>6. CASE Hosts!EnableMcpServer(a)
      <3>1. PICK x : Hosts!Set(a, [state.agents[a] EXCEPT !.mcp = x])
        BY <2>6, Zenon DEF Hosts!EnableMcpServer
      <3>2. QED
        BY <1>a, <3>1, IsAgentExcept, SetKept
    <2>7. CASE Hosts!EnableDebugRoutes(a)
      <3>1. PICK x : Hosts!Set(a, [state.agents[a] EXCEPT !.debug = x])
        BY <2>7, Zenon DEF Hosts!EnableDebugRoutes
      <3>2. QED
        BY <1>a, <3>1, IsAgentExcept, SetKept
    <2>8. QED
      BY <1>1, <2>1, <2>2, <2>3, <2>4, <2>5, <2>6, <2>7
  <1>2. ASSUME NEW a \in Hosted, Hosts!Serve(a) PROVE HostInv'
    <2>1. PICK ag : ag = Hosts!InitAuth(state.agents[a])
      OBVIOUS
    <2>2. IsAgent(ag) /\ ag.authInitialized = TRUE
      BY <1>a, <2>1, IsAgentExcept
    <2>3. state' = [state EXCEPT !.agents[a] = ag, !.server = Hosts!AgentTable(a, ag)]
      BY <1>2, <2>1, Zenon DEF Hosts!Serve
    <2>4. PICK t : t = Hosts!AgentTable(a, ag)
      OBVIOUS
    <2>5. /\ state'.agents = [state.agents EXCEPT ![a] = ag] /\ state'.server = t
          /\ state'.mounts = state.mounts
          /\ state' = [agents |-> state'.agents, mounts |-> state'.mounts,
                       sipRouting |-> state'.sipRouting, server |-> state'.server,
                       calls |-> state'.calls]
      BY <2>3, <2>4 DEF HostInv
    <2>6. /\ state'.agents = [b \in Hosted |-> state'.agents[b]]
          /\ \A b \in Hosted : state'.agents[b] = IF b = a THEN ag ELSE state.agents[b]
      BY <2>5 DEF HostInv
    <2>7. \A b \in Hosted : IsAgent(state'.agents[b])
      BY <1>a, <2>2, <2>6
    <2>8. AgentServes(state', a)
      BY <2>2, <2>4, <2>5, <2>6, Zenon DEF AgentServes
    <2>9. IsMounts(state'.mounts)
      BY <2>5 DEF HostInv
    <2>10. QED
      BY <2>5, <2>6, <2>7, <2>8, <2>9 DEF HostInv
  <1>3. ASSUME NEW a \in Hosted, NEW route \in Routes, Hosts!RegisterAgent(a, route)
        PROVE  HostInv'
    <2>1. PICK m : m = [r \in DOMAIN state.mounts \cup {Hosts!Normalize(route)} |->
                          IF r = Hosts!Normalize(route) THEN a ELSE state.mounts[r]]
      OBVIOUS
    <2>2. IsMounts(m)
      BY <2>1 DEF HostInv, IsMounts
    <2>3. state' = [[state EXCEPT !.mounts = m] EXCEPT !.calls = @ + 1]
      BY <1>3, <2>1, Zenon DEF Hosts!RegisterAgent, Hosts!Becomes
    <2>4. state' = [state EXCEPT !.mounts = m, !.sipRouting = state.sipRouting, !.calls =
            @ + 1]
      BY <2>3 DEF HostInv
    <2>5. QED
      BY <2>2, <2>4, MountsKept
  <1>4. ASSUME NEW route \in Routes, Hosts!UnregisterAgent(route) PROVE HostInv'
    <2>1. PICK m : m = [r \in DOMAIN state.mounts \ {route} |-> state.mounts[r]]
      OBVIOUS
    <2>2. IsMounts(m)
      BY <2>1 DEF HostInv, IsMounts
    <2>3. state' = [[state EXCEPT !.mounts = m] EXCEPT !.calls = @ + 1]
      BY <1>4, <2>1, Zenon DEF Hosts!UnregisterAgent, Hosts!Becomes
    <2>4. state' = [state EXCEPT !.mounts = m, !.sipRouting = state.sipRouting, !.calls =
            @ + 1]
      BY <2>3 DEF HostInv
    <2>5. QED
      BY <2>2, <2>4, MountsKept
  <1>5. CASE Hosts!EnableSipRouting
    <2>1. PICK on : state' = [[state EXCEPT !.sipRouting = on] EXCEPT !.calls = @ + 1]
      BY <1>5, Zenon DEF Hosts!EnableSipRouting, Hosts!Becomes
    <2>2. state' = [state EXCEPT !.mounts = state.mounts, !.sipRouting = on, !.calls =
            @ + 1]
      BY <2>1 DEF HostInv
    <2>3. IsMounts(state.mounts)
      BY DEF HostInv
    <2>4. QED
      BY <2>2, <2>3, MountsKept
  <1>6. CASE Hosts!Run
    <2>1. PICK g, t :
            /\ g = [a \in Hosted |-> IF a \in Hosts!MountedAgents
                                     THEN Hosts!InitAuth(state.agents[a]) ELSE state.agents[a]]
            /\ t = Hosts!ServerTable(state.mounts, state.sipRouting)
      OBVIOUS
    <2>2. state' = [state EXCEPT !.agents = g, !.server = t]
      BY <1>6, <2>1, Zenon DEF Hosts!Run
    <2>3. /\ state'.agents = g /\ state'.server = t /\ state'.mounts = state.mounts
          /\ state' = [agents |-> state'.agents, mounts |-> state'.mounts,
                       sipRouting |-> state'.sipRouting, server |-> state'.server,
                       calls |-> state'.calls]
      BY <2>2 DEF HostInv
    <2>4. \A a \in Hosted : /\ IsAgent(g[a])
                            /\ a \in Hosts!MountedAgents => g[a].authInitialized = TRUE
      <3>1. ASSUME NEW a \in Hosted
            PROVE  /\ IsAgent(Hosts!InitAuth(state.agents[a]))
                   /\ Hosts!InitAuth(state.agents[a]).authInitialized = TRUE
        BY <1>a, IsAgentExcept
      <3>2. QED
        BY <1>a, <2>1, <3>1
    <2>5. ServerServes(state', state.mounts, state.sipRouting)
      <3>1. \A r \in DOMAIN state.mounts :
              state.mounts[r] \in Hosted /\ state.mounts[r] \in Hosts!MountedAgents
        BY DEF HostInv, IsMounts, Hosts!MountedAgents
      <3>2. \A r \in DOMAIN state.mounts : g[state.mounts[r]].authInitialized = TRUE
        BY <2>4, <3>1
      <3>3. IsMounts(state.mounts)
        BY DEF HostInv
      <3>4. QED
        BY <2>1, <2>3, <3>2, <3>3 DEF ServerServes
    <2>6. g = [a \in Hosted |-> g[a]]
      BY <2>1
    <2>7. IsMounts(state'.mounts)
      BY <2>3 DEF HostInv
    <2>8. QED
      BY <2>3, <2>4, <2>5, <2>6, <2>7 DEF HostInv
  <1>7. CASE Hosts!Stop
    <2>1. state' = [state EXCEPT !.server = None]
      BY <1>7 DEF Hosts!Stop
    <2>2. /\ state'.agents = state.agents /\ state'.server = None
          /\ state'.mounts = state.mounts
          /\ state' = [agents |-> state'.agents, mounts |-> state'.mounts,
                       sipRouting |-> state'.sipRouting, server |-> state'.server,
                       calls |-> state'.calls]
      BY <2>1 DEF HostInv
    <2>3. QED
      BY <2>2 DEF HostInv
  <1>8. QED
    BY <1>1, <1>2, <1>3, <1>4, <1>5, <1>6, <1>7, Zenon DEF Hosts!Next

LEMMA HostInvariant == SdkSpec => [](part = "hosting" => HostInv)
  <1>1. SdkInit => (part = "hosting" => HostInv)
    BY HostInit DEF SdkInit
  <1>2. ASSUME part = "hosting" => HostInv, [SdkNext]_<<vars, part, state>>
        PROVE  (part = "hosting" => HostInv)'
    <2>1. SUFFICES ASSUME part' = "hosting" PROVE HostInv'
      OBVIOUS
    <2>2. CASE UNCHANGED <<vars, part, state>>
      BY <1>2, <2>1, <2>2 DEF HostInv, AgentServes, ServerServes
    <2>3. CASE SdkNext
      <3>1. part = "hosting"
        BY <2>1, <2>3 DEF SdkNext
      <3>2. Hosts!Next
        BY <2>3, <3>1 DEF SdkNext, OtherNext
      <3>3. QED
        BY <1>2, <3>1, <3>2, HostStep
    <2>4. QED
      BY <1>2, <2>2, <2>3
  <1>3. QED
    BY <1>1, <1>2, PTL DEF SdkSpec

\* Of the entries that give the documents, the agent's are those at its route.
LEMMA ServedMeans ==
  ASSUME NEW a, Hosts!ServedAtItsRoute(a),
         NEW p, NEW b, Hosts!Entry("POST", p, b, "swml") \in ToSet(state.server)
  PROVE  Hosts!Stripped(p) = Hosts!Stripped(RootOf(state.agents[a].route)) <=> b = a
  <1>1. PICK e : e = Hosts!Entry("POST", p, b, "swml")
    OBVIOUS
  <1>2. e.method = "POST" /\ e.handler = "swml" /\ e.path = p /\ e.agent = b
    BY <1>1 DEF Hosts!Entry
  <1>3. e \in {y \in Hosts!ToSet(state.server) : y.method = "POST" /\ y.handler = "swml"}
    BY <1>1, <1>2, HostsLists
  <1>4. (Hosts!Stripped(e.path) =
          Hosts!Stripped(RootOf(state.agents[a].route))) <=> e.agent = a
    BY <1>3, Zenon DEF Hosts!ServedAtItsRoute, RootOf, Hosts!Slash
  <1>5. QED
    BY <1>2, <1>4

\* The entries of a mount.
LEMMA PartEntries ==
  ASSUME NEW m, IsMounts(m), NEW i, i \in DOMAIN Order
  PROVE  /\ \A e \in ToSet(PartsOf(m)[i]) : Order[i] \in DOMAIN m /\ e.agent = m[Order[i]]
         /\ Order[i] \in DOMAIN m =>
              Hosts!Entry("POST", RootOf(Order[i]), m[Order[i]], "swml")
                \in ToSet(PartsOf(m)[i])
  <1>1. CASE Order[i] \notin DOMAIN m
    <2>1. PartsOf(m)[i] = <<>>
      BY <1>1 DEF PartsOf
    <2>2. ToSet(<<>>) = {}
      BY DEF ToSet
    <2>3. QED
      BY <1>1, <2>1, <2>2
  <1>2. CASE Order[i] \in DOMAIN m
    <2>1. PICK b, base, t :
            b = m[Order[i]] /\ base = RootOf(Order[i]) /\ t = Hosts!Endpoints(b, base)
      OBVIOUS
    <2>2. b \in Hosted /\ base \in Path /\ base # <<>>
      BY <1>2, <2>1, PartsAre, RootFacts DEF IsMounts
    <2>3. /\ DOMAIN t = 1..4
          /\ t[1] = Hosts!Entry("GET", base, b, "swml")
          /\ t[2] = Hosts!Entry("POST", base, b, "swml")
          /\ t[3] = Hosts!Entry("POST", Below(Hosts!Stripped(base), "swaig"), b, "swaig")
          /\ t[4] = Hosts!Entry("POST", Below(Hosts!Stripped(base), "post_prompt"), b,
                                "post_prompt")
      BY <2>1, <2>2, EndpointsAre
    <2>4. 1..4 = {1, 2, 3, 4}
      OBVIOUS
    <2>5. \A k \in 1..4 : t[k].agent = b
      BY <2>3, <2>4 DEF Hosts!Entry
    <2>6. (\A e \in ToSet(t) : e.agent = b) /\ t[2] \in ToSet(t)
      BY <2>3, <2>4, <2>5 DEF ToSet
    <2>7. PartsOf(m)[i] = t
      BY <1>2, <2>1 DEF PartsOf
    <2>8. QED
      BY <1>2, <2>1, <2>3, <2>6, <2>7
  <1>3. QED
    BY <1>1, <1>2

LEMMA HooksLead ==
  ASSUME HostInv, state.server # None,
         NEW a, NEW x, x \in ToSet(state.server), x.agent = a, a # None,
         Hosts!ServedAtItsRoute(a), NEW s, s =
                 Hosts!Stripped(RootOf(state.agents[a].route)),
         NEW hook \in Hooks
  PROVE  /\ a \in Hosted /\ state.agents[a].authInitialized = TRUE
         /\ state.server \in Seq(Entries)
         /\ Leads(state.server, Right(a, s, hook), Wrong(a, s, hook))
  <1>1. CASE \E b \in Hosted : AgentServes(state, b)
    <2>1. PICK b \in Hosted : AgentServes(state, b)
      BY <1>1
    <2>2. PICK ag, base, t : /\ ag = state.agents[b] /\ base = BaseOf(ag.route)
                             /\ t = Hosts!AgentTable(b, ag)
      OBVIOUS
    <2>3. ag.route \in Path /\ state.server = t /\ ag.authInitialized = TRUE
      BY <2>1, <2>2 DEF HostInv, AgentServes, IsAgent
    <2>4. /\ t \in Seq(Entries)
          /\ \A e \in ToSet(t) : e.agent \in {None, b}
          /\ Hosts!Entry("POST", base, b, "swml") \in ToSet(t)
          /\ Leads(t, Right(b, Hosts!Stripped(base), hook), Wrong(b, Hosts!Stripped(base),
                  hook))
      BY <2>2, <2>3, AgentTableIs
    <2>5. a = b
      BY <2>3, <2>4
    <2>6. Hosts!Stripped(base) = s
      <3>1. Hosts!Entry("POST", base, a, "swml") \in ToSet(state.server)
        BY <2>3, <2>4, <2>5
      <3>2. Hosts!Stripped(base) = Hosts!Stripped(RootOf(state.agents[a].route)) <=> a = a
        BY <3>1, ServedMeans
      <3>3. QED
        BY <3>2
    <2>7. QED
      BY <2>2, <2>3, <2>4, <2>5, <2>6
  <1>2. CASE \E m, on : ServerServes(state, m, on)
    <2>1. PICK m, on : ServerServes(state, m, on)
      BY <1>2
    <2>2. /\ IsMounts(m) /\ state.server = Hosts!ServerTable(m, on)
          /\ \A r \in DOMAIN m : state.agents[m[r]].authInitialized = TRUE
      BY <2>1 DEF ServerServes
    <2>3. /\ state.server \in Seq(Entries)
          /\ \A e \in ToSet(state.server) :
               e.agent = None \/ \E i \in DOMAIN Order : e \in ToSet(PartsOf(m)[i])
          /\ \A i \in DOMAIN Order : ToSet(PartsOf(m)[i]) \subseteq ToSet(state.server)
      BY <2>2, ServerTableIs
    <2>4. PICK i \in DOMAIN Order : x \in ToSet(PartsOf(m)[i])
      BY <2>3
    <2>5. Order[i] \in DOMAIN m /\ m[Order[i]] = a /\ Order[i] \in Path
      BY <2>2, <2>4, PartEntries, PartsAre
    <2>6. ASSUME NEW j \in DOMAIN Order, Order[j] \in DOMAIN m
          PROVE  Hosts!Stripped(RootOf(Order[j])) = s <=> m[Order[j]] = a
      <3>1. PICK p, b : p = RootOf(Order[j]) /\ b = m[Order[j]]
        OBVIOUS
      <3>2. Hosts!Entry("POST", p, b, "swml") \in ToSet(state.server)
        BY <2>2, <2>3, <2>6, <3>1, PartEntries
      <3>3. Hosts!Stripped(p) = Hosts!Stripped(RootOf(state.agents[a].route)) <=> b = a
        BY <3>2, ServedMeans
      <3>4. QED
        BY <3>1, <3>3
    <2>7. s = Hosts!Stripped(RootOf(Order[i])) /\ s \in Path
      BY <2>5, <2>6, RootFacts, StrippedFacts
    <2>8. Leads(Hosts!ServerTable(m, on), Right(a, s, hook), Wrong(a, s, hook))
      BY <2>2, <2>5, <2>6, <2>7, ServerTableLeads
    <2>9. a \in Hosted /\ state.agents[a].authInitialized = TRUE
      BY <2>2, <2>5 DEF IsMounts
    <2>10. QED
      BY <2>2, <2>3, <2>8, <2>9
  <1>3. QED
    BY <1>1, <1>2 DEF HostInv

LEMMA HooksFind ==
  ASSUME HostInv, state.server # None,
         NEW a, NEW x, x \in ToSet(state.server), x.agent = a, a # None,
         Hosts!ServedAtItsRoute(a),
         NEW ag, ag = state.agents[a], ag.webhook = None,
         NEW url, url = Hosts!BuildWebhookUrl(ag, <<>>)
  PROVE  /\ Hosts!Answer(state.server, "POST", url) = [agent |-> a, handler |-> "swaig"]
         /\ ag.postPrompt = None =>
              Hosts!Answer(state.server, "POST", Hosts!PostPromptUrl(ag, url))
                = [agent |-> a, handler |-> "post_prompt"]
  <1>1. PICK s : s = Hosts!Stripped(RootOf(state.agents[a].route))
    OBVIOUS
  <1>2. "swaig" \in Hooks /\ "post_prompt" \in Hooks
    BY DEF Hooks
  <1>3. /\ a \in Hosted /\ ag.authInitialized = TRUE /\ state.server \in Seq(Entries)
        /\ Leads(state.server, Right(a, s, "swaig"), Wrong(a, s, "swaig"))
        /\ Leads(state.server, Right(a, s, "post_prompt"), Wrong(a, s, "post_prompt"))
    BY <1>1, <1>2, HooksLead
  <1>4. ag.route \in Path /\ s \in Path
    <2>1. ag.route \in Path
      BY <1>3 DEF HostInv, IsAgent
    <2>2. QED
      BY <1>1, <2>1, RootFacts, StrippedFacts
  <1>5. url = [path |-> Below(s, "swaig"), credentials |-> TRUE]
    <2>1. Hosts!BuildWebhookUrl(ag, <<>>) =
            [path |-> Below(Hosts!Stripped(RootOf(ag.route)), "swaig"),
             credentials |-> ag.authInitialized]
      BY <1>4, HookIsBelow
    <2>2. QED
      BY <1>1, <1>3, <2>1
  <1>6. Hosts!Answer(state.server, "POST", url) = [agent |-> a, handler |-> "swaig"]
    <2>1. PICK t, hook : t = state.server /\ hook = "swaig"
      OBVIOUS
    <2>2. t \in Seq(Entries) /\ Leads(t, Right(a, s, hook), Wrong(a, s, hook))
      BY <1>3, <2>1
    <2>3. Hosts!Answer(t, "POST", [path |-> Below(s, hook), credentials |-> TRUE])
            = [agent |-> a, handler |-> hook]
      BY <2>2, LeaderAnswers
    <2>4. QED
      BY <1>5, <2>1, <2>3
  <1>7. ASSUME ag.postPrompt = None
        PROVE  Hosts!Answer(state.server, "POST", Hosts!PostPromptUrl(ag, url))
                 = [agent |-> a, handler |-> "post_prompt"]
    <2>1. PICK g, v, c : g = ag /\ v = url /\ c = TRUE
      OBVIOUS
    <2>2. g.postPrompt = None /\ v = [path |-> Below(s, "swaig"), credentials |-> c]
      BY <1>5, <1>7, <2>1
    <2>3. Hosts!PostPromptUrl(g, v) = [path |-> Below(s, "post_prompt"), credentials |-> c]
      BY <1>4, <2>2, PostPromptIsBelow
    <2>4. PICK t, hook : t = state.server /\ hook = "post_prompt"
      OBVIOUS
    <2>5. t \in Seq(Entries) /\ Leads(t, Right(a, s, hook), Wrong(a, s, hook))
      BY <1>3, <2>4
    <2>6. Hosts!Answer(t, "POST", [path |-> Below(s, hook), credentials |-> TRUE])
            = [agent |-> a, handler |-> hook]
      BY <2>5, LeaderAnswers
    <2>7. QED
      BY <2>1, <2>3, <2>4, <2>6
  <1>8. QED
    BY <1>6, <1>7

\* For any routes and mounts: a document for the agent's own host sends the calls of its
\* functions and its post-prompt to this agent's handlers, when the agent is served at its
\* route and no other is; on its own server and on one it is mounted on.
THEOREM HooksLeadHome == SdkSpec => []HooksAreServed
  <1>1. ASSUME HostInv PROVE Hosts!HooksAreServed
    <2>1. SUFFICES ASSUME state.server # None,
                          NEW a \in {x.agent : x \in Hosts!ToSet(state.server)} \ {None},
                          NEW headers \in Hosts!Headers,
                          Hosts!DetectProxyUrl(state.agents[a], headers) = <<>>,
                          Hosts!ServedAtItsRoute(a), state.agents[a].webhook = None,
                          NEW url, url = Hosts!BuildWebhookUrl(state.agents[a], <<>>)
                   PROVE  /\ Hosts!Answer(state.server, "POST", url)
                               = [agent |-> a, handler |-> "swaig"]
                          /\ state.agents[a].postPrompt = None =>
                               Hosts!Answer(state.server, "POST",
                                            Hosts!PostPromptUrl(state.agents[a], url))
                                 = [agent |-> a, handler |-> "post_prompt"]
      BY Zenon DEF Hosts!HooksAreServed, Hosts!Stopped
    <2>2. PICK x : x \in ToSet(state.server) /\ x.agent = a
      BY HostsLists
    <2>3. QED
      BY <1>1, <2>1, <2>2, HooksFind
  <1>2. (part = "hosting" => HostInv) => HooksAreServed
    BY <1>1 DEF HooksAreServed
  <1>3. QED
    BY <1>2, HostInvariant, PTL
===============================================================================
