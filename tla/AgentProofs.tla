------------------------------ MODULE AgentProofs ------------------------------
(***************************************************************************)
(* Theorems about Agent, for any names, skills and lifetime of a token: the  *)
(* registry stays consistent, skills install wholly or not at all, and a     *)
(* secure function runs by its token.                                        *)
(***************************************************************************)
EXTENDS Agent, NaturalsInduction, WellFoundedInduction, TLAPS

(***************************************************************************)
(* Loops. What a recursive function computes is shown along its argument.  *)
(***************************************************************************)
LEMMA Induction ==
  ASSUME NEW T, 0 \in T, \A n \in Nat : n \in T => n + 1 \in T
  PROVE  Nat \subseteq T
  <1> DEFINE R == OpToRel(<, Nat)
  <1>1. SUFFICES ASSUME Nat \ T # {} PROVE FALSE
    OBVIOUS
  <1>2. PICK k \in Nat \ T : \A y \in Nat \ T : ~ <<y, k>> \in R
    <2>1. IsWellFoundedOn(R, Nat)
      BY NatLessThanWellFounded
    <2>2. Nat \ T \subseteq Nat
      OBVIOUS
    <2> HIDE DEF R
    <2>3. QED
      BY <1>1, <2>1, <2>2, WFMin
  <1>3. k \in Nat /\ k # 0 /\ k - 1 \in Nat /\ k - 1 < k /\ k = (k - 1) + 1
    OBVIOUS
  <1>4. <<k - 1, k>> \in R
    BY <1>3 DEF OpToRel
  <1>5. k - 1 \in T
    BY <1>2, <1>3, <1>4, Zenon
  <1>6. QED
    BY <1>3, <1>5

LEMMA InductionTo ==
  ASSUME NEW n \in Nat, NEW T, 0 \in T, \A i \in 1..n : i - 1 \in T => i \in T
  PROVE  0..n \subseteq T
  <1> DEFINE U == {i \in Nat : i <= n => i \in T}
  <1>1. 0 \in U
    OBVIOUS
  <1>2. ASSUME NEW i \in Nat, i \in U PROVE i + 1 \in U
    <2>1. CASE i + 1 <= n
      <3>1. i + 1 \in 1..n /\ (i + 1) - 1 = i /\ i \in T
        BY <1>2, <2>1
      <3>2. QED
        BY <3>1
    <2>2. QED
      BY <2>1
  <1>3. Nat \subseteq U
    <2> HIDE DEF U
    <2>1. QED
      BY <1>1, <1>2, Induction
  <1>4. QED
    BY <1>3

\* A loop of n rounds, the i-th of which applies F[i], has a run.
LEMMA LoopRuns ==
  ASSUME NEW X, NEW x \in X, NEW n \in Nat, NEW F \in [1..n -> [X -> X]]
  PROVE  \E f \in [0..n -> X] : f[0] = x /\ \A i \in 1..n : f[i] = F[i][f[i-1]]
  <1> DEFINE Run(f, k) ==
               f \in [0..k -> X] /\ f[0] = x /\ \A i \in 1..k : f[i] = F[i][f[i-1]]
             T == {k \in 0..n : \E f : Run(f, k)}
  <1>1. 0 \in T
    <2> DEFINE f == [i \in 0..0 |-> x]
    <2>1. Run(f, 0)
      OBVIOUS
    <2> HIDE DEF f
    <2>2. \E g : Run(g, 0)
      BY <2>1
    <2>3. QED
      BY <2>2
  <1>2. ASSUME NEW k \in 1..n, k - 1 \in T PROVE k \in T
    <2>1. PICK f : Run(f, k - 1)
      BY <1>2
    <2> DEFINE g == [i \in 0..k |-> IF i = k THEN F[k][f[k-1]] ELSE f[i]]
    <2>2. k - 1 \in 0..(k-1) /\ f[k-1] \in X /\ F[k][f[k-1]] \in X
      BY <2>1
    <2>3. ASSUME NEW i \in 0..k PROVE g[i] \in X
      <3>1. i = k \/ i \in 0..(k-1)
        OBVIOUS
      <3>2. QED
        BY <2>1, <2>2, <3>1
    <2>4. g[0] = x
      BY <2>1
    <2>5. ASSUME NEW i \in 1..k PROVE g[i] = F[i][g[i-1]]
      <3>1. g[i-1] = f[i-1]
        OBVIOUS
      <3>2. CASE i = k
        BY <3>1, <3>2
      <3>3. CASE i # k
        <4>1. i \in 1..(k-1) /\ g[i] = f[i]
          BY <3>3
        <4>2. f[i] = F[i][f[i-1]]
          BY <2>1, <4>1
        <4>3. QED
          BY <3>1, <4>1, <4>2
      <3>4. QED
        BY <3>2, <3>3
    <2>6. g \in [0..k -> X]
      BY <2>3
    <2> HIDE DEF g
    <2>7. \E h : Run(h, k)
      BY <2>4, <2>5, <2>6
    <2>8. k \in 0..n
      OBVIOUS
    <2>9. QED
      BY <2>7, <2>8
  <1>3. 0..n \subseteq T
    <2> HIDE DEF T
    <2>1. QED
      BY <1>1, <1>2, InductionTo
  <1>4. \E f : Run(f, n)
    BY <1>3
  <1>5. QED
    BY <1>4

LEMMA PrefixGrows ==
  ASSUME NEW s, NEW i \in Nat, i >= 1
  PROVE  {s[j] : j \in 1..i} = {s[j] : j \in 1..(i-1)} \cup {s[i]}
  <1>1. 1..i = 1..(i-1) \cup {i}
    OBVIOUS
  <1>2. {s[j] : j \in 1..(i-1) \cup {i}} = {s[j] : j \in 1..(i-1)} \cup {s[i]}
    BY Zenon
  <1>3. QED
    BY <1>1, <1>2, Zenon

LEMMA AppendFacts ==
  ASSUME NEW S, NEW s \in Seq(S), NEW x \in S
  PROVE  /\ Append(s, x) \in Seq(S)
         /\ ToSet(Append(s, x)) = ToSet(s) \cup {x}
         /\ IsInjective(s) /\ x \notin ToSet(s) => IsInjective(Append(s, x))
  <1>1. /\ Append(s, x) \in Seq(S) /\ Len(s) \in Nat
        /\ DOMAIN s = 1..Len(s) /\ DOMAIN Append(s, x) = 1..(Len(s) + 1)
        /\ \A i \in 1..Len(s) : Append(s, x)[i] = s[i]
        /\ Append(s, x)[Len(s) + 1] = x
    OBVIOUS
  <1>2. PICK n, t : n \in Nat /\ n = Len(s) /\ t = Append(s, x)
    BY <1>1
  <1>3. ToSet(t) = ToSet(s) \cup {x}
    <2>1. 1..(n + 1) = 1..n \cup {n + 1}
      BY <1>2
    <2>2. \A y : y \in ToSet(t) <=> \E i \in 1..n \cup {n + 1} : y = t[i]
      BY <1>1, <1>2, <2>1, Zenon DEF ToSet
    <2>3. \A y : y \in ToSet(s) <=> \E i \in 1..n : y = s[i]
      BY <1>1, <1>2, Zenon DEF ToSet
    <2>4. (\A i \in 1..n : t[i] = s[i]) /\ t[n + 1] = x
      BY <1>1, <1>2
    <2>5. \A y : y \in ToSet(t) <=> y \in ToSet(s) \/ y = x
      BY <2>2, <2>3, <2>4, Zenon
    <2>6. QED
      BY <2>5, Zenon
  <1>4. ASSUME IsInjective(s), x \notin ToSet(s) PROVE IsInjective(t)
    <2>1. \A i \in 1..n : s[i] # x
      BY <1>1, <1>2, <1>4 DEF ToSet
    <2>2. QED
      BY <1>1, <1>2, <1>4, <2>1 DEF IsInjective
  <1>5. QED
    BY <1>1, <1>2, <1>3, <1>4

\* The loop of Keep.
LEMMA KeepLoop ==
  ASSUME NEW S, NEW s, s \in Seq(S), NEW T
  PROVE  \E kept : /\ Keep(s, T) = kept[Len(s)]
                   /\ kept[0] = <<>>
                   /\ \A i \in 1..Len(s) : kept[i] =
                        IF s[i] \in T THEN Append(kept[i-1], s[i]) ELSE kept[i-1]
  <1> DEFINE Step(i, q) == IF s[i] \in T THEN Append(q, s[i]) ELSE q
  <1>n. PICK n \in Nat : n = Len(s)
    OBVIOUS
  <1>X. PICK X : X = Seq(S)
    OBVIOUS
  <1>F. PICK F : F = [i \in 1..n |-> [q \in X |-> Step(i, q)]]
    OBVIOUS
  <1>0. \A i \in 1..n, q \in X : Step(i, q) \in X
    BY <1>n, <1>X
  <1> HIDE DEF Step
  <1>1. PICK f \in [0..n -> X] : f[0] = <<>> /\ \A i \in 1..n : f[i] = F[i][f[i-1]]
    <2>1. F \in [1..n -> [X -> X]]
      BY <1>0, <1>F
    <2>2. <<>> \in X
      BY <1>X
    <2>3. QED
      BY ONLY <2>1, <2>2, LoopRuns, SMT
  <1>2. ASSUME NEW i \in 1..n PROVE f[i-1] \in X /\ f[i] = Step(i, f[i-1])
    <2>1. f[i-1] \in X
      BY ONLY f \in [0..n -> X], n \in Nat, i \in 1..n
    <2>2. F[i][f[i-1]] = Step(i, f[i-1])
      BY <1>F, <2>1
    <2>3. QED
      BY <1>1, <2>1, <2>2, Zenon
  <1>3. f = [i \in 0..n |-> IF i = 0 THEN <<>>
               ELSE IF s[i] \in T THEN Append(f[i-1], s[i]) ELSE f[i-1]]
    <2>1. ASSUME NEW i \in 0..n
          PROVE  f[i] = IF i = 0 THEN <<>>
                        ELSE IF s[i] \in T THEN Append(f[i-1], s[i]) ELSE f[i-1]
      <3>1. i = 0 \/ i \in 1..n
        OBVIOUS
      <3>2. QED
        BY <1>1, <1>2, <3>1 DEF Step
    <2>2. QED
      BY <1>1, <2>1
  <1> DEFINE kept[i \in 0..n] ==
               IF i = 0 THEN <<>>
               ELSE IF s[i] \in T THEN Append(kept[i-1], s[i]) ELSE kept[i-1]
  <1>4. kept = CHOOSE k : k = [i \in 0..n |-> IF i = 0 THEN <<>>
               ELSE IF s[i] \in T THEN Append(k[i-1], s[i]) ELSE k[i-1]]
    OBVIOUS
  <1>5. kept = [i \in 0..n |-> IF i = 0 THEN <<>>
               ELSE IF s[i] \in T THEN Append(kept[i-1], s[i]) ELSE kept[i-1]]
    <2> DEFINE P(k) == k = [i \in 0..n |-> IF i = 0 THEN <<>>
               ELSE IF s[i] \in T THEN Append(k[i-1], s[i]) ELSE k[i-1]]
    <2>1. P(f)
      BY <1>3
    <2>2. kept = CHOOSE k : P(k)
      BY <1>4
    <2> HIDE DEF kept, P
    <2>3. P(kept)
      BY <2>1, <2>2
    <2>4. QED
      BY <2>3 DEF P
  <1>6. Keep(s, T) = kept[n]
    BY <1>n DEF Keep
  <1> HIDE DEF kept
  <1>7. kept[0] = <<>>
    BY <1>5
  <1>8. ASSUME NEW i \in 1..n
        PROVE  kept[i] = IF s[i] \in T THEN Append(kept[i-1], s[i]) ELSE kept[i-1]
    <2>1. i \in 0..n /\ i # 0
      OBVIOUS
    <2>2. QED
      BY <1>5, <2>1, Zenon
  <1>9. QED
    BY <1>n, <1>6, <1>7, <1>8

\* The elements that are in T, none twice that was not there twice.
LEMMA KeepFacts ==
  ASSUME NEW S, NEW s \in Seq(S), NEW T
  PROVE  /\ Keep(s, T) \in Seq(S)
         /\ ToSet(Keep(s, T)) = ToSet(s) \cap T
         /\ IsInjective(s) => IsInjective(Keep(s, T))
  <1>1. PICK n \in Nat : n = Len(s)
    OBVIOUS
  <1>2. PICK kept : /\ Keep(s, T) = kept[n]
                    /\ kept[0] = <<>>
                    /\ \A i \in 1..n : kept[i] =
                         IF s[i] \in T THEN Append(kept[i-1], s[i]) ELSE kept[i-1]
    BY <1>1, KeepLoop
  <1> DEFINE Sofar(i) == {s[j] : j \in 1..i}
             Good(i) == /\ kept[i] \in Seq(S)
                        /\ ToSet(kept[i]) = Sofar(i) \cap T
                        /\ IsInjective(s) => IsInjective(kept[i])
             G == {i \in 0..n : Good(i)}
  <1>3. 0 \in G
    <2>1. Sofar(0) = {} /\ <<>> \in Seq(S) /\ 0 \in 0..n
      OBVIOUS
    <2>2. ToSet(<<>>) = {}
      BY DEF ToSet
    <2>3. IsInjective(<<>>)
      BY DEF IsInjective
    <2> HIDE DEF Sofar
    <2>4. QED
      BY <1>2, <2>1, <2>2, <2>3
  <1>4. ASSUME NEW i \in 1..n, i - 1 \in G PROVE i \in G
    <2>1. s[i] \in S /\ i \in 0..n
      BY <1>1
    <2>2. Sofar(i) = Sofar(i-1) \cup {s[i]}
      BY PrefixGrows, i \in Nat, i >= 1
    <2>3. Good(i-1)
      BY <1>4
    <2>4. IsInjective(s) => s[i] \notin Sofar(i-1)
      BY <1>1 DEF IsInjective
    <2> HIDE DEF Sofar
    <2>5. CASE s[i] \in T
      <3>1. kept[i] = Append(kept[i-1], s[i])
        BY <1>2, <2>5
      <3>2. /\ kept[i] \in Seq(S)
            /\ ToSet(kept[i]) = ToSet(kept[i-1]) \cup {s[i]}
            /\ IsInjective(kept[i-1]) /\ s[i] \notin ToSet(kept[i-1]) => IsInjective(kept[i])
        BY <2>1, <2>3, <3>1, AppendFacts
      <3>3. QED
        BY <2>1, <2>2, <2>3, <2>4, <2>5, <3>2
    <2>6. CASE s[i] \notin T
      <3>1. kept[i] = kept[i-1]
        BY <1>2, <2>6
      <3>2. QED
        BY <2>1, <2>2, <2>3, <2>6, <3>1
    <2>7. QED
      BY <2>5, <2>6
  <1>5. Good(n)
    <2>1. 0..n \subseteq G
      <3> HIDE DEF G, Good
      <3>1. QED
        BY <1>3, <1>4, InductionTo, Zenon
    <2>2. n \in 0..n
      OBVIOUS
    <2> HIDE DEF Good
    <2>3. QED
      BY <2>1, <2>2
  <1>6. ToSet(s) = Sofar(n)
    BY <1>1 DEF ToSet
  <1> HIDE DEF Sofar
  <1>7. QED
    BY <1>2, <1>5, <1>6
-----------------------------------------------------------------------------
(***************************************************************************)
(* What an agent is, and what defining and registering functions adds.     *)
(***************************************************************************)
ToolSets == UNION {[S -> [secure : BOOLEAN]] : S \in SUBSET Names}

Agents == [tools : ToolSets, order : Seq(Names), raw : Seq(Names), datamap : Seq(Names),
           skills : Seq(Skills), dynamic : BOOLEAN, secret : {"agent", "copy"}]

\* b is a with the tools D and the DataMap functions M added to its tables.
Grows(a, b, D, M) ==
  /\ b \in Agents
  /\ DOMAIN b.tools = DOMAIN a.tools \cup D
  /\ ToSet(b.order) = ToSet(a.order) \cup (D \cup M)
  /\ IsInjective(a.order) => IsInjective(b.order)
  /\ ToSet(b.datamap) = ToSet(a.datamap) \cup M
  /\ a.raw = a.datamap => b.raw = b.datamap
  /\ b.dynamic = a.dynamic /\ b.secret = a.secret

LEMMA GrowsByNothing ==
  ASSUME NEW a \in Agents
  PROVE  Grows(a, a, {}, {})
  BY DEF Grows

LEMMA GrowsOn ==
  ASSUME NEW a, NEW b, NEW c, NEW D, NEW M, NEW E, NEW N,
         Grows(a, b, D, M), Grows(b, c, E, N)
  PROVE  Grows(a, c, D \cup E, M \cup N)
  BY Zenon DEF Grows

LEMMA ToolSetsFacts ==
  ASSUME NEW t \in ToolSets
  PROVE  /\ DOMAIN t \in SUBSET Names
         /\ \A m \in DOMAIN t : t[m] \in [secure : BOOLEAN]
  <1>1. PICK S \in SUBSET Names : t \in [S -> [secure : BOOLEAN]]
    BY DEF ToolSets
  <1>2. QED
    BY <1>1

LEMMA IsToolSet ==
  ASSUME NEW S \in SUBSET Names, NEW t \in [S -> [secure : BOOLEAN]]
  PROVE  t \in ToolSets
  BY DEF ToolSets

LEMMA ListedFacts ==
  ASSUME NEW order \in Seq(Names), NEW n \in Names
  PROVE  /\ Listed(order, n) \in Seq(Names)
         /\ ToSet(Listed(order, n)) = ToSet(order) \cup {n}
         /\ IsInjective(order) => IsInjective(Listed(order, n))
  <1>1. Contains(order, n) <=> n \in ToSet(order)
    BY DEF Contains, ToSet
  <1>2. CASE Contains(order, n)
    BY <1>1, <1>2 DEF Listed
  <1>3. CASE ~Contains(order, n)
    BY <1>1, <1>3, AppendFacts DEF Listed
  <1>4. QED
    BY <1>2, <1>3

LEMMA DefineToolFacts ==
  ASSUME NEW a \in Agents, NEW n \in Names, NEW isSecure \in BOOLEAN
  PROVE  Grows(a, DefineTool(a, n, isSecure), {n}, {})
  <1>1. PICK S, t : /\ S = DOMAIN a.tools \cup {n}
                    /\ t = [m \in S |-> IF m = n THEN [secure |-> isSecure] ELSE a.tools[m]]
    OBVIOUS
  <1>2. a.tools \in ToolSets /\ a.order \in Seq(Names)
    BY DEF Agents
  <1>3. S \in SUBSET Names /\ t \in [S -> [secure : BOOLEAN]] /\ DOMAIN t = S
    <2>1. ASSUME NEW m \in S PROVE t[m] \in [secure : BOOLEAN]
      <3>1. CASE m = n
        BY <1>1, <3>1
      <3>2. CASE m # n
        BY <1>1, <1>2, <3>2, ToolSetsFacts
      <3>3. QED
        BY <3>1, <3>2
    <2>2. QED
      BY <1>1, <1>2, <2>1, ToolSetsFacts
  <1>4. t \in ToolSets
    BY <1>3, IsToolSet
  <1>5. PICK o : /\ o = Listed(a.order, n) /\ o \in Seq(Names)
                 /\ ToSet(o) = ToSet(a.order) \cup {n}
                 /\ IsInjective(a.order) => IsInjective(o)
    BY <1>2, ListedFacts
  <1>6. DefineTool(a, n, isSecure) = [a EXCEPT !.tools = t, !.order = o]
    BY <1>1, <1>5, Zenon DEF DefineTool
  <1>7. PICK b : b = [a EXCEPT !.tools = t, !.order = o]
    OBVIOUS
  <1>8. /\ b \in Agents
        /\ b.tools = t /\ b.order = o /\ b.raw = a.raw /\ b.datamap = a.datamap
        /\ b.dynamic = a.dynamic /\ b.secret = a.secret
    BY <1>4, <1>5, <1>7 DEF Agents
  <1>9. QED
    BY <1>1, <1>3, <1>5, <1>6, <1>7, <1>8, Zenon DEF Grows

LEMMA RegisterFacts ==
  ASSUME NEW a \in Agents, NEW n \in Names
  PROVE  Grows(a, RegisterSwaigFunction(a, n), {}, {n})
  <1>1. a.datamap \in Seq(Names) /\ a.raw \in Seq(Names) /\ a.order \in Seq(Names)
    BY DEF Agents
  <1>2. PICK o : /\ o = Listed(a.order, n) /\ o \in Seq(Names)
                 /\ ToSet(o) = ToSet(a.order) \cup {n}
                 /\ IsInjective(a.order) => IsInjective(o)
    BY <1>1, ListedFacts
  <1>3. PICK d : /\ d = Append(a.datamap, n) /\ d \in Seq(Names)
                 /\ ToSet(d) = ToSet(a.datamap) \cup {n}
    <2>1. PICK q : q = a.datamap /\ q \in Seq(Names)
      BY <1>1, Zenon
    <2>2. Append(q, n) \in Seq(Names) /\ ToSet(Append(q, n)) = ToSet(q) \cup {n}
      BY <2>1, AppendFacts
    <2>3. QED
      BY <2>1, <2>2, Zenon
  <1>4. PICK r : r = Append(a.raw, n) /\ r \in Seq(Names)
    BY <1>1, AppendFacts, Zenon
  <1>5. PICK b : b = [a EXCEPT !.datamap = d, !.raw = r, !.order = o]
    OBVIOUS
  <1>6. RegisterSwaigFunction(a, n) = b
    BY <1>2, <1>3, <1>4, <1>5, Zenon DEF RegisterSwaigFunction
  <1>7. /\ b \in Agents
        /\ b.tools = a.tools /\ b.order = o /\ b.raw = r /\ b.datamap = d
        /\ b.dynamic = a.dynamic /\ b.secret = a.secret
    BY <1>2, <1>3, <1>4, <1>5 DEF Agents
  <1>8. QED
    BY <1>2, <1>3, <1>4, <1>6, <1>7, Zenon DEF Grows

\* Defining functions in turn, as a skill and a callback do.
LEMMA DefineAllLoop ==
  ASSUME NEW a \in Agents, NEW names, names \in Seq(Names),
         NEW isSecure, isSecure \in BOOLEAN
  PROVE  \E done : /\ DefineAll(a, names, isSecure) = done[Len(names)]
                   /\ done[0] = a
                   /\ \A i \in 1..Len(names) :
                        done[i] = DefineTool(done[i-1], names[i], isSecure)
  <1> DEFINE Step(i, b) == DefineTool(b, names[i], isSecure)
  <1>n. PICK n \in Nat : n = Len(names)
    OBVIOUS
  <1>F. PICK F : F = [i \in 1..n |-> [b \in Agents |-> Step(i, b)]]
    OBVIOUS
  <1>0. ASSUME NEW i \in 1..n, NEW b \in Agents PROVE Step(i, b) \in Agents
    <2>1. names[i] \in Names
      BY <1>n
    <2>2. QED
      BY <2>1, DefineToolFacts, Zenon DEF Grows
  <1> HIDE DEF Step
  <1>1. PICK f \in [0..n -> Agents] : f[0] = a /\ \A i \in 1..n : f[i] = F[i][f[i-1]]
    <2>1. PICK X : X = Agents
      OBVIOUS
    <2>2. a \in X /\ F \in [1..n -> [X -> X]]
      <3>1. a \in X /\ \A i \in 1..n, b \in X : Step(i, b) \in X
        BY <1>0, <2>1, Zenon
      <3>2. F = [i \in 1..n |-> [b \in X |-> Step(i, b)]]
        BY <1>F, <2>1, Zenon
      <3>3. QED
        BY ONLY <3>1, <3>2
    <2>3. \E f \in [0..n -> X] : f[0] = a /\ \A i \in 1..n : f[i] = F[i][f[i-1]]
      BY ONLY <2>2, LoopRuns, n \in Nat, SMT
    <2>4. QED
      BY <2>1, <2>3, Zenon
  <1>2. ASSUME NEW i \in 1..n PROVE f[i-1] \in Agents /\ f[i] = Step(i, f[i-1])
    <2>1. f[i-1] \in Agents
      BY ONLY f \in [0..n -> Agents], n \in Nat, i \in 1..n
    <2>2. F[i][f[i-1]] = Step(i, f[i-1])
      BY <1>F, <2>1
    <2>3. QED
      BY <1>1, <2>1, <2>2, Zenon
  <1> DEFINE P(d) == d = [i \in 0..n |-> IF i = 0 THEN a
                                         ELSE DefineTool(d[i-1], names[i], isSecure)]
             done[i \in 0..n] == IF i = 0 THEN a
                                 ELSE DefineTool(done[i-1], names[i], isSecure)
  <1>3. P(f)
    <2>1. ASSUME NEW i \in 0..n
          PROVE  f[i] = IF i = 0 THEN a ELSE DefineTool(f[i-1], names[i], isSecure)
      <3>1. i = 0 \/ i \in 1..n
        OBVIOUS
      <3>2. QED
        BY <1>1, <1>2, <3>1 DEF Step
    <2>2. QED
      BY <1>1, <2>1
  <1>4. done = CHOOSE d : P(d)
    OBVIOUS
  <1>5. DefineAll(a, names, isSecure) = done[n]
    BY <1>n DEF DefineAll
  <1>6. P(done)
    <2> HIDE DEF done, P
    <2>1. QED
      BY <1>3, <1>4
  <1> HIDE DEF done
  <1>7. done[0] = a
    BY <1>6
  <1>8. ASSUME NEW i \in 1..n PROVE done[i] = DefineTool(done[i-1], names[i], isSecure)
    <2>1. i \in 0..n /\ i # 0
      OBVIOUS
    <2>2. QED
      BY <1>6, <2>1, Zenon
  <1>9. QED
    BY <1>n, <1>5, <1>7, <1>8

\* Registering functions in turn.
LEMMA RegisterAllLoop ==
  ASSUME NEW a \in Agents, NEW names, names \in Seq(Names)
  PROVE  \E done : /\ RegisterAll(a, names) = done[Len(names)]
                   /\ done[0] = a
                   /\ \A i \in 1..Len(names) :
                        done[i] = RegisterSwaigFunction(done[i-1], names[i])
  <1> DEFINE Step(i, b) == RegisterSwaigFunction(b, names[i])
  <1>n. PICK n \in Nat : n = Len(names)
    OBVIOUS
  <1>F. PICK F : F = [i \in 1..n |-> [b \in Agents |-> Step(i, b)]]
    OBVIOUS
  <1>0. ASSUME NEW i \in 1..n, NEW b \in Agents PROVE Step(i, b) \in Agents
    <2>1. names[i] \in Names
      BY <1>n
    <2>2. QED
      BY <2>1, RegisterFacts, Zenon DEF Grows
  <1> HIDE DEF Step
  <1>1. PICK f \in [0..n -> Agents] : f[0] = a /\ \A i \in 1..n : f[i] = F[i][f[i-1]]
    <2>1. PICK X : X = Agents
      OBVIOUS
    <2>2. a \in X /\ F \in [1..n -> [X -> X]]
      <3>1. a \in X /\ \A i \in 1..n, b \in X : Step(i, b) \in X
        BY <1>0, <2>1, Zenon
      <3>2. F = [i \in 1..n |-> [b \in X |-> Step(i, b)]]
        BY <1>F, <2>1, Zenon
      <3>3. QED
        BY ONLY <3>1, <3>2
    <2>3. \E f \in [0..n -> X] : f[0] = a /\ \A i \in 1..n : f[i] = F[i][f[i-1]]
      BY ONLY <2>2, LoopRuns, n \in Nat, SMT
    <2>4. QED
      BY <2>1, <2>3, Zenon
  <1>2. ASSUME NEW i \in 1..n PROVE f[i-1] \in Agents /\ f[i] = Step(i, f[i-1])
    <2>1. f[i-1] \in Agents
      BY ONLY f \in [0..n -> Agents], n \in Nat, i \in 1..n
    <2>2. F[i][f[i-1]] = Step(i, f[i-1])
      BY <1>F, <2>1
    <2>3. QED
      BY <1>1, <2>1, <2>2, Zenon
  <1> DEFINE P(d) == d = [i \in 0..n |-> IF i = 0 THEN a
                                         ELSE RegisterSwaigFunction(d[i-1], names[i])]
             done[i \in 0..n] == IF i = 0 THEN a
                                 ELSE RegisterSwaigFunction(done[i-1], names[i])
  <1>3. P(f)
    <2>1. ASSUME NEW i \in 0..n
          PROVE  f[i] = IF i = 0 THEN a ELSE RegisterSwaigFunction(f[i-1], names[i])
      <3>1. i = 0 \/ i \in 1..n
        OBVIOUS
      <3>2. QED
        BY <1>1, <1>2, <3>1 DEF Step
    <2>2. QED
      BY <1>1, <2>1
  <1>4. done = CHOOSE d : P(d)
    OBVIOUS
  <1>5. RegisterAll(a, names) = done[n]
    BY <1>n DEF RegisterAll
  <1>6. P(done)
    <2> HIDE DEF done, P
    <2>1. QED
      BY <1>3, <1>4
  <1> HIDE DEF done
  <1>7. done[0] = a
    BY <1>6
  <1>8. ASSUME NEW i \in 1..n PROVE done[i] = RegisterSwaigFunction(done[i-1], names[i])
    <2>1. i \in 0..n /\ i # 0
      OBVIOUS
    <2>2. QED
      BY <1>6, <2>1, Zenon
  <1>9. QED
    BY <1>n, <1>5, <1>7, <1>8

LEMMA DefineAllFacts ==
  ASSUME NEW a \in Agents, NEW names \in Seq(Names), NEW isSecure \in BOOLEAN
  PROVE  Grows(a, DefineAll(a, names, isSecure), ToSet(names), {})
  <1>1. PICK n \in Nat : n = Len(names)
    OBVIOUS
  <1>2. PICK done : /\ DefineAll(a, names, isSecure) = done[n]
                    /\ done[0] = a
                    /\ \A i \in 1..n : done[i] = DefineTool(done[i-1], names[i], isSecure)
    BY <1>1, DefineAllLoop
  <1> DEFINE Sofar(i) == {names[j] : j \in 1..i}
             T == {i \in 0..n : Grows(a, done[i], Sofar(i), {})}
  <1>3. 0 \in T
    <2>1. Sofar(0) = {} /\ 0 \in 0..n
      OBVIOUS
    <2> HIDE DEF Sofar
    <2>2. QED
      BY <1>2, <2>1, GrowsByNothing
  <1>4. ASSUME NEW i \in 1..n, i - 1 \in T PROVE i \in T
    <2>1. names[i] \in Names /\ i \in 0..n
      BY <1>1
    <2>2. Sofar(i) = Sofar(i-1) \cup {names[i]}
      BY PrefixGrows, i \in Nat, i >= 1
    <2> HIDE DEF Sofar
    <2>3. Grows(a, done[i-1], Sofar(i-1), {})
      BY <1>4
    <2>4. done[i-1] \in Agents
      BY <2>3, Zenon DEF Grows
    <2>5. Grows(done[i-1], done[i], {names[i]}, {})
      BY <1>2, <2>1, <2>4, DefineToolFacts, Zenon
    <2>6. Grows(a, done[i], Sofar(i-1) \cup {names[i]}, {} \cup {})
      BY <2>3, <2>5, GrowsOn, Zenon
    <2>7. {} \cup {} = {}
      OBVIOUS
    <2>8. QED
      BY <2>1, <2>2, <2>6, <2>7
  <1>5. 0..n \subseteq T
    <2> HIDE DEF T
    <2>1. QED
      BY <1>3, <1>4, InductionTo, Zenon
  <1>6. Grows(a, done[n], Sofar(n), {})
    <2>1. n \in 0..n
      OBVIOUS
    <2>2. QED
      BY <1>5, <2>1
  <1>7. ToSet(names) = Sofar(n)
    BY <1>1 DEF ToSet
  <1> HIDE DEF Sofar
  <1>8. QED
    BY <1>2, <1>6, <1>7

LEMMA RegisterAllFacts ==
  ASSUME NEW a \in Agents, NEW names \in Seq(Names)
  PROVE  Grows(a, RegisterAll(a, names), {}, ToSet(names))
  <1>1. PICK n \in Nat : n = Len(names)
    OBVIOUS
  <1>2. PICK done : /\ RegisterAll(a, names) = done[n]
                    /\ done[0] = a
                    /\ \A i \in 1..n : done[i] = RegisterSwaigFunction(done[i-1], names[i])
    BY <1>1, RegisterAllLoop
  <1> DEFINE Sofar(i) == {names[j] : j \in 1..i}
             T == {i \in 0..n : Grows(a, done[i], {}, Sofar(i))}
  <1>3. 0 \in T
    <2>1. Sofar(0) = {} /\ 0 \in 0..n
      OBVIOUS
    <2> HIDE DEF Sofar
    <2>2. QED
      BY <1>2, <2>1, GrowsByNothing
  <1>4. ASSUME NEW i \in 1..n, i - 1 \in T PROVE i \in T
    <2>1. names[i] \in Names /\ i \in 0..n
      BY <1>1
    <2>2. Sofar(i) = Sofar(i-1) \cup {names[i]}
      BY PrefixGrows, i \in Nat, i >= 1
    <2> HIDE DEF Sofar
    <2>3. Grows(a, done[i-1], {}, Sofar(i-1))
      BY <1>4
    <2>4. done[i-1] \in Agents
      BY <2>3, Zenon DEF Grows
    <2>5. Grows(done[i-1], done[i], {}, {names[i]})
      BY <1>2, <2>1, <2>4, RegisterFacts, Zenon
    <2>6. Grows(a, done[i], {} \cup {}, Sofar(i-1) \cup {names[i]})
      BY <2>3, <2>5, GrowsOn, Zenon
    <2>7. {} \cup {} = {}
      OBVIOUS
    <2>8. QED
      BY <2>1, <2>2, <2>6, <2>7
  <1>5. 0..n \subseteq T
    <2> HIDE DEF T
    <2>1. QED
      BY <1>3, <1>4, InductionTo, Zenon
  <1>6. Grows(a, done[n], {}, Sofar(n))
    <2>1. n \in 0..n
      OBVIOUS
    <2>2. QED
      BY <1>5, <2>1
  <1>7. ToSet(names) = Sofar(n)
    BY <1>1 DEF ToSet
  <1> HIDE DEF Sofar
  <1>8. QED
    BY <1>2, <1>6, <1>7

\* A skill installs all its functions, or none.
LEMMA InstallFacts ==
  ASSUME NEW a \in Agents, NEW s \in Skills
  PROVE  /\ Grows(a, InstallIf(TRUE, a, s), ToSet(SkillTools[s]), ToSet(SkillData[s]))
         /\ InstallIf(FALSE, a, s) = a
  <1>1. SkillTools[s] \in Seq(Names) /\ SkillData[s] \in Seq(Names)
    BY ConstantsAssumption
  <1> DEFINE D == ToSet(SkillTools[s])
             M == ToSet(SkillData[s])
             b == DefineAll(a, SkillTools[s], FALSE)
             c == RegisterAll(b, SkillData[s])
  <1>2. Grows(a, b, D, {})
    BY <1>1, DefineAllFacts
  <1>3. b \in Agents
    BY <1>2, Zenon DEF Grows
  <1>4. Grows(b, c, {}, M)
    BY <1>1, <1>3, RegisterAllFacts
  <1>5. Grows(a, c, D \cup {}, {} \cup M)
    BY <1>2, <1>4, GrowsOn, Zenon
  <1>6. D \cup {} = D /\ {} \cup M = M
    OBVIOUS
  <1>7. InstallIf(TRUE, a, s) = c /\ InstallIf(FALSE, a, s) = a
    BY Zenon DEF InstallIf, Install
  <1> HIDE DEF D, M, c
  <1>8. Grows(a, c, D, M)
    BY <1>5, <1>6
  <1>9. QED
    BY <1>7, <1>8, Zenon DEF D, M
-----------------------------------------------------------------------------
(***************************************************************************)
(* The invariant.                                                          *)
(***************************************************************************)
\* The functions of the documents, as the tables hold them.
Serves(a) == DOMAIN a.tools \cup ToSet(a.datamap)

\* The three tables of a registry agree.
Consistent(a) ==
  /\ IsInjective(a.order)
  /\ DOMAIN a.tools \subseteq ToSet(a.order)
  /\ ToSet(a.order) \subseteq DOMAIN a.tools \cup ToSet(a.raw)
  /\ a.raw = a.datamap

Histories == [defined : SUBSET AppNames, removed : SUBSET Names, ready : SUBSET Registered]

ResponseIsTyped ==
  \/ response = None
  \/ response.kind = "swml" /\ response.functions \in Seq([name : Names, hook : BOOLEAN])
  \/ response.kind = "swaig" /\ response.status \in {200, 400, 401, 403, 404}

Types ==
  /\ agent \in Agents /\ agent.secret = "agent"
  /\ manager \in Seq(Registered)
  /\ serving \in BOOLEAN
  /\ now \in 0..MaxNow
  /\ token \in Tokens \cup {None}
  /\ ResponseIsTyped
  /\ history \in Histories

\* The skills of the manager serve, the failed ones do not: in terms of the tables.
SkillsServe ==
  \A s \in ToSet(manager) : Provided(s) \subseteq Serves(agent) \cup history.removed
NothingElseServes ==
  Serves(agent) \subseteq history.defined \cup UNION {Provided(s) : s \in history.ready}

\* A token was made in the past.
TokenIsOld == token # None => token.expiry <= now + Lifetime

\* Responses come from serve(), which the application calls once and last.
ConfiguredFirst == serving = FALSE => response = None

IInv ==
  /\ Types
  /\ Consistent(agent)
  /\ SkillsServe
  /\ NothingElseServes
  /\ TokenIsOld
  /\ ConfiguredFirst
  /\ SecureRunsByToken

LEMMA InitIInv == Init => IInv
  <1> SUFFICES ASSUME Init PROVE IInv
    OBVIOUS
  <1>1. /\ agent.tools = <<>> /\ agent.order = <<>> /\ agent.raw = <<>>
        /\ agent.datamap = <<>> /\ agent.skills = <<>>
        /\ agent.dynamic = FALSE /\ agent.secret = "agent"
    BY DEF Init, NewAgent
  <1>2. <<>> \in [{} -> [secure : BOOLEAN]] /\ DOMAIN <<>> = {}
    OBVIOUS
  <1>3. agent \in Agents
    <2>1. <<>> \in ToolSets
      BY <1>2, IsToolSet
    <2>2. QED
      BY <2>1 DEF Init, NewAgent, Agents
  <1>4. ToSet(<<>>) = {}
    BY DEF ToSet
  <1>5. Consistent(agent)
    BY <1>1, <1>2, <1>4 DEF Consistent, IsInjective
  <1>6. /\ manager = <<>> /\ serving = FALSE /\ now = 0 /\ token = None /\ response = None
        /\ history = [defined |-> {}, removed |-> {}, ready |-> {}]
    BY DEF Init
  <1>7. Types
    <2>1. manager \in Seq(Registered) /\ history \in Histories
      BY <1>6 DEF Histories
    <2>2. now \in 0..MaxNow
      BY <1>6, ConstantsAssumption
    <2>3. QED
      BY <1>1, <1>3, <1>6, <2>1, <2>2 DEF Types, ResponseIsTyped
  <1>8. SkillsServe /\ NothingElseServes
    BY <1>1, <1>2, <1>4, <1>6 DEF SkillsServe, NothingElseServes, Serves
  <1>9. TokenIsOld /\ ConfiguredFirst /\ SecureRunsByToken
    BY <1>6 DEF TokenIsOld, ConfiguredFirst, SecureRunsByToken
  <1>10. QED
    BY <1>5, <1>7, <1>8, <1>9 DEF IInv
-----------------------------------------------------------------------------
(***************************************************************************)
(* Configuration.                                                          *)
(***************************************************************************)
LEMMA GrowsConsistently ==
  ASSUME NEW a, NEW b, NEW D, NEW M, Grows(a, b, D, M), Consistent(a)
  PROVE  Consistent(b) /\ Serves(b) = Serves(a) \cup (D \cup M)
  <1>1. /\ DOMAIN b.tools = DOMAIN a.tools \cup D
        /\ ToSet(b.order) = ToSet(a.order) \cup (D \cup M)
        /\ ToSet(b.datamap) = ToSet(a.datamap) \cup M
        /\ a.raw = a.datamap /\ b.raw = b.datamap
        /\ IsInjective(b.order)
        /\ DOMAIN a.tools \subseteq ToSet(a.order)
        /\ ToSet(a.order) \subseteq DOMAIN a.tools \cup ToSet(a.raw)
    BY Zenon DEF Grows, Consistent
  <1>2. Serves(b) = Serves(a) \cup (D \cup M)
    <2>1. DOMAIN b.tools \cup ToSet(b.datamap)
            = (DOMAIN a.tools \cup ToSet(a.datamap)) \cup (D \cup M)
      BY <1>1
    <2>2. QED
      BY <2>1 DEF Serves
  <1>3. /\ DOMAIN b.tools \subseteq ToSet(b.order)
        /\ ToSet(b.order) \subseteq DOMAIN b.tools \cup ToSet(b.raw)
    <2>1. ToSet(b.raw) = ToSet(a.raw) \cup M
      BY <1>1, Zenon
    <2>2. QED
      BY <1>1, <2>1, Zenon
  <1>4. QED
    BY <1>1, <1>2, <1>3 DEF Consistent

\* What a step of the configuration does: it provides the functions P, or removes R.
Configures(P, R) ==
  /\ serving = FALSE
  /\ UNCHANGED <<serving, now, token, response>>
  /\ agent' \in Agents /\ agent'.secret = agent.secret /\ Consistent(agent')
  /\ Serves(agent') \subseteq Serves(agent) \cup P
  /\ (Serves(agent) \cup P) \ R \subseteq Serves(agent')
  /\ history' \in Histories
  /\ history'.removed = (history.removed \ P) \cup R
  /\ history.defined \subseteq history'.defined
  /\ history.ready \subseteq history'.ready
  /\ P \subseteq history'.defined \cup UNION {Provided(s) : s \in history'.ready}
  /\ manager' \in Seq(Registered)
  /\ \A s \in ToSet(manager') : s \in ToSet(manager) \/ Provided(s) \subseteq P

LEMMA ConfiguringKeepsIInv ==
  ASSUME IInv, NEW P, NEW R, Configures(P, R)
  PROVE  IInv'
  <1>1. Types'
    <2>1. /\ agent' \in Agents /\ agent'.secret = agent.secret /\ manager' \in Seq(Registered)
          /\ history' \in Histories
          /\ serving' = serving /\ now' = now /\ token' = token /\ response' = response
      BY Zenon DEF Configures
    <2>2. Types
      BY Zenon DEF IInv
    <2>3. ResponseIsTyped'
      <3>1. ResponseIsTyped
        BY <2>2 DEF Types
      <3>2. QED
        BY ONLY <2>1, <3>1 DEF ResponseIsTyped
    <2>4. Tokens' = Tokens
      BY DEF Tokens
    <2>5. QED
      BY ONLY <2>1, <2>2, <2>3, <2>4, Zenon DEF Types
  <1>2. Consistent(agent)'
    BY Zenon DEF Configures
  <1>3. SkillsServe'
    <2>1. SUFFICES ASSUME NEW s \in ToSet(manager'), NEW n \in Provided(s)
                   PROVE  n \in Serves(agent') \cup history'.removed
      BY Zenon DEF SkillsServe, Provided
    <2>2. /\ Provided(s) \subseteq Serves(agent) \cup history.removed \/ Provided(s) \subseteq P
          /\ (Serves(agent) \cup P) \ R \subseteq Serves(agent')
          /\ history'.removed = (history.removed \ P) \cup R
      BY Zenon DEF IInv, SkillsServe, Configures
    <2>3. QED
      BY <2>2, Zenon
  <1>4. NothingElseServes'
    <2>1. UNION {Provided(s) : s \in history.ready} \subseteq UNION {Provided(s) : s \in history'.ready}
      BY Zenon DEF Configures
    <2>2. QED
      BY <2>1, Zenon DEF IInv, NothingElseServes, Configures, Provided
  <1>5. TokenIsOld'
    BY Zenon DEF IInv, TokenIsOld, Configures
  <1>6. ConfiguredFirst' /\ SecureRunsByToken'
    <2>1. response' = None
      BY Zenon DEF IInv, ConfiguredFirst, Configures
    <2>2. QED
      BY <2>1, Zenon DEF ConfiguredFirst, SecureRunsByToken
  <1>7. QED
    BY <1>1, <1>2, <1>3, <1>4, <1>5, <1>6, Zenon DEF IInv

\* What provides functions to the agent provides them in all its tables.
LEMMA GrowingConfigures ==
  ASSUME IInv, NEW b, NEW D, NEW M, Grows(agent, b, D, M), Configure(b)
  PROVE  /\ serving = FALSE
         /\ UNCHANGED <<serving, now, token, response>>
         /\ agent' \in Agents /\ agent'.secret = agent.secret /\ Consistent(agent')
         /\ Serves(agent') = Serves(agent) \cup (D \cup M)
  <1>1. Consistent(b) /\ Serves(b) = Serves(agent) \cup (D \cup M)
    <2>1. Consistent(agent)
      BY DEF IInv
    <2>2. QED
      BY <2>1, GrowsConsistently
  <1>2. b \in Agents /\ b.secret = agent.secret
    BY Zenon DEF Grows
  <1>3. agent' = b /\ ~serving /\ UNCHANGED <<serving, now, token, response>>
    BY DEF Configure
  <1>4. serving = FALSE
    BY <1>3 DEF IInv, Types
  <1>5. QED
    BY <1>1, <1>2, <1>3, <1>4, Zenon

LEMMA HistoryFacts ==
  ASSUME history \in Histories, NEW P
  PROVE  /\ Provide(P) \in Histories
         /\ Provide(P).removed = history.removed \ P
         /\ Provide(P).defined = history.defined
         /\ Provide(P).ready = history.ready
  BY DEF Provide, Histories

LEMMA DefineConfigures ==
  ASSUME IInv, NEW n \in AppNames, NEW isSecure \in BOOLEAN, Define(n, isSecure)
  PROVE  Configures({n}, {})
  <1>1. n \in Names /\ agent \in Agents /\ history \in Histories
    BY ConstantsAssumption DEF IInv, Types
  <1>2. Configure(DefineTool(agent, n, isSecure))
    BY DEF Define
  <1>3. Grows(agent, DefineTool(agent, n, isSecure), {n}, {})
    BY <1>1, DefineToolFacts
  <1>4. /\ serving = FALSE
        /\ UNCHANGED <<serving, now, token, response>>
        /\ agent' \in Agents /\ agent'.secret = agent.secret /\ Consistent(agent')
        /\ Serves(agent') = Serves(agent) \cup ({n} \cup {})
    BY <1>2, <1>3, GrowingConfigures
  <1>5. history' = [Provide({n}) EXCEPT !.defined = @ \cup {n}] /\ manager' = manager
    BY DEF Define
  <1>6. /\ history' \in Histories
        /\ history'.removed = history.removed \ {n}
        /\ history'.defined = history.defined \cup {n}
        /\ history'.ready = history.ready
    BY <1>1, <1>5, HistoryFacts DEF Histories
  <1>7. manager' \in Seq(Registered)
    BY <1>5 DEF IInv, Types
  <1>8. QED
    BY <1>4, <1>5, <1>6, <1>7, Zenon DEF Configures

LEMMA RegisterConfigures ==
  ASSUME IInv, NEW n \in AppNames, Register(n)
  PROVE  Configures({n}, {})
  <1>1. n \in Names /\ agent \in Agents /\ history \in Histories
    BY ConstantsAssumption DEF IInv, Types
  <1>2. Configure(RegisterSwaigFunction(agent, n))
    BY DEF Register
  <1>3. Grows(agent, RegisterSwaigFunction(agent, n), {}, {n})
    BY <1>1, RegisterFacts
  <1>4. /\ serving = FALSE
        /\ UNCHANGED <<serving, now, token, response>>
        /\ agent' \in Agents /\ agent'.secret = agent.secret /\ Consistent(agent')
        /\ Serves(agent') = Serves(agent) \cup ({} \cup {n})
    BY <1>2, <1>3, GrowingConfigures
  <1>5. history' = [Provide({n}) EXCEPT !.defined = @ \cup {n}] /\ manager' = manager
    BY DEF Register
  <1>6. /\ history' \in Histories
        /\ history'.removed = history.removed \ {n}
        /\ history'.defined = history.defined \cup {n}
        /\ history'.ready = history.ready
    BY <1>1, <1>5, HistoryFacts DEF Histories
  <1>7. manager' \in Seq(Registered)
    BY <1>5 DEF IInv, Types
  <1>8. QED
    BY <1>4, <1>5, <1>6, <1>7, Zenon DEF Configures

\* Removing a tool leaves a DataMap function of its name where it is.
LEMMA RemoveFacts ==
  ASSUME NEW a \in Agents, Consistent(a), NEW n \in DOMAIN a.tools
  PROVE  /\ RemoveFunction(a, n) \in Agents
         /\ RemoveFunction(a, n).secret = a.secret
         /\ Consistent(RemoveFunction(a, n))
         /\ Serves(RemoveFunction(a, n)) \subseteq Serves(a)
         /\ Serves(a) \ {n} \subseteq Serves(RemoveFunction(a, n))
  <1>1. a.tools \in ToolSets /\ a.order \in Seq(Names)
    BY DEF Agents
  <1>2. PICK S, t : S = DOMAIN a.tools \ {n} /\ t = [m \in S |-> a.tools[m]]
    OBVIOUS
  <1>3. S \in SUBSET Names /\ t \in [S -> [secure : BOOLEAN]] /\ DOMAIN t = S
    BY <1>1, <1>2, ToolSetsFacts
  <1>4. t \in ToolSets
    BY <1>3, IsToolSet
  <1>5. PICK o : /\ o = Keep(a.order, ToSet(a.order) \ {n}) /\ o \in Seq(Names)
                 /\ ToSet(o) = ToSet(a.order) \cap (ToSet(a.order) \ {n})
                 /\ IsInjective(a.order) => IsInjective(o)
    BY <1>1, KeepFacts
  <1>6. PICK b : b = [a EXCEPT !.tools = t, !.order = o]
    OBVIOUS
  <1>7. RemoveFunction(a, n) = b
    BY <1>2, <1>5, <1>6, Zenon DEF RemoveFunction
  <1>8. /\ b \in Agents
        /\ b.tools = t /\ b.order = o /\ b.raw = a.raw /\ b.datamap = a.datamap
        /\ b.dynamic = a.dynamic /\ b.secret = a.secret
    BY <1>4, <1>5, <1>6 DEF Agents
  <1>9. DOMAIN b.tools = DOMAIN a.tools \ {n} /\ ToSet(b.order) = ToSet(a.order) \ {n}
    BY <1>2, <1>3, <1>5, <1>8, Zenon
  <1>10. Consistent(b)
    <2>1. IsInjective(b.order) /\ b.raw = b.datamap
      BY <1>5, <1>8, Zenon DEF Consistent
    <2>2. /\ DOMAIN b.tools \subseteq ToSet(b.order)
          /\ ToSet(b.order) \subseteq DOMAIN b.tools \cup ToSet(b.raw)
      BY <1>8, <1>9, Zenon DEF Consistent
    <2>3. QED
      BY <2>1, <2>2 DEF Consistent
  <1>11. Serves(b) \subseteq Serves(a) /\ Serves(a) \ {n} \subseteq Serves(b)
    BY <1>8, <1>9, Zenon DEF Serves
  <1>12. QED
    BY <1>7, <1>8, <1>10, <1>11, Zenon

LEMMA DiscardConfigures ==
  ASSUME IInv, NEW n \in Names, Discard(n)
  PROVE  Configures({}, {n})
  <1>1. agent \in Agents /\ history \in Histories /\ Consistent(agent)
    BY DEF IInv, Types
  <1>2. n \in DOMAIN agent.tools /\ agent' = RemoveFunction(agent, n) /\ ~serving
    BY DEF Discard, HasTool, Configure
  <1>3. /\ agent' \in Agents /\ agent'.secret = agent.secret /\ Consistent(agent')
        /\ Serves(agent') \subseteq Serves(agent) /\ Serves(agent) \ {n} \subseteq Serves(agent')
    BY <1>1, <1>2, RemoveFacts
  <1>4. UNCHANGED <<serving, now, token, response>> /\ manager' = manager
    BY DEF Discard, Configure
  <1>5. serving = FALSE
    BY <1>2 DEF IInv, Types
  <1>6. history' = [history EXCEPT !.removed = @ \cup {n}]
    BY DEF Discard
  <1>7. /\ history' \in Histories
        /\ history'.removed = history.removed \cup {n}
        /\ history'.defined = history.defined
        /\ history'.ready = history.ready
    BY <1>1, <1>6 DEF Histories
  <1>8. manager' \in Seq(Registered)
    BY <1>4 DEF IInv, Types
  <1>9. /\ Serves(agent') \subseteq Serves(agent) \cup {}
        /\ (Serves(agent) \cup {}) \ {n} \subseteq Serves(agent')
        /\ history'.removed = (history.removed \ {}) \cup {n}
    BY <1>3, <1>7, Zenon
  <1>10. QED
    BY <1>3, <1>4, <1>5, <1>7, <1>8, <1>9, Zenon DEF Configures

\* What leaves the tables and the books alone, but for the skills that are loaded.
LEMMA QuietConfigures ==
  ASSUME IInv, NEW b, Grows(agent, b, {}, {}), Configure(b), UNCHANGED history,
         manager' \in Seq(Registered), ToSet(manager') \subseteq ToSet(manager)
  PROVE  Configures({}, {})
  <1>1. /\ serving = FALSE
        /\ UNCHANGED <<serving, now, token, response>>
        /\ agent' \in Agents /\ agent'.secret = agent.secret /\ Consistent(agent')
        /\ Serves(agent') = Serves(agent) \cup ({} \cup {})
    BY GrowingConfigures
  <1>2. history \in Histories
    BY DEF IInv, Types
  <1>3. (history.removed \ {}) \cup {} = history.removed
    OBVIOUS
  <1>4. QED
    BY <1>1, <1>2, <1>3, Zenon DEF Configures

LEMMA SkillsAreApart ==
  ASSUME NEW a \in Agents, NEW q \in Seq(Skills)
  PROVE  Grows(a, [a EXCEPT !.skills = q], {}, {})
  <1>1. PICK b : b = [a EXCEPT !.skills = q]
    OBVIOUS
  <1>2. /\ b \in Agents
        /\ b.tools = a.tools /\ b.order = a.order /\ b.raw = a.raw /\ b.datamap = a.datamap
        /\ b.dynamic = a.dynamic /\ b.secret = a.secret
    BY <1>1 DEF Agents
  <1>3. QED
    BY <1>1, <1>2, Zenon DEF Grows

\* A skill that was made provides its functions, whichever way it was asked for.
LEMMA InstallConfigures ==
  ASSUME IInv, NEW s \in Registered, NEW a, Grows(agent, a, {}, {}),
         Configure(InstallIf(TRUE, a, s)),
         history' = [Provide(Provided(s)) EXCEPT !.ready = @ \cup {s}],
         manager' \in Seq(Registered), ToSet(manager') \subseteq ToSet(manager) \cup {s}
  PROVE  Configures(Provided(s), {})
  <1> DEFINE D == ToSet(SkillTools[s])
             M == ToSet(SkillData[s])
             b == InstallIf(TRUE, a, s)
  <1>1. s \in Skills /\ a \in Agents /\ history \in Histories
    <2>1. s \in Skills
      BY ConstantsAssumption
    <2>2. a \in Agents
      BY Zenon DEF Grows
    <2>3. QED
      BY <2>1, <2>2 DEF IInv, Types
  <1>2. Grows(a, b, D, M)
    BY <1>1, InstallFacts
  <1> HIDE DEF D, M, b
  <1>3. Grows(agent, b, {} \cup D, {} \cup M)
    BY <1>2, GrowsOn, Zenon
  <1>4. {} \cup D = D /\ {} \cup M = M /\ Provided(s) = D \cup M
    BY DEF Provided, D, M
  <1>5. Grows(agent, b, D, M)
    BY <1>3, <1>4
  <1>6. Configure(b)
    BY DEF b
  <1>7. /\ serving = FALSE
        /\ UNCHANGED <<serving, now, token, response>>
        /\ agent' \in Agents /\ agent'.secret = agent.secret /\ Consistent(agent')
        /\ Serves(agent') = Serves(agent) \cup (D \cup M)
    BY <1>5, <1>6, GrowingConfigures
  <1>8. PICK P : P = Provided(s)
    OBVIOUS
  <1>9. /\ history' \in Histories
        /\ history'.removed = history.removed \ P
        /\ history'.defined = history.defined
        /\ history'.ready = history.ready \cup {s}
    BY <1>1, <1>8, HistoryFacts DEF Histories
  <1>10. P \subseteq UNION {Provided(r) : r \in history'.ready}
    BY <1>8, <1>9, Zenon
  <1>11. Configures(P, {})
    BY <1>4, <1>7, <1>8, <1>9, <1>10, Zenon DEF Configures
  <1>12. QED
    BY <1>8, <1>11

LEMMA ManagerStays ==
  ASSUME IInv, UNCHANGED manager
  PROVE  manager' \in Seq(Registered) /\ ToSet(manager') = ToSet(manager)
  BY DEF IInv, Types

LEMMA AddSkillConfigures ==
  ASSUME IInv, NEW s \in Skills, NEW ready \in BOOLEAN, AddSkill(s, ready)
  PROVE  Configures(Provided(s), {}) \/ Configures({}, {})
  <1>1. agent \in Agents /\ agent.skills \in Seq(Skills)
    BY DEF IInv, Types, Agents
  <1>2. PICK q : q = Append(agent.skills, s) /\ q \in Seq(Skills)
    <2>1. Append(agent.skills, s) \in Seq(Skills)
      BY <1>1, AppendFacts
    <2>2. QED
      BY <2>1
  <1>3. PICK a : a = [agent EXCEPT !.skills = q] /\ Grows(agent, a, {}, {})
    BY <1>1, <1>2, SkillsAreApart
  <1>4. manager' \in Seq(Registered) /\ ToSet(manager') = ToSet(manager)
    BY ManagerStays DEF AddSkill
  <1>5. a \in Agents
    BY <1>3, Zenon DEF Grows
  <1>6. CASE s \in Registered /\ ready
    <2>1. Configure(InstallIf(TRUE, a, s))
      <3>1. (s \in Registered /\ ready) = TRUE
        BY <1>6
      <3>2. QED
        BY <1>2, <1>3, <3>1, Zenon DEF AddSkill
    <2>2. history' = [Provide(Provided(s)) EXCEPT !.ready = @ \cup {s}]
      BY <1>6, Zenon DEF AddSkill
    <2>3. QED
      BY <1>3, <1>4, <1>6, <2>1, <2>2, InstallConfigures
  <1>7. CASE ~(s \in Registered /\ ready)
    <2>1. Configure(a) /\ UNCHANGED history
      BY <1>2, <1>3, <1>7, Zenon DEF AddSkill, InstallIf
    <2>2. QED
      BY <1>3, <1>4, <2>1, QuietConfigures
  <1>8. QED
    BY <1>6, <1>7

LEMMA LoadSkillConfigures ==
  ASSUME IInv, NEW s \in Skills, NEW ready \in BOOLEAN, LoadSkill(s, ready)
  PROVE  Configures(Provided(s), {}) \/ Configures({}, {})
  <1>1. agent \in Agents /\ manager \in Seq(Registered)
    BY DEF IInv, Types
  <1>2. Grows(agent, agent, {}, {})
    BY <1>1, GrowsByNothing
  <1>3. CASE MayLoad(s) /\ ready
    <2>1. s \in Registered
      BY <1>3 DEF MayLoad
    <2>2. Configure(InstallIf(TRUE, agent, s))
      <3>1. (MayLoad(s) /\ ready) = TRUE
        BY <1>3, Zenon DEF MayLoad
      <3>2. QED
        BY <3>1, Zenon DEF LoadSkill
    <2>3. history' = [Provide(Provided(s)) EXCEPT !.ready = @ \cup {s}]
      BY <1>3, Zenon DEF LoadSkill
    <2>4. manager' = Append(manager, s)
      BY <1>3, Zenon DEF LoadSkill
    <2>5. manager' \in Seq(Registered) /\ ToSet(manager') \subseteq ToSet(manager) \cup {s}
      BY <1>1, <2>1, <2>4, AppendFacts
    <2>6. QED
      BY <1>2, <2>1, <2>2, <2>3, <2>5, InstallConfigures
  <1>4. CASE ~(MayLoad(s) /\ ready)
    <2>1. Configure(agent) /\ UNCHANGED <<manager, history>>
      BY <1>4, Zenon DEF LoadSkill, InstallIf
    <2>2. manager' \in Seq(Registered) /\ ToSet(manager') = ToSet(manager)
      BY <2>1, ManagerStays
    <2>3. QED
      BY <1>2, <2>1, <2>2, QuietConfigures
  <1>5. QED
    BY <1>3, <1>4

LEMMA RemoveSkillConfigures ==
  ASSUME IInv, NEW s \in Skills, RemoveSkill(s)
  PROVE  Configures({}, {})
  <1>1. agent \in Agents /\ agent.skills \in Seq(Skills)
    BY DEF IInv, Types, Agents
  <1>2. PICK q : q = Keep(agent.skills, Skills \ {s}) /\ q \in Seq(Skills)
    <2>1. Keep(agent.skills, Skills \ {s}) \in Seq(Skills)
      BY <1>1, KeepFacts
    <2>2. QED
      BY <2>1
  <1>3. Grows(agent, [agent EXCEPT !.skills = q], {}, {})
    BY <1>1, <1>2, SkillsAreApart
  <1>4. Configure([agent EXCEPT !.skills = q]) /\ UNCHANGED <<manager, history>>
    BY <1>2, Zenon DEF RemoveSkill
  <1>5. manager' \in Seq(Registered) /\ ToSet(manager') = ToSet(manager)
    BY <1>4, ManagerStays
  <1>6. QED
    BY <1>3, <1>4, <1>5, QuietConfigures

LEMMA Least ==
  ASSUME NEW T \in SUBSET Nat, T # {}
  PROVE  \E k \in T : \A j \in T : k <= j
  <1> DEFINE R == OpToRel(<, Nat)
  <1>1. PICK k \in T : \A j \in T : ~ <<j, k>> \in R
    <2>1. IsWellFoundedOn(R, Nat)
      BY NatLessThanWellFounded
    <2> HIDE DEF R
    <2>2. QED
      BY <2>1, WFMin
  <1>2. ASSUME NEW j \in T PROVE k <= j
    <2>1. ~(j < k)
      BY <1>1 DEF OpToRel
    <2>2. QED
      BY <2>1
  <1>3. QED
    BY <1>2

LEMMA RemoveFirstFacts ==
  ASSUME NEW S, NEW s \in Seq(S), NEW e
  PROVE  RemoveFirst(s, e) \in Seq(S) /\ ToSet(RemoveFirst(s, e)) \subseteq ToSet(s)
  <1> DEFINE I == {i \in 1..Len(s) : s[i] = e}
  <1>1. CASE I = {}
    BY <1>1, Zenon DEF RemoveFirst
  <1>2. CASE I # {}
    <2>1. PICK i : i = Min(I)
      OBVIOUS
    <2>2. i \in 1..Len(s)
      <3>1. I \in SUBSET Nat
        OBVIOUS
      <3>2. PICK k \in I : \A j \in I : k <= j
        <4> HIDE DEF I
        <4>1. QED
          BY <1>2, <3>1, Least
      <3>3. i \in I
        <4> HIDE DEF I
        <4>1. QED
          BY <2>1, <3>2 DEF Min
      <3>4. QED
        BY <3>3
    <2>3. RemoveFirst(s, e) = SubSeq(s, 1, i-1) \o SubSeq(s, i+1, Len(s))
      BY <1>2, <2>1, Zenon DEF RemoveFirst, RemoveAt, SelectInSeq
    <2>4. PICK p, q : p = SubSeq(s, 1, i-1) /\ q = SubSeq(s, i+1, Len(s))
      OBVIOUS
    <2>5. /\ p \in Seq(S) /\ q \in Seq(S)
          /\ \A k \in 1..Len(p) : p[k] \in ToSet(s)
          /\ \A k \in 1..Len(q) : q[k] \in ToSet(s)
      BY <2>2, <2>4 DEF ToSet
    <2>6. PICK r : r = p \o q
      OBVIOUS
    <2>7. r \in Seq(S) /\ \A k \in 1..Len(r) : r[k] \in ToSet(s)
      BY <2>5, <2>6
    <2>8. ToSet(r) \subseteq ToSet(s)
      BY <2>7 DEF ToSet
    <2>9. QED
      BY <2>3, <2>4, <2>6, <2>7, <2>8
  <1>3. QED
    BY <1>1, <1>2

LEMMA UnloadConfigures ==
  ASSUME IInv, (\E s \in Skills : UnloadSkill(s)) \/ CleanupAll
  PROVE  Configures({}, {})
  <1>1. agent \in Agents /\ manager \in Seq(Registered)
    BY DEF IInv, Types
  <1>2. Grows(agent, agent, {}, {})
    BY <1>1, GrowsByNothing
  <1>3. Configure(agent) /\ UNCHANGED history
    BY DEF UnloadSkill, CleanupAll
  <1>4. manager' \in Seq(Registered) /\ ToSet(manager') \subseteq ToSet(manager)
    <2>1. CASE \E s \in Skills : UnloadSkill(s)
      BY <1>1, <2>1, RemoveFirstFacts DEF UnloadSkill
    <2>2. CASE CleanupAll
      <3>1. ToSet(<<>>) = {} /\ <<>> \in Seq(Registered)
        BY DEF ToSet
      <3>2. manager' = <<>>
        BY <2>2 DEF CleanupAll
      <3>3. QED
        BY <3>1, <3>2
    <2>3. QED
      BY <2>1, <2>2
  <1>5. QED
    BY <1>2, <1>3, <1>4, QuietConfigures

LEMMA DynamicConfigures ==
  ASSUME IInv, SetDynamicConfigCallback
  PROVE  Configures({}, {})
  <1>1. agent \in Agents /\ agent.secret = "agent" /\ history \in Histories
    BY DEF IInv, Types
  <1>2. PICK b : b = [agent EXCEPT !.dynamic = TRUE]
    OBVIOUS
  <1>3. /\ b \in Agents
        /\ b.tools = agent.tools /\ b.order = agent.order /\ b.raw = agent.raw
        /\ b.datamap = agent.datamap /\ b.secret = agent.secret
    BY <1>1, <1>2 DEF Agents
  <1>4. /\ ~serving /\ agent' = b /\ UNCHANGED <<serving, now, token, response, manager, history>>
    BY <1>2 DEF SetDynamicConfigCallback, Configure
  <1>5. serving = FALSE
    BY <1>4 DEF IInv, Types
  <1>6. manager' \in Seq(Registered) /\ ToSet(manager') = ToSet(manager)
    BY <1>4, ManagerStays
  <1>7. Consistent(b) /\ Serves(b) = Serves(agent)
    BY <1>3, Zenon DEF IInv, Consistent, Serves
  <1>8. (history.removed \ {}) \cup {} = history.removed
    OBVIOUS
  <1>9. QED
    BY <1>1, <1>3, <1>4, <1>5, <1>6, <1>7, <1>8, Zenon DEF Configures

\* Whatever the application calls before serve().
LEMMA ConfigurationKeepsIInv ==
  ASSUME IInv,
         \/ \E n \in AppNames, isSecure \in BOOLEAN : Define(n, isSecure)
         \/ \E n \in AppNames : Register(n)
         \/ \E n \in Names : Discard(n)
         \/ \E s \in Skills, ready \in BOOLEAN : AddSkill(s, ready)
         \/ \E s \in Skills : RemoveSkill(s)
         \/ \E s \in Skills, ready \in BOOLEAN : LoadSkill(s, ready)
         \/ \E s \in Skills : UnloadSkill(s)
         \/ CleanupAll
         \/ SetDynamicConfigCallback
  PROVE  IInv'
  <1>1. CASE \E n \in AppNames, isSecure \in BOOLEAN : Define(n, isSecure)
    BY <1>1, DefineConfigures, ConfiguringKeepsIInv
  <1>2. CASE \E n \in AppNames : Register(n)
    BY <1>2, RegisterConfigures, ConfiguringKeepsIInv
  <1>3. CASE \E n \in Names : Discard(n)
    BY <1>3, DiscardConfigures, ConfiguringKeepsIInv
  <1>4. CASE \E s \in Skills, ready \in BOOLEAN : AddSkill(s, ready)
    BY <1>4, AddSkillConfigures, ConfiguringKeepsIInv
  <1>5. CASE \E s \in Skills : RemoveSkill(s)
    BY <1>5, RemoveSkillConfigures, ConfiguringKeepsIInv
  <1>6. CASE \E s \in Skills, ready \in BOOLEAN : LoadSkill(s, ready)
    BY <1>6, LoadSkillConfigures, ConfiguringKeepsIInv
  <1>7. CASE (\E s \in Skills : UnloadSkill(s)) \/ CleanupAll
    BY <1>7, UnloadConfigures, ConfiguringKeepsIInv
  <1>8. CASE SetDynamicConfigCallback
    BY <1>8, DynamicConfigures, ConfiguringKeepsIInv
  <1>9. QED
    BY <1>1, <1>2, <1>3, <1>4, <1>5, <1>6, <1>7, <1>8
-----------------------------------------------------------------------------
(***************************************************************************)
(* Requests.                                                               *)
(***************************************************************************)
\* What changes no table, and gives a response that serve() may give.
LEMMA TypesKept ==
  ASSUME Types, UNCHANGED <<agent, manager, now, token, response, history>>,
         serving' \in BOOLEAN
  PROVE  Types'
  <1>1. ResponseIsTyped'
    BY DEF Types, ResponseIsTyped
  <1>2. QED
    BY <1>1 DEF Types

LEMMA ServingKeepsIInv ==
  ASSUME IInv, UNCHANGED <<agent, manager, history>>,
         serving' = TRUE, now' \in 0..MaxNow, token' \in Tokens \cup {None},
         \/ response' = None
         \/ response'.kind = "swml" /\ response'.functions \in Seq([name : Names, hook : BOOLEAN])
         \/ response'.kind = "swaig" /\ response'.status \in {200, 400, 401, 403, 404},
         TokenIsOld', SecureRunsByToken'
  PROVE  IInv'
  <1>1. Types'
    <2>1. ResponseIsTyped'
      BY DEF ResponseIsTyped
    <2>2. QED
      BY <2>1, Zenon DEF IInv, Types
  <1>2. agent' = agent /\ manager' = manager /\ history' = history
    OBVIOUS
  <1>3. Consistent(agent)' /\ SkillsServe' /\ NothingElseServes'
    <2>1. Consistent(agent) /\ SkillsServe /\ NothingElseServes
      BY DEF IInv
    <2>2. QED
      BY ONLY <1>2, <2>1, Zenon DEF SkillsServe, NothingElseServes, Provided, Consistent, Serves
  <1>4. ConfiguredFirst'
    BY DEF ConfiguredFirst
  <1>5. QED
    BY <1>1, <1>3, <1>4 DEF IInv

LEMMA ServeKeepsIInv ==
  ASSUME IInv, Serve
  PROVE  IInv'
  <1>1. /\ serving' = TRUE
        /\ UNCHANGED <<agent, manager, now, token, response, history>>
    BY DEF Serve
  <1>2. TokenIsOld' /\ SecureRunsByToken'
    BY <1>1, Zenon DEF IInv, TokenIsOld, SecureRunsByToken
  <1>3. Types'
    <2>1. Types
      BY DEF IInv
    <2>2. QED
      BY <1>1, <2>1, TypesKept
  <1>4. Consistent(agent)' /\ SkillsServe' /\ NothingElseServes'
    BY <1>1, Zenon DEF IInv, SkillsServe, NothingElseServes, Provided, Consistent, Serves
  <1>5. ConfiguredFirst'
    BY <1>1 DEF ConfiguredFirst
  <1>6. QED
    BY <1>2, <1>3, <1>4, <1>5 DEF IInv

LEMMA CloneFacts ==
  ASSUME NEW a \in Agents
  PROVE  Clone(a) \in Agents /\ Clone(a).secret = "copy"
  BY DEF Clone, Agents

\* A document lists functions by name.
LEMMA FunctionsFacts ==
  ASSUME NEW a \in Agents
  PROVE  Functions(a) \in Seq([name : Names, hook : BOOLEAN])
  <1>1. a.order \in Seq(Names) /\ a.datamap \in Seq(Names)
    BY DEF Agents
  <1>2. PICK t : t = OrderedTools(a) /\ t \in Seq(Names)
    <2>1. OrderedTools(a) \in Seq(Names)
      BY <1>1, KeepFacts DEF OrderedTools
    <2>2. QED
      BY <2>1
  <1>3. PICK d : d = a.datamap /\ d \in Seq(Names)
    BY <1>1
  <1>4. ASSUME NEW u \in Seq(Names), NEW h \in BOOLEAN
        PROVE  [i \in 1..Len(u) |-> [name |-> u[i], hook |-> h]] \in Seq([name : Names, hook : BOOLEAN])
    OBVIOUS
  <1>5. PICK v, w : /\ v = [i \in 1..Len(t) |-> [name |-> t[i], hook |-> TRUE]]
                    /\ w = [i \in 1..Len(d) |-> [name |-> d[i], hook |-> FALSE]]
    OBVIOUS
  <1>6. Functions(a) = v \o w
    BY <1>2, <1>3, <1>5, Zenon DEF Functions
  <1>7. v \in Seq([name : Names, hook : BOOLEAN]) /\ w \in Seq([name : Names, hook : BOOLEAN])
    BY <1>2, <1>3, <1>4, <1>5
  <1>8. PICK R : R = [name : Names, hook : BOOLEAN]
    OBVIOUS
  <1>9. v \o w \in Seq(R)
    BY <1>7, <1>8
  <1>10. QED
    BY <1>6, <1>8, <1>9

LEMMA SwmlRequestKeepsIInv ==
  ASSUME IInv, SwmlRequest
  PROVE  IInv'
  <1>1. agent \in Agents /\ now \in 0..MaxNow /\ token \in Tokens \cup {None} /\ serving \in BOOLEAN
    BY DEF IInv, Types
  <1>2. Rendered \in Agents
    <2>1. Clone(agent) \in Agents
      BY <1>1, CloneFacts
    <2>2. DefineAll(Clone(agent), CopyTools, TRUE) \in Agents
      <3>1. CopyTools \in Seq(Names)
        BY ConstantsAssumption
      <3>2. Grows(Clone(agent), DefineAll(Clone(agent), CopyTools, TRUE), ToSet(CopyTools), {})
        BY <2>1, <3>1, DefineAllFacts
      <3>3. QED
        BY <3>2, Zenon DEF Grows
    <2>3. QED
      BY <1>1, <2>2, Zenon DEF Rendered
  <1>3. PICK f : f = Functions(Rendered) /\ f \in Seq([name : Names, hook : BOOLEAN])
    BY <1>2, FunctionsFacts
  <1>4. /\ serving /\ UNCHANGED <<agent, manager, serving, now, history, token>>
        /\ response' = [kind |-> "swml", functions |-> f]
    BY <1>3, Zenon DEF SwmlRequest, Reading
  <1>5. response'.kind = "swml" /\ response'.functions = f
    BY <1>4
  <1>6. serving' = TRUE
    BY <1>1, <1>4
  <1>7. now' \in 0..MaxNow /\ token' \in Tokens \cup {None} /\ TokenIsOld'
    BY <1>1, <1>4, Zenon DEF IInv, TokenIsOld
  <1>8. SecureRunsByToken'
    BY <1>5 DEF SecureRunsByToken
  <1>9. UNCHANGED <<agent, manager, history>>
    BY <1>4
  <1>10. QED
    BY <1>3, <1>5, <1>6, <1>7, <1>8, <1>9, ServingKeepsIInv

LEMMA MintTokenKeepsIInv ==
  ASSUME IInv, NEW a \in Agents, NEW n \in Names, NEW c \in Calls, MintToken(a, n, c)
  PROVE  IInv'
  <1>1. now \in 0..MaxNow /\ serving \in BOOLEAN /\ Lifetime \in Nat /\ MaxNow \in Nat
    BY ConstantsAssumption DEF IInv, Types
  <1>2. /\ serving /\ UNCHANGED <<agent, manager, serving, now, history>>
        /\ response' = None
        /\ token' = [function |-> n, call |-> c, expiry |-> now + Lifetime, secret |-> a.secret]
    BY DEF MintToken, Reading, CreateToken
  <1>3. a.secret \in {"agent", "copy"}
    BY DEF Agents
  <1>4. now + Lifetime \in 0..(MaxNow + Lifetime)
    BY <1>1
  <1>5. token' \in Tokens
    BY <1>2, <1>3, <1>4 DEF Tokens
  <1>6. TokenIsOld'
    <2>1. token'.expiry = now' + Lifetime
      BY <1>2
    <2>2. now' + Lifetime <= now' + Lifetime
      BY <1>1, <1>2
    <2>3. QED
      BY <2>1, <2>2, Zenon DEF TokenIsOld
  <1>7. SecureRunsByToken'
    BY <1>2, Zenon DEF SecureRunsByToken
  <1>8. serving' = TRUE /\ now' \in 0..MaxNow /\ UNCHANGED <<agent, manager, history>>
    BY <1>1, <1>2
  <1>9. QED
    BY <1>2, <1>5, <1>6, <1>7, <1>8, ServingKeepsIInv

\* The checks of handle_swaig_request, in terms of the token alone.
LEMMA SwaigRequestKeepsIInv ==
  ASSUME IInv, NEW authorized \in BOOLEAN, NEW c \in Calls, NEW n \in Names \cup {None},
         NEW t \in {token, None}, SwaigRequest(authorized, c, n, t)
  PROVE  IInv'
  <1>1. /\ now \in 0..MaxNow /\ serving \in BOOLEAN /\ token \in Tokens \cup {None}
        /\ Lifetime \in Nat /\ MaxNow \in Nat /\ agent.secret = "agent"
    BY ConstantsAssumption DEF IInv, Types
  <1>2. PICK st : st = Status(authorized, c, n, t)
    OBVIOUS
  <1>3. /\ serving /\ UNCHANGED <<agent, manager, serving, now, history, token>>
        /\ response' = [kind |-> "swaig", status |-> st, call |-> c, function |-> n, token |-> t]
    BY <1>2, Zenon DEF SwaigRequest, Reading
  <1>4. /\ response'.kind = "swaig" /\ response'.status = st /\ response'.call = c
        /\ response'.function = n /\ response'.token = t
    BY <1>3
  <1>5. st \in {200, 400, 401, 403, 404}
    BY <1>2 DEF Status
  <1>6. ASSUME st \in {200, 403}, agent.tools[n].secure
        PROVE  st = 200 <=> ValidateToken(agent, t, n, c)
    BY <1>2, <1>6 DEF Status
  <1>7. ASSUME t # None
        PROVE  now <= t.expiry <=> now \in (t.expiry - Lifetime)..t.expiry
    <2>1. t \in Tokens /\ t.expiry <= now + Lifetime
      BY <1>1, <1>7 DEF IInv, TokenIsOld
    <2>2. t.expiry \in Nat
      BY <1>1, <2>1 DEF Tokens
    <2>3. PICK e : e = t.expiry
      OBVIOUS
    <2>4. QED
      BY <1>1, <2>1, <2>2, <2>3
  <1>8. SecureRunsByToken'
    <2>1. ASSUME st \in {200, 403}, agent.tools[n].secure
          PROVE  st = 200 <=>
                   /\ t # None
                   /\ t.secret = agent.secret /\ t.function = n /\ t.call = c
                   /\ now \in (t.expiry - Lifetime)..t.expiry
      <3>1. st = 200 <=> ValidateToken(agent, t, n, c)
        BY <1>6, <2>1, Zenon
      <3>2. QED
        BY ONLY <1>7, <3>1, Zenon DEF ValidateToken
    <2>2. agent' = agent /\ now' = now /\ response'.token = t
      BY <1>3
    <2>3. QED
      BY ONLY <1>4, <2>1, <2>2 DEF SecureRunsByToken
  <1>9. TokenIsOld' /\ serving' = TRUE /\ now' \in 0..MaxNow /\ token' \in Tokens \cup {None}
    <2>1. TokenIsOld'
      BY <1>3, Zenon DEF IInv, TokenIsOld
    <2>2. QED
      BY <1>1, <1>3, <2>1
  <1>10. UNCHANGED <<agent, manager, history>>
    BY <1>3
  <1>11. QED
    BY <1>4, <1>5, <1>8, <1>9, <1>10, ServingKeepsIInv

LEMMA TickKeepsIInv ==
  ASSUME IInv, Tick
  PROVE  IInv'
  <1>1. now \in 0..MaxNow /\ serving \in BOOLEAN /\ token \in Tokens \cup {None}
        /\ Lifetime \in Nat /\ MaxNow \in Nat
    BY ConstantsAssumption DEF IInv, Types
  <1>2. /\ serving /\ now < MaxNow /\ now' = now + 1 /\ response' = None
        /\ UNCHANGED <<agent, manager, serving, token, history>>
    BY DEF Tick
  <1>3. TokenIsOld'
    <2>1. SUFFICES ASSUME token # None PROVE token.expiry <= now' + Lifetime
      BY <1>2, Zenon DEF TokenIsOld
    <2>2. token.expiry \in Nat /\ token.expiry <= now + Lifetime
      BY <1>1, <2>1 DEF IInv, TokenIsOld, Tokens
    <2>3. QED
      BY <1>1, <1>2, <2>2
  <1>4. SecureRunsByToken'
    BY <1>2, Zenon DEF SecureRunsByToken
  <1>5. serving' = TRUE /\ now' \in 0..MaxNow /\ token' \in Tokens \cup {None}
    BY <1>1, <1>2
  <1>6. UNCHANGED <<agent, manager, history>>
    BY <1>2
  <1>7. QED
    BY <1>2, <1>3, <1>4, <1>5, <1>6, ServingKeepsIInv

LEMMA StepIInv == IInv /\ [Next]_vars => IInv'
  <1> SUFFICES ASSUME IInv, [Next]_vars PROVE IInv'
    OBVIOUS
  <1>1. CASE \/ \E n \in AppNames, isSecure \in BOOLEAN : Define(n, isSecure)
             \/ \E n \in AppNames : Register(n)
             \/ \E n \in Names : Discard(n)
             \/ \E s \in Skills, ready \in BOOLEAN : AddSkill(s, ready)
             \/ \E s \in Skills : RemoveSkill(s)
             \/ \E s \in Skills, ready \in BOOLEAN : LoadSkill(s, ready)
             \/ \E s \in Skills : UnloadSkill(s)
             \/ CleanupAll
             \/ SetDynamicConfigCallback
    BY <1>1, ConfigurationKeepsIInv
  <1>2. CASE Serve
    BY <1>2, ServeKeepsIInv
  <1>3. CASE SwmlRequest
    BY <1>3, SwmlRequestKeepsIInv
  <1>4. CASE \E n \in Names, c \in Calls : MintToken(agent, n, c)
    <2>1. agent \in Agents
      BY DEF IInv, Types
    <2>2. QED
      BY <1>4, <2>1, MintTokenKeepsIInv
  <1>5. CASE \E n \in Names, c \in Calls : agent.dynamic /\ MintToken(Clone(agent), n, c)
    <2>1. Clone(agent) \in Agents
      BY CloneFacts DEF IInv, Types
    <2>2. QED
      BY <1>5, <2>1, MintTokenKeepsIInv
  <1>6. CASE \E authorized \in BOOLEAN, c \in Calls, n \in Names \cup {None}, t \in {token, None} :
               SwaigRequest(authorized, c, n, t)
    BY <1>6, SwaigRequestKeepsIInv
  <1>7. CASE Tick
    BY <1>7, TickKeepsIInv
  <1>8. CASE UNCHANGED vars
    <2>1. /\ agent' = agent /\ manager' = manager /\ serving' = serving /\ now' = now
          /\ token' = token /\ response' = response /\ history' = history
      BY <1>8 DEF vars
    <2>2. Types'
      <3>1. Types
        BY DEF IInv
      <3>2. QED
        <4>1. serving' \in BOOLEAN
          BY ONLY <2>1, <3>1, Zenon DEF Types
        <4>2. QED
          BY ONLY <2>1, <3>1, <4>1, TypesKept
    <2>3. Consistent(agent)' /\ SkillsServe' /\ NothingElseServes'
      BY <2>1, Zenon DEF IInv, SkillsServe, NothingElseServes, Provided, Consistent, Serves
    <2>4. TokenIsOld' /\ ConfiguredFirst' /\ SecureRunsByToken'
      BY <2>1, Zenon DEF IInv, TokenIsOld, ConfiguredFirst, SecureRunsByToken
    <2>5. QED
      BY <2>2, <2>3, <2>4 DEF IInv
  <1>9. QED
    BY <1>1, <1>2, <1>3, <1>4, <1>5, <1>6, <1>7, <1>8 DEF Next

LEMMA Invariance == Spec => []IInv
  BY InitIInv, StepIInv, PTL DEF Spec
-----------------------------------------------------------------------------
(***************************************************************************)
(* The theorems.                                                           *)
(***************************************************************************)
LEMMA ConcatenationFacts ==
  ASSUME NEW R, NEW v \in Seq(R), NEW w \in Seq(R)
  PROVE  /\ DOMAIN (v \o w) = 1..(Len(v) + Len(w))
         /\ \A i \in 1..Len(v) : (v \o w)[i] = v[i]
         /\ \A i \in 1..Len(w) : (v \o w)[Len(v) + i] = w[i]
  <1>1. v \o w \in Seq(R) /\ Len(v \o w) = Len(v) + Len(w)
    OBVIOUS
  <1>2. DOMAIN (v \o w) = 1..(Len(v) + Len(w))
    BY <1>1
  <1>3. ASSUME NEW i \in 1..Len(v) PROVE (v \o w)[i] = v[i]
    OBVIOUS
  <1>4. ASSUME NEW i \in 1..Len(w) PROVE (v \o w)[Len(v) + i] = w[i]
    OBVIOUS
  <1>5. QED
    BY <1>2, <1>3, <1>4

\* What the documents list, in terms of the tables.
LEMMA AdvertisedIsServed ==
  ASSUME NEW a \in Agents, Consistent(a)
  PROVE  Advertised(a) = Serves(a)
  <1>1. a.order \in Seq(Names) /\ a.datamap \in Seq(Names)
    BY DEF Agents
  <1>2. PICK t : /\ t = OrderedTools(a) /\ t \in Seq(Names)
                 /\ ToSet(t) = ToSet(a.order) \cap DOMAIN a.tools
    <2>1. /\ OrderedTools(a) \in Seq(Names)
          /\ ToSet(OrderedTools(a)) = ToSet(a.order) \cap DOMAIN a.tools
      BY <1>1, KeepFacts DEF OrderedTools
    <2>2. QED
      BY <2>1
  <1>3. PICK d : d = a.datamap /\ d \in Seq(Names)
    BY <1>1
  <1>4. PICK v, w : /\ v = [i \in 1..Len(t) |-> [name |-> t[i], hook |-> TRUE]]
                    /\ w = [i \in 1..Len(d) |-> [name |-> d[i], hook |-> FALSE]]
    OBVIOUS
  <1>5. Functions(a) = v \o w
    BY <1>2, <1>3, <1>4, Zenon DEF Functions
  <1>6. PICK f : f = v \o w
    OBVIOUS
  <1>7. PICK m, n : /\ m \in Nat /\ n \in Nat /\ m = Len(t) /\ n = Len(d)
                    /\ DOMAIN t = 1..m /\ DOMAIN d = 1..n
    <2>1. Len(t) \in Nat /\ DOMAIN t = 1..Len(t)
      BY <1>2
    <2>2. Len(d) \in Nat /\ DOMAIN d = 1..Len(d)
      BY <1>3
    <2>3. QED
      BY <2>1, <2>2, Zenon
  <1>8. /\ DOMAIN f = 1..(m + n)
        /\ \A i \in 1..m : f[i] = v[i]
        /\ \A i \in 1..n : f[m + i] = w[i]
    <2>1. PICK R : R = [name : Names, hook : BOOLEAN]
      OBVIOUS
    <2>2. v \in Seq(R) /\ w \in Seq(R) /\ Len(v) = m /\ Len(w) = n
      <3>1. \A i \in 1..m : t[i] \in Names
        BY <1>2, <1>7
      <3>2. \A i \in 1..n : d[i] \in Names
        BY <1>3, <1>7
      <3>3. v = [i \in 1..m |-> [name |-> t[i], hook |-> TRUE]]
        BY <1>4, <1>7, Zenon
      <3>4. w = [i \in 1..n |-> [name |-> d[i], hook |-> FALSE]]
        BY <1>4, <1>7, Zenon
      <3>5. v \in [1..m -> R] /\ w \in [1..n -> R]
        BY <2>1, <3>1, <3>2, <3>3, <3>4
      <3>6. QED
        BY ONLY <1>7, <3>5
    <2>3. /\ DOMAIN (v \o w) = 1..(Len(v) + Len(w))
          /\ \A i \in 1..Len(v) : (v \o w)[i] = v[i]
          /\ \A i \in 1..Len(w) : (v \o w)[Len(v) + i] = w[i]
      <3>1. v \in Seq(R) /\ w \in Seq(R)
        BY <2>2
      <3>2. QED
        BY ONLY <3>1, ConcatenationFacts
    <2>4. QED
      BY <1>6, <2>2, <2>3, Zenon
  <1>9. /\ \A i \in 1..m : f[i].name = t[i]
        /\ \A i \in 1..n : f[m + i].name = d[i]
    BY <1>4, <1>7, <1>8
  <1>10. 1..(m + n) = 1..m \cup {m + i : i \in 1..n}
    <2>1. ASSUME NEW j \in 1..(m + n) PROVE j \in 1..m \/ \E i \in 1..n : j = m + i
      <3>1. CASE j > m
        <4>1. j - m \in 1..n /\ j = m + (j - m)
          BY <1>7, <3>1
        <4>2. QED
          BY <4>1
      <3>2. QED
        BY <1>7, <3>1
    <2>2. QED
      BY <1>7, <2>1
  <1>11. {f[i].name : i \in DOMAIN f} = ToSet(t) \cup ToSet(d)
    <2>1. \A x : (\E j \in DOMAIN f : x = f[j].name)
                   <=> (\E i \in 1..m : x = f[i].name) \/ (\E i \in 1..n : x = f[m + i].name)
      <3>1. \A j : j \in DOMAIN f <=> j \in 1..m \/ \E i \in 1..n : j = m + i
        BY <1>8, <1>10, Zenon
      <3>2. QED
        BY ONLY <3>1, Zenon
    <2>2. \A x : x \in ToSet(t) <=> \E i \in 1..m : x = f[i].name
      <3>1. \A x : x \in ToSet(t) <=> \E i \in 1..m : x = t[i]
        BY ONLY <1>7 DEF ToSet
      <3>2. QED
        BY ONLY <1>9, <3>1
    <2>3. \A x : x \in ToSet(d) <=> \E i \in 1..n : x = f[m + i].name
      <3>1. \A x : x \in ToSet(d) <=> \E i \in 1..n : x = d[i]
        BY ONLY <1>7 DEF ToSet
      <3>2. QED
        BY ONLY <1>9, <3>1
    <2>4. QED
      BY <2>1, <2>2, <2>3, Zenon
  <1>12. Advertised(a) = ToSet(t) \cup ToSet(d)
    BY <1>5, <1>6, <1>11, Zenon DEF Advertised
  <1>13. DOMAIN a.tools \subseteq ToSet(a.order)
    BY DEF Consistent
  <1>14. QED
    BY <1>2, <1>3, <1>12, <1>13, Zenon DEF Serves

\* Whatever the application defines, registers, redefines, removes, loads and unloads, and
\* in whatever order, the variables have their types, the order names every tool once
\* and nothing else but DataMap functions, and what introspection lists is advertised.
THEOREM RegistryConsistent == Spec => []RegistryIsConsistent
  <1>1. ASSUME IInv PROVE TypeOK
    BY <1>1, Zenon DEF IInv, Types, ResponseIsTyped, TypeOK, Agents, ToolSets, Histories
  <1>2. ASSUME IInv PROVE OrderNamesTools
    BY <1>2, Zenon DEF IInv, Consistent, OrderNamesTools
  <1>3. ASSUME IInv PROVE ListedIsAdvertised
    <2>1. /\ agent \in Agents /\ Consistent(agent) /\ agent.order \in Seq(Names)
      BY <1>3 DEF IInv, Types, Agents
    <2>2. ToSet(Introspection(agent)) = ToSet(agent.order) \cap (DOMAIN agent.tools \cup ToSet(agent.raw))
      BY <2>1, KeepFacts DEF Introspection
    <2>3. Advertised(agent) = DOMAIN agent.tools \cup ToSet(agent.raw)
      BY <2>1, AdvertisedIsServed, Zenon DEF Serves, Consistent
    <2>4. QED
      BY <2>2, <2>3, Zenon DEF ListedIsAdvertised
  <1>4. IInv => RegistryIsConsistent
    BY <1>1, <1>2, <1>3 DEF RegistryIsConsistent
  <1>5. QED
    BY <1>4, Invariance, PTL

\* A skill that SkillManager lists has all its functions in the documents, but for those
\* the application has removed since.
THEOREM LoadedSkillsServe == Spec => []LoadedSkillServes
  <1>1. IInv => LoadedSkillServes
    <2>1. IInv => Advertised(agent) = Serves(agent)
      BY AdvertisedIsServed DEF IInv, Types
    <2>2. QED
      BY <2>1, Zenon DEF IInv, SkillsServe, LoadedSkillServes
  <1>2. QED
    BY <1>1, Invariance, PTL

\* Every function in the documents is one the application provided, or belongs to a skill
\* that was set up: a failed load leaves nothing behind.
THEOREM FailedSkillsLeaveNothing == Spec => []FailedSkillLeavesNothing
  <1>1. IInv => FailedSkillLeavesNothing
    <2>1. IInv => Advertised(agent) = Serves(agent)
      BY AdvertisedIsServed DEF IInv, Types
    <2>2. QED
      BY <2>1, Zenon DEF IInv, NothingElseServes, FailedSkillLeavesNothing
  <1>2. QED
    BY <1>1, Invariance, PTL

\* handle_swaig_request runs a secure function exactly when the call carries a token this
\* agent made for that function and that call, no longer than Lifetime ago.
THEOREM SecureFunctionsRunByToken == Spec => []SecureRunsByToken
  <1>1. IInv => SecureRunsByToken
    BY DEF IInv
  <1>2. QED
    BY <1>1, Invariance, PTL
=============================================================================
