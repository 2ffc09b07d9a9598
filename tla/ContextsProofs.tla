----------------------------- MODULE ContextsProofs -----------------------------
(***************************************************************************)
(* Theorems about Contexts as a part of Sdk, for any names, fields, actions *)
(* and bounds: a flow that validate() accepts can be walked, since every    *)
(* order list names the steps of its map whatever has been added, removed   *)
(* and moved. The lemmas about lists come first; SdkProofs uses them too.   *)
(***************************************************************************)
EXTENDS Sdk, Lists, SequenceTheorems, FiniteSetTheorems, FunctionTheorems, TLAPS

(***************************************************************************)
(* Lists: the positions kept are numbered by how many of them stand up to  *)
(* each, from 1 to their count without a gap.                              *)
(***************************************************************************)
LEMMA RankFacts ==
  ASSUME NEW l \in Nat, NEW P, P \subseteq 1..l
  PROVE  /\ Cardinality(P) \in Nat
         /\ \A i \in P : Cardinality(P \cap (1..i)) \in 1..Cardinality(P)
         /\ \A k \in 1..Cardinality(P) : \E i \in P : Cardinality(P \cap (1..i)) = k
         /\ \A i, j \in P : Cardinality(P \cap (1..i)) = Cardinality(P \cap (1..j)) => i = j
  <1>1. IsFiniteSet(P) /\ Cardinality(P) \in Nat
    <2>1. PICK L : L = 1..l
      OBVIOUS
    <2>2. IsFiniteSet(L) /\ P \in SUBSET L
      BY <2>1, FS_Interval
    <2>3. QED
      BY <2>2, FS_Subset, FS_CardinalityType, Zenon
  <1>2. PICK r : r = [i \in P |-> Cardinality(P \cap (1..i))]
    OBVIOUS
  <1>3. ASSUME NEW i \in P
        PROVE  /\ IsFiniteSet(P \cap (1..i))
               /\ r[i] = Cardinality(P \cap (1..i))
               /\ r[i] \in 1..Cardinality(P)
    <2>1. PICK T : T = P \cap (1..i)
      OBVIOUS
    <2>2. IsFiniteSet(T) /\ Cardinality(T) \in Nat /\ Cardinality(T) <= Cardinality(P)
      BY <1>1, <2>1, FS_Subset, FS_CardinalityType
    <2>3. i \in T
      BY <2>1
    <2>4. Cardinality(T) # 0
      BY <2>2, <2>3, FS_EmptySet
    <2>5. QED
      BY <1>1, <1>2, <2>1, <2>2, <2>4
  <1>4. ASSUME NEW i \in P, NEW j \in P, i < j
        PROVE  r[i] # r[j]
    <2>1. PICK T, U : T = P \cap (1..i) /\ U = P \cap (1..j)
      OBVIOUS
    <2>2. T \subseteq U /\ j \in U /\ j \notin T
      BY <1>4, <2>1
    <2>3. IsFiniteSet(U) /\ r[i] = Cardinality(T) /\ r[j] = Cardinality(U)
      BY <1>3, <2>1
    <2>4. Cardinality(U) = Cardinality(T) => U = T
      BY <2>2, <2>3, FS_Subset, Zenon
    <2>5. QED
      BY <2>2, <2>3, <2>4, Zenon
  <1>5. \A i, j \in P : r[i] = r[j] => i = j
    <2>1. \A i, j \in P : i = j \/ i < j \/ j < i
      OBVIOUS
    <2>2. QED
      BY <1>4, <2>1
  <1>6. PICK I : I = 1..Cardinality(P)
    OBVIOUS
  <1>7. IsFiniteSet(I) /\ Cardinality(I) = Cardinality(P)
    BY <1>1, <1>6, FS_Interval
  <1>8. r \in [P -> I]
    BY <1>2, <1>3, <1>6
  <1>9. r \in Injection(P, I)
    BY <1>5, <1>8 DEF Injection, IsInjective
  <1>10. r \in Surjection(P, I)
    BY <1>7, <1>9, FS_Injection, Zenon
  <1>11. \A k \in I : \E i \in P : r[i] = k
    BY <1>10, Zenon DEF Surjection
  <1>12. QED
    BY <1>1, <1>3, <1>5, <1>6, <1>11

LEMMA NthFacts ==
  ASSUME NEW l \in Nat, NEW P, P \subseteq 1..l
  PROVE  /\ \A k \in 1..Cardinality(P) : Nth(P, k) \in P
         /\ \A i \in P : \E k \in 1..Cardinality(P) : Nth(P, k) = i
  <1>1. /\ \A i \in P : Cardinality(P \cap (1..i)) \in 1..Cardinality(P)
        /\ \A k \in 1..Cardinality(P) : \E i \in P : Cardinality(P \cap (1..i)) = k
        /\ \A i, j \in P : Cardinality(P \cap (1..i)) = Cardinality(P \cap (1..j)) => i = j
    BY RankFacts
  <1>2. ASSUME NEW k \in 1..Cardinality(P)
        PROVE  Nth(P, k) \in P /\ Cardinality(P \cap (1..Nth(P, k))) = k
    BY <1>1, Zenon DEF Nth
  <1>3. ASSUME NEW i \in P PROVE \E k \in 1..Cardinality(P) : Nth(P, k) = i
    <2>1. PICK k \in 1..Cardinality(P) : k = Cardinality(P \cap (1..i))
      BY <1>1, Zenon
    <2>2. Nth(P, k) = i
      BY <1>1, <1>2, <2>1, Zenon
    <2>3. QED
      BY <2>2, Zenon
  <1>4. QED
    BY <1>2, <1>3, Zenon

LEMMA NthOfAll ==
  ASSUME NEW l \in Nat, NEW k \in 1..l
  PROVE  Nth(1..l, k) = k
  <1>1. \A i \in 1..l : Cardinality((1..l) \cap (1..i)) = i
    <2>1. TAKE i \in 1..l
    <2>2. (1..l) \cap (1..i) = 1..i
      OBVIOUS
    <2>3. Cardinality(1..i) = i
      BY FS_Interval
    <2>4. QED
      BY <2>2, <2>3
  <1>2. PICK j : j = Nth(1..l, k)
    OBVIOUS
  <1>3. \E i \in 1..l : Cardinality((1..l) \cap (1..i)) = k
    BY <1>1, Zenon
  <1>4. j \in 1..l /\ Cardinality((1..l) \cap (1..j)) = k
    BY <1>2, <1>3, Zenon DEF Nth
  <1>5. j = k
    BY <1>1, <1>4, Zenon
  <1>6. QED
    BY <1>2, <1>5, Zenon

LEMMA AtFacts ==
  ASSUME NEW S, NEW s, s \in Seq(S), NEW P, P \subseteq DOMAIN s
  PROVE  At(s, P) \in Seq(S) /\ ToSet(At(s, P)) = {s[i] : i \in P}
  <1>1. PICK l \in Nat : DOMAIN s = 1..l /\ \A i \in 1..l : s[i] \in S
    BY LenProperties, ElementOfSeq
  <1>2. PICK c : c = Cardinality(P)
    OBVIOUS
  <1>3. c \in Nat
    BY <1>1, <1>2, RankFacts
  <1>4. /\ \A k \in 1..c : Nth(P, k) \in P
        /\ \A i \in P : \E k \in 1..c : Nth(P, k) = i
    BY <1>1, <1>2, NthFacts, Zenon
  <1>5. PICK u : u = At(s, P)
    OBVIOUS
  <1>6. u = [k \in 1..c |-> s[Nth(P, k)]]
    BY <1>2, <1>5 DEF At
  <1>7. u \in Seq(S)
    <2>1. u \in [1..c -> S]
      BY <1>1, <1>4, <1>6
    <2>2. QED
      BY <1>3, <2>1, SeqDef
  <1>8. ToSet(u) \subseteq {s[i] : i \in P}
    BY <1>4, <1>6 DEF ToSet
  <1>9. ASSUME NEW i \in P PROVE s[i] \in ToSet(u)
    <2>1. PICK k \in 1..c : Nth(P, k) = i
      BY <1>4
    <2>2. QED
      BY <1>6, <2>1 DEF ToSet
  <1>10. QED
    BY <1>5, <1>7, <1>8, <1>9

LEMMA AtAll ==
  ASSUME NEW S, NEW s, s \in Seq(S)
  PROVE  At(s, DOMAIN s) = s
  <1>1. PICK l \in Nat : l = Len(s) /\ DOMAIN s = 1..l /\ s = [i \in 1..l |-> s[i]]
    BY LenProperties
  <1>2. Cardinality(1..l) = l
    BY FS_Interval
  <1>3. At(s, DOMAIN s) = [k \in 1..l |-> s[Nth(1..l, k)]]
    BY <1>1, <1>2 DEF At
  <1>4. \A k \in 1..l : Nth(1..l, k) = k
    BY NthOfAll
  <1>5. QED
    BY <1>1, <1>3, <1>4

LEMMA OnlyFacts ==
  ASSUME NEW S, NEW s, s \in Seq(S), NEW T
  PROVE  /\ Only(s, T) \in Seq(S) /\ ToSet(Only(s, T)) = ToSet(s) \cap T
         /\ ToSet(s) \subseteq T => Only(s, T) = s
  <1>1. PICK P : P = {i \in DOMAIN s : s[i] \in T}
    OBVIOUS
  <1>2. Only(s, T) = At(s, P)
    BY <1>1 DEF Only
  <1>3. At(s, P) \in Seq(S) /\ ToSet(At(s, P)) = {s[i] : i \in P}
    <2>1. P \subseteq DOMAIN s
      BY <1>1
    <2>2. QED
      BY <2>1, AtFacts
  <1>4. {s[i] : i \in P} = ToSet(s) \cap T
    BY <1>1 DEF ToSet
  <1>5. ASSUME ToSet(s) \subseteq T PROVE At(s, P) = s
    <2>1. P = DOMAIN s
      BY <1>1, <1>5 DEF ToSet
    <2>2. QED
      BY <2>1, AtAll
  <1>6. QED
    BY <1>2, <1>3, <1>4, <1>5

LEMMA MinFacts ==
  ASSUME NEW l \in Nat, NEW T, T \subseteq 1..l, T # {}
  PROVE  Min(T) \in T
  <1>1. IsFiniteSet(T)
    <2>1. PICK L : L = 1..l
      OBVIOUS
    <2>2. IsFiniteSet(L) /\ T \in SUBSET L
      BY <2>1, FS_Interval
    <2>3. QED
      BY <2>2, FS_Subset, Zenon
  <1>2. Cardinality(T) \in Nat /\ Cardinality(T) # 0
    BY <1>1, FS_EmptySet, FS_CardinalityType, Zenon
  <1>3. PICK i \in T : Cardinality(T \cap (1..i)) = 1
    <2>1. 1 \in 1..Cardinality(T)
      BY <1>2
    <2>2. \A k \in 1..Cardinality(T) : \E i \in T : Cardinality(T \cap (1..i)) = k
      BY RankFacts, Zenon
    <2>3. QED
      BY <2>1, <2>2, Zenon
  <1>4. PICK U : U = T \cap (1..i)
    OBVIOUS
  <1>5. PICK x : U = {x}
    <2>1. IsFiniteSet(U)
      BY <1>1, <1>4, FS_Subset
    <2>2. QED
      BY <1>3, <1>4, <2>1, FS_Singleton, Zenon
  <1>6. \A y \in T : i <= y
    BY <1>4, <1>5
  <1>7. QED
    BY <1>6, Zenon DEF Min

(***************************************************************************)
(* The instances have these operators under their own names.               *)
(***************************************************************************)
LEMMA BuildersLists ==
  /\ \A S : Builders!Cardinality(S) = Cardinality(S)
  /\ \A s : Builders!ToSet(s) = ToSet(s)
  /\ \A s, T : Builders!Only(s, T) = Only(s, T)
  /\ \A S : Builders!Min(S) = Min(S)
  <1>1. ASSUME NEW S PROVE Builders!Cardinality(S) = Cardinality(S)
    BY Zenon DEF Builders!Cardinality, Cardinality
  <1>2. ASSUME NEW s PROVE Builders!ToSet(s) = ToSet(s)
    BY Zenon DEF Builders!ToSet, ToSet
  <1>3. ASSUME NEW P, NEW k PROVE Builders!Nth(P, k) = Nth(P, k)
    BY Zenon DEF Builders!Nth, Nth, Builders!Cardinality, Cardinality
  <1>4. ASSUME NEW s, NEW P PROVE Builders!At(s, P) = At(s, P)
    BY <1>1, <1>3 DEF Builders!At, At
  <1>5. ASSUME NEW s, NEW T PROVE Builders!Only(s, T) = Only(s, T)
    BY <1>4 DEF Builders!Only, Only
  <1>6. ASSUME NEW S PROVE Builders!Min(S) = Min(S)
    BY Zenon DEF Builders!Min, Min
  <1>7. QED
    BY <1>1, <1>2, <1>5, <1>6

LEMMA BuildersOnly ==
  ASSUME NEW S, NEW s, s \in Seq(S), NEW T
  PROVE  /\ Builders!Only(s, T) \in Seq(S)
         /\ Builders!ToSet(Builders!Only(s, T)) = Builders!ToSet(s) \cap T
         /\ Builders!ToSet(s) \subseteq T => Builders!Only(s, T) = s
  BY OnlyFacts, BuildersLists


(***************************************************************************)
(* Lists.                                                                  *)
(***************************************************************************)
LEMMA ToSetFacts ==
  ASSUME NEW S, NEW s \in Seq(S)
  PROVE  Builders!ToSet(s) \subseteq S /\ Builders!ToSet(s) = {s[i] : i \in 1..Len(s)}
  BY DEF Builders!ToSet

LEMMA AppendToList ==
  ASSUME NEW S, NEW s, s \in Seq(S), NEW e \in S
  PROVE  Append(s, e) \in Seq(S)
           /\ Builders!ToSet(Append(s, e)) = Builders!ToSet(s) \cup {e}
  <1>1. /\ Append(s, e) \in Seq(S) /\ Len(s) \in Nat
        /\ DOMAIN s = 1..Len(s) /\ DOMAIN Append(s, e) = 1..(Len(s) + 1)
        /\ \A i \in 1..Len(s) : Append(s, e)[i] = s[i]
        /\ Append(s, e)[Len(s) + 1] = e
    BY AppendProperties, LenProperties
  <1>2. QED
    BY <1>1 DEF Builders!ToSet

LEMMA ConcatFacts ==
  ASSUME NEW S, NEW s, s \in Seq(S), NEW t, t \in Seq(S)
  PROVE  s \o t \in Seq(S)
           /\ Builders!ToSet(s \o t) = Builders!ToSet(s) \cup Builders!ToSet(t)
  <1>1. s \o t \in Seq(S) /\ Range(s \o t) = Range(s) \cup Range(t)
    BY ConcatProperties, RangeConcatenation
  <1>2. Builders!ToSet(s) = Range(s) /\ Builders!ToSet(t) = Range(t)
          /\ Builders!ToSet(s \o t) = Range(s \o t)
    BY DEF Builders!ToSet, Range
  <1>3. QED
    BY <1>1, <1>2

Between(s, m, n) == {s[i] : i \in m..n}

LEMMA SubSeqFacts ==
  ASSUME NEW S, NEW s, s \in Seq(S), 
         NEW m, m \in 1..(Len(s) + 1), NEW n, n \in (m - 1)..Len(s)
  PROVE  SubSeq(s, m, n) \in Seq(S) /\ Builders!ToSet(SubSeq(s, m, n)) = Between(s, m, n)
  <1>1. PICK l \in Nat : l = Len(s) /\ \A i \in 1..l : s[i] \in S
    BY LenProperties, ElementOfSeq
  <1>2. PICK u : /\ u = SubSeq(s, m, n) /\ u \in Seq(S)
                 /\ DOMAIN u = 1..(n - m + 1)
                 /\ \A i \in 1..(n - m + 1) : u[i] = s[m + i - 1]
    <2>1. \A i \in m..n : s[i] \in S
      BY <1>1
    <2>2. /\ SubSeq(s, m, n) \in Seq(S)
          /\ Len(SubSeq(s, m, n)) = IF m <= n THEN n - m + 1 ELSE 0
          /\ \A i \in 1..(n - m + 1) : SubSeq(s, m, n)[i] = s[m + i - 1]
      BY <1>1, <2>1, SubSeqProperties
    <2>3. DOMAIN SubSeq(s, m, n) = 1..(n - m + 1)
      BY <1>1, <2>2, LenProperties
    <2>4. QED
      BY <2>2, <2>3
  <1>3. ASSUME NEW i \in 1..(n - m + 1) PROVE u[i] \in {s[j] : j \in m..n}
    <2>1. u[i] = s[m + i - 1] /\ m + i - 1 \in m..n
      BY <1>1, <1>2
    <2>2. QED
      BY <2>1
  <1>4. ASSUME NEW j \in m..n PROVE s[j] \in Builders!ToSet(u)
    <2>1. j - m + 1 \in 1..(n - m + 1) /\ m + (j - m + 1) - 1 = j
      BY <1>1
    <2>2. u[j - m + 1] = s[j] /\ j - m + 1 \in DOMAIN u
      BY <1>2, <2>1
    <2>3. QED
      BY <2>2 DEF Builders!ToSet
  <1>5. Builders!ToSet(u) \subseteq {s[j] : j \in m..n}
    BY <1>2, <1>3, Zenon DEF Builders!ToSet
  <1>6. {s[j] : j \in m..n} \subseteq Builders!ToSet(u)
    BY <1>4, Zenon
  <1>7. QED
    BY <1>2, <1>5, <1>6, Zenon DEF Between

(***************************************************************************)
(* MoveStep: what is taken out of a list and put back is all there is.     *)
(***************************************************************************)
LEMMA TakeOutFacts ==
  ASSUME NEW S, NEW s, s \in Seq(S), NEW e, e \in Builders!ToSet(s)
  PROVE  /\ Builders!RemoveFirst(s, e) \in Seq(S)
         /\ Builders!ToSet(Builders!RemoveFirst(s, e)) \cup {e} = Builders!ToSet(s)
  <1>1. PICK l \in Nat : l = Len(s) /\ DOMAIN s = 1..l
    BY LenProperties
  <1>2. \E j \in 1..Len(s) : s[j] = e
    BY <1>1 DEF Builders!ToSet
  <1>3. PICK T : T = {j \in 1..Len(s) : s[j] = e}
    OBVIOUS
  <1>4. T # {} /\ T \subseteq 1..l
    BY <1>1, <1>2, <1>3
  <1>5. PICK i : i = Builders!Min(T)
    OBVIOUS
  <1>6. i \in 1..l /\ s[i] = e
    <2>1. i \in T
      BY <1>4, <1>5, MinFacts, BuildersLists, Zenon
    <2>2. QED
      BY <1>1, <1>3, <2>1
  <1>7. Builders!SelectInSeq(s, LAMBDA v : v = e) = i
    BY <1>3, <1>4, <1>5 DEF Builders!SelectInSeq
  <1>8. Builders!RemoveFirst(s, e) = Builders!RemoveAt(s, i)
    BY <1>2, <1>7 DEF Builders!RemoveFirst
  <1>9. Builders!RemoveFirst(s, e) = SubSeq(s, 1, i - 1) \o SubSeq(s, i + 1, l)
    BY <1>1, <1>8 DEF Builders!RemoveAt
  <1>10. PICK u, v : u = SubSeq(s, 1, i - 1) /\ v = SubSeq(s, i + 1, l)
    OBVIOUS
  <1>11. u \in Seq(S) /\ Builders!ToSet(u) = Between(s, 1, i - 1)
    <2>1. 1 \in 1..(Len(s) + 1) /\ i - 1 \in (1 - 1)..Len(s)
      BY <1>1, <1>6
    <2>2. /\ SubSeq(s, 1, i - 1) \in Seq(S)
          /\ Builders!ToSet(SubSeq(s, 1, i - 1)) = Between(s, 1, i - 1)
      BY <2>1, SubSeqFacts, Zenon
    <2>3. QED
      BY <1>10, <2>2, Zenon
  <1>12. v \in Seq(S) /\ Builders!ToSet(v) = Between(s, i + 1, l)
    <2>1. i + 1 \in 1..(Len(s) + 1) /\ l \in ((i + 1) - 1)..Len(s)
      BY <1>1, <1>6
    <2>2. /\ SubSeq(s, i + 1, l) \in Seq(S)
          /\ Builders!ToSet(SubSeq(s, i + 1, l)) = Between(s, i + 1, l)
      BY <2>1, SubSeqFacts, Zenon
    <2>3. QED
      BY <1>10, <2>2, Zenon
  <1>13. u \o v \in Seq(S)
          /\ Builders!ToSet(u \o v) = Builders!ToSet(u) \cup Builders!ToSet(v)
    BY <1>11, <1>12, ConcatFacts
  <1>14. Builders!ToSet(u) \cup Builders!ToSet(v) \cup {e} = Builders!ToSet(s)
    <2>1. ASSUME NEW j \in 1..l PROVE j \in 1..(i - 1) \/ j \in (i + 1)..l \/ j = i
      BY <1>6
    <2>2. 1..(i - 1) \subseteq 1..l /\ (i + 1)..l \subseteq 1..l
      BY <1>1, <1>6
    <2>3. QED
      BY <1>1, <1>6, <1>11, <1>12, <2>1, <2>2, Zenon DEF Builders!ToSet, Between
  <1>15. QED
    BY <1>9, <1>10, <1>13, <1>14

LEMMA InsertAtFacts ==
  ASSUME NEW S, NEW s, s \in Seq(S), NEW e, e \in S, NEW p, p \in 1..Len(s)
  PROVE  /\ Builders!InsertAt(s, p, e) \in Seq(S)
         /\ Builders!ToSet(Builders!InsertAt(s, p, e)) = Builders!ToSet(s) \cup {e}
  <1>1. PICK l \in Nat : l = Len(s) /\ DOMAIN s = 1..l
    BY LenProperties
  <1>2. PICK u, w, v : u = SubSeq(s, 1, p - 1) /\ w = <<e>> /\ v = SubSeq(s, p, l)
    OBVIOUS
  <1>3. u \in Seq(S) /\ Builders!ToSet(u) = Between(s, 1, p - 1)
    <2>1. 1 \in 1..(Len(s) + 1) /\ p - 1 \in (1 - 1)..Len(s)
      BY <1>1
    <2>2. /\ SubSeq(s, 1, p - 1) \in Seq(S)
          /\ Builders!ToSet(SubSeq(s, 1, p - 1)) = Between(s, 1, p - 1)
      BY <2>1, SubSeqFacts, Zenon
    <2>3. QED
      BY <1>2, <2>2, Zenon
  <1>4. v \in Seq(S) /\ Builders!ToSet(v) = Between(s, p, l)
    <2>1. p \in 1..(Len(s) + 1) /\ l \in (p - 1)..Len(s)
      BY <1>1
    <2>2. /\ SubSeq(s, p, l) \in Seq(S)
          /\ Builders!ToSet(SubSeq(s, p, l)) = Between(s, p, l)
      BY <2>1, SubSeqFacts, Zenon
    <2>3. QED
      BY <1>2, <2>2, Zenon
  <1>5. w \in Seq(S) /\ Builders!ToSet(w) = {e}
    BY <1>2 DEF Builders!ToSet
  <1>6. (u \o w) \in Seq(S)
          /\ Builders!ToSet(u \o w) = Builders!ToSet(u) \cup Builders!ToSet(w)
    BY <1>3, <1>5, ConcatFacts
  <1>7. (u \o w) \o v \in Seq(S)
          /\ Builders!ToSet((u \o w) \o v) = Builders!ToSet(u \o w) \cup Builders!ToSet(v)
    <2>1. PICK x : x = u \o w
      OBVIOUS
    <2>2. x \in Seq(S) /\ v \in Seq(S)
      BY <1>4, <1>6, <2>1
    <2>3. x \o v \in Seq(S)
            /\ Builders!ToSet(x \o v) = Builders!ToSet(x) \cup Builders!ToSet(v)
      BY <2>2, ConcatFacts
    <2>4. QED
      BY <2>1, <2>3
  <1>8. Builders!ToSet(u) \cup Builders!ToSet(v) = Builders!ToSet(s)
    <2>1. ASSUME NEW j \in 1..l PROVE j \in 1..(p - 1) \/ j \in p..l
      BY <1>1
    <2>2. 1..(p - 1) \subseteq 1..l /\ p..l \subseteq 1..l
      BY <1>1
    <2>3. QED
      BY <1>1, <1>3, <1>4, <2>1, <2>2, Zenon DEF Builders!ToSet, Between
  <1>9. Builders!InsertAt(s, p, e) = (u \o w) \o v
    BY <1>1, <1>2 DEF Builders!InsertAt
  <1>10. QED
    BY <1>5, <1>6, <1>7, <1>8, <1>9

(***************************************************************************)
(* A context whose order list names the steps of its map, and what the     *)
(* operations of a context make of one.                                    *)
(***************************************************************************)
Context == [steps : Builders!Partial(StepNames, Builders!Steps), order : Seq(StepNames),
            initial : StepNames \cup {None}]

Agrees(c) == c \in Context /\ Builders!ToSet(c.order) = DOMAIN c.steps

LEMMA PartialFacts ==
  ASSUME NEW S, NEW T, NEW f
  PROVE  /\ f \in Builders!Partial(S, T) => /\ DOMAIN f \subseteq S
                                  /\ f = [x \in DOMAIN f |-> f[x]]
                                  /\ \A x \in DOMAIN f : f[x] \in T
         /\ DOMAIN f \subseteq S /\ f \in [DOMAIN f -> T] => f \in Builders!Partial(S, T)
  BY DEF Builders!Partial

LEMMA PutDomain ==
  ASSUME NEW f, NEW key, NEW x
  PROVE  DOMAIN Builders!Put(f, key, x) = DOMAIN f \cup {key}
  BY DEF Builders!Put

LEMMA PutTypes ==
  ASSUME NEW S, NEW T, NEW f, f \in Builders!Partial(S, T),
         NEW key, key \in S, NEW x, x \in T
  PROVE  Builders!Put(f, key, x) \in Builders!Partial(S, T)
  <1>1. PICK g : g = Builders!Put(f, key, x)
    OBVIOUS
  <1>2. /\ DOMAIN g = DOMAIN f \cup {key}
        /\ \A k \in DOMAIN g : g[k] = IF k = key THEN x ELSE f[k]
        /\ g = [k \in DOMAIN g |-> g[k]]
    BY <1>1 DEF Builders!Put
  <1>3. DOMAIN f \subseteq S /\ \A k \in DOMAIN f : f[k] \in T
    BY PartialFacts
  <1>4. g \in [DOMAIN g -> T]
    BY <1>2, <1>3
  <1>5. QED
    BY <1>1, <1>2, <1>3, <1>4, PartialFacts

LEMMA EmptyFacts ==
  ASSUME NEW S, NEW T
  PROVE  <<>> \in Builders!Partial(S, T) /\ DOMAIN <<>> = {} /\ <<>> \in Seq(S)
           /\ Builders!ToSet(<<>>) = {}
  <1>1. DOMAIN <<>> = {} /\ <<>> \in Seq(S) /\ <<>> \in [{} -> T]
    BY EmptySeq
  <1>2. QED
    BY <1>1 DEF Builders!ToSet, Builders!Partial

LEMMA NewContextAgrees == Agrees(Builders!NewContext)
  <1>1. /\ <<>> \in Builders!Partial(StepNames, Builders!Steps) /\ <<>> \in Seq(StepNames)
        /\ DOMAIN <<>> = {} /\ Builders!ToSet(<<>>) = {}
    BY EmptyFacts
  <1>2. QED
    BY <1>1 DEF Agrees, Builders!NewContext, Context

LEMMA AddStepAgrees ==
  ASSUME NEW c, Agrees(c), NEW s, s \in StepNames
  PROVE  Agrees(Builders!AddStep(c, s))
  <1>1. PICK m, o : m = Builders!Put(c.steps, s, Builders!NewStep) /\ o = Append(c.order, s)
    OBVIOUS
  <1>2. Builders!NewStep \in Builders!Steps
    BY DEF Builders!NewStep, Builders!Steps
  <1>3. m \in Builders!Partial(StepNames, Builders!Steps)
          /\ DOMAIN m = DOMAIN c.steps \cup {s}
    <2>1. c.steps \in Builders!Partial(StepNames, Builders!Steps)
      BY DEF Agrees, Context
    <2>2. PICK f, x, T : f = c.steps /\ x = Builders!NewStep /\ T = Builders!Steps
      OBVIOUS
    <2>3. f \in Builders!Partial(StepNames, T) /\ s \in StepNames /\ x \in T
      BY <1>2, <2>1, <2>2
    <2>4. Builders!Put(f, s, x) \in Builders!Partial(StepNames, T)
      BY <2>3, PutTypes
    <2>5. QED
      BY <1>1, <2>2, <2>4, PutDomain
  <1>4. o \in Seq(StepNames) /\ Builders!ToSet(o) = Builders!ToSet(c.order) \cup {s}
    BY <1>1, AppendToList DEF Agrees, Context
  <1>5. Builders!AddStep(c, s) = [c EXCEPT !.steps = m, !.order = o]
    BY <1>1 DEF Builders!AddStep
  <1>6. QED
    BY <1>3, <1>4, <1>5 DEF Agrees, Context

LEMMA RemoveStepAgrees ==
  ASSUME NEW c, Agrees(c), NEW s, s \in StepNames
  PROVE  Agrees(Builders!RemoveStep(c, s))
  <1>1. PICK m, o : /\ m = [t \in DOMAIN c.steps \ {s} |-> c.steps[t]]
                    /\ o = Builders!Only(c.order, Builders!ToSet(c.order) \ {s})
    OBVIOUS
  <1>2. m \in Builders!Partial(StepNames, Builders!Steps) /\ DOMAIN m = DOMAIN c.steps \ {s}
    <2>1. c.steps \in Builders!Partial(StepNames, Builders!Steps)
      BY DEF Agrees, Context
    <2>2. DOMAIN c.steps \subseteq StepNames
            /\ \A t \in DOMAIN c.steps : c.steps[t] \in Builders!Steps
      BY <2>1, PartialFacts
    <2>3. DOMAIN m = DOMAIN c.steps \ {s} /\ m \in [DOMAIN m -> Builders!Steps]
      BY <1>1, <2>2
    <2>4. QED
      BY <2>2, <2>3, PartialFacts
  <1>3. o \in Seq(StepNames)
          /\ Builders!ToSet(o) =
                  Builders!ToSet(c.order) \cap (Builders!ToSet(c.order) \ {s})
    BY <1>1, BuildersOnly DEF Agrees, Context
  <1>4. Builders!RemoveStep(c, s) = [c EXCEPT !.steps = m, !.order = o]
    BY <1>1 DEF Builders!RemoveStep
  <1>5. QED
    BY <1>2, <1>3, <1>4 DEF Agrees, Context

LEMMA MoveStepAgrees ==
  ASSUME NEW c, Agrees(c), NEW s, s \in StepNames, NEW position
  PROVE  Agrees(Builders!MoveStep(c, s, position))
  <1>1. CASE ~Builders!Contains(c.order, s)
    BY <1>1 DEF Builders!MoveStep
  <1>2. CASE Builders!Contains(c.order, s)
    <2>1. PICK rest : rest = Builders!RemoveFirst(c.order, s)
      OBVIOUS
    <2>2. c.order \in Seq(StepNames) /\ s \in Builders!ToSet(c.order)
      <3>1. c.order \in Seq(StepNames)
        BY DEF Agrees, Context
      <3>2. DOMAIN c.order = 1..Len(c.order)
        BY <3>1, LenProperties
      <3>3. QED
        BY <1>2, <3>1, <3>2 DEF Builders!Contains, Builders!ToSet
    <2>3. rest \in Seq(StepNames) /\ Builders!ToSet(rest) \cup {s} = Builders!ToSet(c.order)
      BY <2>1, <2>2, TakeOutFacts
    <2>4. PICK o : o =
            IF position \in 0..(Len(rest) - 1) THEN Builders!InsertAt(rest, position + 1, s)
                       ELSE Append(rest, s)
      OBVIOUS
    <2>5. o \in Seq(StepNames) /\ Builders!ToSet(o) = Builders!ToSet(c.order)
      <3>1. CASE position \in 0..(Len(rest) - 1)
        <4>1. position + 1 \in 1..Len(rest)
          BY <2>3, <3>1, LenProperties
        <4>2. PICK p : p = position + 1
          OBVIOUS
        <4>3. /\ Builders!InsertAt(rest, p, s) \in Seq(StepNames)
              /\ Builders!ToSet(Builders!InsertAt(rest, p, s)) =
                      Builders!ToSet(rest) \cup {s}
          BY <2>3, <4>1, <4>2, InsertAtFacts
        <4>4. QED
          BY <2>3, <2>4, <3>1, <4>2, <4>3
      <3>2. CASE position \notin 0..(Len(rest) - 1)
        <4>1. /\ Append(rest, s) \in Seq(StepNames)
              /\ Builders!ToSet(Append(rest, s)) = Builders!ToSet(rest) \cup {s}
          BY <2>3, AppendToList
        <4>2. o = Append(rest, s)
          BY <2>4, <3>2, Zenon
        <4>3. QED
          BY <2>3, <4>1, <4>2, Zenon
      <3>3. QED
        BY <3>1, <3>2
    <2>6. Builders!MoveStep(c, s, position) = [c EXCEPT !.order = o]
      BY <1>2, <2>1, <2>4 DEF Builders!MoveStep
    <2>7. QED
      BY <2>5, <2>6 DEF Agrees, Context
  <1>3. QED
    BY <1>1, <1>2

LEMMA InitialAgrees ==
  ASSUME NEW c, Agrees(c), NEW s, s \in StepNames
  PROVE  Agrees([c EXCEPT !.initial = s])
  BY DEF Agrees, Context

LEMMA StepAgrees ==
  ASSUME NEW c, Agrees(c), NEW s, s \in DOMAIN c.steps, NEW t, t \in Builders!Steps
  PROVE  Agrees([c EXCEPT !.steps[s] = t])
  <1>1. PICK m : m = [c.steps EXCEPT ![s] = t]
    OBVIOUS
  <1>2. m \in Builders!Partial(StepNames, Builders!Steps) /\ DOMAIN m = DOMAIN c.steps
    <2>1. c.steps \in Builders!Partial(StepNames, Builders!Steps)
      BY DEF Agrees, Context
    <2>2. /\ DOMAIN c.steps \subseteq StepNames
          /\ c.steps = [x \in DOMAIN c.steps |-> c.steps[x]]
          /\ \A x \in DOMAIN c.steps : c.steps[x] \in Builders!Steps
      BY <2>1, PartialFacts
    <2>3. DOMAIN m = DOMAIN c.steps /\ m \in [DOMAIN m -> Builders!Steps]
      BY <1>1, <2>2
    <2>4. QED
      BY <2>2, <2>3, PartialFacts
  <1>3. [c EXCEPT !.steps[s] = t] = [c EXCEPT !.steps = m]
    BY <1>1 DEF Agrees, Context
  <1>4. QED
    BY <1>2, <1>3 DEF Agrees, Context

(***************************************************************************)
(* The builder.                                                            *)
(***************************************************************************)
Builder == [contexts : Builders!Partial(ContextNames, Context), order : Seq(ContextNames)]

\* The contexts are those of the order list, and each one's map and order list
\* name the same steps: the strengthening of TypeOK that each call preserves.
BuilderInv ==
  /\ state \in Builder
  /\ DOMAIN state.contexts = Builders!ToSet(state.order)
  /\ \A n \in DOMAIN state.contexts : Agrees(state.contexts[n])

LEMMA ContextAgrees ==
  ASSUME BuilderInv, NEW n, n \in DOMAIN state.contexts
  PROVE  n \in ContextNames /\ Agrees(state.contexts[n])
  <1>1. state.contexts \in Builders!Partial(ContextNames, Context)
    BY DEF BuilderInv, Builder
  <1>2. QED
    BY <1>1, PartialFacts DEF BuilderInv

LEMMA NewBuilderKept ==
  ASSUME state' = Builders!NewBuilder
  PROVE  BuilderInv'
  <1>1. /\ <<>> \in Builders!Partial(ContextNames, Context) /\ <<>> \in Seq(ContextNames)
        /\ DOMAIN <<>> = {} /\ Builders!ToSet(<<>>) = {}
    BY EmptyFacts
  <1>2. state' = [contexts |-> <<>>, order |-> <<>>]
    BY DEF Builders!NewBuilder
  <1>3. state' \in Builder
    BY <1>1, <1>2 DEF Builder
  <1>4. QED
    BY <1>1, <1>2, <1>3 DEF BuilderInv

LEMMA OnContextKept ==
  ASSUME BuilderInv, NEW n, n \in DOMAIN state.contexts, NEW c, Agrees(c),
           Builders!OnContext(n, c)
  PROVE  BuilderInv'
  <1>1. PICK m : m = [state.contexts EXCEPT ![n] = c]
    OBVIOUS
  <1>2. state.contexts \in Builders!Partial(ContextNames, Context)
    BY DEF BuilderInv, Builder
  <1>3. /\ DOMAIN state.contexts \subseteq ContextNames
        /\ \A x \in DOMAIN state.contexts : state.contexts[x] \in Context
    BY <1>2, PartialFacts
  <1>4. /\ DOMAIN m = DOMAIN state.contexts
        /\ \A x \in DOMAIN m : m[x] = IF x = n THEN c ELSE state.contexts[x]
        /\ m = [x \in DOMAIN m |-> m[x]]
    BY <1>1, <1>2, PartialFacts
  <1>5. m \in [DOMAIN m -> Context]
    BY <1>3, <1>4 DEF Agrees
  <1>6. m \in Builders!Partial(ContextNames, Context)
    BY <1>3, <1>4, <1>5, PartialFacts
  <1>7. state' = [state EXCEPT !.contexts = m]
    BY <1>1 DEF Builders!OnContext, BuilderInv, Builder
  <1>8. /\ state' \in Builder
        /\ state'.contexts = m /\ state'.order = state.order
    BY <1>6, <1>7 DEF BuilderInv, Builder
  <1>9. DOMAIN state'.contexts = Builders!ToSet(state'.order)
    BY <1>4, <1>8 DEF BuilderInv
  <1>10. \A x \in DOMAIN m : Agrees(m[x])
    BY <1>4 DEF BuilderInv
  <1>11. QED
    BY <1>8, <1>9, <1>10 DEF BuilderInv

LEMMA AddContextKept ==
  ASSUME BuilderInv, NEW n, n \in ContextNames, state' = Builders!AddContext(state, n)
  PROVE  BuilderInv'
  <1>1. PICK b : b = state.contexts
    OBVIOUS
  <1>2. PICK m : m = IF n \in DOMAIN b THEN b ELSE Builders!Put(b, n, Builders!NewContext)
    OBVIOUS
  <1>3. PICK o : o = Append(state.order, n)
    OBVIOUS
  <1>4. b \in Builders!Partial(ContextNames, Context) /\ \A x \in DOMAIN b : Agrees(b[x])
    BY <1>1 DEF BuilderInv, Builder
  <1>5. Agrees(Builders!NewContext) /\ Builders!NewContext \in Context
    BY NewContextAgrees DEF Agrees
  <1>6. /\ m \in Builders!Partial(ContextNames, Context)
        /\ DOMAIN m = DOMAIN b \cup {n}
        /\ \A x \in DOMAIN m : Agrees(m[x])
    <2>1. CASE n \in DOMAIN b
      BY <1>2, <1>4, <2>1
    <2>2. CASE n \notin DOMAIN b
      <3>1. m = Builders!Put(b, n, Builders!NewContext)
        BY <1>2, <2>2
      <3>2. /\ m \in Builders!Partial(ContextNames, Context)
            /\ DOMAIN m = DOMAIN b \cup {n}
            /\ \A x \in DOMAIN m : m[x] = IF x = n THEN Builders!NewContext ELSE b[x]
        <4>1. b \in Builders!Partial(ContextNames, Context)
                /\ Builders!NewContext \in Context
          BY <1>4, <1>5
        <4>2. m \in Builders!Partial(ContextNames, Context) /\ DOMAIN m = DOMAIN b \cup {n}
          BY <3>1, <4>1, PutTypes, PutDomain
        <4>3. QED
          BY <3>1, <4>2 DEF Builders!Put
      <3>3. QED
        BY <1>4, <1>5, <3>2
    <2>3. QED
      BY <2>1, <2>2
  <1>7. o \in Seq(ContextNames) /\ Builders!ToSet(o) = Builders!ToSet(state.order) \cup {n}
    <2>1. state.order \in Seq(ContextNames)
      BY DEF BuilderInv, Builder
    <2>2. QED
      BY <1>3, <2>1, AppendToList
  <1>8. state' = [state EXCEPT !.contexts = m, !.order = o]
    BY <1>1, <1>2, <1>3 DEF Builders!AddContext
  <1>9. state' \in Builder /\ state'.contexts = m /\ state'.order = o
    BY <1>6, <1>7, <1>8 DEF BuilderInv, Builder
  <1>10. DOMAIN b = Builders!ToSet(state.order)
    BY <1>1 DEF BuilderInv
  <1>11. QED
    BY <1>6, <1>7, <1>9, <1>10 DEF BuilderInv

LEMMA StepFieldTypes ==
  ASSUME NEW t, t \in Builders!Steps
  PROVE  /\ \A f \in Fields : Builders!SetField(t, f) \in Builders!Steps
         /\ Builders!ClearSections(t) \in Builders!Steps
         /\ \A a \in Actions : Builders!SetGatherInfo(t, a) \in Builders!Steps
         /\ Builders!AddGatherQuestion(t) \in Builders!Steps
  <1>1. \A f \in Fields : Builders!SetField(t, f) \in Builders!Steps
    BY DEF Builders!Steps, Builders!SetField
  <1>2. Builders!ClearSections(t) \in Builders!Steps
    BY DEF Builders!Steps, Builders!ClearSections
  <1>3. ASSUME NEW a \in Actions PROVE Builders!SetGatherInfo(t, a) \in Builders!Steps
    <2>1. [action |-> a, asks |-> FALSE] \in [action : Actions, asks : BOOLEAN]
      OBVIOUS
    <2>2. QED
      BY <2>1 DEF Builders!Steps, Builders!SetGatherInfo
  <1>4. Builders!AddGatherQuestion(t) \in Builders!Steps
    <2>1. CASE t.gather = None
      BY <2>1 DEF Builders!AddGatherQuestion
    <2>2. CASE t.gather # None
      <3>1. t.gather \in [action : Actions, asks : BOOLEAN]
        BY <2>2 DEF Builders!Steps
      <3>2. PICK g : g = [t.gather EXCEPT !.asks = TRUE]
        OBVIOUS
      <3>3. g \in [action : Actions, asks : BOOLEAN]
        BY <3>1, <3>2
      <3>4. Builders!AddGatherQuestion(t) = [t EXCEPT !.gather = g]
        BY <2>2, <3>2 DEF Builders!AddGatherQuestion, Builders!Steps
      <3>5. QED
        BY <3>3, <3>4 DEF Builders!Steps
    <2>3. QED
      BY <2>1, <2>2
  <1>5. QED
    BY <1>1, <1>2, <1>3, <1>4

LEMMA OnStepKept ==
  ASSUME BuilderInv, NEW n, n \in DOMAIN state.contexts,
         NEW s, s \in DOMAIN state.contexts[n].steps, Builders!OnStep(n, s)
  PROVE  BuilderInv'
  <1>1. PICK c : c = state.contexts[n]
    OBVIOUS
  <1>2. Agrees(c) /\ s \in DOMAIN c.steps
    BY <1>1, ContextAgrees
  <1>3. c.steps[s] \in Builders!Steps
    <2>1. c.steps \in Builders!Partial(StepNames, Builders!Steps)
      BY <1>2 DEF Agrees, Context
    <2>2. QED
      BY <1>2, <2>1, PartialFacts
  <1>4. \E t \in Builders!Steps : Builders!OnContext(n, [c EXCEPT !.steps[s] = t])
    BY <1>1, <1>3, StepFieldTypes DEF Builders!OnStep
  <1>5. QED
    BY <1>2, <1>4, StepAgrees, OnContextKept

LEMMA BuilderStep ==
  BuilderInv /\ [Builders!Next]_state => BuilderInv'
  <1> SUFFICES ASSUME BuilderInv, [Builders!Next]_state PROVE BuilderInv'
    OBVIOUS
  <1>1. ASSUME NEW n \in ContextNames, Builders!DefineContext(n) PROVE BuilderInv'
    BY <1>1, AddContextKept DEF Builders!DefineContext
  <1>2. ASSUME Builders!Reset PROVE BuilderInv'
    BY <1>2, NewBuilderKept DEF Builders!Reset
  <1>3. ASSUME NEW n \in DOMAIN state.contexts, NEW s \in StepNames, Builders!DefineStep(n,
          s)
        PROVE  BuilderInv'
    BY <1>3, ContextAgrees, AddStepAgrees, OnContextKept DEF Builders!DefineStep
  <1>4. ASSUME NEW n \in DOMAIN state.contexts, NEW s \in StepNames, Builders!DropStep(n, s)
        PROVE  BuilderInv'
    BY <1>4, ContextAgrees, RemoveStepAgrees, OnContextKept DEF Builders!DropStep
  <1>5. ASSUME NEW n \in DOMAIN state.contexts, NEW s \in StepNames, NEW p,
               Builders!ReorderStep(n, s, p)
        PROVE  BuilderInv'
    BY <1>5, ContextAgrees, MoveStepAgrees, OnContextKept DEF Builders!ReorderStep
  <1>6. ASSUME NEW n \in DOMAIN state.contexts, NEW s \in StepNames,
          Builders!SetInitialStep(n, s)
        PROVE  BuilderInv'
    BY <1>6, ContextAgrees, InitialAgrees, OnContextKept DEF Builders!SetInitialStep
  <1>7. ASSUME NEW n \in DOMAIN state.contexts, NEW s \in DOMAIN state.contexts[n].steps,
               Builders!OnStep(n, s)
        PROVE  BuilderInv'
    BY <1>7, OnStepKept
  <1>8. CASE UNCHANGED state
    BY <1>8 DEF BuilderInv
  <1>9. QED
    BY <1>1, <1>2, <1>3, <1>4, <1>5, <1>6, <1>7, <1>8, Zenon DEF Builders!Next

LEMMA BuilderInit == Builders!Init => BuilderInv
  <1>1. /\ <<>> \in Builders!Partial(ContextNames, Context) /\ <<>> \in Seq(ContextNames)
        /\ DOMAIN <<>> = {} /\ Builders!ToSet(<<>>) = {}
    BY EmptyFacts
  <1>2. QED
    BY <1>1 DEF Builders!Init, Builders!NewBuilder, BuilderInv, Builder

\* A step of another part does not change what state is of this one.
LEMMA BuilderInvariant == SdkSpec => [](part = "contexts" => BuilderInv)
  <1>1. SdkInit => (part = "contexts" => BuilderInv)
    BY BuilderInit DEF SdkInit
  <1>2. (part = "contexts" => BuilderInv) /\ [SdkNext]_<<vars, part, state>>
          => (part = "contexts" => BuilderInv)'
    <2> SUFFICES ASSUME part = "contexts" => BuilderInv, [SdkNext]_<<vars, part, state>>,
                        part' = "contexts"
                 PROVE  BuilderInv'
      OBVIOUS
    <2>1. part = "contexts" /\ [Builders!Next]_state
      BY DEF SdkNext, OtherNext
    <2>2. QED
      BY <2>1, BuilderStep
  <1>3. QED
    BY <1>1, <1>2, PTL DEF SdkSpec

\* Whatever is built and however often it is rebuilt, the contexts and the steps
\* are those the order lists name, and have their types.
THEOREM BuilderTypesKept == SdkSpec => [](part = "contexts" => Builders!TypeOK)
  <1>1. BuilderInv => Builders!TypeOK
    BY DEF BuilderInv, Builder, Builders!TypeOK, Agrees, Context
  <1>2. QED
    BY <1>1, BuilderInvariant, PTL

(***************************************************************************)
(* What validate() accepts.                                                *)
(***************************************************************************)
Sound(c) ==
  /\ DOMAIN c.steps # {}
  /\ c.initial = None \/ c.initial \in DOMAIN c.steps
  /\ \A i \in DOMAIN c.order : c.order[i] \in DOMAIN c.steps =>
          Builders!GatherResolves(c, i)

\* A document's context, as Navigable asks.
Walkable(d) ==
  LET names == {d.steps[i].name : i \in DOMAIN d.steps}
  IN  /\ d.steps # <<>>
      /\ d.initial \in names \cup {None}
      /\ \A i \in DOMAIN d.steps :
           \/ d.steps[i].gather \in names \cup {None, ""}
           \/ d.steps[i].gather = "next_step" /\ i + 1 \in DOMAIN d.steps

LEMMA SoundIsWalkable ==
  ASSUME NEW c, Agrees(c), Sound(c)
  PROVE  Walkable(Builders!ContextJson(c))
  <1>1. /\ c.order \in Seq(StepNames) /\ Builders!ToSet(c.order) = DOMAIN c.steps
        /\ c.steps \in Builders!Partial(StepNames, Builders!Steps)
    BY DEF Agrees, Context
  <1>2. PICK l \in Nat : l = Len(c.order) /\ DOMAIN c.order = 1..l
    BY <1>1, LenProperties
  <1>3. Builders!Only(c.order, DOMAIN c.steps) = c.order
    BY <1>1, BuildersOnly
  <1>4. PICK r : r = [i \in 1..l |-> Builders!StepJson(c.steps[c.order[i]], c.order[i])]
    OBVIOUS
  <1>5. Builders!ContextJson(c) = [steps |-> r, initial |-> c.initial]
    BY <1>2, <1>3, <1>4 DEF Builders!ContextJson
  <1>6. DOMAIN r = 1..l
    BY <1>4
  <1>7. \A i \in 1..l : r[i].name = c.order[i]
    BY <1>4 DEF Builders!StepJson
  <1>8. PICK names : names = {r[i].name : i \in DOMAIN r}
    OBVIOUS
  <1>9. names = DOMAIN c.steps
    BY <1>1, <1>2, <1>6, <1>7, <1>8 DEF Builders!ToSet
  <1>10. r # <<>>
    <2>1. l # 0
      BY <1>1, <1>2 DEF Builders!ToSet, Sound
    <2>2. QED
      BY <1>6, <2>1, EmptyFacts
  <1>11. ASSUME NEW i, i \in 1..l
         PROVE  \/ r[i].gather \in names \cup {None, ""}
                \/ r[i].gather = "next_step" /\ i + 1 \in 1..l
    <2>1. PICK g : g = c.steps[c.order[i]].gather
      OBVIOUS
    <2>2. r[i].gather = IF g # None /\ g.asks THEN g.action ELSE None
      BY <1>4, <1>11, <2>1 DEF Builders!StepJson
    <2>3. c.order[i] \in DOMAIN c.steps
      BY <1>1, <1>2, <1>11 DEF Builders!ToSet
    <2>4. Builders!GatherResolves(c, i)
      BY <1>2, <1>11, <2>3 DEF Sound
    <2>5. \/ g = None
          \/ g.action = ""
          \/ g.action = "next_step" /\ i < l
          \/ g.action \in DOMAIN c.steps
      BY <1>2, <2>1, <2>4 DEF Builders!GatherResolves
    <2>6. CASE r[i].gather = None
      BY <2>6
    <2>7. CASE r[i].gather # None
      <3>1. r[i].gather = g.action /\ g # None
        BY <2>2, <2>7
      <3>2. i < l => i + 1 \in 1..l
        BY <1>11
      <3>3. QED
        BY <1>9, <2>5, <3>1, <3>2
    <2>8. QED
      BY <2>6, <2>7
  <1>12. c.initial \in names \cup {None}
    BY <1>9 DEF Sound
  <1>13. PICK d : d = Builders!ContextJson(c)
    OBVIOUS
  <1>14. d.steps = r /\ d.initial = c.initial
    BY <1>5, <1>13
  <1>15. Walkable(d)
    BY <1>6, <1>8, <1>10, <1>11, <1>12, <1>14 DEF Walkable
  <1>16. QED
    BY <1>13, <1>15

\* A flow that validate() accepts can be walked: each context renders steps, its
\* start and the places its gathers lead to are among them, whatever adding,
\* repeating, removing and moving led up to it.
THEOREM AcceptedFlowNavigates == SdkSpec => []ValidFlowNavigates
  <1>1. ASSUME BuilderInv, NEW tools, Builders!Validates(state, tools)
        PROVE  /\ Builders!Navigable(Builders!BuilderJson(state))
               /\ DOMAIN Builders!BuilderJson(state) # {}
               /\ tools \cap Builders!Reserved = {}
    <2>1. PICK d : d = Builders!BuilderJson(state)
      OBVIOUS
    <2>2. /\ DOMAIN d = DOMAIN state.contexts
          /\ \A n \in DOMAIN d : d[n] = Builders!ContextJson(state.contexts[n])
      BY <1>1, <2>1 DEF Builders!BuilderJson, BuilderInv
    <2>3. ASSUME NEW n, n \in DOMAIN d
          PROVE  Walkable(d[n])
      <3>1. PICK c : c = state.contexts[n]
        OBVIOUS
      <3>2. Agrees(c)
        BY <1>1, <2>2, <2>3, <3>1 DEF BuilderInv
      <3>3. Sound(c)
        BY <1>1, <2>2, <2>3, <3>1 DEF Builders!Validates, Sound
      <3>4. QED
        BY <2>2, <2>3, <3>1, <3>2, <3>3, SoundIsWalkable
    <2>4. Builders!Navigable(d)
      BY <2>3 DEF Builders!Navigable, Walkable
    <2>5. QED
      BY <1>1, <2>1, <2>2, <2>4 DEF Builders!Validates
  <1>2. BuilderInv => Builders!ValidFlowNavigates
    BY <1>1, Zenon DEF Builders!ValidFlowNavigates
  <1>3. (part = "contexts" => BuilderInv) => ValidFlowNavigates
    BY <1>2 DEF ValidFlowNavigates
  <1>4. QED
    BY <1>3, BuilderInvariant, PTL
=================================================================================
