---------------------------------- MODULE Lists ----------------------------------
(***************************************************************************)
(* Parts of a list, in its order, by position: without recursion, so that   *)
(* they can be reasoned about.                                              *)
(***************************************************************************)
EXTENDS Integers, Sequences, SequencesExt

\* The k-th of the positions kept: k of them stand up to it.
Nth(kept, k) == CHOOSE i \in kept : Cardinality(kept \cap (1..i)) = k

\* The elements of s at the positions kept.
At(s, kept) == [k \in 1..Cardinality(kept) |-> s[Nth(kept, k)]]

\* The elements of s that are in T.
Only(s, T) == At(s, {i \in DOMAIN s : s[i] \in T})
==================================================================================
