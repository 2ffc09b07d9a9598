---------------------------- MODULE MCRelayRpc ----------------------------
(* RelayRpc for TLC: the ids are interchangeable, and so are the callers that *)
(* are not the read thread.                                                   *)
EXTENDS RelayRpc, TLC

CONSTANTS Threads    \* the callers besides the read thread

Symmetry == Permutations(Ids) \cup Permutations(Threads)
=============================================================================
