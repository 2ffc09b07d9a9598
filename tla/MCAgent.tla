------------------------------- MODULE MCAgent -------------------------------
(* An instance of Agent for TLC: "joke" supports one instance, "custom"      *)
(* several, and there is no factory for "unknown"; "custom" and the          *)
(* application both provide "lookup".                                        *)
EXTENDS Agent

MCSkills == {"joke", "custom", "unknown"}
MCSkillTools == [s \in MCSkills |-> IF s = "custom" THEN <<"lookup">> ELSE <<>>]
MCSkillData == [s \in MCSkills |-> IF s = "custom" THEN <<>> ELSE <<"joke">>]
MCNoTools == <<>>
MCCopyTools == <<"order">>

\* Nothing tells one call from another.
Symmetry == Permutations(Calls)
=============================================================================
