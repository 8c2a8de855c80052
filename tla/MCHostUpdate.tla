---------------------------- MODULE MCHostUpdate ----------------------------
(* A host in one of two containers.  Everything with id 1 is visible in    *)
(* both, everything with id 2 in the second only; template 2 differs from  *)
(* template 1 in every field.                                              *)
EXTENDS HostUpdate, TLC
CONSTANTS c1, c2, v1, v2, here, there
OneCall == {c1}
TwoCalls == {c1, c2}
Notes == {"notes"}
Period == {"check_period"}
Groups == {"hostgroups"}
NoFields == {}
TwoValues == {v1, v2}
TwoContainers == {here, there}
OneContainer == {there}
SeenFrom == [k \in Containers |-> [f \in Refs \cup {Template} |-> IF k = here THEN {v1} ELSE {v1, v2}]]
Defaults == [t \in Values |-> [f \in Fields |-> IF f = "contactgroups" THEN Empty ELSE t]]
Symmetry == Permutations(Calls)
=============================================================================
