--------------------------- MODULE MCConfigExport ---------------------------
(* Small instances of ConfigExport: up to three overlapping calls.         *)
EXTENDS ConfigExport, TLC
CONSTANTS c1, c2, c3
OneCall == {c1}
TwoCalls == {c1, c2}
ThreeCalls == {c1, c2, c3}
Symmetry == Permutations(Calls)
=============================================================================
