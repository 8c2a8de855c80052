-------------------------- MODULE MCEngineCommands --------------------------
(* Small instances of EngineCommands: a host with one or two services, and *)
(* two calls that may be made by two users or by one.                      *)
EXTENDS EngineCommands, TLC
CONSTANTS c1, c2, c3, s1, s2
OneCall == {c1}
TwoCalls == {c1, c2}
ThreeCalls == {c1, c2, c3}
NoService == {}
OneService == {s1}
TwoServices == {s1, s2}
Symmetry == Permutations(Calls) \cup Permutations(Services)
=============================================================================
