-------------------------- MODULE MCConfiguration --------------------------
(* The host update, the scoped writes and the lookups by name, side by     *)
(* side: in a behaviour one of the three parts moves, the others are at    *)
(* rest.  They share no state; together they need one run.                 *)
EXTENDS MCHostUpdate, ScopedWrites, Names
CONSTANTS w1, w2, k1, k2, t1, t2
VARIABLE part
TwoWriters == {w1, w2}
TwoSpaces == {k1, k2}
TwoThings == {t1, t2}
TwoTemplates == 1..2

HostAtRest ==
    /\ host = [container |-> here, template |-> v1, own |-> [f \in Fields |-> Inherit]]
    /\ pc = [c \in Calls |-> "idle"]
    /\ req = [c \in Calls |-> NoRequest]
    /\ seen = [c \in Calls |-> host]
    /\ payload = [c \in Calls |-> View(host)]
ScopedAtRest ==
    /\ ScopedInit
    /\ legal = Spaces /\ \A k \in Spaces : visible[k] = Things
    /\ object \in Contact /\ object.at = Spaces /\ object.host = object.service
NamesAtRest == NamesInit /\ phase = "returned" /\ paths = {} /\ given = <<"a">>

ConfigurationInit ==
    \/ part = "host" /\ Init /\ ScopedAtRest /\ NamesAtRest
    \/ part = "scoped" /\ HostAtRest /\ ScopedInit /\ NamesAtRest
    \/ part = "names" /\ HostAtRest /\ ScopedAtRest /\ NamesInit
HostMoves == part = "host" /\ UNCHANGED <<part, scopedVars, namesVars>>
ScopedMoves == part = "scoped" /\ UNCHANGED <<part, vars, namesVars>>
NamesMoves == part = "names" /\ UNCHANGED <<part, vars, scopedVars>>
ConfigurationNext == (HostMoves /\ Next) \/ (ScopedMoves /\ ScopedNext) \/ (NamesMoves /\ NamesNext)
ConfigurationSpec == ConfigurationInit /\ [][ConfigurationNext]_<<part, vars, scopedVars, namesVars>>

ConfigurationSymmetry == Permutations(Writers) \cup Permutations(Spaces) \cup Permutations(Things)
=============================================================================
