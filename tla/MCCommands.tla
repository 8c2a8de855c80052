----------------------------- MODULE MCCommands -----------------------------
(* The tools that command the engine, those that switch, make and rename   *)
(* objects, and the overview of what is broken: in a behaviour one of the  *)
(* three parts moves, the others are at rest.  They share no state;        *)
(* together they need one run.                                             *)
EXTENDS MCEngineCommands, Lifecycle, Overview
CONSTANTS n1, n2, n3
VARIABLE part
ThreeNodes == {n1, n2, n3}
Webs == {<<"web", "web10">>}

EngineAtRest == Init /\ \A o \in Objects : ~problem[o]
LifecycleAtRest == LifecycleInit /\ made = 0
(* One host, with or without a service, or a second one of a longer name.  *)
LifecycleStarts == LifecycleInit /\ \A i \in DOMAIN objects : objects[i].name = "web10" <=> i = 2 /\ i \in Hosts
(* The counts of services do not depend on the topology: one of the two    *)
(* varies at a time.                                                       *)
OverviewStarts == OverviewInit /\ (ill = {} \/ \A n \in Nodes : parents[n] = {})
OverviewAtRest ==
    OverviewInit /\ stage = "down" /\ ill = {} /\ \A n \in Nodes : parents[n] = {} /\ states[n] = "up"
CommandsInit ==
    \/ part = "engine" /\ Init /\ LifecycleAtRest /\ OverviewAtRest
    \/ part = "lifecycle" /\ EngineAtRest /\ LifecycleStarts /\ OverviewAtRest
    \/ part = "overview" /\ EngineAtRest /\ LifecycleAtRest /\ OverviewStarts
CommandsNext ==
    /\ part' = part
    /\ \/ part = "engine" /\ Next /\ UNCHANGED <<lifecycleVars, overviewVars>>
       \/ part = "lifecycle" /\ LifecycleNext /\ UNCHANGED <<vars, overviewVars>>
       \/ part = "overview" /\ OverviewNext /\ UNCHANGED <<vars, lifecycleVars>>
CommandsSpec == CommandsInit /\ [][CommandsNext]_<<part, vars, lifecycleVars, overviewVars>>
CommandsSymmetry == Symmetry \cup Permutations(Nodes)
=============================================================================
