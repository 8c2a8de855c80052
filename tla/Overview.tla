------------------------------ MODULE Overview ------------------------------
(***************************************************************************)
(* get_problem_overview and get_impact: what is broken and what is only a  *)
(* consequence, and what depends on a host.  Both walk the status map:     *)
(* unreachable_causes up from the unreachable hosts to the down ones,      *)
(* behind down from one host.  Parent relations may form loops.            *)
(*                                                                         *)
(* The overview is a sequence of requests, while hosts and services go on  *)
(* changing: it counts the failed hosts, reads them, reads the map, counts *)
(* the service problems, counts those on the failed hosts, and lists some. *)
(* Here every host has one service, with one problem state, and nothing is *)
(* acknowledged or in a downtime; names are unique.                        *)
(***************************************************************************)
EXTENDS FiniteSets, Naturals

CONSTANTS
    Nodes,                \* hosts
    FAILED_HOSTS_READ,    \* failed hosts read
    HOST_IDS_PER_REQUEST, \* hosts of one count of services
    PROBLEMS_READ,        \* service problems read to group them
    MaxTurns,             \* bound of the model: changes of a state
    NoNode                \* no host

ASSUME NodesAssumption == IsFiniteSet(Nodes) /\ NoNode \notin Nodes
ASSUME ReadsAssumption ==
    FAILED_HOSTS_READ \in Nat /\ HOST_IDS_PER_REQUEST \in Nat \ {0} /\ PROBLEMS_READ \in Nat /\ MaxTurns \in Nat

VARIABLES
    parents,     \* parents[n]: the hosts it is reached through
    states,      \* states[n]: its state
    ill,         \* hosts whose service has a problem
    turns,       \* number of changes of a state
    stage,       \* the step the call is at
    down,        \* down hosts, as counted
    unreachable, \* unreachable hosts, as counted
    failed,      \* failed[n]: the state of a failed host, of those read
    map,         \* the states of the status map, or NoMap
    unread,      \* unreachable hosts that are not attributed yet
    host,        \* the host the walk is about, or NoNode
    stack,       \* hosts to visit
    visited,     \* hosts visited
    behind,      \* behind[n]: the unreachable hosts attributed to it
    unexplained, \* unreachable hosts without a down host above them
    problems,    \* service problems, as counted
    rest,        \* failed hosts whose services are not counted yet
    onFailed,    \* service problems on failed hosts, as counted
    unhandled,   \* service problems nobody handles, as counted
    listed,      \* hosts of the problem groups
    hint         \* whether the groups do not cover everything

monitored == <<parents, states, ill, turns>>
hosts == <<down, unreachable, failed>>
walk == <<map, unread, host, stack, visited, behind, unexplained>>
services == <<problems, rest, onFailed, unhandled, listed, hint>>
overviewVars == <<monitored, stage, hosts, walk, services>>

HOST_STATES == {"up", "down", "unreachable"}
NoMap == [n \in {} |-> "up"]
Maps == [Nodes -> HOST_STATES]
FailedStates == UNION {[S -> {"down", "unreachable"}] : S \in SUBSET Nodes}

OverviewTypeOK ==
    /\ parents \in [Nodes -> SUBSET Nodes] /\ states \in Maps /\ ill \subseteq Nodes
    /\ stage \in {"down", "unreachable", "failed", "map", "walk", "problems", "on failed", "unhandled",
                  "list", "returned", "impact", "behind", "covered", "raised"}
    /\ failed \in FailedStates
    /\ map \in Maps \cup {NoMap}
    /\ unread \subseteq Nodes /\ host \in Nodes \cup {NoNode}
    /\ stack \subseteq Nodes /\ visited \subseteq Nodes
    /\ behind \in [Nodes -> SUBSET Nodes] /\ unexplained \subseteq Nodes
    /\ rest \subseteq Nodes /\ listed \subseteq Nodes /\ hint \in BOOLEAN

(* An overview, or the impact of a host.                                   *)
OverviewInit ==
    /\ parents \in {p \in [Nodes -> SUBSET Nodes] : \A n \in Nodes : n \notin p[n]}
    /\ states \in Maps /\ turns = 0
    /\ \/ stage = "down" /\ host = NoNode /\ ill \in SUBSET Nodes
       \/ stage = "impact" /\ host \in Nodes /\ ill = {}
    /\ down = 0 /\ unreachable = 0 /\ failed = NoMap
    /\ map = NoMap /\ unread = {} /\ stack = {} /\ visited = {}
    /\ behind = [n \in Nodes |-> {}] /\ unexplained = {}
    /\ problems = 0 /\ rest = {} /\ onFailed = 0 /\ unhandled = 0 /\ listed = {} /\ hint = FALSE

InState(s) == {n \in Nodes : states[n] = s}
Broken == InState("down") \cup InState("unreachable")
AtMost(S, limit) == {T \in SUBSET S : Cardinality(T) = (IF Cardinality(S) < limit THEN Cardinality(S) ELSE limit)}
Children(n) == {c \in Nodes : n \in parents[c]}

(* A host or its service changes its state.                                  *)
Turn ==
    /\ turns < MaxTurns /\ stage \notin {"returned", "covered", "raised"}
    /\ turns' = turns + 1
    /\ \E n \in Nodes :
        \/ \E s \in HOST_STATES : states' = [states EXCEPT ![n] = s] /\ UNCHANGED ill
        \/ ill' = (ill \ {n}) \cup ({n} \ ill) /\ UNCHANGED states
    /\ UNCHANGED <<parents, stage, hosts, walk, services>>

(* A request fails.                                                        *)
OverviewRaises ==
    /\ stage \notin {"walk", "behind", "returned", "covered", "raised"}
    /\ stage' = "raised"
    /\ UNCHANGED <<monitored, hosts, walk, services>>

-----------------------------------------------------------------------------
CountDown ==
    /\ stage = "down"
    /\ down' = Cardinality(InState("down"))
    /\ stage' = "unreachable"
    /\ UNCHANGED <<monitored, unreachable, failed, walk, services>>

CountUnreachable ==
    /\ stage = "unreachable"
    /\ unreachable' = Cardinality(InState("unreachable"))
    /\ stage' = IF down + unreachable' = 0 THEN "problems" ELSE "failed"
    /\ UNCHANGED <<monitored, down, failed, walk, services>>

(* failed_hosts: a page of the failed hosts, with their states.            *)
ReadFailed ==
    /\ stage = "failed"
    /\ \E page \in AtMost(Broken, FAILED_HOSTS_READ) : failed' = [n \in page |-> states[n]]
    /\ stage' = IF unreachable = 0 THEN "problems" ELSE "map"
    /\ UNCHANGED <<monitored, down, unreachable, walk, services>>

(* load_topology: a role may not be allowed to read the status map.        *)
ReadMap ==
    /\ stage = "map"
    /\ \/ /\ map' = states
          /\ unread' = {n \in DOMAIN failed : failed[n] = "unreachable"}
          /\ stage' = "walk"
       \/ stage' = "problems" /\ UNCHANGED <<map, unread>>
    /\ UNCHANGED <<monitored, hosts, host, stack, visited, behind, unexplained, services>>

-----------------------------------------------------------------------------
(* unreachable_causes: from each unreachable host up.                      *)
TakeHost ==
    /\ stage = "walk" /\ host = NoNode
    /\ \E n \in unread : host' = n /\ stack' = parents[n]
    /\ visited' = {}
    /\ UNCHANGED <<monitored, stage, hosts, map, unread, behind, unexplained, services>>

(* Mutant of Above: the walk goes on above a down host.                    *)
AboveAny(n) == parents[n]

(* Where the walk goes on from a host: nowhere above one that is up or     *)
(* down.                                                                   *)
Above(n) == IF map[n] = "unreachable" THEN parents[n] ELSE {}

Visit ==
    /\ stage = "walk" /\ host # NoNode
    /\ \E n \in stack :
        /\ visited' = visited \cup {n}
        /\ stack' = (stack \ {n}) \cup (IF n \in visited THEN {} ELSE Above(n))
    /\ UNCHANGED <<monitored, stage, hosts, map, unread, host, behind, unexplained, services>>

Roots == {n \in visited : map[n] = "down"}

Attribute ==
    /\ stage = "walk" /\ host # NoNode /\ stack = {}
    /\ behind' = [n \in Nodes |-> IF n \in Roots THEN behind[n] \cup {host} ELSE behind[n]]
    /\ unexplained' = unexplained \cup (IF Roots = {} THEN {host} ELSE {})
    /\ unread' = unread \ {host} /\ host' = NoNode
    /\ UNCHANGED <<monitored, stage, hosts, map, stack, visited, services>>

(* What was found.  Where no down host was, the tool names no causes at    *)
(* all (topology.causes).                                                  *)
WalkOver ==
    /\ stage = "walk" /\ host = NoNode /\ unread = {}
    /\ stage' = "problems"
    /\ UNCHANGED <<monitored, hosts, walk, services>>

-----------------------------------------------------------------------------
(* The services: how many have a problem, and how many of them run on the  *)
(* failed hosts, counted for some of these at a time.                      *)
CountProblems ==
    /\ stage = "problems"
    /\ problems' = Cardinality(ill)
    /\ rest' = IF ill = {} THEN {} ELSE DOMAIN failed
    /\ stage' = IF ill = {} THEN "returned" ELSE IF rest' = {} THEN "unhandled" ELSE "on failed"
    /\ UNCHANGED <<monitored, hosts, walk, onFailed, unhandled, listed, hint>>

(* Mutant of CountOnFailed: the first request is taken for all.            *)
CountOnFirst ==
    /\ stage = "on failed"
    /\ \E chunk \in AtMost(rest, HOST_IDS_PER_REQUEST) : onFailed' = Cardinality(chunk \cap ill)
    /\ stage' = "unhandled" /\ rest' = {}
    /\ UNCHANGED <<monitored, hosts, walk, problems, unhandled, listed, hint>>

(* count_on_hosts, one request.                                            *)
CountOnFailed ==
    /\ stage = "on failed"
    /\ \E chunk \in AtMost(rest, HOST_IDS_PER_REQUEST) :
        /\ onFailed' = onFailed + Cardinality(chunk \cap ill)
        /\ rest' = rest \ chunk
    /\ stage' = IF rest' = {} THEN "unhandled" ELSE "on failed"
    /\ UNCHANGED <<monitored, hosts, walk, problems, unhandled, listed, hint>>

CountUnhandled ==
    /\ stage = "unhandled"
    /\ unhandled' = Cardinality(ill)
    /\ stage' = IF ill = {} THEN "returned" ELSE "list"
    /\ UNCHANGED <<monitored, hosts, walk, problems, rest, onFailed, listed, hint>>

(* scan_problems and group_problems: those on hosts that are up.           *)
ReadProblems ==
    /\ stage = "list"
    /\ \E rows \in AtMost(ill, PROBLEMS_READ) :
        /\ listed' = {n \in rows : states[n] = "up"}
        /\ hint' = (unhandled > Cardinality(rows))
    /\ stage' = "returned"
    /\ UNCHANGED <<monitored, hosts, walk, problems, rest, onFailed, unhandled>>

-----------------------------------------------------------------------------
(* get_impact: the map, then the hosts behind this one.                    *)
ReadMapDown ==
    /\ stage = "impact"
    /\ \/ map' = states /\ stack' = Children(host) /\ stage' = "behind"
       \/ stage' = "covered" /\ UNCHANGED <<map, stack>>
    /\ UNCHANGED <<monitored, hosts, unread, host, visited, behind, unexplained, services>>

(* behind: one child is popped.                                            *)
VisitDown ==
    /\ stage = "behind"
    /\ \E n \in stack :
        LET new == n \notin visited /\ n # host
        IN  /\ visited' = IF new THEN visited \cup {n} ELSE visited
            /\ stack' = (stack \ {n}) \cup (IF new THEN Children(n) ELSE {})
    /\ UNCHANGED <<monitored, stage, hosts, map, unread, host, behind, unexplained, services>>

CoveredAll ==
    /\ stage = "behind" /\ stack = {}
    /\ stage' = "covered"
    /\ UNCHANGED <<monitored, hosts, walk, services>>

(* The call is over, the model stops.                                      *)
OverviewOver == stage \in {"returned", "covered", "raised"} /\ UNCHANGED overviewVars

OverviewNext ==
    \/ CountDown \/ CountUnreachable \/ ReadFailed \/ ReadMap
    \/ TakeHost \/ Visit \/ Attribute \/ WalkOver
    \/ CountProblems \/ CountOnFailed \/ CountUnhandled \/ ReadProblems
    \/ ReadMapDown \/ VisitDown \/ CoveredAll
    \/ OverviewRaises \/ Turn \/ OverviewOver

OverviewSpec == OverviewInit /\ [][OverviewNext]_overviewVars

-----------------------------------------------------------------------------
(* The hosts that can be reached from those of S, over whatever paths:     *)
(* they are in every set that has S and, with a host, those it leads to.   *)
Reach(S, leads) ==
    {n \in Nodes : \A R \in SUBSET Nodes : (S \subseteq R /\ \A r \in R : leads[r] \subseteq R) => n \in R}
Upwards == [n \in Nodes |-> IF map[n] = "unreachable" THEN parents[n] ELSE {}]
Downwards == [n \in Nodes |-> Children(n)]

(* "Attribute each unreachable host to the down hosts above it": whatever  *)
(* the topology, loops included, an unreachable host counts for exactly    *)
(* the down hosts it reaches through unreachable ones, and is unexplained  *)
(* if it reaches none.  And behind a host is all that depends on it,       *)
(* directly or further down, but itself.                                   *)
DownAbove(n) == {r \in Reach(parents[n], Upwards) : map[r] = "down"}
Attributed == {n \in DOMAIN failed : failed[n] = "unreachable"} \ unread
CausesAreAbove ==
    /\ (stage \in {"walk", "problems", "on failed", "unhandled", "list", "returned"} /\ map # NoMap) =>
        /\ \A d \in Nodes : behind[d] = {n \in Attributed : d \in DownAbove(n)}
        /\ unexplained = {n \in Attributed : DownAbove(n) = {}}
    /\ (stage = "covered" /\ map # NoMap) => visited = Reach(Children(host), Downwards) \ {host}

(* "The remaining service problems": an overview during which nothing      *)
(* changes splits the problems into those on failed hosts and those on     *)
(* hosts that are up, provided a page holds all failed hosts, and lists    *)
(* the latter, or says that it does not.                                   *)
OverviewAddsUp ==
    (stage = "returned" /\ turns = 0) =>
        /\ problems = Cardinality(ill)
        /\ Cardinality(Broken) <= FAILED_HOSTS_READ => problems - onFailed = Cardinality(ill \ Broken)
        /\ listed \subseteq ill \ Broken
        /\ hint \/ listed = ill \ Broken
=============================================================================
