--------------------------- MODULE OverviewProofs ---------------------------
(***************************************************************************)
(* Both walks over the status map reach what they should, for any number   *)
(* of hosts and whatever loops the parent relations form.                  *)
(*                                                                         *)
(* A walk has visited only hosts that can be reached, and the hosts it has *)
(* visited lead to nothing but visited hosts and those on its stack.  So   *)
(* once the stack is empty, the visited hosts are a set of the kind Reach  *)
(* intersects, and nothing that can be reached is missing.                 *)
(***************************************************************************)
EXTENDS Overview, FiniteSetTheorems, TLAPS

(* What a walk has visited or will visit can be reached, and whatever it   *)
(* starts at and visited hosts lead to is among that, or passed by.        *)
Walks(S, leads, passed) ==
    /\ visited \cup stack \subseteq Reach(S, leads)
    /\ S \subseteq visited \cup stack \cup passed
    /\ \A v \in visited : leads[v] \subseteq visited \cup stack \cup passed

Unreached == {n \in DOMAIN failed : failed[n] = "unreachable"}

Upward ==
    /\ stage \in {"down", "unreachable", "failed", "map"} =>
        map = NoMap /\ host = NoNode /\ behind = [n \in Nodes |-> {}] /\ unexplained = {}
    /\ stage = "walk" =>
        /\ map \in Maps /\ unread \subseteq Unreached
        /\ host # NoNode => host \in unread /\ Walks(parents[host], Upwards, {})

Downward ==
    /\ stage \in {"impact", "behind", "covered"} => host \in Nodes
    /\ stage = "impact" => map = NoMap /\ visited = {}
    /\ stage = "behind" => host \notin visited /\ Walks(Children(host), Downwards, {host})

(* The inductive invariant.                                                *)
IInv == OverviewTypeOK /\ Upward /\ Downward /\ CausesAreAbove

-----------------------------------------------------------------------------
(* What Reach returns is hosts, has those it starts at, and is closed.     *)
LEMMA ReachGrows ==
    ASSUME NEW S \in SUBSET Nodes, NEW leads \in [Nodes -> SUBSET Nodes]
    PROVE  /\ Reach(S, leads) \subseteq Nodes
           /\ S \subseteq Reach(S, leads)
           /\ \A r \in Reach(S, leads) : leads[r] \subseteq Reach(S, leads)
<1>1. Reach(S, leads) \subseteq Nodes /\ S \subseteq Reach(S, leads)
  BY DEF Reach
<1>2. ASSUME NEW r \in Reach(S, leads), NEW n \in leads[r]
      PROVE  n \in Reach(S, leads)
  <2>1. n \in Nodes
    BY <1>1, <1>2
  <2>2. ASSUME NEW R \in SUBSET Nodes, S \subseteq R, \A x \in R : leads[x] \subseteq R
        PROVE  n \in R
    <3>1. r \in R
      BY <2>2 DEF Reach
    <3> QED
      BY <2>2, <3>1
  <2> QED
    BY <2>1, <2>2 DEF Reach
<1> QED
  BY <1>1, <1>2

(* Reach is within every closed set that has the hosts it starts at.       *)
LEMMA ReachLeast ==
    ASSUME NEW S, NEW leads, NEW R \in SUBSET Nodes,
           S \subseteq R, \A r \in R : leads[r] \subseteq R
    PROVE  Reach(S, leads) \subseteq R
BY DEF Reach

(* Where the walks lead is hosts.                                          *)
LEMMA LeadsToNodes ==
    OverviewTypeOK => /\ Upwards \in [Nodes -> SUBSET Nodes]
                      /\ Downwards \in [Nodes -> SUBSET Nodes]
                      /\ \A n \in Nodes : Children(n) \in SUBSET Nodes /\ parents[n] \in SUBSET Nodes
BY DEF OverviewTypeOK, Upwards, Downwards, Children

(* A walk upwards whose stack is empty has visited all it can reach.       *)
LEMMA WalkedUp ==
    ASSUME OverviewTypeOK, host \in Nodes, Walks(parents[host], Upwards, {}), stack = {}
    PROVE  visited = Reach(parents[host], Upwards)
<1>1. visited \in SUBSET Nodes
  BY DEF OverviewTypeOK
<1>2. parents[host] \subseteq visited /\ \A v \in visited : Upwards[v] \subseteq visited
  BY DEF Walks
<1>3. Reach(parents[host], Upwards) \subseteq visited
  BY <1>1, <1>2, ReachLeast
<1> QED
  BY <1>3 DEF Walks

(* One downwards too, but the host it is about.                            *)
LEMMA WalkedDown ==
    ASSUME OverviewTypeOK, host \in Nodes, Walks(Children(host), Downwards, {host}), stack = {},
           host \notin visited
    PROVE  visited = Reach(Children(host), Downwards) \ {host}
<1> DEFINE R == visited \cup {host}
<1>1. R \in SUBSET Nodes
  BY DEF OverviewTypeOK
<1>2. Children(host) \subseteq R /\ \A v \in R : Downwards[v] \subseteq R
  BY DEF Walks, Downwards
<1>3. Reach(Children(host), Downwards) \subseteq R
  <2> HIDE DEF R
  <2> QED
    BY <1>1, <1>2, ReachLeast
<1> QED
  BY <1>3 DEF Walks

-----------------------------------------------------------------------------
(* Types.                                                                  *)
LEMMA TypeInit == OverviewInit => OverviewTypeOK
<1> SUFFICES ASSUME OverviewInit PROVE OverviewTypeOK
  OBVIOUS
<1>1. failed \in FailedStates
  <2>1. failed \in [{} -> {"down", "unreachable"}] /\ {} \in SUBSET Nodes
    BY DEF OverviewInit, NoMap
  <2> QED
    BY <2>1 DEF FailedStates
<1>2. map \in Maps \cup {NoMap} /\ states \in Maps
  BY DEF OverviewInit
<1>3. parents \in [Nodes -> SUBSET Nodes] /\ behind \in [Nodes -> SUBSET Nodes]
  BY DEF OverviewInit
<1> QED
  BY <1>1, <1>2, <1>3 DEF OverviewInit, OverviewTypeOK

(* Every step keeps the types.                                             *)
LEMMA TypeNext == OverviewTypeOK /\ [OverviewNext]_overviewVars => OverviewTypeOK'
<1> SUFFICES ASSUME OverviewTypeOK, [OverviewNext]_overviewVars PROVE OverviewTypeOK'
  OBVIOUS
<1>0. DOMAIN failed \subseteq Nodes
  BY DEF OverviewTypeOK, FailedStates
<1> USE DEF OverviewTypeOK
<1>1. CASE UNCHANGED overviewVars \/ OverviewOver
  BY <1>1 DEF overviewVars, monitored, hosts, walk, services, OverviewOver
<1>2. CASE CountDown \/ CountUnreachable
  BY <1>2 DEF CountDown, CountUnreachable, monitored, hosts, walk, services
<1>3. CASE ReadFailed
  <2>1. PICK page \in AtMost(Broken, FAILED_HOSTS_READ) : failed' = [n \in page |-> states[n]]
    BY <1>3 DEF ReadFailed
  <2>2. page \subseteq Nodes /\ \A n \in page : states[n] \in {"down", "unreachable"}
    BY <2>1 DEF AtMost, Broken, InState
  <2>3. failed' \in [page -> {"down", "unreachable"}]
    BY <2>1, <2>2
  <2>4. failed' \in FailedStates
    BY <2>2, <2>3 DEF FailedStates
  <2>5. UNCHANGED <<monitored, down, unreachable, walk, services>> /\ stage' \in {"problems", "map"}
    BY <1>3 DEF ReadFailed
  <2> QED
    BY ONLY <2>4, <2>5, OverviewTypeOK DEF OverviewTypeOK, monitored, walk, services
<1>4. CASE ReadMap
  BY <1>0, <1>4 DEF ReadMap, monitored, hosts, services
<1>5. CASE TakeHost \/ Attribute \/ WalkOver
  BY <1>5 DEF TakeHost, Attribute, WalkOver, monitored, hosts, walk, services
<1>6. CASE Visit
  BY <1>6 DEF Visit, Above, monitored, hosts, services
<1>7. CASE CountProblems \/ CountUnhandled
  BY <1>0, <1>7 DEF CountProblems, CountUnhandled, monitored, hosts, walk
<1>10. CASE CountOnFailed
  <2>1. rest' \subseteq Nodes /\ stage' \in {"unhandled", "on failed"}
    BY <1>10 DEF CountOnFailed
  <2> QED
    BY <1>10, <2>1 DEF CountOnFailed, monitored, hosts, walk
<1>11. CASE ReadProblems
  BY <1>11 DEF ReadProblems, AtMost, monitored, hosts, walk
<1>8. CASE ReadMapDown \/ VisitDown \/ CoveredAll
  BY <1>8 DEF ReadMapDown, VisitDown, CoveredAll, Children, monitored, hosts, walk, services
<1>9. CASE OverviewRaises \/ Turn
  BY <1>9 DEF OverviewRaises, Turn, HOST_STATES, Maps, monitored, hosts, walk, services
<1> QED
  BY <1>1, <1>2, <1>3, <1>4, <1>5, <1>6, <1>7, <1>8, <1>9, <1>10, <1>11 DEF OverviewNext

(* Type correctness of the overview and the impact, whatever the topology. *)
THEOREM TypeCorrect == OverviewSpec => []OverviewTypeOK
<1>1. OverviewInit => OverviewTypeOK
  BY TypeInit
<1>2. OverviewTypeOK /\ [OverviewNext]_overviewVars => OverviewTypeOK'
  BY TypeNext
<1> QED
  BY <1>1, <1>2, PTL DEF OverviewSpec

-----------------------------------------------------------------------------
(* While the map and the relations stay, so does what can be reached.      *)
LEMMA ReachKept ==
    ASSUME UNCHANGED <<parents, map>>
    PROVE  /\ Upwards' = Upwards /\ Downwards' = Downwards
           /\ \A n \in Nodes : Children(n)' = Children(n) /\ DownAbove(n)' = DownAbove(n)
BY DEF Upwards, Downwards, Children, DownAbove, Reach

Explained == \A d \in Nodes : behind[d] = {n \in Attributed : d \in DownAbove(n)}
Rest == unexplained = {n \in Attributed : DownAbove(n) = {}}
Counted == {"walk", "problems", "on failed", "unhandled", "list", "returned"}

(* So do the causes, if the stage stays on its side of the walk.           *)
LEMMA CausesKept ==
    ASSUME OverviewTypeOK, CausesAreAbove,
           UNCHANGED <<parents, failed, map, unread, behind, unexplained>>,
           stage' \in Counted /\ map # NoMap => stage \in Counted,
           stage' = "covered" => map = NoMap \/ (stage = "covered" /\ UNCHANGED <<host, visited>>)
    PROVE  CausesAreAbove'
<1>1. /\ \A n \in Nodes : DownAbove(n)' = DownAbove(n) /\ Children(n)' = Children(n)
      /\ Downwards' = Downwards
  BY ReachKept
<1>2. Attributed' = Attributed /\ Attributed \subseteq Nodes
  BY DEF Attributed, OverviewTypeOK, FailedStates
<1>3. ASSUME stage' \in Counted, map # NoMap PROVE Explained' /\ Rest'
  <2>1. Explained /\ Rest
    BY <1>3 DEF CausesAreAbove, Explained, Rest, Counted
  <2>2. Explained'
    BY <1>1, <1>2, <2>1 DEF Explained
  <2>3. Rest'
    BY <1>1, <1>2, <2>1 DEF Rest
  <2> QED
    BY <2>2, <2>3
<1>4. ASSUME stage' = "covered", map # NoMap
      PROVE  (visited = Reach(Children(host), Downwards) \ {host})'
  <2>1. stage = "covered" /\ UNCHANGED <<host, visited>>
    BY <1>4
  <2>2. visited = Reach(Children(host), Downwards) \ {host}
    BY <1>4, <2>1 DEF CausesAreAbove
  <2>3. Children(host)' = Children(host)
    BY <2>1 DEF Children
  <2>4. Reach(Children(host), Downwards)' = Reach(Children(host), Downwards)
    BY <1>1, <2>3 DEF Reach
  <2> QED
    BY <2>1, <2>2, <2>4
<1> QED
  BY <1>3, <1>4 DEF CausesAreAbove, Explained, Rest, Counted

(* What Walks says stays true while the walk rests.                        *)
LEMMA WalksKept ==
    ASSUME UNCHANGED <<parents, map, host, stack, visited>>, host \in Nodes
    PROVE  /\ Walks(parents[host], Upwards, {}) => Walks(parents[host], Upwards, {})'
           /\ Walks(Children(host), Downwards, {host}) => Walks(Children(host), Downwards, {host})'
<1>1. /\ UNCHANGED <<Upwards, Downwards>> /\ Children(host)' = Children(host)
      /\ parents[host]' = parents[host]
  BY ReachKept DEF Children
<1>2. /\ Reach(parents[host], Upwards)' = Reach(parents[host], Upwards)
      /\ Reach(Children(host), Downwards)' = Reach(Children(host), Downwards)
  BY <1>1 DEF Reach
<1> QED
  BY <1>1, <1>2 DEF Walks

Before == {"down", "unreachable", "failed", "map"}

(* The steps beside the walks leave what Upward and Downward say.          *)
LEMMA WalkRests ==
    ASSUME IInv, UNCHANGED <<parents, walk>>,
           stage' \in Before => stage \in Before,
           stage' = "walk" => stage = "walk" /\ UNCHANGED failed,
           stage' \in {"impact", "behind"} => stage' = stage,
           stage' = "covered" => stage \in {"impact", "behind", "covered"}
    PROVE  Upward' /\ Downward'
<1> USE DEF IInv
<1>1. UNCHANGED <<map, unread, host, stack, visited, behind, unexplained>>
  BY DEF walk
<1>2. ASSUME stage' = "walk", host # NoNode
      PROVE  Walks(parents[host], Upwards, {})'
  BY <1>1, <1>2, WalksKept DEF Upward, OverviewTypeOK
<1>3. ASSUME stage' = "behind"
      PROVE  Walks(Children(host), Downwards, {host})'
  BY <1>1, <1>3, WalksKept DEF Downward
<1>4. stage' = "walk" => Unreached' = Unreached
  BY DEF Unreached
<1>5. Maps' = Maps /\ NoMap' = NoMap
  OBVIOUS
<1>6. Upward'
  BY <1>1, <1>2, <1>4, <1>5 DEF Upward, Before
<1>7. Downward'
  BY <1>1, <1>3, <1>5 DEF Downward
<1> QED
  BY <1>6, <1>7

-----------------------------------------------------------------------------
(* The walk up, step by step: nothing is attributed when it starts.        *)
LEMMA StartsUp == IInv /\ ReadMap => Upward' /\ Downward' /\ CausesAreAbove'
<1> SUFFICES ASSUME IInv, ReadMap PROVE Upward' /\ Downward' /\ CausesAreAbove'
  OBVIOUS
<1> USE DEF IInv
<1>1. UNCHANGED <<failed, host, behind, unexplained>> /\ host = NoNode /\ map = NoMap
  BY DEF ReadMap, Upward, hosts
<1>2. CASE stage' = "walk"
  <2>1. unread' = Unreached' /\ map' \in Maps'
    BY <1>1, <1>2 DEF ReadMap, Unreached, OverviewTypeOK, Maps
  <2>2. Attributed' = {}
    BY <2>1 DEF Attributed, Unreached
  <2>3. Explained' /\ Rest'
    BY <1>1, <2>2 DEF ReadMap, Upward, Explained, Rest
  <2> QED
    BY <1>1, <1>2, <2>1, <2>3 DEF Upward, Downward, CausesAreAbove, Explained, Rest
<1>3. CASE stage' = "problems"
  BY <1>1, <1>3 DEF ReadMap, Upward, Downward, CausesAreAbove, NoMap
<1> QED
  BY <1>2, <1>3 DEF ReadMap

(* It starts for a host at its parents.                                    *)
LEMMA TakesHost == IInv /\ TakeHost => Upward' /\ Downward' /\ CausesAreAbove'
<1> SUFFICES ASSUME IInv, TakeHost PROVE Upward' /\ Downward' /\ CausesAreAbove'
  OBVIOUS
<1> USE DEF IInv
<1>1. UNCHANGED <<parents, stage, failed, map, unread, behind, unexplained>> /\ stage = "walk"
  BY DEF TakeHost, monitored, hosts
<1>2. host' \in unread /\ stack' = parents[host'] /\ visited' = {} /\ host' \in Nodes
  BY DEF TakeHost, OverviewTypeOK
<1>3. CausesAreAbove'
  BY <1>1, CausesKept
<1>4. Upwards' = Upwards /\ Upwards \in [Nodes -> SUBSET Nodes] /\ parents[host'] \in SUBSET Nodes
  BY <1>1, <1>2, ReachKept, LeadsToNodes
<1>5. parents[host'] \subseteq Reach(parents[host'], Upwards)
  BY <1>4, ReachGrows
<1>6. Walks(parents[host], Upwards, {})'
  BY <1>1, <1>2, <1>4, <1>5 DEF Walks, Reach
<1>7. Upward' /\ Downward'
  BY <1>1, <1>2, <1>6 DEF Upward, Downward, Unreached, Maps
<1> QED
  BY <1>3, <1>7

(* From a host it goes on to what that leads to, which can be reached too. *)
LEMMA Visits == IInv /\ Visit => Upward' /\ Downward' /\ CausesAreAbove'
<1> SUFFICES ASSUME IInv, Visit PROVE Upward' /\ Downward' /\ CausesAreAbove'
  OBVIOUS
<1> USE DEF IInv
<1>1. UNCHANGED <<parents, stage, failed, map, unread, host, behind, unexplained>> /\ stage = "walk"
  BY DEF Visit, monitored, hosts
<1>2. CausesAreAbove'
  BY <1>1, CausesKept
<1>3. host \in unread /\ host \in Nodes /\ Walks(parents[host], Upwards, {}) /\ map \in Maps
  BY <1>1 DEF Visit, Upward, OverviewTypeOK
<1>4. Upwards' = Upwards /\ Upwards \in [Nodes -> SUBSET Nodes] /\ parents[host] \in SUBSET Nodes
  BY <1>1, <1>3, ReachKept, LeadsToNodes
<1> DEFINE Up == Reach(parents[host], Upwards)
<1>5. \A r \in Up : Upwards[r] \subseteq Up
  BY <1>4, ReachGrows
<1>6. PICK n \in stack : /\ visited' = visited \cup {n}
                         /\ stack' = (stack \ {n}) \cup (IF n \in visited THEN {} ELSE Above(n))
  BY DEF Visit
<1>7. n \in Nodes /\ Above(n) = Upwards[n]
  BY <1>6 DEF OverviewTypeOK, Above, Upwards
<1>8. visited \cup stack \subseteq Up /\ parents[host] \subseteq visited \cup stack
      /\ \A v \in visited : Upwards[v] \subseteq visited \cup stack
  BY <1>3 DEF Walks
<1>9. Up' = Up /\ parents'[host'] = parents[host]
  BY <1>1, <1>4 DEF Reach
<1>10. visited' \cup stack' \subseteq Up
  <2> HIDE DEF Up
  <2> QED
    BY <1>5, <1>6, <1>7, <1>8
<1>11. \A v \in visited' : Upwards[v] \subseteq visited' \cup stack'
  BY <1>6, <1>7, <1>8
<1>12. parents[host] \subseteq visited' \cup stack'
  BY <1>6, <1>8
<1>13. Walks(parents[host], Upwards, {})'
  BY <1>1, <1>4, <1>9, <1>10, <1>11, <1>12 DEF Walks
<1>14. Upward' /\ Downward'
  BY <1>1, <1>3, <1>13 DEF Upward, Downward, Unreached, Maps
<1> QED
  BY <1>2, <1>14

(* With an empty stack, the down hosts visited are those above.            *)
LEMMA Attributes == IInv /\ Attribute => Upward' /\ Downward' /\ CausesAreAbove'
<1> SUFFICES ASSUME IInv, Attribute PROVE Upward' /\ Downward' /\ CausesAreAbove'
  OBVIOUS
<1> USE DEF IInv
<1>1. /\ UNCHANGED <<parents, stage, failed, map>> /\ stage = "walk" /\ stack = {}
      /\ unread' = unread \ {host} /\ host' = NoNode
  BY DEF Attribute, monitored, hosts
<1>2. /\ host \in unread /\ host \in Nodes /\ Walks(parents[host], Upwards, {})
      /\ map \in Maps /\ unread \subseteq Unreached
  BY <1>1 DEF Attribute, Upward, OverviewTypeOK
<1>3. visited = Reach(parents[host], Upwards)
  BY <1>1, <1>2, WalkedUp
<1>4. Roots = DownAbove(host) /\ Roots \subseteq Nodes
  BY <1>3 DEF Roots, DownAbove, OverviewTypeOK
<1>5. Attributed' = Attributed \cup {host} /\ host \notin Attributed /\ Attributed \subseteq Nodes
  BY <1>1, <1>2 DEF Attributed, Unreached, OverviewTypeOK, FailedStates
<1>6. \A n \in Nodes : DownAbove(n)' = DownAbove(n)
  BY <1>1, ReachKept
<1>7. ASSUME map # NoMap PROVE Explained' /\ Rest'
  <2>1. Explained /\ Rest
    BY <1>1, <1>7 DEF CausesAreAbove, Explained, Rest
  <2>2. Explained'
    BY <1>2, <1>4, <1>5, <1>6, <2>1 DEF Attribute, Explained
  <2>3. Rest'
    BY <1>2, <1>4, <1>5, <1>6, <2>1 DEF Attribute, Rest
  <2> QED
    BY <2>2, <2>3
<1>8. CausesAreAbove'
  BY <1>1, <1>7 DEF CausesAreAbove, Explained, Rest
<1>9. Upward' /\ Downward'
  BY <1>1, <1>2 DEF Upward, Downward, Unreached, Maps
<1> QED
  BY <1>8, <1>9

-----------------------------------------------------------------------------
(* The walk down: it starts at the children of the host.                   *)
LEMMA StartsDown == IInv /\ ReadMapDown => Upward' /\ Downward' /\ CausesAreAbove'
<1> SUFFICES ASSUME IInv, ReadMapDown PROVE Upward' /\ Downward' /\ CausesAreAbove'
  OBVIOUS
<1> USE DEF IInv
<1>1. /\ UNCHANGED <<parents, failed, host, visited, unread, behind, unexplained>> /\ stage = "impact"
      /\ host \in Nodes /\ visited = {} /\ map = NoMap
  BY DEF ReadMapDown, Downward, monitored, hosts
<1>2. CASE stage' = "covered" /\ UNCHANGED <<map, stack>>
  BY <1>1, <1>2 DEF Upward, Downward, CausesAreAbove, NoMap
<1>3. CASE stack' = Children(host) /\ stage' = "behind"
  <2>1. Downwards' = Downwards /\ Children(host)' = Children(host)
    BY <1>1 DEF Downwards, Children
  <2>2. Children(host) \subseteq Reach(Children(host), Downwards)
    BY <1>1, LeadsToNodes, ReachGrows
  <2>3. Walks(Children(host), Downwards, {host})'
    BY <1>1, <1>3, <2>1, <2>2 DEF Walks, Reach
  <2> QED
    BY <1>1, <1>3, <2>3 DEF Upward, Downward, CausesAreAbove
<1> QED
  BY <1>2, <1>3 DEF ReadMapDown

(* A host that was visited, or the walk's own, adds nothing.               *)
LEMMA VisitsDown == IInv /\ VisitDown => Upward' /\ Downward' /\ CausesAreAbove'
<1> SUFFICES ASSUME IInv, VisitDown PROVE Upward' /\ Downward' /\ CausesAreAbove'
  OBVIOUS
<1> USE DEF IInv
<1>1. UNCHANGED <<parents, stage, host, map>> /\ stage = "behind"
  BY DEF VisitDown, monitored
<1>2. host \in Nodes /\ host \notin visited /\ Walks(Children(host), Downwards, {host})
  BY <1>1 DEF Downward
<1>3. /\ Downwards' = Downwards /\ Children(host)' = Children(host)
      /\ Downwards \in [Nodes -> SUBSET Nodes] /\ Children(host) \in SUBSET Nodes
  BY <1>1, <1>2, LeadsToNodes DEF Downwards, Children
<1> DEFINE Down == Reach(Children(host), Downwards)
<1>4. \A r \in Down : Downwards[r] \subseteq Down
  BY <1>3, ReachGrows
<1>5. /\ visited \cup stack \subseteq Down /\ Children(host) \subseteq visited \cup stack \cup {host}
      /\ \A v \in visited : Downwards[v] \subseteq visited \cup stack \cup {host}
  BY <1>2 DEF Walks
<1>6. PICK n \in stack :
        /\ visited' = IF n \notin visited /\ n # host THEN visited \cup {n} ELSE visited
        /\ stack' = (stack \ {n}) \cup (IF n \notin visited /\ n # host THEN Children(n) ELSE {})
  BY DEF VisitDown
<1>7. n \in Nodes /\ Children(n) = Downwards[n]
  BY <1>6 DEF OverviewTypeOK, Downwards
<1>8. Down' = Down
  BY <1>1, <1>3 DEF Reach
<1>9. visited' \cup stack' \subseteq Down
  <2> HIDE DEF Down
  <2> QED
    BY <1>4, <1>5, <1>6, <1>7
<1>10. \A v \in visited' : Downwards[v] \subseteq visited' \cup stack' \cup {host}
  BY <1>5, <1>6, <1>7
<1>11. Children(host) \subseteq visited' \cup stack' \cup {host}
  BY <1>5, <1>6
<1>12. Walks(Children(host), Downwards, {host})'
  BY <1>1, <1>3, <1>8, <1>9, <1>10, <1>11 DEF Walks
<1>13. host' \in Nodes /\ host' \notin visited'
  BY <1>1, <1>2, <1>6
<1> QED
  BY <1>1, <1>12, <1>13 DEF Upward, Downward, CausesAreAbove

(* With an empty stack, the hosts visited are those behind.                *)
LEMMA CoversAll == IInv /\ CoveredAll => Upward' /\ Downward' /\ CausesAreAbove'
<1> SUFFICES ASSUME IInv, CoveredAll PROVE Upward' /\ Downward' /\ CausesAreAbove'
  OBVIOUS
<1> USE DEF IInv
<1>1. /\ UNCHANGED <<parents, map, host, visited, walk>> /\ stage = "behind" /\ stage' = "covered"
      /\ stack = {} /\ host \in Nodes
  BY DEF CoveredAll, Downward, monitored, walk
<1>2. visited = Reach(Children(host), Downwards) \ {host}
  BY <1>1, WalkedDown DEF Downward
<1>3. (visited = Reach(Children(host), Downwards) \ {host})'
  BY <1>1, <1>2 DEF Reach, Children, Downwards
<1>4. CausesAreAbove'
  BY <1>1, <1>3 DEF CausesAreAbove
<1> QED
  BY <1>1, <1>4, WalkRests DEF Before

-----------------------------------------------------------------------------
(* The other steps: counts, failed requests and changes of a state.        *)
LEMMA OthersRest ==
    ASSUME IInv,
           \/ CountDown \/ CountUnreachable \/ ReadFailed \/ WalkOver \/ CountProblems \/ CountOnFailed
           \/ CountUnhandled \/ ReadProblems \/ OverviewRaises \/ Turn \/ OverviewOver
           \/ UNCHANGED overviewVars
    PROVE  Upward' /\ Downward' /\ CausesAreAbove'
<1> USE DEF IInv
<1>1. UNCHANGED <<parents, walk>>
  BY DEF CountDown, CountUnreachable, ReadFailed, WalkOver, CountProblems, CountOnFailed, CountUnhandled,
         ReadProblems, OverviewRaises, Turn, OverviewOver, overviewVars, monitored
<1>2. /\ stage' \in Before => stage \in Before
      /\ stage' = "walk" => stage = "walk" /\ UNCHANGED failed
      /\ stage' \in {"impact", "behind", "covered"} => stage' = stage
  BY DEF CountDown, CountUnreachable, ReadFailed, WalkOver, CountProblems, CountOnFailed, CountUnhandled,
         ReadProblems, OverviewRaises, Turn, OverviewOver, overviewVars, hosts, Before
<1>3. /\ ~ReadFailed => UNCHANGED failed
      /\ stage' \in Counted /\ map # NoMap => stage \in Counted
  BY DEF CountDown, CountUnreachable, ReadFailed, WalkOver, CountProblems, CountOnFailed, CountUnhandled,
         ReadProblems, OverviewRaises, Turn, OverviewOver, overviewVars, hosts, Counted, Upward
<1>4. Upward' /\ Downward'
  BY <1>1, <1>2, WalkRests
<1>5. UNCHANGED <<map, unread, host, visited, behind, unexplained>>
  BY <1>1 DEF walk
<1>6. CASE ReadFailed
  <2>1. map' = NoMap /\ stage' # "covered"
    BY <1>5, <1>6 DEF ReadFailed, Upward
  <2> QED
    BY <1>4, <2>1 DEF CausesAreAbove
<1>7. CASE ~ReadFailed
  <2>1. OverviewTypeOK /\ CausesAreAbove
    OBVIOUS
  <2>2. stage' = "covered" => stage = "covered" /\ UNCHANGED <<host, visited>>
    BY <1>2, <1>5
  <2>3. UNCHANGED <<parents, failed, map, unread, behind, unexplained>>
    BY <1>1, <1>3, <1>5, <1>7
  <2>4. stage' \in Counted /\ map # NoMap => stage \in Counted
    BY <1>3
  <2> QED
    BY ONLY <1>4, <2>1, <2>2, <2>3, <2>4, CausesKept
<1> QED
  BY <1>6, <1>7

(* CausesAreAbove: for any number of hosts and whatever loops they form,   *)
(* the overview attributes an unreachable host to exactly the down hosts   *)
(* it is behind of, and the impact of a host is all that is behind it.     *)
THEOREM CausesAreRight == OverviewSpec => []CausesAreAbove
<1>1. OverviewInit => IInv
  <2> SUFFICES ASSUME OverviewInit PROVE IInv
    OBVIOUS
  <2>1. OverviewTypeOK
    BY TypeInit
  <2> QED
    BY <2>1 DEF OverviewInit, IInv, Upward, Downward, CausesAreAbove
<1>2. IInv /\ [OverviewNext]_overviewVars => IInv'
  <2> SUFFICES ASSUME IInv, [OverviewNext]_overviewVars PROVE IInv'
    OBVIOUS
  <2>1. OverviewTypeOK'
    BY TypeNext DEF IInv
  <2>2. Upward' /\ Downward' /\ CausesAreAbove'
    BY StartsUp, TakesHost, Visits, Attributes, StartsDown, VisitsDown, CoversAll, OthersRest DEF OverviewNext
  <2> QED
    BY <2>1, <2>2 DEF IInv
<1>3. IInv => CausesAreAbove
  BY DEF IInv
<1> QED
  BY <1>1, <1>2, <1>3, PTL DEF OverviewSpec

-----------------------------------------------------------------------------
(* The stages of an overview before what is named by each.                 *)
BeforeServices == {"down", "unreachable", "failed", "map", "walk", "problems"}
Unlisted == BeforeServices \cup {"on failed", "unhandled", "list"}
FailedKnown == {"map", "walk", "problems", "on failed", "unhandled", "list", "returned"}

(* The failed hosts that were read are failed, and all of them if there is *)
(* room for them.                                                          *)
FailedAre ==
    /\ DOMAIN failed \subseteq Broken
    /\ Cardinality(Broken) <= FAILED_HOSTS_READ => DOMAIN failed = Broken

(* What an overview has counted so far, as long as nothing changed.        *)
CountedSoFar ==
    /\ stage \in {"down", "unreachable"} => failed = NoMap
    /\ stage = "unreachable" => down = Cardinality(InState("down"))
    /\ stage \in FailedKnown => FailedAre
    /\ stage \in BeforeServices => onFailed = 0
    /\ stage \in Unlisted => listed = {} /\ hint = FALSE
    /\ stage = "on failed" =>
          /\ rest \subseteq DOMAIN failed /\ problems = Cardinality(ill)
          /\ onFailed = Cardinality((DOMAIN failed \ rest) \cap ill)
    /\ stage \in {"unhandled", "list"} =>
          problems = Cardinality(ill) /\ onFailed = Cardinality(DOMAIN failed \cap ill)
    /\ stage = "list" => unhandled = Cardinality(ill)

(* The invariant of the sums.                                              *)
SumsInv ==
    /\ OverviewTypeOK
    /\ turns \in Nat
    /\ turns = 0 => CountedSoFar
    /\ OverviewAddsUp

(* Sets of hosts are counted; a set of as many among others is all of them.*)
LEMMA NodesFinite ==
    \A S \in SUBSET Nodes : /\ IsFiniteSet(S) /\ Cardinality(S) \in Nat
                            /\ Cardinality(S) = 0 <=> S = {}
                            /\ \A T \in SUBSET S : /\ Cardinality(T) <= Cardinality(S)
                                                   /\ Cardinality(T) = Cardinality(S) => T = S
<1> SUFFICES ASSUME NEW S \in SUBSET Nodes
             PROVE  /\ IsFiniteSet(S) /\ Cardinality(S) \in Nat
                    /\ Cardinality(S) = 0 <=> S = {}
                    /\ \A T \in SUBSET S : /\ Cardinality(T) <= Cardinality(S)
                                           /\ Cardinality(T) = Cardinality(S) => T = S
  OBVIOUS
<1>1. IsFiniteSet(S)
  BY NodesAssumption, FS_Subset
<1> QED
  BY <1>1, FS_Subset, FS_CardinalityType, FS_EmptySet

(* The problems on all hosts are those on failed ones and the others.      *)
LEMMA ProblemsSplit ==
    ASSUME ill \in SUBSET Nodes, NEW F \in SUBSET Nodes
    PROVE  Cardinality(ill) - Cardinality(F \cap ill) = Cardinality(ill \ F)
<1>1. IsFiniteSet(ill)
  BY NodesFinite
<1>2. Cardinality(ill \ F) = Cardinality(ill) - Cardinality(ill \cap F)
  BY <1>1, FS_Difference
<1>3. ill \cap F = F \cap ill
  OBVIOUS
<1> QED
  BY <1>2, <1>3

(* Hosts counted in two requests are counted once.                         *)
LEMMA ChunksAddUp ==
    ASSUME NEW A \in SUBSET Nodes, NEW B \in SUBSET Nodes, A \cap B = {}
    PROVE  Cardinality(A \cup B) = Cardinality(A) + Cardinality(B)
<1>1. IsFiniteSet(A) /\ IsFiniteSet(B)
  BY NodesFinite
<1>2. Cardinality(A \cup B) = Cardinality(A) + Cardinality(B) - Cardinality(A \cap B)
  BY <1>1, FS_Union
<1>3. Cardinality(A \cap B) = 0
  BY FS_EmptySet
<1>4. Cardinality(A) \in Nat /\ Cardinality(B) \in Nat
  BY <1>1, FS_CardinalityType
<1> QED
  BY <1>2, <1>3, <1>4

(* While nothing that it is made of changes, nor does what is counted.     *)
LEMMA CountsStay ==
    ASSUME UNCHANGED <<states, ill>>
    PROVE  /\ Broken' = Broken /\ \A s \in HOST_STATES : InState(s)' = InState(s)
           /\ \A S : Cardinality(S \cap ill)' = Cardinality(S \cap ill)
BY DEF Broken, InState

(* Every step of an overview and of the plant keeps what is counted.       *)
LEMMA SumsKeep ==
    ASSUME SumsInv, [OverviewNext]_overviewVars
    PROVE  SumsInv'
<1>0. /\ OverviewTypeOK /\ OverviewTypeOK' /\ turns \in Nat /\ (turns = 0 => CountedSoFar) /\ OverviewAddsUp
      /\ ill \in SUBSET Nodes /\ Broken \in SUBSET Nodes /\ DOMAIN failed \in SUBSET Nodes
  <2>1. OverviewTypeOK /\ OverviewTypeOK'
    BY TypeNext DEF SumsInv
  <2> QED
    BY <2>1 DEF SumsInv, OverviewTypeOK, Broken, InState, FailedStates
<1> DEFINE Same == UNCHANGED <<states, ill, turns>>
<1> DEFINE Goal == turns' = 0 => CountedSoFar' /\ OverviewAddsUp'
<1>1. CASE Turn
  <2>1. turns' = turns + 1
    BY <1>1 DEF Turn
  <2> QED
    BY <1>0, <2>1 DEF SumsInv, OverviewAddsUp
<1>2. ASSUME Same, turns = 0 => CountedSoFar' /\ (stage' = "returned" => OverviewAddsUp') PROVE SumsInv'
  BY <1>0, <1>2 DEF SumsInv, OverviewAddsUp
<1>3. ASSUME Same PROVE Broken' = Broken /\ \A s \in HOST_STATES : InState(s)' = InState(s)
  BY <1>3, CountsStay
<1>4. CASE CountDown
  <2>1. Same /\ stage = "down" /\ stage' = "unreachable" /\ UNCHANGED <<failed, listed, hint, onFailed>>
        /\ down' = Cardinality(InState("down"))
    BY <1>4 DEF CountDown, monitored, services, walk
  <2>2. turns = 0 => CountedSoFar'
    <3>1. InState("down")' = InState("down")
      BY <2>1 DEF InState
    <3> QED
      BY <1>0, <2>1, <3>1 DEF CountedSoFar, FailedKnown, BeforeServices, Unlisted
  <2> QED
    BY <1>2, <2>1, <2>2
<1>5. CASE CountUnreachable
  <2>1. /\ Same /\ stage = "unreachable" /\ UNCHANGED <<down, failed, listed, hint, onFailed>>
        /\ unreachable' = Cardinality(InState("unreachable"))
        /\ stage' = IF down + unreachable' = 0 THEN "problems" ELSE "failed"
    BY <1>5 DEF CountUnreachable, monitored, services, walk
  <2>2. ASSUME turns = 0, stage' = "problems" PROVE FailedAre'
    <3>1. failed = NoMap /\ down = Cardinality(InState("down"))
      BY <1>0, <2>1, <2>2 DEF CountedSoFar
    <3>2. InState("down") \in SUBSET Nodes /\ InState("unreachable") \in SUBSET Nodes
      BY DEF InState
    <3>3. Cardinality(InState("down")) = 0 /\ Cardinality(InState("unreachable")) = 0
      BY <2>1, <2>2, <3>1, <3>2, NodesFinite
    <3>4. Broken = {} /\ Broken' = {}
      BY <2>1, <3>2, <3>3, <1>3, NodesFinite DEF Broken
    <3>5. DOMAIN failed' = {}
      BY <2>1, <3>1 DEF NoMap
    <3> QED
      BY <3>4, <3>5 DEF FailedAre
  <2>3. turns = 0 => CountedSoFar'
    BY <1>0, <2>1, <2>2 DEF CountedSoFar, FailedKnown, BeforeServices, Unlisted
  <2> QED
    BY <1>2, <2>1, <2>3
<1>6. CASE ReadFailed
  <2>1. /\ Same /\ stage = "failed" /\ stage' \in {"problems", "map"} /\ UNCHANGED <<listed, hint, onFailed>>
    BY <1>6 DEF ReadFailed, monitored, services, walk
  <2>2. PICK page \in AtMost(Broken, FAILED_HOSTS_READ) : failed' = [n \in page |-> states[n]]
    BY <1>6 DEF ReadFailed
  <2>3. /\ DOMAIN failed' = page /\ page \subseteq Broken
        /\ Cardinality(page) = IF Cardinality(Broken) < FAILED_HOSTS_READ THEN Cardinality(Broken) ELSE FAILED_HOSTS_READ
    BY <2>2 DEF AtMost
  <2>4. Cardinality(Broken) <= FAILED_HOSTS_READ => page = Broken
    <3>1. Cardinality(Broken) <= FAILED_HOSTS_READ => Cardinality(page) = Cardinality(Broken)
      BY <1>0, <2>3, NodesFinite, ReadsAssumption
    <3> QED
      BY <1>0, <2>3, <3>1, NodesFinite
  <2>5. FailedAre'
    BY <1>3, <2>1, <2>3, <2>4 DEF FailedAre
  <2>6. turns = 0 => CountedSoFar'
    BY <1>0, <2>1, <2>5 DEF CountedSoFar, FailedKnown, BeforeServices, Unlisted
  <2> QED
    BY <1>2, <2>1, <2>6
<1>7. CASE ReadMap \/ TakeHost \/ Visit \/ Attribute \/ WalkOver
  <2>1. /\ Same /\ stage \in {"map", "walk"} /\ stage' \in {"walk", "problems"}
        /\ UNCHANGED <<failed, listed, hint, onFailed>>
    BY <1>7 DEF ReadMap, TakeHost, Visit, Attribute, WalkOver, monitored, hosts, services
  <2>2. FailedAre => FailedAre'
    BY <1>3, <2>1 DEF FailedAre
  <2>3. turns = 0 => CountedSoFar'
    BY <1>0, <2>1, <2>2 DEF CountedSoFar, FailedKnown, BeforeServices, Unlisted
  <2> QED
    BY <1>2, <2>1, <2>3
<1>8. CASE CountProblems
  <2>1. /\ Same /\ stage = "problems" /\ UNCHANGED <<failed, listed, hint, onFailed>>
        /\ problems' = Cardinality(ill) /\ rest' = IF ill = {} THEN {} ELSE DOMAIN failed
        /\ stage' = IF ill = {} THEN "returned" ELSE IF rest' = {} THEN "unhandled" ELSE "on failed"
    BY <1>8 DEF CountProblems, monitored, hosts, walk
  <2>2. FailedAre => FailedAre'
    BY <1>3, <2>1 DEF FailedAre
  <2>3. Cardinality({}) = 0 /\ {} \cap ill = {}
    BY FS_EmptySet
  <2>4. ASSUME turns = 0 PROVE CountedSoFar'
    <3>1. /\ listed' = {} /\ hint' = FALSE /\ onFailed' = 0 /\ FailedAre'
      BY <1>0, <2>1, <2>2, <2>4 DEF CountedSoFar, FailedKnown, BeforeServices, Unlisted
    <3>2. rest' = DOMAIN failed => (DOMAIN failed' \ rest') \cap ill' = {}
      BY <2>1
    <3>3. DOMAIN failed = {} => DOMAIN failed' \cap ill' = {}
      BY <2>1
    <3> QED
      BY <2>1, <2>3, <3>1, <3>2, <3>3 DEF CountedSoFar, FailedKnown, BeforeServices, Unlisted
  <2>5. ASSUME turns = 0, stage' = "returned" PROVE OverviewAddsUp'
    <3>1. ill' = {} /\ problems' = 0 /\ onFailed' = 0 /\ listed' = {} /\ ill' \ Broken' = {}
      BY <1>0, <2>1, <2>3, <2>5 DEF CountedSoFar, BeforeServices, Unlisted
    <3> QED
      BY <2>3, <3>1 DEF OverviewAddsUp
  <2> QED
    BY <1>2, <2>1, <2>4, <2>5
<1>9. CASE CountOnFailed
  <2>1. /\ Same /\ stage = "on failed" /\ UNCHANGED <<failed, listed, hint, problems>>
        /\ stage' = IF rest' = {} THEN "unhandled" ELSE "on failed"
    BY <1>9 DEF CountOnFailed, monitored, hosts, walk
  <2>2. PICK chunk \in AtMost(rest, HOST_IDS_PER_REQUEST) :
          onFailed' = onFailed + Cardinality(chunk \cap ill) /\ rest' = rest \ chunk
    BY <1>9 DEF CountOnFailed
  <2>3. chunk \subseteq rest
    BY <2>2 DEF AtMost
  <2>4. FailedAre => FailedAre'
    BY <1>3, <2>1 DEF FailedAre
  <2>5. ASSUME turns = 0 PROVE CountedSoFar'
    <3>1. /\ rest \subseteq DOMAIN failed /\ problems = Cardinality(ill) /\ FailedAre /\ listed = {} /\ hint = FALSE
          /\ onFailed = Cardinality((DOMAIN failed \ rest) \cap ill)
      BY <1>0, <2>1, <2>5 DEF CountedSoFar, FailedKnown, BeforeServices, Unlisted
    <3> DEFINE A == (DOMAIN failed \ rest) \cap ill
               B == chunk \cap ill
               C == (DOMAIN failed \ (rest \ chunk)) \cap ill
    <3>2. A \in SUBSET Nodes /\ B \in SUBSET Nodes /\ A \cap B = {} /\ A \cup B = C
      BY <1>0, <2>3, <3>1
    <3>3. onFailed' = Cardinality(C)
      <4> HIDE DEF A, B, C
      <4>1. Cardinality(A \cup B) = Cardinality(A) + Cardinality(B)
        BY <3>2, ChunksAddUp
      <4>2. onFailed' = Cardinality(A) + Cardinality(B)
        BY <2>2, <3>1 DEF A, B
      <4> QED
        BY <3>2, <4>1, <4>2
    <3>4. rest' = {} => C = DOMAIN failed \cap ill
      BY <2>2
    <3>5. /\ onFailed' = Cardinality((DOMAIN failed' \ rest') \cap ill')
          /\ rest' = {} => onFailed' = Cardinality(DOMAIN failed' \cap ill')
          /\ rest' \subseteq DOMAIN failed' /\ problems' = Cardinality(ill')
      BY <2>1, <2>2, <3>1, <3>3, <3>4
    <3> QED
      BY <2>1, <2>4, <3>1, <3>5 DEF CountedSoFar, FailedKnown, BeforeServices, Unlisted
  <2> QED
    BY <1>2, <2>1, <2>5
<1>10. ASSUME turns = 0, problems = Cardinality(ill), onFailed = Cardinality(DOMAIN failed \cap ill), FailedAre
       PROVE  Cardinality(Broken) <= FAILED_HOSTS_READ => problems - onFailed = Cardinality(ill \ Broken)
  BY <1>0, <1>10, ProblemsSplit DEF FailedAre
<1>11. CASE CountUnhandled
  <2>1. /\ Same /\ stage = "unhandled" /\ UNCHANGED <<failed, listed, hint, problems, onFailed, rest>>
        /\ unhandled' = Cardinality(ill)
        /\ stage' = IF ill = {} THEN "returned" ELSE "list"
    BY <1>11 DEF CountUnhandled, monitored, hosts, walk
  <2>2. FailedAre => FailedAre'
    BY <1>3, <2>1 DEF FailedAre
  <2>3. turns = 0 => /\ problems = Cardinality(ill) /\ onFailed = Cardinality(DOMAIN failed \cap ill) /\ FailedAre
                     /\ listed = {} /\ hint = FALSE
    BY <1>0, <2>1 DEF CountedSoFar, FailedKnown, Unlisted
  <2>4. turns = 0 => CountedSoFar'
    BY <2>1, <2>2, <2>3 DEF CountedSoFar, FailedKnown, BeforeServices, Unlisted
  <2>5. ASSUME turns = 0, stage' = "returned" PROVE OverviewAddsUp'
    <3>1. ill = {} /\ ill \ Broken = {}
      BY <2>1, <2>5
    <3>2. UNCHANGED <<problems, onFailed, ill, listed, hint>> /\ Broken' = Broken
      BY <1>3, <2>1
    <3> QED
      BY <1>10, <2>3, <2>5, <3>1, <3>2 DEF OverviewAddsUp
  <2> QED
    BY <1>2, <2>1, <2>4, <2>5
<1>12. CASE ReadProblems
  <2>1. /\ Same /\ stage = "list" /\ stage' = "returned" /\ UNCHANGED <<failed, problems, onFailed, unhandled>>
    BY <1>12 DEF ReadProblems, monitored, hosts, walk
  <2>2. PICK rows \in AtMost(ill, PROBLEMS_READ) :
          listed' = {n \in rows : states[n] = "up"} /\ hint' = (unhandled > Cardinality(rows))
    BY <1>12 DEF ReadProblems
  <2>3. rows \in SUBSET ill /\ Cardinality(rows) \in Nat /\ Cardinality(ill) \in Nat
    BY <1>0, <2>2, NodesFinite DEF AtMost
  <2>4. \A n \in Nodes : states[n] = "up" <=> n \notin Broken
    BY <1>0 DEF OverviewTypeOK, Maps, HOST_STATES, Broken, InState
  <2>5. FailedAre => FailedAre'
    BY <1>3, <2>1 DEF FailedAre
  <2>6. turns = 0 => /\ problems = Cardinality(ill) /\ onFailed = Cardinality(DOMAIN failed \cap ill) /\ FailedAre
                     /\ unhandled = Cardinality(ill)
    BY <1>0, <2>1 DEF CountedSoFar, FailedKnown
  <2>7. turns = 0 => CountedSoFar'
    BY <2>1, <2>5, <2>6 DEF CountedSoFar, FailedKnown, BeforeServices, Unlisted
  <2>8. ASSUME turns = 0 PROVE OverviewAddsUp'
    <3>1. listed' \subseteq ill \ Broken
      BY <1>0, <2>2, <2>3, <2>4
    <3>2. ~hint' => rows = ill
      <4>1. Cardinality(rows) <= Cardinality(ill) /\ (Cardinality(rows) = Cardinality(ill) => rows = ill)
        BY <1>0, <2>3, NodesFinite
      <4>2. hint' = (Cardinality(ill) > Cardinality(rows))
        BY <2>2, <2>6, <2>8
      <4>3. ~(Cardinality(ill) > Cardinality(rows)) => rows = ill
        BY <2>3, <4>1
      <4> QED
        BY <4>2, <4>3
    <3>3. ~hint' => listed' = ill \ Broken
      BY <1>0, <2>2, <2>4, <3>2
    <3>4. UNCHANGED <<problems, onFailed, ill>> /\ Broken' = Broken
      BY <1>3, <2>1
    <3> QED
      BY <1>10, <2>6, <2>8, <3>1, <3>3, <3>4 DEF OverviewAddsUp
  <2> QED
    BY <1>2, <2>1, <2>7, <2>8
<1>13. CASE OverviewRaises \/ ReadMapDown \/ VisitDown \/ CoveredAll
  <2>1. Same /\ stage' \in {"raised", "behind", "covered"}
    BY <1>13 DEF OverviewRaises, ReadMapDown, VisitDown, CoveredAll, monitored
  <2>2. CountedSoFar'
    BY <2>1 DEF CountedSoFar, FailedKnown, BeforeServices, Unlisted
  <2> QED
    BY <1>2, <2>1, <2>2
<1>14. CASE UNCHANGED overviewVars
  <2>1. /\ Same /\ UNCHANGED <<stage, down, failed, onFailed, problems, rest, listed, hint, unhandled>>
    BY <1>14 DEF overviewVars, monitored, hosts, services
  <2>2. Broken' = Broken /\ InState("down")' = InState("down")
    BY <1>3, <2>1 DEF HOST_STATES
  <2>3. CountedSoFar => CountedSoFar'
    BY <2>1, <2>2 DEF CountedSoFar, FailedAre
  <2>4. OverviewAddsUp'
    BY <1>0, <2>1, <2>2 DEF OverviewAddsUp
  <2> QED
    BY <1>0, <1>2, <2>1, <2>3, <2>4
<1> QED
  BY <1>1, <1>4, <1>5, <1>6, <1>7, <1>8, <1>9, <1>11, <1>12, <1>13, <1>14 DEF OverviewNext, OverviewOver

(* What an overview says of the services adds up with what it lists: the   *)
(* problems less those on failed hosts are those on hosts that are up, and *)
(* a list that is not said to be cut has all of them.  For any number of   *)
(* hosts, any page and any chunk, as long as nothing turns meanwhile.      *)
THEOREM ProblemsAddUp == OverviewSpec => []OverviewAddsUp
<1>1. ASSUME OverviewInit PROVE SumsInv
  <2>1. OverviewTypeOK
    BY <1>1, TypeInit
  <2>2. CountedSoFar /\ turns = 0 /\ OverviewAddsUp
    BY <1>1 DEF OverviewInit, CountedSoFar, FailedKnown, BeforeServices, Unlisted, OverviewAddsUp
  <2> QED
    BY <2>1, <2>2 DEF SumsInv
<1>2. SumsInv /\ [OverviewNext]_overviewVars => SumsInv'
  BY SumsKeep
<1>3. SumsInv => OverviewAddsUp
  BY DEF SumsInv
<1> QED
  BY <1>1, <1>2, <1>3, PTL DEF OverviewSpec
=============================================================================
