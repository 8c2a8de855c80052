----------------------------- MODULE MCDowntimes -----------------------------
(* Small instances of Downtimes: two hosts, of which the second's name     *)
(* contains the first's (web1, web10), and a service of the first.         *)
EXTENDS Downtimes, TLC
CONSTANTS c1, c2, web1, web10, disk
OneCall == {c1}
TwoCalls == {c1, c2}
BothHosts == {web1, web10}
HostsAndService == {web1, web10, disk}

(* What a filter that matches a part of the name returns.                  *)
PartOfName == [o \in Objects |-> IF o = web1 THEN Objects \cap {web1, web10} ELSE {o}]
NoParts == [o \in Objects |-> {}]
DiskOnWeb1 == [o \in Objects |-> IF o = web1 THEN {disk} ELSE {}]

(* Two calls, or a call and somebody else, or one call on a host for which *)
(* others filled more than a page before it looked; only a call that is    *)
(* alone waits for another round of reads.                                 *)
Others == {d \in listed : d.by = Other}
Started == {c \in Calls : pc[c] # "idle"}
TwoCallsOnly ==
    /\ Others = {} /\ \A d \in listed : d.numbered
    /\ \A c \in Started : req[c].start <= 1
CallAndOther == Cardinality(Started) <= 1 /\ Cardinality(Others) <= 1 /\ \A d \in Others : d.on # disk
FullBefore ==
    /\ Cardinality(Started) <= 1 /\ \A d \in Others : d.on = web1 /\ d.numbered
    /\ Started = {} => now = 0
    /\ \A c \in Started : req[c].on = web1 /\ ~req[c].all
    /\ \A c \in Started : madeThen[c] # 0 => \A d \in Others : d.id <= madeThen[c]
FewActors ==
    /\ TwoCallsOnly \/ CallAndOther \/ FullBefore
    /\ ~page[web10] /\ \A c \in Started : req[c].on # web10
    /\ (\E c \in Calls : polls[c] > 0) => Cardinality(Started \cup Others) = 1

Symmetry == Permutations(Calls)
=============================================================================
