------------------------------ MODULE Lifecycle ------------------------------
(***************************************************************************)
(* Hosts and services from their creation to their deletion: create_host,  *)
(* create_service, the renaming by update_service, stop_monitoring,        *)
(* resume_monitoring and delete_object, with the resolvers of api/names.py *)
(* and find_target and refusal of tools/support/commands.py.               *)
(*                                                                         *)
(* A tool is given names and works with ids: it looks a name up, reads the *)
(* object's page or scope, and sends its change for the id, each a request *)
(* of its own, between which other calls and other people act.  Neither    *)
(* host nor service names are unique in openITCOCKPIT.  A lookup by string *)
(* leaves out what was taken out of the monitoring; that is looked for in  *)
(* one page of the disabled objects whose names contain those given.       *)
(***************************************************************************)
EXTENDS Integers, FiniteSets

CONSTANTS
    Clients,      \* tool calls, each made at most once, in any order
    HostNames,    \* names a host may have
    ServiceNames, \* names a service may have
    PartsOfNames, \* the pairs of names of which the first is a part of the second
    DISABLED_READ,\* disabled objects one lookup reads (limit)
    MaxObjects,   \* bound of the model: hosts and services ever made
    MaxActors     \* bound of the model: calls started, and changes other people make

NoName == "none"  \* a parameter left empty

ASSUME NamesAssumption ==
    NoName \notin HostNames \cup ServiceNames /\ HostNames \cap ServiceNames = {} /\ HostNames # {}
ASSUME PageAssumption == DISABLED_READ \in Nat \ {0}
ASSUME BoundsAssumption == MaxObjects \in Nat /\ MaxObjects >= 2 /\ MaxActors \in Nat

VARIABLES
    objects,   \* hosts and services by id
    made,      \* number of objects ever made; ids count up
    elsewhere, \* number of changes other people made
    step,      \* step[c]: the step the call is at
    asked,     \* asked[c]: its parameters
    aim,       \* aim[c]: the id it found, 0 until then
    scopeHost, \* scopeHost[c]: the host whose scope it reads, 0 until then
    taken,     \* taken[c]: the service names its scope showed, Unread until then
    kept,      \* kept[c]: the name the edit view showed
    atFirst,   \* atFirst[c]: the objects when it first looked
    accepted,  \* calls a change of which openITCOCKPIT accepted
    result     \* result[c]: what it returned, "open" until then

estate == <<objects, made, elsewhere>>
calls == <<step, asked, aim, scopeHost, taken, kept, atFirst, accepted, result>>
lifecycleVars == <<estate, calls>>

Unread == {NoName}
Ids == 1..MaxObjects
(* A service names its host; a host's host is 0.                           *)
Object == [host : Ids \cup {0}, name : HostNames \cup ServiceNames, disabled : BOOLEAN, agent : BOOLEAN]
Estates == UNION {[S -> Object] : S \in SUBSET Ids}

Switches == {"delete", "stop", "resume"}
AnyName == ServiceNames \cup {NoName}
SwitchParams == [op : Switches, hostname : HostNames, service : AnyName, new : {NoName}, port : {FALSE}]
CreateHostParams == [op : {"create_host"}, hostname : HostNames, service : {NoName}, new : {NoName}, port : BOOLEAN]
CreateServiceParams ==
    [op : {"create_service"}, hostname : HostNames, service : {NoName}, new : AnyName, port : {FALSE}]
UpdateServiceParams ==
    [op : {"update_service"}, hostname : HostNames, service : ServiceNames, new : AnyName, port : {FALSE}]
Params == UNION {SwitchParams, CreateHostParams, CreateServiceParams, UpdateServiceParams}

LifecycleTypeOK ==
    /\ objects \in Estates /\ made \in 0..MaxObjects /\ elsewhere \in 0..MaxActors
    /\ DOMAIN objects \subseteq 1..made
    /\ step \in [Clients -> {"idle", "fallback", "page", "sending", "service", "scope", "edit",
                             "posting", "adding", "connecting", "answer", "returned"}]
    /\ asked \in [Clients -> Params]
    /\ aim \in [Clients -> Ids \cup {0}] /\ scopeHost \in [Clients -> Ids \cup {0}]
    /\ taken \in [Clients -> (SUBSET ServiceNames) \cup {Unread}]
    /\ kept \in [Clients -> HostNames \cup ServiceNames \cup {NoName}]
    /\ atFirst \in [Clients -> Estates]
    /\ accepted \in SUBSET Clients
    /\ result \in [Clients -> {"open", "not_sent", "done", "not_found", "raised"}]

(* Two objects at most, in any state openITCOCKPIT can hold: a service is  *)
(* one of a host.                                                          *)
LifecycleInit ==
    /\ \E n \in 0..2 :
        /\ made = n
        /\ objects \in {o \in [1..n -> Object] : \A i \in 1..n :
                          /\ i = 1 => o[i].host = 0
                          /\ o[i].host \in {0, 1}
                          /\ o[i].name \in IF o[i].host = 0 THEN HostNames ELSE ServiceNames
                          /\ o[i].agent => o[i].host = 0}
    /\ elsewhere = 0
    /\ step = [c \in Clients |-> "idle"]
    /\ asked = [c \in Clients |-> CHOOSE p \in Params : p.op = "create_host"]
    /\ aim = [c \in Clients |-> 0] /\ scopeHost = [c \in Clients |-> 0]
    /\ taken = [c \in Clients |-> Unread] /\ kept = [c \in Clients |-> NoName]
    /\ atFirst = [c \in Clients |-> objects]
    /\ accepted = {}
    /\ result = [c \in Clients |-> "open"]

-----------------------------------------------------------------------------
(* What openITCOCKPIT holds.                                               *)

Hosts == {i \in DOMAIN objects : objects[i].host = 0}
ServicesOf(h) == {i \in DOMAIN objects : objects[i].host = h}
Covers(i) == {i} \cup ServicesOf(i)

(* The objects that bear the names a call was given.                       *)
Bears(o, i, p) ==
    IF p.service = NoName
    THEN o[i].host = 0 /\ o[i].name = p.hostname
    ELSE /\ o[i].host # 0 /\ o[i].name = p.service
         /\ o[o[i].host].name = p.hostname
Named(p, off) == {i \in DOMAIN objects : Bears(objects, i, p) /\ objects[i].disabled = off}

RoomForOne == elsewhere + Cardinality({c \in Clients : step[c] # "idle"}) < MaxActors

(* Somebody renames an object, or switches it off or on, in the UI.        *)
ChangedElsewhere ==
    /\ RoomForOne
    /\ elsewhere' = elsewhere + 1
    /\ \E i \in DOMAIN objects, off \in BOOLEAN :
        \E n \in IF i \in Hosts THEN HostNames ELSE ServiceNames :
            objects' = [objects EXCEPT ![i].name = n, ![i].disabled = off]
    /\ UNCHANGED <<made, calls>>

-----------------------------------------------------------------------------
Return(c, r) == step' = [step EXCEPT ![c] = "returned"] /\ result' = [result EXCEPT ![c] = r]
GoTo(c, s) == step' = [step EXCEPT ![c] = s] /\ UNCHANGED result

(* A request fails or its answer is lost, a name is ambiguous, a template  *)
(* or container is not there: the call raises, and undoes nothing.         *)
Raise(c) ==
    /\ step[c] \notin {"idle", "returned"}
    /\ Return(c, "raised")
    /\ UNCHANGED <<estate, asked, aim, scopeHost, taken, kept, atFirst, accepted>>

(* resolve_host_id and resolve_service_id: one monitored host of the name, *)
(* or the first service; stop_monitoring does not look among the rest.     *)
FindTarget(c, p) ==
    /\ step[c] = "idle" /\ p.op \in Switches
    /\ asked' = [asked EXCEPT ![c] = p]
    /\ atFirst' = [atFirst EXCEPT ![c] = objects]
    /\ \/ \E i \in Named(p, FALSE) :
            /\ p.service = NoName => Named(p, FALSE) = {i}
            /\ aim' = [aim EXCEPT ![c] = i]
            /\ GoTo(c, "page")
       \/ /\ Named(p, FALSE) = {}
          /\ IF p.op = "stop" THEN Return(c, "not_found") ELSE GoTo(c, "fallback")
          /\ UNCHANGED aim
       \/ /\ p.service = NoName /\ Cardinality(Named(p, FALSE)) > 1
          /\ Return(c, "raised")
          /\ UNCHANGED aim
    /\ UNCHANGED <<estate, scopeHost, taken, kept, accepted>>

(* Mutant of Fallback: the lookup by string is repeated.                   *)
FallbackByString(c) ==
    /\ step[c] = "fallback"
    /\ \/ \E i \in Named(asked[c], FALSE) : aim' = [aim EXCEPT ![c] = i] /\ GoTo(c, "page")
       \/ Named(asked[c], FALSE) = {} /\ Return(c, "not_found") /\ UNCHANGED aim
    /\ UNCHANGED <<estate, asked, scopeHost, taken, kept, atFirst, accepted>>

(* What the filter matches: the disabled objects whose names contain those *)
(* a call was given.                                                       *)
Contains(name, part) == name = part \/ <<part, name>> \in PartsOfNames
Matched(p) ==
    {i \in DOMAIN objects :
        LET o == objects[i]
        IN  /\ o.disabled
            /\ IF p.service = NoName THEN o.host = 0 /\ Contains(o.name, p.hostname)
               ELSE o.host # 0 /\ Contains(o.name, p.service) /\ Contains(objects[o.host].name, p.hostname)}

(* One page of it.                                                         *)
DisabledPages(p) ==
    LET size == IF Cardinality(Matched(p)) <= DISABLED_READ THEN Cardinality(Matched(p)) ELSE DISABLED_READ
    IN  {P \in SUBSET Matched(p) : Cardinality(P) = size}

(* _disabled_host_id and _disabled_service_id: the first of exactly the    *)
(* name on a page of what was taken out of the monitoring.                 *)
Fallback(c) ==
    /\ step[c] = "fallback"
    /\ \E P \in DisabledPages(asked[c]) :
        \/ \E i \in P \cap Named(asked[c], TRUE) : aim' = [aim EXCEPT ![c] = i] /\ GoTo(c, "page")
        \/ P \cap Named(asked[c], TRUE) = {} /\ Return(c, "not_found") /\ UNCHANGED aim
    /\ UNCHANGED <<estate, asked, scopeHost, taken, kept, atFirst, accepted>>

(* host_target or service_target, and refusal: the user has to be allowed  *)
(* to change the object's container.                                       *)
ReadPage(c) ==
    /\ step[c] = "page"
    /\ IF aim[c] \in DOMAIN objects
       THEN GoTo(c, "sending") \/ Return(c, "not_sent")
       ELSE Return(c, "raised")
    /\ UNCHANGED <<estate, asked, aim, scopeHost, taken, kept, atFirst, accepted>>

(* What deactivate, enable and delete do: a host takes its services along. *)
Switched(op, i) ==
    IF op = "delete"
    THEN [j \in DOMAIN objects \ Covers(i) |-> objects[j]]
    ELSE [j \in DOMAIN objects |-> IF j \in Covers(i) THEN [objects[j] EXCEPT !.disabled = (op = "stop")]
                                   ELSE objects[j]]

(* The change is accepted and applied.                                     *)
Apply(c) ==
    /\ step[c] = "sending" /\ aim[c] \in DOMAIN objects
    /\ objects' = Switched(asked[c].op, aim[c])
    /\ accepted' = accepted \cup {c}
    /\ GoTo(c, "answer")
    /\ UNCHANGED <<made, elsewhere, asked, aim, scopeHost, taken, kept, atFirst>>

(* openITCOCKPIT refuses, as a deletion of what a map or report still uses.*)
SendRefused(c) ==
    /\ step[c] = "sending"
    /\ Return(c, "not_sent")
    /\ UNCHANGED <<estate, asked, aim, scopeHost, taken, kept, atFirst, accepted>>

-----------------------------------------------------------------------------
(* create_service and update_service find the host first, by its name.     *)
FindHost(c, p) ==
    /\ step[c] = "idle" /\ p.op \in {"create_service", "update_service"}
    /\ asked' = [asked EXCEPT ![c] = p]
    /\ atFirst' = [atFirst EXCEPT ![c] = objects]
    /\ LET found == Named([p EXCEPT !.service = NoName], FALSE)
       IN  IF Cardinality(found) = 1
           THEN /\ scopeHost' = [scopeHost EXCEPT ![c] = CHOOSE i \in found : TRUE]
                /\ GoTo(c, IF p.op = "create_service" THEN "scope" ELSE "service")
           ELSE Return(c, IF found = {} THEN "not_found" ELSE "raised") /\ UNCHANGED scopeHost
    /\ UNCHANGED <<estate, aim, taken, kept, accepted>>

(* ... then the service, by both names: the host is not asked for its id.  *)
FindService(c) ==
    /\ step[c] = "service"
    /\ \/ \E i \in Named(asked[c], FALSE) : aim' = [aim EXCEPT ![c] = i] /\ GoTo(c, "scope")
       \/ Named(asked[c], FALSE) = {} /\ Return(c, "not_found") /\ UNCHANGED aim
    /\ UNCHANGED <<estate, asked, scopeHost, taken, kept, atFirst, accepted>>

(* The scope of the host, with the names its services have: read now, or   *)
(* what an earlier call read, out of the scope cache.  How long the cache  *)
(* keeps it, and that it can outlive a write, is ScopeCache's.             *)
NamesOn(h) == {objects[i].name : i \in ServicesOf(h)}
ReadScope(c) ==
    /\ step[c] = "scope"
    /\ \E names \in {NamesOn(scopeHost[c])} \cup
                      {taken[d] : d \in {e \in Clients : scopeHost[e] = scopeHost[c] /\ taken[e] # Unread}} :
        taken' = [taken EXCEPT ![c] = names]
    /\ GoTo(c, IF asked[c].op = "create_service" THEN "posting" ELSE "edit")
    /\ UNCHANGED <<estate, asked, aim, scopeHost, kept, atFirst, accepted>>

(* The edit view, which is sent back whole.                                *)
ReadEdit(c) ==
    /\ step[c] = "edit" /\ aim[c] \in DOMAIN objects
    /\ kept' = [kept EXCEPT ![c] = objects[aim[c]].name]
    /\ GoTo(c, "posting")
    /\ UNCHANGED <<estate, asked, aim, scopeHost, taken, atFirst, accepted>>

(* Mutant of Free: the names the scope showed are not looked at.           *)
FreeAlways(c) == TRUE

(* existingServices: the name a service is found under does not count.     *)
Free(c) ==
    LET own == IF asked[c].op = "update_service" THEN {asked[c].service} ELSE {}
    IN  asked[c].new \notin taken[c] \ own

(* services/add: without a name the service gets its template's.           *)
PostService(c) ==
    /\ step[c] = "posting" /\ asked[c].op = "create_service" /\ Free(c)
    /\ scopeHost[c] \in DOMAIN objects /\ made < MaxObjects
    /\ \E n \in IF asked[c].new = NoName THEN ServiceNames ELSE {asked[c].new} :
        objects' = [i \in DOMAIN objects \cup {made + 1} |->
                      IF i = made + 1 THEN [host |-> scopeHost[c], name |-> n, disabled |-> FALSE, agent |-> FALSE]
                      ELSE objects[i]]
    /\ made' = made + 1
    /\ accepted' = accepted \cup {c}
    /\ GoTo(c, "answer")
    /\ UNCHANGED <<elsewhere, asked, aim, scopeHost, taken, kept, atFirst>>

(* services/edit: a name the call does not give is sent back as it was.    *)
PostEdit(c) ==
    /\ step[c] = "posting" /\ asked[c].op = "update_service" /\ Free(c)
    /\ aim[c] \in DOMAIN objects
    /\ objects' = [objects EXCEPT ![aim[c]].name = IF asked[c].new = NoName THEN kept[c] ELSE asked[c].new]
    /\ accepted' = accepted \cup {c}
    /\ GoTo(c, "answer")
    /\ UNCHANGED <<made, elsewhere, asked, aim, scopeHost, taken, kept, atFirst>>

-----------------------------------------------------------------------------
(* create_host: the container and the template are resolved, then the host *)
(* is added, whoever has its name already.                                 *)
ResolveHost(c, p) ==
    /\ step[c] = "idle" /\ p.op = "create_host"
    /\ asked' = [asked EXCEPT ![c] = p]
    /\ atFirst' = [atFirst EXCEPT ![c] = objects]
    /\ GoTo(c, "adding")
    /\ UNCHANGED <<estate, aim, scopeHost, taken, kept, accepted>>

AddHost(c) ==
    /\ step[c] = "adding" /\ made < MaxObjects
    /\ objects' = [i \in DOMAIN objects \cup {made + 1} |->
                     IF i = made + 1
                     THEN [host |-> 0, name |-> asked[c].hostname, disabled |-> FALSE, agent |-> FALSE]
                     ELSE objects[i]]
    /\ made' = made + 1
    /\ accepted' = accepted \cup {c}
    /\ aim' = [aim EXCEPT ![c] = made + 1]
    /\ GoTo(c, IF asked[c].port THEN "connecting" ELSE "answer")
    /\ UNCHANGED <<elsewhere, asked, scopeHost, taken, kept, atFirst>>

(* Mutant of Connect: a failure is returned as a part of the result.       *)
ConnectOrNot(c) ==
    /\ step[c] = "connecting"
    /\ objects' \in {objects} \cup {[objects EXCEPT ![i].agent = TRUE] : i \in {aim[c]} \cap DOMAIN objects}
    /\ Return(c, "done")
    /\ UNCHANGED <<made, elsewhere, asked, aim, scopeHost, taken, kept, atFirst, accepted>>

(* The agent is configured for the new host.  If this fails (Raise) the    *)
(* host stays, and the call raises as if there were none.                  *)
Connect(c) ==
    /\ step[c] = "connecting" /\ aim[c] \in DOMAIN objects
    /\ objects' = [objects EXCEPT ![aim[c]].agent = TRUE]
    /\ GoTo(c, "answer")
    /\ UNCHANGED <<made, elsewhere, asked, aim, scopeHost, taken, kept, atFirst, accepted>>

(* The answer to the last request, with its success.                       *)
Answer(c) ==
    /\ step[c] = "answer"
    /\ Return(c, "done")
    /\ UNCHANGED <<estate, asked, aim, scopeHost, taken, kept, atFirst, accepted>>

-----------------------------------------------------------------------------
Start(c) == RoomForOne /\ \E p \in Params : FindTarget(c, p) \/ FindHost(c, p) \/ ResolveHost(c, p)

(* Between two calls the server waits for the next one.                    *)
NoneRuns == (\A c \in Clients : step[c] \in {"idle", "returned"}) /\ UNCHANGED lifecycleVars

LifecycleNext ==
    \/ \E c \in Clients :
        \/ Start(c) \/ Raise(c)
        \/ Fallback(c) \/ ReadPage(c) \/ Apply(c) \/ SendRefused(c)
        \/ FindService(c) \/ ReadScope(c) \/ ReadEdit(c) \/ PostService(c) \/ PostEdit(c)
        \/ AddHost(c) \/ Connect(c) \/ Answer(c)
    \/ ChangedElsewhere
    \/ NoneRuns

LifecycleSpec == LifecycleInit /\ [][LifecycleNext]_lifecycleVars

-----------------------------------------------------------------------------
(* "No host found": when a resume or a delete says so, every object that   *)
(* bore the name at both of its lookups was put back into the monitoring   *)
(* between them, or is out of it and the page of what is could not hold    *)
(* all whose names contain the one asked for.                              *)
NotFoundIsTrue ==
    [][\A c \in Clients : (step[c] = "fallback" /\ result'[c] = "not_found") =>
          \A i \in DOMAIN objects \cap DOMAIN atFirst[c] :
             (Bears(objects, i, asked[c]) /\ Bears(atFirst[c], i, asked[c])) =>
                /\ atFirst[c][i].disabled
                /\ objects[i].disabled => Cardinality(Matched(asked[c])) > DISABLED_READ]_lifecycleVars

(* "already has a service named": a call whose reads still hold when it    *)
(* posts makes no second service of one name, but a create that leaves the *)
(* name to the template.                                                   *)
Doubles(o) == {p \in (DOMAIN o) \X (DOMAIN o) :
                 LET s == o[p[1]] t == o[p[2]]
                 IN  p[1] < p[2] /\ s.host # 0 /\ s.host = t.host /\ s.name = t.name}
ReadsHold(c) ==
    /\ taken[c] = NamesOn(scopeHost[c])
    /\ aim[c] # 0 => /\ objects[aim[c]].host = scopeHost[c]
                        /\ objects[aim[c]].name = asked[c].service /\ kept[c] = asked[c].service
NoSecondOfName ==
    [][\A c \in Clients :
          (/\ step[c] = "posting" /\ c \in accepted' \ accepted /\ ReadsHold(c)
           /\ asked[c].op = "create_service" => asked[c].new # NoName)
             => Doubles(objects') \subseteq Doubles(objects)]_lifecycleVars

(* A created host that was reported has the agent connection its caller    *)
(* asked for and no other: one that lacks it stands behind a call that     *)
(* raised or still runs.                                                   *)
ReportedIsComplete ==
    \A c \in Clients :
        (asked[c].op = "create_host" /\ result[c] = "done" /\ aim[c] \in DOMAIN objects)
            => objects[aim[c]].agent = asked[c].port
=============================================================================
