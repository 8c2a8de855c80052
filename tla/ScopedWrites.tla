---------------------------- MODULE ScopedWrites ----------------------------
(***************************************************************************)
(* The tools that write what is visible only from some containers: contacts *)
(* and contact groups, made and updated, host and service templates, host   *)
(* groups, service template groups and commands.                           *)
(*                                                                         *)
(* A call resolves its containers, checks that they may hold such an       *)
(* object, asks what is visible from them, resolves the names it was given *)
(* among that, and posts.  An update reads the object first and sends all  *)
(* of it back.  Every arrow is a request of its own.                       *)
(***************************************************************************)
EXTENDS FiniteSets, Naturals

CONSTANTS
    Writers,   \* tool calls, each made at most once
    Spaces,    \* containers
    Things,    \* time periods, contacts and templates a container may see
    MaxMoves   \* bound of the model on the cost of what happens, see Cost

ASSUME SpacesAssumption == Spaces # {} /\ Things # {}
ASSUME MovesAssumption == MaxMoves \in Nat

VARIABLES
    visible,   \* visible[k]: what is visible from container k
    legal,     \* the containers that may hold an object
    moves,     \* cost of what happened, a bookkeeping of the model
    shrunk,    \* whether something went out of sight
    object,    \* the contact, or the contact group, that is updated
    created,   \* the objects made by the calls
    stage,     \* stage[w]: the step the call is at
    order,     \* order[w]: the tool and its parameters
    old,       \* old[w]: the object as the update read it
    verdict    \* verdict[w]: "open", "done" or "raised"

world == <<visible, legal, moves, shrunk>>
stock == <<object, created>>
writes == <<stage, order, old, verdict>>
scopedVars == <<world, stock, writes>>

Creates == {"create_contact", "create_contactgroup", "create_hosttemplate", "create_servicetemplate",
            "create_servicetemplategroup", "create_hostgroup", "create_command"}
Updates == {"update_contact", "update_contactgroup"}
Single == {t \in SUBSET Things : Cardinality(t) = 1}

(* An object: its containers, the host's and the service's (or the check's *)
(* and the notification's) time period, and its members or contacts.       *)
Stored == [at : SUBSET Spaces, host : SUBSET Things, service : SUBSET Things, members : SUBSET Things]
Slots == {"at", "host", "service", "members"}
Nothing == [f \in Slots |-> {}]
Contact == {o \in Stored : o.at # {} /\ o.host \in Single /\ o.service \in Single /\ o.members = {}}
Group == {o \in Stored : Cardinality(o.at) = 1 /\ o.host = {} /\ o.service = {} /\ o.members # {}}

(* The parameters of each tool; a field is empty if the tool has none of   *)
(* it, or if an update does not name it.                                   *)
Made(tool, at, periods, members) ==
    [tool : {tool}, named : {Slots}, at : at, host : periods, service : periods, members : members]
Edits(tool, fields, at, periods, members) ==
    {[tool |-> tool, named |-> n, at |-> IF "at" \in n THEN k ELSE {},
      host |-> IF "host" \in n THEN h ELSE {}, service |-> IF "service" \in n THEN s ELSE {},
      members |-> IF "members" \in n THEN m ELSE {}] :
        n \in SUBSET fields, k \in at, h \in periods, s \in periods, m \in members}

Places == {{k} : k \in Spaces}
CreateContact == Made("create_contact", (SUBSET Spaces) \ {{}}, Single, {{}})
CreateContactgroup == Made("create_contactgroup", Places, {{}}, SUBSET Things)
CreateHosttemplate == Made("create_hosttemplate", Places, Single, SUBSET Things)
CreateServicetemplate == Made("create_servicetemplate", Places, Single, SUBSET Things)
CreateServicetemplategroup == Made("create_servicetemplategroup", Places, {{}}, SUBSET Things)
CreateHostgroup == Made("create_hostgroup", Places, {{}}, {{}})
CreateCommand == Made("create_command", {{}}, {{}}, {{}})
UpdateContact == Edits("update_contact", {"at", "host", "service"}, SUBSET Spaces, Single, {{}})
UpdateContactgroup == Edits("update_contactgroup", {"members"}, {{}}, {{}}, SUBSET Things)
Orders ==
    UNION {CreateContact, CreateContactgroup, CreateHosttemplate, CreateServicetemplate,
           CreateServicetemplategroup, CreateHostgroup, CreateCommand, UpdateContact, UpdateContactgroup}

NoOrder == [tool |-> "create_command", named |-> Slots,
            at |-> {}, host |-> {}, service |-> {}, members |-> {}]

ScopedTypeOK ==
    /\ visible \in [Spaces -> SUBSET Things] /\ legal \subseteq Spaces
    /\ moves \in 0..MaxMoves /\ shrunk \in BOOLEAN
    /\ object \in Contact \cup Group /\ created \subseteq Stored
    /\ stage \in [Writers -> {"idle", "read", "place", "scope", "commands", "post", "returned"}]
    /\ order \in [Writers -> Orders]
    /\ old \in [Writers -> Contact \cup Group \cup {Nothing}]
    /\ verdict \in [Writers -> {"open", "done", "raised"}]

-----------------------------------------------------------------------------
(* What is visible from a set of containers together.                      *)
Scope(at) == UNION {visible[k] : k \in at}
RefsOf(o) == o.host \cup o.service \cup o.members
SeesOwn(o) == RefsOf(o) \subseteq Scope(o.at)

ScopedInit ==
    /\ visible \in [Spaces -> SUBSET Things] /\ legal \in SUBSET Spaces
    /\ moves = 0 /\ shrunk = FALSE
    /\ object \in {o \in Contact \cup Group : SeesOwn(o) /\ o.at \subseteq legal}
    /\ created = {}
    /\ stage = [w \in Writers |-> "idle"]
    /\ order = [w \in Writers |-> NoOrder]
    /\ old = [w \in Writers |-> Nothing]
    /\ verdict = [w \in Writers |-> "open"]

(* Two updates may meet, and each of them a change of what is visible; a    *)
(* call that makes something shares nothing with another but what is       *)
(* visible, and meets only that.                                           *)
Cost == [shift |-> 2, update |-> 3, create |-> 4]
Spend(n) == moves + n <= MaxMoves /\ moves' = moves + n

(* Somebody moves or removes what containers see.                          *)
Shift ==
    /\ Spend(Cost.shift)
    /\ \E k \in Spaces, t \in Things :
        /\ visible' = [visible EXCEPT ![k] = IF t \in @ THEN @ \ {t} ELSE @ \cup {t}]
        /\ shrunk' = (shrunk \/ t \in visible[k])
    /\ UNCHANGED <<legal, stock, writes>>

-----------------------------------------------------------------------------
Advance(w, s) == stage' = [stage EXCEPT ![w] = s] /\ UNCHANGED <<order, old, verdict>>

(* A call that returned forgets what it was asked and what it read.        *)
End(w, v) ==
    /\ stage' = [stage EXCEPT ![w] = "returned"]
    /\ verdict' = [verdict EXCEPT ![w] = v]
    /\ order' = [order EXCEPT ![w] = NoOrder]
    /\ old' = [old EXCEPT ![w] = Nothing]

(* What is sent: an update starts from what it read.                       *)
Sent(w) == [f \in Slots |-> IF f \in order[w].named THEN order[w][f] ELSE old[w][f]]

(* The parameters that cannot be empty, looked at before any request.      *)
(* create_servicetemplate does without contacts.                           *)
Required(r) ==
    /\ r.tool \in {"create_contactgroup", "create_servicetemplategroup", "create_hosttemplate"}
          => r.members # {}
    /\ r.tool \in Updates => \A f \in r.named : r[f] # {}

Begin(w, r) ==
    /\ Spend(IF r.tool \in Updates THEN Cost.update ELSE Cost.create)
    /\ \/ ~Required(r) /\ End(w, "raised")
       \/ /\ Required(r)
          /\ order' = [order EXCEPT ![w] = r]
          /\ stage' = [stage EXCEPT ![w] = CASE r.tool \in Updates -> "read"
                                             [] r.tool = "create_command" -> "post"
                                             [] OTHER -> "place"]
          /\ UNCHANGED <<old, verdict>>
    /\ UNCHANGED <<visible, legal, shrunk, stock>>

AnyBegin(w) == stage[w] = "idle" /\ \E r \in Orders : Begin(w, r)

(* A request fails, a name or a command is not found, openITCOCKPIT        *)
(* refuses to save.                                                        *)
Fail(w) ==
    /\ stage[w] \notin {"idle", "returned"}
    /\ End(w, "raised")
    /\ UNCHANGED <<world, stock>>

(* The edit view of the object an update was given.                        *)
ReadObject(w) ==
    /\ stage[w] = "read"
    /\ object \in IF order[w].tool = "update_contact" THEN Contact ELSE Group
    /\ old' = [old EXCEPT ![w] = object]
    /\ stage' = [stage EXCEPT ![w] = "place"]
    /\ UNCHANGED <<world, stock, order, verdict>>

(* The tools whose containers have to be of a kind that can hold the       *)
(* object; for templates openITCOCKPIT is left to say so.                  *)
ChecksLegal == {"create_contact", "create_contactgroup", "create_servicetemplategroup", "create_hostgroup",
                "update_contact"}

(* Whether the tool needs to know what is visible: an update that names    *)
(* neither containers nor references does not ask.                         *)
AsksScope(r) ==
    /\ r.tool # "create_hostgroup"
    /\ r.named # {}

Place(w) ==
    /\ stage[w] = "place"
    /\ IF order[w].tool \in ChecksLegal /\ ~(order[w].at \subseteq legal)
       THEN End(w, "raised")
       ELSE Advance(w, IF AsksScope(order[w]) THEN "scope" ELSE "commands")
    /\ UNCHANGED <<world, stock>>

(* Mutant of Looked: what the update does not name is not looked at.       *)
LookedNamed(w) == order[w].named \ {"at"}

(* The fields whose references are looked up among what is visible: those  *)
(* named and, when the containers change, the others too.                  *)
Looked(w) == IF "at" \in order[w].named THEN Slots \ {"at"} ELSE order[w].named

(* resolve_scoped_names and verify_ids_in_scope on the answer.             *)
Resolve(w) ==
    /\ stage[w] = "scope"
    /\ IF \A f \in Looked(w) : Sent(w)[f] \subseteq Scope(Sent(w).at)
       THEN Advance(w, "commands")
       ELSE End(w, "raised")
    /\ UNCHANGED <<world, stock>>

(* Commands are global: they are looked up by name alone (Fail if one is   *)
(* missing).                                                               *)
Command(w) ==
    /\ stage[w] = "commands"
    /\ Advance(w, "post")
    /\ UNCHANGED <<world, stock>>

(* The object is saved; the answer may be lost.                            *)
Store(w) ==
    /\ stage[w] = "post"
    /\ IF order[w].tool \in Updates
       THEN object' = Sent(w) /\ UNCHANGED created
       ELSE created' = created \cup {Sent(w)} /\ UNCHANGED object
    /\ \E v \in {"done", "raised"} : End(w, v)
    /\ UNCHANGED world

(* Between two calls the server waits for the next one.                    *)
NoWriter == (\A w \in Writers : stage[w] \in {"idle", "returned"}) /\ UNCHANGED scopedVars

ScopedNext ==
    \/ \E w \in Writers :
        \/ AnyBegin(w)
        \/ Fail(w) \/ ReadObject(w) \/ Place(w) \/ Resolve(w) \/ Command(w) \/ Store(w)
    \/ Shift
    \/ NoWriter

ScopedSpec == ScopedInit /\ [][ScopedNext]_scopedVars

-----------------------------------------------------------------------------
(* However calls overlap: as long as nothing goes out of sight, no contact, *)
(* group or template names what its own containers cannot see.  An update  *)
(* that another one overtook takes back the containers together with what  *)
(* is visible from them.                                                   *)
StaysInScope == ~shrunk => \A o \in created \cup {object} : SeesOwn(o)
=============================================================================
