----------------------------- MODULE HostUpdate -----------------------------
(***************************************************************************)
(* update_host (tools/update_host.py, fields.py, api/scope/validate.py):   *)
(* a read-modify-write of a whole host.  A call reads the host's effective *)
(* values, puts the caller's fields on top, checks every reference against *)
(* the scope of the container the host will be in, and posts all of it     *)
(* back.  openITCOCKPIT stores a value that equals the host template's as  *)
(* inherited and any other as the host's own; contacts and contact groups  *)
(* are inherited as a pair or not at all.                                  *)
(*                                                                         *)
(* Names are resolved to ids before anything else happens here; a list of  *)
(* names is one value, in scope when all its members are.                  *)
(***************************************************************************)
EXTENDS Integers, FiniteSets

CONSTANTS
    Calls,      \* tool calls, each made at most once, in any order
    Scalars,    \* HOST_SCALAR_FIELDS, and check_command_name: not scoped
    SingleRefs, \* HOST_SINGLE_REF_FIELDS that are scoped: the time periods
    Arrays,     \* HOST_ARRAY_FIELDS: the host groups
    Values,     \* values of a field, and ids of the elements a reference names
    Containers, \* containers a host can be in
    Visible,    \* Visible[k][f]: values of reference f visible in container k
    Default,    \* Default[t][f]: the value of field f in host template t
    MaxTouched  \* bound of the model: fields one call names

Pair == {"contacts", "contactgroups"}
Refs == SingleRefs \cup Arrays \cup Pair
Fields == Scalars \cup Refs
Template == "hosttemplate"

Null == "null"       \* in a payload: hand the field back to the template
Empty == "empty"     \* an empty list of names
Inherit == "inherit" \* in the database: no value of the host's own

ASSUME FieldsAssumption ==
    /\ IsFiniteSet(Fields)
    /\ Template \notin Fields
    /\ Scalars \cap Refs = {} /\ (SingleRefs \cup Arrays) \cap Pair = {} /\ SingleRefs \cap Arrays = {}
ASSUME ValuesAssumption == Values \cap {Null, Empty, Inherit} = {}
ASSUME VisibleAssumption == Visible \in [Containers -> [Refs \cup {Template} -> SUBSET Values]]
(* What a field can be set to.                                             *)
Settings(f) == IF f \in Arrays \cup Pair THEN Values \cup {Empty} ELSE Values

ASSUME DefaultAssumption ==
    \A t \in Values : DOMAIN Default[t] = Fields /\ \A f \in Fields : Default[t][f] \in Settings(f)

VARIABLES
    host,    \* the host as the database holds it
    pc,      \* pc[c]: the step the call is at
    req,     \* req[c]: its parameters
    seen,    \* seen[c]: the host when the call read it
    payload  \* payload[c]: what it sends back

vars == <<host, pc, req, seen, payload>>

Host == [container : Containers, template : Values, own : [Fields -> Values \cup {Empty, Inherit}]]

(* fields: the value each named field is given; template and container are *)
(* Null when they are not in the call.                                     *)
Request ==
    [fields : UNION {{g \in [F -> Values \cup {Empty, Null}] : \A f \in F : g[f] \in Settings(f) \cup {Null}} :
                        F \in {G \in SUBSET Fields : Cardinality(G) <= MaxTouched}},
     template : Values \cup {Null},
     container : Containers \cup {Null}]

Payload ==
    [container : Containers, template : Values, value : [Fields -> Values \cup {Empty, Null}]]

NoRequest == [fields |-> [f \in {} |-> Null], template |-> Null, container |-> Null]

Effective(h) == [f \in Fields |-> IF h.own[f] = Inherit THEN Default[h.template][f] ELSE h.own[f]]
View(h) == [container |-> h.container, template |-> h.template, value |-> Effective(h)]

TypeOK ==
    /\ host \in Host
    /\ pc \in [Calls -> {"idle", "read", "posting", "returned"}]
    /\ seen \in [Calls -> Host]
    /\ payload \in [Calls -> Payload]
    /\ DOMAIN req = Calls
    /\ \A c \in Calls :
        /\ DOMAIN req[c].fields \subseteq Fields
        /\ req[c].template \in Values \cup {Null} /\ req[c].container \in Containers \cup {Null}

(* openITCOCKPIT's save: HostComparisonForSave diffs the payload against   *)
(* the template the payload names.                                         *)
Inherits(p, f) == p.value[f] \in {Null, Default[p.template][f]}

Save(p) ==
    [container |-> p.container, template |-> p.template,
     own |-> [f \in Fields |->
                IF f \in Pair
                THEN IF \A g \in Pair : Inherits(p, g) THEN Inherit ELSE p.value[f]
                ELSE IF Inherits(p, f) THEN Inherit ELSE p.value[f]]]

(* Any host as openITCOCKPIT stores it, whose references are in scope.     *)
Init ==
    /\ host \in {h \in Host :
                   /\ h = Save(View(h))
                   /\ h.template \in Visible[h.container][Template]
                   /\ \A f \in Fields : Effective(h)[f] \in Settings(f)
                   /\ \A f \in Refs : Effective(h)[f] \in Visible[h.container][f] \cup {Empty}}
    /\ pc = [c \in Calls |-> "idle"]
    /\ req = [c \in Calls |-> NoRequest]
    /\ seen = [c \in Calls |-> host]
    /\ payload = [c \in Calls |-> View(host)]

Touched(c) == DOMAIN req[c].fields

-----------------------------------------------------------------------------
(* The host is found and its edit view read.                               *)
Read(c, r) ==
    /\ pc[c] = "idle"
    /\ req' = [req EXCEPT ![c] = r]
    /\ seen' = [seen EXCEPT ![c] = host]
    /\ pc' = [pc EXCEPT ![c] = "read"]
    /\ UNCHANGED <<host, payload>>

(* Mutant of HalfReset: half a reset is accepted.                          *)
NeverHalf(c) == FALSE

(* apply_coupled_contacts_override: one side null and the other not, or    *)
(* not named, is rejected.                                                 *)
HalfReset(c) ==
    /\ \E f \in Pair \cap Touched(c) : req[c].fields[f] = Null
    /\ ~ \A f \in Pair : f \in Touched(c) /\ req[c].fields[f] = Null

(* Mutants of Merged: what the host has from its template is left to the   *)
(* template again; an array that is not named is sent empty.               *)
MergedInherits(c) ==
    LET view == View(seen[c])
        r == req[c]
    IN  [container |-> IF r.container # Null THEN r.container ELSE view.container,
         template |-> IF r.template # Null THEN r.template ELSE view.template,
         value |-> [f \in Fields |-> IF f \in Touched(c) THEN r.fields[f]
                                    ELSE IF seen[c].own[f] = Inherit THEN Null ELSE view.value[f]]]
MergedNoArrays(c) ==
    LET view == View(seen[c])
        r == req[c]
    IN  [container |-> IF r.container # Null THEN r.container ELSE view.container,
         template |-> IF r.template # Null THEN r.template ELSE view.template,
         value |-> [f \in Fields |-> IF f \in Touched(c) THEN r.fields[f]
                                    ELSE IF f \in Arrays THEN Empty ELSE view.value[f]]]

(* The caller's fields on top of the view.                                 *)
Merged(c) ==
    LET view == View(seen[c])
        r == req[c]
    IN  [container |-> IF r.container # Null THEN r.container ELSE view.container,
         template |-> IF r.template # Null THEN r.template ELSE view.template,
         value |-> [f \in Fields |-> IF f \in Touched(c) THEN r.fields[f] ELSE view.value[f]]]

InScope(container, f, v) == v \in Visible[container][f] \cup {Empty, Null}

(* Mutant of Verified: what the call leaves out is not looked at again.    *)
VerifiedNamed(c) == Touched(c)

(* resolve_scoped_names for what the call names, verify_ids_in_scope for   *)
(* what it leaves: the pair is verified only when the call names neither.  *)
Verified(c) ==
    Touched(c) \cup SingleRefs \cup Arrays \cup (IF Touched(c) \cap Pair = {} THEN Pair ELSE {})

Accepted(c) ==
    LET p == Merged(c)
    IN  /\ ~HalfReset(c)
        /\ p.template \in Visible[p.container][Template]
        /\ \A f \in Verified(c) \cap Refs : InScope(p.container, f, p.value[f])

Build(c) ==
    /\ pc[c] = "read"
    /\ Accepted(c)
    /\ payload' = [payload EXCEPT ![c] = Merged(c)]
    /\ pc' = [pc EXCEPT ![c] = "posting"]
    /\ UNCHANGED <<host, req, seen>>

(* A reference is out of scope, a name ambiguous or unknown, or a request  *)
(* fails: the call raises and changes nothing.                             *)
Reject(c) ==
    /\ pc[c] \in {"read", "posting"}
    /\ pc' = [pc EXCEPT ![c] = "returned"]
    /\ UNCHANGED <<host, req, seen, payload>>

(* The edit is posted and applied.  The call returns, or raises because    *)
(* the answer was lost; the host is the same either way.                   *)
Post(c) ==
    /\ pc[c] = "posting"
    /\ host' = Save(payload[c])
    /\ pc' = [pc EXCEPT ![c] = "returned"]
    /\ UNCHANGED <<req, seen, payload>>

(* Every call was made: the model stops, the server does not.              *)
AllReturned == (\A c \in Calls : pc[c] = "returned") /\ UNCHANGED vars

Next ==
    \/ \E c \in Calls :
        \/ \E r \in Request : Read(c, r)
        \/ Build(c)
        \/ Reject(c)
        \/ Post(c)
    \/ AllReturned

Spec == Init /\ [][Next]_vars

-----------------------------------------------------------------------------
Posts(c) == pc[c] = "posting" /\ host' = Save(payload[c]) /\ pc'[c] = "returned"

KeepsUntouched(c) ==
    /\ \A f \in Fields \ Touched(c) : Effective(host)'[f] = Effective(host)[f]
    /\ req[c].template = Null => host'.template = host.template
    /\ req[c].container = Null => host'.container = host.container

(* "a field you leave out keeps what it has", also when the template       *)
(* changes and when one of the contact pair is given: as long as nobody    *)
(* changed the host since the call read it.                                *)
KeepsUnlessOvertaken == [][\A c \in Calls : (Posts(c) /\ host = seen[c]) => KeepsUntouched(c)]_vars

(* "A read-modify-write round trip is therefore idempotent": sending back  *)
(* what was read stores the host as it was, nothing becomes an override.   *)
RoundTripIdempotent ==
    [][\A c \in Calls : (Posts(c) /\ host = seen[c] /\ req[c] = NoRequest) => host' = host]_vars

(* The pair is handed back to the template as a whole or not at all.       *)
PairResetTogether ==
    \A c \in Calls : (payload[c].value["contacts"] = Null) <=> (payload[c].value["contactgroups"] = Null)

RefsVisible(c, R) ==
    /\ payload[c].template \in Visible[payload[c].container][Template]
    /\ \A f \in R : InScope(payload[c].container, f, payload[c].value[f])

(* A posted host names no reference that its container cannot see, touched *)
(* by the call or not; the contact pair only when the call names both      *)
(* sides or neither.                                                       *)
RefsInScopeButPair ==
    \A c \in Calls : pc[c] = "posting" =>
        RefsVisible(c, IF Cardinality(Touched(c) \cap Pair) = 1 THEN Refs \ Pair ELSE Refs)

(* "Every cross-reference it holds [...] is re-validated against the new   *)
(* container, including the ones the call does not touch."                 *)
RefsInScope == \A c \in Calls : pc[c] = "posting" => RefsVisible(c, Refs)
=============================================================================
