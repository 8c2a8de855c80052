-------------------------------- MODULE Names --------------------------------
(***************************************************************************)
(* Two lookups by name that are more than a comparison: a service template *)
(* by either of its two names (tools/support/servicetemplate_names.py on   *)
(* resolve_scoped_names and lookup_servicetemplate_reference_name), and    *)
(* the containers a tree starts at (resolve_top_container_ids).            *)
(*                                                                         *)
(* The lookup takes the names as they are first.  If one of them fails it  *)
(* asks openITCOCKPIT for all of them by display name, a request for each, *)
(* between which templates are renamed, and tries again.                   *)
(***************************************************************************)
EXTENDS Integers, FiniteSets, Sequences

CONSTANTS
    Templates,   \* service templates, by id; a page lists them in this order
    Labels,      \* names they may have
    MaxRenames,  \* bound of the model: display names changed
    Steps,       \* names of containers
    MaxDepth,    \* bound of the model: containers one in another
    MaxPaths     \* bound of the model: containers the user sees

ASSUME TemplatesAssumption == Templates \subseteq Nat /\ IsFiniteSet(Templates)
ASSUME NamesBounds == MaxRenames \in Nat /\ MaxDepth \in Nat /\ MaxPaths \in Nat

VARIABLES
    reference, \* reference[t]: the template's template_name
    display,   \* display[t]: its name
    shown,     \* the templates visible in the scope, as it was answered
    renames,   \* number of display names changed
    given,     \* the names the call was given
    mapped,    \* what the lookups by display name gave, so far
    bore,      \* pairs of a template and a display name it had during the call
    phase,     \* "given", "mapping" or "returned"
    found,     \* the ids returned; empty if the call raised
    paths      \* the containers the user sees, as paths

namesVars == <<reference, display, shown, renames, given, mapped, bore, phase, found, paths>>

Paths == UNION {[1..n -> Steps] : n \in 1..MaxDepth}

NamesTypeOK ==
    /\ reference \in [Templates -> Labels] /\ display \in [Templates -> Labels]
    /\ shown \subseteq Templates /\ renames \in 0..MaxRenames
    /\ given \in UNION {[1..n -> Labels] : n \in 1..2}
    /\ Len(mapped) <= Len(given) /\ \A i \in 1..Len(mapped) : mapped[i] \in Labels
    /\ bore \subseteq Templates \X Labels
    /\ phase \in {"given", "mapping", "returned"}
    /\ found = << >> \/ (Len(found) = Len(given) /\ \A i \in 1..Len(found) : found[i] \in shown)
    /\ paths \subseteq Paths

(* One lookup of templates, or one of the top containers.                  *)
NamesInit ==
    /\ \/ /\ reference \in [Templates -> Labels] /\ display \in [Templates -> Labels]
          /\ shown \in SUBSET Templates
          /\ given \in UNION {[1..n -> Labels] : n \in 1..2}
          /\ phase = "given" /\ paths = {}
       \/ /\ \E n \in Labels : /\ reference = [t \in Templates |-> n] /\ display = reference
                              /\ given = <<n>>
          /\ shown = {} /\ phase = "returned"
          /\ paths \in {S \in SUBSET Paths : Cardinality(S) <= MaxPaths}
    /\ renames = 0 /\ mapped = << >> /\ found = << >>
    /\ bore = {<<t, display[t]>> : t \in Templates}

-----------------------------------------------------------------------------
(* Somebody gives a template another display name.                         *)
Rename ==
    /\ phase # "returned" /\ renames < MaxRenames
    /\ renames' = renames + 1
    /\ \E t \in Templates, n \in Labels :
        /\ display' = [display EXCEPT ![t] = n]
        /\ bore' = bore \cup {<<t, n>>}
    /\ UNCHANGED <<reference, shown, given, mapped, phase, found, paths>>

(* resolve_scoped_names: the entries of the answer that have a name.  One  *)
(* name with none or several fails them all.                               *)
Matches(n) == {t \in shown : reference[t] = n}
AllMatch(names) == \A i \in 1..Len(names) : Cardinality(Matches(names[i])) = 1
IdsOf(names) == [i \in 1..Len(names) |-> CHOOSE t \in Templates : t \in Matches(names[i])]

(* The names as they are given.                                            *)
TryGiven ==
    /\ phase = "given"
    /\ IF AllMatch(given)
       THEN phase' = "returned" /\ found' = IdsOf(given)
       ELSE phase' = "mapping" /\ UNCHANGED found
    /\ UNCHANGED <<reference, display, shown, renames, given, mapped, bore, paths>>

(* Mutant of Listed: the first row is taken, whatever its name; the filter *)
(* of the list matches other names too.                                    *)
ListedAny(n) == Templates

(* The templates of a display name, wherever the user may see them.        *)
Listed(n) == {t \in Templates : display[t] = n}

(* lookup_servicetemplate_reference_name, of the next name: the template   *)
(* name of the first that is listed.                                       *)
MapNext ==
    /\ phase = "mapping" /\ Len(mapped) < Len(given)
    /\ LET n == given[Len(mapped) + 1]
           first == CHOOSE t \in Listed(n) : \A u \in Listed(n) : t <= u
       IN  mapped' = Append(mapped, IF Listed(n) = {} THEN n ELSE reference[first])
    /\ UNCHANGED <<reference, display, shown, renames, given, bore, phase, found, paths>>

(* The mapped names: if nothing was mapped, or one fails again, it raises. *)
TryMapped ==
    /\ phase = "mapping" /\ Len(mapped) = Len(given)
    /\ phase' = "returned"
    /\ found' = IF mapped # given /\ AllMatch(mapped) THEN IdsOf(mapped) ELSE << >>
    /\ UNCHANGED <<reference, display, shown, renames, given, mapped, bore, paths>>

-----------------------------------------------------------------------------
Below(p, q) == Len(q) < Len(p) /\ SubSeq(p, 1, Len(q)) = q

(* Mutant of Top: only the container right above is looked for.            *)
TopByParent(seen) == {p \in seen : ~\E q \in seen : Below(p, q) /\ Len(p) = Len(q) + 1}

(* resolve_top_container_ids: a user may see a container and one far below *)
(* it, and none of those between.                                          *)
Top(seen) == {p \in seen : ~\E q \in seen : Below(p, q)}

(* The call is over, the model stops.                                      *)
Returned == phase = "returned" /\ UNCHANGED namesVars

NamesNext == Rename \/ TryGiven \/ MapNext \/ TryMapped \/ Returned

NamesSpec == NamesInit /\ [][NamesNext]_namesVars

-----------------------------------------------------------------------------
(* "Tries the value as given, and falls back to treating it as a display   *)
(* name": a service template that is returned for a name bears it as its   *)
(* template name; or it was its display name during the call, and the      *)
(* names given were not all template names, provided these are not used    *)
(* twice.  So create_servicetemplategroup, too, takes display names, whose *)
(* docstring says "not its display name".                                  *)
EitherName ==
    (\A t, u \in Templates : reference[t] = reference[u] => t = u) =>
        \A i \in 1..Len(found) :
            reference[found[i]] = given[i] \/ (<<found[i], given[i]>> \in bore /\ ~AllMatch(given))

(* The trees that start at the top containers hold every container the     *)
(* user sees, each in one tree.                                            *)
TopsCoverOnce ==
    \A p \in paths : Cardinality({q \in Top(paths) : p = q \/ Below(p, q)}) = 1

(* A name that is some template's template name stands for that template,  *)
(* in a list as alone.                                                     *)
AsGivenFirst ==
    \A i \in 1..Len(found) :
        Cardinality(Matches(given[i])) = 1 => found[i] \in Matches(given[i])
=============================================================================
