------------------------------ MODULE Throwaway ------------------------------
(***************************************************************************)
(* scripts/eval-throwaway.sh: starts an openITCOCKPIT, fills it with the   *)
(* test data (scripts/seed_scale_dataset.py), asks a model (Evaluation)    *)
(* and removes the instance, or keeps it for the next start.  The fill is  *)
(* a sequence of steps that add what is missing; it ends at the first      *)
(* request that fails.  openITCOCKPIT lists a host among the monitored     *)
(* ones once an export has taken it to the engine; the script starts the   *)
(* fill without --export, so that only somebody else's does.               *)
(***************************************************************************)
EXTENDS Naturals

CONSTANTS
    NServers,  \* servers of the dataset, server 1 is scale-srv-001
    MaxStarts  \* bound of the model: starts of the script

ASSUME NServersAssumption == NServers \in Nat \ {0}
ASSUME MaxStartsAssumption == MaxStarts \in Nat

VARIABLES
    doing,    \* what the script does, "off" while it does not run
    flags,    \* KEEP and OITC_APIKEY of this start
    starts,   \* number of starts
    up,       \* whether the instance exists
    data,     \* the objects of the dataset it holds
    known,    \* those of them that an export has taken to the engine
    halfDone  \* whether a fill of this instance broke off

throwawayVars == <<doing, flags, starts, up, data, known, halfDone>>

Object == {"templates", "tenants", "switches", "groups"} \X {0}
          \cup {"server", "services"} \X (1..NServers)
FillSteps == {"templates", "tenants", "switches", "servers", "corrections", "services",
              "groups", "downtimes", "acknowledgements"}

ThrowawayTypeOK ==
    /\ doing \in {"off", "starting", "probing", "evaluating"} \cup FillSteps
    /\ flags \in [keep : BOOLEAN, key : BOOLEAN] /\ starts \in 0..MaxStarts /\ up \in BOOLEAN
    /\ data \subseteq Object /\ known \subseteq data /\ halfDone \in BOOLEAN

ThrowawayInit ==
    /\ doing = "off" /\ flags \in [keep : BOOLEAN, key : BOOLEAN] /\ starts = 0
    /\ up = FALSE /\ data = {} /\ known = {} /\ halfDone = FALSE

-----------------------------------------------------------------------------
(* The compose file is there and the base URL is the local one.            *)
StartInstance ==
    /\ doing = "off" /\ starts < MaxStarts
    /\ starts' = starts + 1
    /\ flags' \in [keep : BOOLEAN, key : BOOLEAN]
    /\ up' = TRUE
    /\ doing' = "starting"
    /\ UNCHANGED <<data, known, halfDone>>

(* cleanup, at every exit and signal: the volumes go, unless KEEP=1.       *)
CleanUp ==
    /\ doing' = "off"
    /\ UNCHANGED <<flags, starts>>
    /\ IF flags.keep THEN UNCHANGED <<up, data, known>>
       ELSE up' = FALSE /\ data' = {} /\ known' = {}

(* The login page answers; without an API key the script ends here.        *)
InstanceAnswers ==
    /\ doing = "starting" /\ flags.key
    /\ doing' = "probing"
    /\ UNCHANGED <<flags, starts, up, data, known, halfDone>>

NoKey == doing = "starting" /\ ~flags.key /\ CleanUp /\ halfDone' = (halfDone /\ flags.keep)

(* Mutant of Monitored: the host is looked for among all of them.          *)
MonitoredOrNot(o) == o \in data

(* hosts/index.json lists a host.                                          *)
Monitored(o) == o \in known

(* An instance whose first server is listed is reused as it is.            *)
ProbeData ==
    /\ doing = "probing"
    /\ doing' = IF Monitored(<<"server", 1>>) THEN "evaluating" ELSE "templates"
    /\ UNCHANGED <<flags, starts, up, data, known, halfDone>>

-----------------------------------------------------------------------------
(* The fill, step by step, and the objects a step adds if they are missing.*)
After ==
    [templates |-> "tenants", tenants |-> "switches", switches |-> "servers", servers |-> "corrections",
     corrections |-> "services", services |-> "groups", groups |-> "downtimes",
     downtimes |-> "acknowledgements", acknowledgements |-> "evaluating"]

Templates == {<<"templates", 0>>}
Tenants == {<<"tenants", 0>>}
Switches == {<<"switches", 0>>}
Servers == {"server"} \X (1..NServers)
Services == {"services"} \X (1..NServers)
Groups == {<<"groups", 0>>}
Adds(step) ==
    CASE step = "templates" -> Templates [] step = "tenants" -> Tenants [] step = "switches" -> Switches
      [] step = "servers" -> Servers [] step = "services" -> Services [] step = "groups" -> Groups
      [] OTHER -> {}

(* The acknowledgements take the first row a list of monitored hosts has   *)
(* for a switch; there is none before an export.                           *)
Possible == doing = "acknowledgements" => Monitored(<<"switches", 0>>)

FillStep ==
    /\ doing \in FillSteps /\ Possible
    /\ data' = data \cup Adds(doing)
    /\ doing' = After[doing]
    /\ halfDone' = (halfDone /\ After[doing] # "evaluating")
    /\ UNCHANGED <<flags, starts, up, known>>

(* A request of the step fails.  Hosts and services are added by a pool of *)
(* workers: what is under way then is still added, the rest is not.        *)
FillBreaksOff ==
    /\ doing \in FillSteps
    /\ \E some \in SUBSET Adds(doing) :
         IF flags.keep THEN data' = data \cup some /\ UNCHANGED <<up, known>>
         ELSE up' = FALSE /\ data' = {} /\ known' = {}
    /\ halfDone' = flags.keep
    /\ doing' = "off"
    /\ UNCHANGED <<flags, starts>>

(* The eval ends, with whatever status, or a signal ends the script.       *)
Leaves ==
    /\ doing \in {"starting", "probing", "evaluating"}
    /\ CleanUp
    /\ halfDone' = (halfDone /\ flags.keep)

(* The engine is given the configuration as it is now, by somebody else.   *)
Exported ==
    /\ up /\ known' = data
    /\ UNCHANGED <<doing, flags, starts, up, data, halfDone>>

(* Until somebody starts the script again nothing happens.                 *)
NotRunning == doing = "off" /\ UNCHANGED throwawayVars

ThrowawayNext ==
    \/ StartInstance \/ InstanceAnswers \/ NoKey \/ ProbeData
    \/ FillStep \/ FillBreaksOff \/ Leaves
    \/ Exported \/ NotRunning

ThrowawaySpec == ThrowawayInit /\ [][ThrowawayNext]_throwawayVars

-----------------------------------------------------------------------------
(* "Fills it with the test data, runs the eval": a model is asked about an *)
(* instance that holds all of it, unless the instance was kept although a  *)
(* fill of it broke off; the first server alone then counts as all of it.  *)
(* And no model is asked before somebody has exported the configuration:   *)
(* without that the fill cannot end.                                       *)
AskedOnWholeData ==
    doing = "evaluating" =>
        /\ known # {}
        /\ Object \subseteq data \/ (halfDone /\ <<"server", 1>> \in known)
=============================================================================
