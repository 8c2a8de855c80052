---------------------------- MODULE ConfigExport ----------------------------
(***************************************************************************)
(* apply_configuration (tools/apply_configuration.py, api/exports.py): it  *)
(* reads the export status, has the engine check the configuration, and    *)
(* launches an export that runs in the background, then reads the status   *)
(* until no export runs or WAIT_SECONDS are over.  Nothing keeps the three *)
(* requests together: other calls, and changes of the configuration, come  *)
(* between any two of them.                                                *)
(*                                                                         *)
(* The job server is external: it runs the exports one after the other; an *)
(* export takes the configuration as it is when it begins, and the engine  *)
(* keeps the one it has when it cannot run what was exported.  The status  *)
(* shows a launched export until it is over, as tests/tools/               *)
(* test_configuration.py has it.                                           *)
(***************************************************************************)
EXTENDS Integers, Sequences, FiniteSets

CONSTANTS
    Calls,           \* apply_configuration calls, each made at most once
    MaxPolls,        \* status reads that fit into WAIT_SECONDS
    MaxChanges       \* bound of the model: changes of the configuration

ASSUME LimitsAssumption == MaxPolls \in Nat /\ MaxChanges \in Nat

VARIABLES
    valid,     \* valid[v + 1]: the engine can run version v
    runs,      \* the version the engine runs
    jobs,      \* launched exports that have not begun, by the call that did
    exporting, \* the export under way: its call and its version, or None
    finished,  \* calls whose export is over
    exported,  \* exported[c]: the version c's export took, or NoVersion
    pc,        \* pc[c]: the step the call is at
    checked,   \* checked[c]: the version the engine checked for c, or NoVersion
    polls,     \* polls[c]: status reads after its launch
    launched,  \* calls whose launch request reached openITCOCKPIT
    outcome    \* outcome[c]: what it returned, "open" until then

server == <<valid, runs, jobs, exporting, finished, exported>>
call == <<pc, checked, polls, launched, outcome>>
vars == <<server, call>>

NoVersion == -1
None == [by |-> "none", version |-> NoVersion]
Version == 0..MaxChanges
Steps == {"idle", "checking", "launching", "waiting", "returned"}
Outcomes == {"open", "not_sent", "still_running", "done", "raised"}

db == Len(valid) - 1  \* the version openITCOCKPIT's database holds

TypeOK ==
    /\ valid \in Seq(BOOLEAN) /\ db \in Version
    /\ runs \in Version
    /\ jobs \in Seq(Calls)
    /\ exporting \in [by : Calls, version : Version] \cup {None}
    /\ finished \in SUBSET Calls
    /\ exported \in [Calls -> Version \cup {NoVersion}]
    /\ pc \in [Calls -> Steps]
    /\ checked \in [Calls -> Version \cup {NoVersion}]
    /\ polls \in [Calls -> 0..MaxPolls]
    /\ launched \in SUBSET Calls
    /\ outcome \in [Calls -> Outcomes]

Init ==
    /\ valid = <<TRUE>>
    /\ runs = 0
    /\ jobs = <<>>
    /\ exporting = None
    /\ finished = {}
    /\ exported = [c \in Calls |-> NoVersion]
    /\ pc = [c \in Calls |-> "idle"]
    /\ checked = [c \in Calls |-> NoVersion]
    /\ polls = [c \in Calls |-> 0]
    /\ launched = {}
    /\ outcome = [c \in Calls |-> "open"]

-----------------------------------------------------------------------------
(* openITCOCKPIT, its job server and the engine.                           *)

(* A write tool, or somebody in the UI, changes the configuration.         *)
Change(ok) ==
    /\ db < MaxChanges
    /\ valid' = Append(valid, ok)
    /\ UNCHANGED <<runs, jobs, exporting, finished, exported, call>>

BeginExport ==
    /\ exporting = None
    /\ jobs # <<>>
    /\ exporting' = [by |-> Head(jobs), version |-> db]
    /\ exported' = [exported EXCEPT ![Head(jobs)] = db]
    /\ jobs' = Tail(jobs)
    /\ UNCHANGED <<valid, runs, finished, call>>

EndExport ==
    /\ exporting # None
    /\ runs' = IF valid[exporting.version + 1] THEN exporting.version ELSE runs
    /\ finished' = finished \cup {exporting.by}
    /\ exporting' = None
    /\ UNCHANGED <<valid, jobs, exported, call>>

(* What the status shows, to every call.                                   *)
RunningNow == exporting # None \/ jobs # <<>>

-----------------------------------------------------------------------------
Finish(c, o) ==
    /\ pc' = [pc EXCEPT ![c] = "returned"]
    /\ outcome' = [outcome EXCEPT ![c] = o]

Proceed(c, step) == pc' = [pc EXCEPT ![c] = step] /\ UNCHANGED outcome

(* Mutant of ReadStatus: an export of another call is reported as one's    *)
(* own.                                                                    *)
ReadStatusRunning(c) ==
    /\ pc[c] = "idle"
    /\ IF RunningNow THEN Finish(c, "still_running") ELSE Proceed(c, "checking")
    /\ UNCHANGED <<server, checked, polls, launched>>

(* status(): nothing is sent while an export runs, or when the job server  *)
(* or its worker is not there.                                             *)
ReadStatus(c) ==
    /\ pc[c] = "idle"
    /\ \E reachable \in BOOLEAN :
        IF RunningNow \/ ~reachable THEN Finish(c, "not_sent") ELSE Proceed(c, "checking")
    /\ UNCHANGED <<server, checked, polls, launched>>

(* Mutant of Verify: the verdict is not looked at.                         *)
VerifyAny(c) ==
    /\ pc[c] = "checking"
    /\ checked' = [checked EXCEPT ![c] = db]
    /\ Proceed(c, "launching")
    /\ UNCHANGED <<server, polls, launched>>

(* verify(): the engine's own check of what is in the database now.        *)
Verify(c) ==
    /\ pc[c] = "checking"
    /\ checked' = [checked EXCEPT ![c] = db]
    /\ IF valid[db + 1] THEN Proceed(c, "launching") ELSE Finish(c, "not_sent")
    /\ UNCHANGED <<server, polls, launched>>

QueueExport(c) ==
    /\ jobs' = Append(jobs, c)
    /\ launched' = launched \cup {c}
    /\ UNCHANGED <<valid, runs, exporting, finished, exported>>

Launch(c) ==
    /\ pc[c] = "launching"
    /\ QueueExport(c)
    /\ Proceed(c, "waiting")
    /\ UNCHANGED <<checked, polls>>

(* Mutant of SeeOver: the call does not wait for its export.               *)
SeeOverUnlooked(c) ==
    /\ pc[c] = "waiting"
    /\ Finish(c, "done")
    /\ UNCHANGED <<server, checked, polls, launched>>

(* One status read: no export runs.                                        *)
SeeOver(c) ==
    /\ pc[c] = "waiting"
    /\ ~RunningNow
    /\ Finish(c, "done")
    /\ UNCHANGED <<server, checked, polls, launched>>

(* Mutant of SeeRunning: no deadline; the count of reads starts over, so   *)
(* that TLC sees a loop.                                                   *)
SeeRunningForever(c) ==
    /\ pc[c] = "waiting"
    /\ RunningNow
    /\ polls' = [polls EXCEPT ![c] = (@ + 1) % (MaxPolls + 1)]
    /\ UNCHANGED <<server, pc, checked, launched, outcome>>

(* wait_for: the deadline is not over yet.                                 *)
TimeLeft(c) == polls[c] < MaxPolls

(* One status read: an export runs, and there is time left, or there is    *)
(* not.                                                                    *)
SeeRunning(c) ==
    /\ pc[c] = "waiting"
    /\ RunningNow
    /\ \/ /\ TimeLeft(c)
          /\ polls' = [polls EXCEPT ![c] = @ + 1]
          /\ UNCHANGED <<pc, outcome>>
       \/ /\ Finish(c, "still_running")
          /\ UNCHANGED polls
    /\ UNCHANGED <<server, checked, launched>>

(* A request fails and the call raises; a launch may have been received.   *)
RequestFails(c) ==
    /\ pc[c] # "returned"
    /\ \/ UNCHANGED <<server, launched>>
       \/ pc[c] = "launching" /\ QueueExport(c)
    /\ Finish(c, "raised")
    /\ UNCHANGED <<checked, polls>>

CallStep(c) ==
    \/ ReadStatus(c)
    \/ Verify(c)
    \/ Launch(c)
    \/ SeeOver(c)
    \/ SeeRunning(c)
    \/ RequestFails(c)

(* Every call was made and every export is over: the model stops.          *)
AllOver ==
    /\ \A c \in Calls : pc[c] = "returned"
    /\ jobs = <<>> /\ exporting = None
    /\ UNCHANGED vars

Next ==
    \/ \E ok \in BOOLEAN : Change(ok)
    \/ BeginExport
    \/ EndExport
    \/ \E c \in Calls : CallStep(c)
    \/ AllOver

Spec == Init /\ [][Next]_vars

(* A started call's thread keeps running.  Nothing is assumed of the job   *)
(* server: its worker may hang.                                            *)
FairSpec == Spec /\ \A c \in Calls : WF_vars(pc[c] # "idle" /\ CallStep(c))

-----------------------------------------------------------------------------
(* The outcomes keep the contract of the command tools, still_running      *)
(* being what they call sent_not_visible_yet.                              *)
Contract == INSTANCE CommandContract WITH
    sent <- launched,
    outcome <- [c \in Calls |-> IF outcome[c] = "still_running" THEN "sent_not_visible_yet" ELSE outcome[c]]
KeepsContract == Contract!Spec

Done(c) == outcome[c] = "done"

(* done is not said before the call's own export is over, even when others *)
(* launched exports of their own before or after it.                       *)
DoneAfterOwnExport == \A c \in Calls : Done(c) => c \in finished

(* When nobody changed the configuration between the check and the export, *)
(* a done call's configuration is what the engine runs, or older than it.  *)
DoneRunsIfUnchanged ==
    \A c \in Calls : (Done(c) /\ exported[c] = checked[c]) => runs >= checked[c]

(* A started call returns or raises, also when its export never ends.      *)
CallsReturn == \A c \in Calls : pc[c] # "idle" ~> pc[c] = "returned"
=============================================================================
