--------------------------- MODULE EngineCommands ---------------------------
(***************************************************************************)
(* The tools that command the monitoring engine about a problem:           *)
(* acknowledge_problem, remove_acknowledgement and reschedule_check, with  *)
(* what they share in tools/support/commands.py.  A command is only queued *)
(* when its request returns; the engine runs it later.  Each tool reads    *)
(* the object, decides, sends, and reads again until the change shows or   *)
(* ten seconds are over.                                                   *)
(*                                                                         *)
(* Calls of several users, or of one user who calls again, overlap in any  *)
(* way.  The engine and its page are external: commands run in the order   *)
(* they were queued, an acknowledgement of an object without a problem has *)
(* no effect, and a state change ends an acknowledgement that is not       *)
(* sticky.                                                                 *)
(***************************************************************************)
EXTENDS Integers, Sequences, FiniteSets

CONSTANTS
    Calls,         \* tool calls, each made at most once, in any order
    Host,          \* a host
    Services,      \* its services
    SERVICES_READ, \* acknowledged services read at most
    MaxPolls,      \* reads that fit into WAIT_SECONDS
    MaxChecks      \* bound of the model: checks the engine runs per object

Objects == {Host} \cup Services

ASSUME HostAssumption == Host \notin Services /\ IsFiniteSet(Services)
ASSUME LimitsAssumption == SERVICES_READ \in Nat \ {0} /\ MaxPolls \in Nat \ {0} /\ MaxChecks \in Nat

VARIABLES
    problem,  \* problem[o]: the object's state is one of PROBLEM_STATES
    ack,      \* ack[o]: the acknowledgement its page shows, or None
    checks,   \* checks[o]: number of its last check (last_check)
    queue,    \* commands the engine has accepted and not run yet
    runs,     \* number of commands the engine has run
    pc,       \* pc[c]: the step the call is at
    req,      \* req[c]: its parameters
    target,   \* target[c]: the Target it read first, and after how many runs
    todo,     \* todo[c]: services whose acknowledgement it still has to remove
    polls,    \* polls[c]: reads in the current wait
    state,    \* state[c]: what the call will report of the object itself
    outcome,  \* outcome[c]: what it returned, "open" until then
    shown,    \* shown[c]: the acknowledgement shown when it reported done, or None
    queued    \* queued[c]: objects it has commanded so far

engine == <<problem, ack, checks, queue, runs>>
call == <<pc, req, target, todo, polls, state, outcome, shown, queued>>
vars == <<engine, call>>

None == [by |-> "none", at |-> 0]
Other == "other"
Earlier == [by |-> Other, at |-> 0]  \* somebody acknowledged it before
Ack == [by : Calls \cup {Other}, at : Nat]

Ops == {"acknowledge", "remove", "reschedule"}
Request == [op : Ops, on : Objects, all : BOOLEAN]
Target == [ack : Ack \cup {None}, checks : Nat, runs : Nat]
Command == [op : Ops, on : SUBSET Objects, call : Calls]
Steps == {"idle", "listing", "sending", "waiting", "counting", "removing", "watching", "returned"}
Outcomes == {"open", "not_sent", "sent_not_visible_yet", "done", "raised"}

TypeOK ==
    /\ problem \in [Objects -> BOOLEAN]
    /\ ack \in [Objects -> Ack \cup {None}]
    /\ checks \in [Objects -> Nat]
    /\ queue \in Seq(Command)
    /\ runs \in Nat
    /\ pc \in [Calls -> Steps]
    /\ req \in [Calls -> Request]
    /\ target \in [Calls -> Target]
    /\ todo \in [Calls -> SUBSET Services]
    /\ polls \in [Calls -> 0..MaxPolls]
    /\ state \in [Calls -> {"done", "sent_not_visible_yet"}]
    /\ outcome \in [Calls -> Outcomes]
    /\ shown \in [Calls -> Ack \cup {None}]
    /\ queued \in [Calls -> SUBSET Objects]

NoRequest == [op |-> "acknowledge", on |-> Host, all |-> FALSE]

Init ==
    /\ problem \in [Objects -> BOOLEAN]
    /\ ack \in {a \in [Objects -> {None, Earlier}] : \A o \in Objects : a[o] = Earlier => problem[o]}
    /\ checks = [o \in Objects |-> 0]
    /\ queue = <<>>
    /\ runs = 0
    /\ pc = [c \in Calls |-> "idle"]
    /\ req = [c \in Calls |-> NoRequest]
    /\ target = [c \in Calls |-> [ack |-> None, checks |-> 0, runs |-> 0]]
    /\ todo = [c \in Calls |-> {}]
    /\ polls = [c \in Calls |-> 0]
    /\ state = [c \in Calls |-> "done"]
    /\ outcome = [c \in Calls |-> "open"]
    /\ shown = [c \in Calls |-> None]
    /\ queued = [c \in Calls |-> {}]

-----------------------------------------------------------------------------
(* The engine and the world it watches.                                    *)

StateChange(o) ==
    /\ \E p \in BOOLEAN :
        /\ p # problem[o] \/ ack[o] # None
        /\ problem' = [problem EXCEPT ![o] = p]
    /\ ack' = [ack EXCEPT ![o] = None]
    /\ UNCHANGED <<checks, queue, runs, call>>

RegularCheck(o) ==
    /\ checks[o] < MaxChecks
    /\ checks' = [checks EXCEPT ![o] = @ + 1]
    /\ UNCHANGED <<problem, ack, queue, runs, call>>

(* The engine runs the next command.  A scheduled check gives no new       *)
(* result while the engine still reuses the last one (CACHE_SECONDS).      *)
RunCommand ==
    /\ queue # <<>>
    /\ LET cmd == Head(queue)
           Acked(o) == o \in cmd.on /\ problem[o]
       IN  \/ /\ cmd.op = "acknowledge"
              /\ ack' = [o \in Objects |-> IF Acked(o) THEN [by |-> cmd.call, at |-> runs + 1] ELSE ack[o]]
              /\ UNCHANGED checks
           \/ /\ cmd.op = "remove"
              /\ ack' = [o \in Objects |-> IF o \in cmd.on THEN None ELSE ack[o]]
              /\ UNCHANGED checks
           \/ /\ cmd.op = "reschedule"
              /\ \E new \in SUBSET {o \in cmd.on : checks[o] < MaxChecks} :
                    checks' = [o \in Objects |-> IF o \in new THEN checks[o] + 1 ELSE checks[o]]
              /\ UNCHANGED ack
    /\ queue' = Tail(queue)
    /\ runs' = runs + 1
    /\ UNCHANGED <<problem, call>>

-----------------------------------------------------------------------------
(* A call reads its object's page, and refuses what cannot work.           *)

Rights == {"role", "container", "monitored"}

(* refusal(): what no command may be sent for.                             *)
Refused(r, rights) ==
    \/ rights # Rights
    \/ r.all /\ r.on # Host

(* Mutant of Acknowledgeable: an acknowledged problem is taken as well.    *)
AnyProblem(o) == problem[o]

(* acknowledge_problem: a problem now, that nobody has acknowledged.       *)
Acknowledgeable(o) == problem[o] /\ ack[o] = None

AckedServices == {s \in Services : ack[s] # None}

(* acknowledged_services: one page of at most SERVICES_READ of them.       *)
ReadServices ==
    LET size == IF Cardinality(AckedServices) <= SERVICES_READ THEN Cardinality(AckedServices) ELSE SERVICES_READ
    IN  {S \in SUBSET AckedServices : Cardinality(S) = size}

Finish(c, o) ==
    /\ pc' = [pc EXCEPT ![c] = "returned"]
    /\ outcome' = [outcome EXCEPT ![c] = o]

Proceed(c, step) == pc' = [pc EXCEPT ![c] = step] /\ UNCHANGED outcome

(* What each tool decides from the object it has read; a removal for a     *)
(* host reads the host's services first.                                   *)
DecideAcknowledge(c, r) ==
    /\ r.op = "acknowledge"
    /\ IF Acknowledgeable(r.on) THEN Proceed(c, "sending") ELSE Finish(c, "not_sent")

DecideReschedule(c, r, active) ==
    /\ r.op = "reschedule"
    /\ IF active THEN Proceed(c, "sending") ELSE Finish(c, "not_sent")

DecideRemove(c, r) ==
    /\ r.op = "remove"
    /\ IF r.on = Host THEN Proceed(c, "listing")
       ELSE IF ack[r.on] # None THEN Proceed(c, "sending") ELSE Finish(c, "not_sent")

(* find_target and refusal(), then what the tool decides.                  *)
Look(c) ==
    /\ pc[c] = "idle"
    /\ \E r \in Request, rights \in SUBSET Rights, active \in BOOLEAN :
        /\ req' = [req EXCEPT ![c] = r]
        /\ target' = [target EXCEPT ![c] = [ack |-> ack[r.on], checks |-> checks[r.on], runs |-> runs]]
        /\ IF Refused(r, rights)
           THEN Finish(c, "not_sent")
           ELSE DecideAcknowledge(c, r) \/ DecideReschedule(c, r, active) \/ DecideRemove(c, r)
    /\ UNCHANGED <<engine, todo, polls, state, shown, queued>>

(* remove_acknowledgement of a host: the services that are acknowledged.   *)
ListServices(c) ==
    /\ pc[c] = "listing"
    /\ \E S \in ReadServices :
        /\ todo' = [todo EXCEPT ![c] = S]
        /\ \/ target[c].ack # None /\ Proceed(c, "sending")
           \/ target[c].ack = None /\ req[c].all /\ S # {} /\ Proceed(c, "removing")
           \/ target[c].ack = None /\ ~(req[c].all /\ S # {}) /\ Finish(c, "not_sent")
    /\ UNCHANGED <<engine, req, target, polls, state, shown, queued>>

(* A read before the first command fails: the call raises.                 *)
ReadFails(c) ==
    /\ pc[c] \in {"idle", "listing", "waiting", "counting", "watching"}
    /\ Finish(c, "raised")
    /\ UNCHANGED <<engine, req, target, todo, polls, state, shown, queued>>

-----------------------------------------------------------------------------
(* Sending.                                                                *)

Queue(c, op, objects) ==
    /\ queue' = Append(queue, [op |-> op, on |-> objects, call |-> c])
    /\ queued' = [queued EXCEPT ![c] = @ \cup objects]
    /\ UNCHANGED <<problem, ack, checks, runs>>

Covered(c) == IF req[c].all /\ req[c].op # "remove" THEN Objects ELSE {req[c].on}

Send(c) ==
    /\ pc[c] = "sending"
    /\ Queue(c, req[c].op, Covered(c))
    /\ Proceed(c, "waiting")
    /\ polls' = [polls EXCEPT ![c] = 0]
    /\ UNCHANGED <<req, target, todo, state, shown>>

(* remove_acknowledgement with_services: one command per service.          *)
RemoveNext(c) ==
    /\ pc[c] = "removing"
    /\ \E s \in todo[c] :
        /\ Queue(c, "remove", {s})
        /\ todo' = [todo EXCEPT ![c] = @ \ {s}]
        /\ IF todo[c] = {s} THEN Proceed(c, "watching") ELSE Proceed(c, "removing")
    /\ polls' = [polls EXCEPT ![c] = 0]
    /\ UNCHANGED <<req, target, state, shown>>

(* Mutant of SendFails: a failed request is taken for one that never came. *)
SendFailsUnsent(c) ==
    /\ pc[c] \in {"sending", "removing"}
    /\ \/ UNCHANGED <<engine, queued>>
       \/ pc[c] = "sending" /\ Queue(c, req[c].op, Covered(c))
       \/ pc[c] = "removing" /\ \E s \in todo[c] : Queue(c, "remove", {s})
    /\ Finish(c, "not_sent")
    /\ UNCHANGED <<req, target, todo, polls, state, shown>>

(* The command's request fails: refused, or queued with the answer lost.   *)
(* Either way the call raises, with the commands sent before it queued.    *)
SendFails(c) ==
    /\ pc[c] \in {"sending", "removing"}
    /\ \/ UNCHANGED <<engine, queued>>
       \/ pc[c] = "sending" /\ Queue(c, req[c].op, Covered(c))
       \/ pc[c] = "removing" /\ \E s \in todo[c] : Queue(c, "remove", {s})
    /\ Finish(c, "raised")
    /\ UNCHANGED <<req, target, todo, polls, state, shown>>

-----------------------------------------------------------------------------
(* Waiting until the change shows.                                         *)

Shows(c) ==
    LET o == req[c].on
    IN  \/ req[c].op = "acknowledge" /\ ack[o] # None
        \/ req[c].op = "remove" /\ ack[o] = None
        \/ req[c].op = "reschedule" /\ checks[o] # target[c].checks

(* What follows the wait of each tool, now that it knows result.           *)
AfterWait(c, result) ==
    /\ state' = [state EXCEPT ![c] = result]
    /\ polls' = [polls EXCEPT ![c] = 0]
    /\ \/ req[c].op = "acknowledge" /\ req[c].all /\ Proceed(c, "counting")
       \/ req[c].op = "remove" /\ req[c].all /\ todo[c] # {} /\ Proceed(c, "removing")
       \/ /\ \/ req[c].op = "reschedule"
             \/ req[c].op = "acknowledge" /\ ~req[c].all
             \/ req[c].op = "remove" /\ ~(req[c].all /\ todo[c] # {})
          /\ Finish(c, result)

(* wait_for: one read of the object, and the change shows.                 *)
SeeChange(c) ==
    /\ pc[c] = "waiting"
    /\ Shows(c)
    /\ shown' = [shown EXCEPT ![c] = ack[req[c].on]]
    /\ AfterWait(c, "done")
    /\ UNCHANGED <<engine, req, target, todo, queued>>

(* Mutant of SeeNothing: no deadline; the count of reads starts over, so   *)
(* that TLC sees a loop.                                                   *)
SeeNothingForever(c) ==
    /\ pc[c] = "waiting"
    /\ ~Shows(c)
    /\ polls' = [polls EXCEPT ![c] = (@ + 1) % (MaxPolls + 1)]
    /\ UNCHANGED <<engine, pc, req, target, todo, state, outcome, shown, queued>>

(* wait_for: the deadline is not over yet.                                 *)
TimeLeft(c) == polls[c] < MaxPolls

(* wait_for: one read of the object, it does not show, and time is left.   *)
SeeNothing(c) ==
    /\ pc[c] = "waiting"
    /\ ~Shows(c)
    /\ TimeLeft(c)
    /\ polls' = [polls EXCEPT ![c] = @ + 1]
    /\ UNCHANGED <<engine, pc, req, target, todo, state, outcome, shown, queued>>

(* wait_for: one read of the object, it does not show, and time is up.     *)
GiveUp(c) ==
    /\ pc[c] = "waiting"
    /\ ~Shows(c)
    /\ AfterWait(c, "sent_not_visible_yet")
    /\ UNCHANGED <<engine, req, target, todo, shown, queued>>

(* acknowledge_problem with_services: how many services are acknowledged.  *)
CountServices(c) ==
    /\ pc[c] = "counting"
    /\ Finish(c, state[c])
    /\ UNCHANGED <<engine, req, target, todo, polls, state, shown, queued>>

(* Mutant of SeeNoneLeft: only the services it commanded are looked at.    *)
SeeNoneOfMine(c) ==
    /\ pc[c] = "watching"
    /\ \A s \in queued[c] : ack[s] = None
    /\ Finish(c, state[c])
    /\ UNCHANGED <<engine, req, target, todo, polls, state, shown, queued>>

(* _still_acknowledged: the services read again until none is left.        *)
SeeNoneLeft(c) ==
    /\ pc[c] = "watching"
    /\ ReadServices = {{}}
    /\ Finish(c, state[c])
    /\ UNCHANGED <<engine, req, target, todo, polls, state, shown, queued>>

(* One read of the services: some are left, and there is time left.        *)
SeeSomeLeft(c) ==
    /\ pc[c] = "watching"
    /\ TimeLeft(c)
    /\ ReadServices # {{}}
    /\ polls' = [polls EXCEPT ![c] = @ + 1]
    /\ UNCHANGED <<engine, pc, req, target, todo, state, outcome, shown, queued>>

GiveUpServices(c) ==
    /\ pc[c] = "watching"
    /\ ReadServices \ {{}} # {}
    /\ Finish(c, "sent_not_visible_yet")
    /\ UNCHANGED <<engine, req, target, todo, polls, state, shown, queued>>

CallStep(c) ==
    \/ Look(c)
    \/ ListServices(c)
    \/ ReadFails(c)
    \/ Send(c)
    \/ RemoveNext(c)
    \/ SendFails(c)
    \/ SeeChange(c)
    \/ SeeNothing(c)
    \/ GiveUp(c)
    \/ CountServices(c)
    \/ SeeNoneLeft(c)
    \/ SeeSomeLeft(c)
    \/ GiveUpServices(c)

Next ==
    \/ \E o \in Objects : StateChange(o) \/ RegularCheck(o)
    \/ RunCommand
    \/ \E c \in Calls : CallStep(c)

Spec == Init /\ [][Next]_vars

(* A started call's thread keeps running; nothing is assumed of the engine *)
(* and of whether somebody makes a call.                                   *)
FairSpec == Spec /\ \A c \in Calls : WF_vars(pc[c] # "idle" /\ CallStep(c))

-----------------------------------------------------------------------------
(* Every call keeps the contract of the outcome field: it says not_sent    *)
(* only when nothing was queued, and done or sent_not_visible_yet only     *)
(* when something was, whatever fails in between.                          *)
Contract == INSTANCE CommandContract WITH sent <- {c \in Calls : queued[c] # {}}
KeepsContract == Contract!Spec

(* acknowledge_problem acts "only for a problem that exists now and is not *)
(* acknowledged yet": the acknowledgement it reports as done was made      *)
(* after the call looked.  It is never one that was there before.          *)
DoneIsNew ==
    \A c \in Calls : (req[c].op = "acknowledge" /\ shown[c] # None) => shown[c].at > target[c].runs

(* remove_acknowledgement with_services that commanded services says done  *)
(* only when no service of the host showed an acknowledgement at its last  *)
(* read, also when more were acknowledged than one page lists.             *)
DoneLeavesNone ==
    [][\A c \in Calls :
          (pc[c] = "watching" /\ outcome'[c] = "done" /\ outcome[c] # "done") => AckedServices = {}]_vars

(* A call that was started returns or raises.                              *)
CallsReturn == \A c \in Calls : pc[c] # "idle" ~> pc[c] = "returned"
=============================================================================
