------------------------------ MODULE Downtimes ------------------------------
(***************************************************************************)
(* schedule_downtime and cancel_downtime (tools/schedule_downtime.py,      *)
(* tools/cancel_downtime.py, api/downtimes.py).  Both tell what happened   *)
(* from the list of downtimes: schedule_downtime looks for a row that was  *)
(* not there before, cancel_downtime cancels the rows it finds and waits   *)
(* until none is left.  The object's own page follows later than the list. *)
(*                                                                         *)
(* The list is asked for by name, and the name filter of openITCOCKPIT     *)
(* matches a part of the name: Matching[o] is the set of objects whose     *)
(* downtimes the query for o returns.  It returns the DOWNTIMES_READ rows  *)
(* with the earliest start, of those that start within the window the      *)
(* endpoint covers, 30 days back and 60 ahead.  The id a cancel takes may  *)
(* be missing in a row.  Time counts in minutes, the precision a downtime  *)
(* is stored in.                                                           *)
(***************************************************************************)
EXTENDS Integers, Sequences, FiniteSets

CONSTANTS
    Calls,          \* tool calls, each made at most once, in any order
    Hosts,          \* hosts
    Objects,        \* hosts and services
    Matching,       \* Matching[o]: objects of o's kind whose name contains o's
    Parts,          \* Parts[o]: the services of host o, none of a service
    DOWNTIMES_READ, \* rows one query returns at most
    Back, Ahead,    \* the minutes before and after now that a query covers
    MaxPolls,       \* reads that fit into WAIT_SECONDS
    Length,         \* minutes a downtime lasts
    MaxTime,        \* bound of the model: the clock stops here
    MaxStart,       \* bound of the model: the latest start of a downtime
    MaxOthers       \* bound of the model: downtimes other people schedule

ASSUME ObjectsAssumption == Hosts \subseteq Objects /\ IsFiniteSet(Objects) /\ Objects # {}
ASSUME MatchingAssumption ==
    /\ Matching \in [Objects -> SUBSET Objects]
    /\ \A o \in Objects : o \in Matching[o]
ASSUME PartsAssumption == Parts \in [Objects -> SUBSET Objects]
ASSUME LimitsAssumption ==
    /\ DOWNTIMES_READ \in Nat \ {0} /\ MaxPolls \in Nat /\ Length \in Nat \ {0}
    /\ {Back, Ahead, MaxTime, MaxStart, MaxOthers} \subseteq Nat

VARIABLES
    now,       \* the minute it is
    listed,    \* downtimes the list knows, cancelled ones left out
    made,      \* number of downtimes ever made; ids count up
    queue,     \* commands the engine has not run yet
    page,      \* page[o]: the object's page shows it in a downtime
    pc,        \* pc[c]: the step the call is at
    req,       \* req[c]: its parameters, and for a schedule start and starts_now
    rows,      \* rows[c]: the rows it read first ("before", "found")
    madeThen,  \* madeThen[c]: made at that read
    nowThen,   \* nowThen[c]: the minute of that read
    thereThen, \* thereThen[c]: the downtimes its object had at that read
    todo,      \* todo[c]: rows it still has to cancel
    wasRunning,\* wasRunning[c]: one of these rows was running then
    inDowntime,\* inDowntime[c]: what the page said at the last read of a wait
    polls,     \* polls[c]: reads in the wait
    outcome,   \* outcome[c]: what it returned, "open" until then
    evidence,  \* evidence[c]: the rows it took for its own downtime
    sent       \* sent[c]: commands it has queued

monitoring == <<now, listed, made, queue, page>>
call == <<pc, req, rows, madeThen, nowThen, thereThen, todo, wasRunning, inDowntime, polls, outcome, evidence, sent>>
vars == <<monitoring, call>>

Other == "other"
Downtime ==
    [id : Nat, numbered : BOOLEAN, on : Objects, start : Nat, end : Nat, by : Calls \cup {Other}]
Ops == {"schedule", "cancel"}
Request == [op : Ops, on : Objects, all : BOOLEAN, start : Nat, startsNow : BOOLEAN]
Schedule == [op : {"schedule"}, on : SUBSET Objects, start : Nat, by : Calls]
Cancel == [op : {"cancel"}, downtime : Downtime, all : BOOLEAN, by : Calls]
Steps == {"idle", "listing", "sending", "cancelling", "reading", "checking", "returned"}
Outcomes == {"open", "not_sent", "sent_not_visible_yet", "done", "raised"}

TypeOK ==
    /\ now \in Nat /\ made \in Nat
    /\ listed \in SUBSET Downtime
    /\ queue \in Seq(Schedule \cup Cancel)
    /\ page \in [Objects -> BOOLEAN]
    /\ pc \in [Calls -> Steps]
    /\ req \in [Calls -> Request]
    /\ rows \in [Calls -> SUBSET Downtime]
    /\ madeThen \in [Calls -> Nat] /\ nowThen \in [Calls -> Nat]
    /\ thereThen \in [Calls -> SUBSET Downtime]
    /\ todo \in [Calls -> SUBSET Downtime]
    /\ wasRunning \in [Calls -> BOOLEAN]
    /\ inDowntime \in [Calls -> BOOLEAN]
    /\ polls \in [Calls -> 0..MaxPolls]
    /\ outcome \in [Calls -> Outcomes]
    /\ evidence \in [Calls -> SUBSET Downtime]
    /\ sent \in [Calls -> SUBSET (Schedule \cup Cancel)]

NoRequest == [op |-> "schedule", on |-> CHOOSE o \in Objects : TRUE, all |-> FALSE, start |-> 0, startsNow |-> TRUE]

Init ==
    /\ now = 0 /\ made = 0
    /\ listed = {}
    /\ queue = <<>>
    /\ page = [o \in Objects |-> FALSE]
    /\ pc = [c \in Calls |-> "idle"]
    /\ req = [c \in Calls |-> NoRequest]
    /\ rows = [c \in Calls |-> {}]
    /\ madeThen = [c \in Calls |-> 0] /\ nowThen = [c \in Calls |-> 0]
    /\ thereThen = [c \in Calls |-> {}]
    /\ todo = [c \in Calls |-> {}]
    /\ wasRunning = [c \in Calls |-> FALSE]
    /\ inDowntime = [c \in Calls |-> FALSE]
    /\ polls = [c \in Calls |-> 0]
    /\ outcome = [c \in Calls |-> "open"]
    /\ evidence = [c \in Calls |-> {}]
    /\ sent = [c \in Calls |-> {}]

-----------------------------------------------------------------------------
(* openITCOCKPIT and the engine.                                           *)

Over(d) == d.end <= now
Running(d) == d.start <= now /\ ~Over(d)
InDowntime(o) == \E d \in listed : d.on = o /\ Running(d)

Tick ==
    /\ now < MaxTime
    /\ now' = now + 1
    /\ UNCHANGED <<listed, made, queue, page, call>>

(* The page catches up with what the engine knows.                         *)
RefreshPage(o) ==
    /\ page[o] # InDowntime(o)
    /\ page' = [page EXCEPT ![o] = InDowntime(o)]
    /\ UNCHANGED <<now, listed, made, queue, call>>

Starts == 0..MaxStart

(* Somebody schedules a downtime in openITCOCKPIT itself; whether its row  *)
(* has the id that cancels it is openITCOCKPIT's affair.                   *)
OtherSchedules(o, start) ==
    /\ Cardinality({d \in listed : d.by = Other}) < MaxOthers
    /\ made' = made + 1
    /\ \E numbered \in BOOLEAN :
        listed' = listed \cup {[id |-> made + 1, numbered |-> numbered, on |-> o,
                                start |-> start, end |-> start + Length, by |-> Other]}
    /\ UNCHANGED <<now, queue, page, call>>

(* The engine takes a downtime from the queue into its list: one downtime  *)
(* per object the command covers.                                          *)
RunSchedule ==
    /\ queue # <<>>
    /\ Head(queue).op = "schedule"
    /\ LET cmd == Head(queue)
       IN  \E new \in [cmd.on -> (made + 1)..(made + Cardinality(cmd.on))], numbered \in BOOLEAN :
             /\ \A o, p \in cmd.on : new[o] = new[p] => o = p
             /\ listed' = listed \cup
                   {[id |-> new[o], numbered |-> numbered, on |-> o, start |-> cmd.start,
                     end |-> cmd.start + Length, by |-> cmd.by] : o \in cmd.on}
             /\ made' = made + Cardinality(cmd.on)
    /\ queue' = Tail(queue)
    /\ UNCHANGED <<now, page, call>>

(* Cancelling a host's downtime with its services cancels the services'    *)
(* downtimes that were set together with it.                               *)
RunCancel ==
    /\ queue # <<>>
    /\ Head(queue).op = "cancel"
    /\ LET cmd == Head(queue)
           d == cmd.downtime
       IN  listed' = {e \in listed : ~ \/ e.id = d.id
                                       \/ cmd.all /\ e.on \in Parts[d.on] /\ e.by = d.by /\ e.start = d.start}
    /\ queue' = Tail(queue)
    /\ UNCHANGED <<now, made, page, call>>

-----------------------------------------------------------------------------
Window(d, t) == t - Back <= d.start /\ d.start <= t + Ahead

(* One page of those of all that are listed: the first DOWNTIMES_READ by   *)
(* their start.                                                            *)
FirstBy(all) ==
    LET size == IF Cardinality(all) <= DOWNTIMES_READ THEN Cardinality(all) ELSE DOWNTIMES_READ
    IN  {S \in SUBSET all : Cardinality(S) = size /\ \A d \in S, e \in all \ S : d.start <= e.start}

(* Mutant of Reads: the object's name is not asked for.                    *)
ReadsAny(o) == FirstBy({d \in listed : ~Over(d) /\ Window(d, now)})

(* on_object: a page of the rows, neither cancelled nor over, of the       *)
(* objects the name filter matches.                                        *)
Reads(o) == FirstBy({d \in listed : d.on \in Matching[o] /\ ~Over(d) /\ Window(d, now)})

(* The rows a cancel can name.                                             *)
Cancellable(S) == {d \in S : d.numbered}

Finish(c, o) ==
    /\ pc' = [pc EXCEPT ![c] = "returned"]
    /\ outcome' = [outcome EXCEPT ![c] = o]

Proceed(c, step) == pc' = [pc EXCEPT ![c] = step] /\ UNCHANGED outcome

(* find_target and refusal(): the role, the container or the monitoring    *)
(* may not allow it.  schedule_downtime also fixes its start here, now or  *)
(* at start_at, which may be past, or refuses one that it cannot read.     *)
Look(c) ==
    /\ pc[c] = "idle"
    /\ \E op \in Ops, o \in Objects, all \in BOOLEAN, refused \in BOOLEAN :
        \E start \in IF op = "schedule" THEN Starts ELSE {now} :
            /\ req' = [req EXCEPT ![c] = [op |-> op, on |-> o, all |-> all,
                                          start |-> start, startsNow |-> (start <= now)]]
            /\ IF refused \/ (all /\ o \notin Hosts) THEN Finish(c, "not_sent") ELSE Proceed(c, "listing")
    /\ UNCHANGED <<monitoring, rows, madeThen, nowThen, thereThen, todo, wasRunning, inDowntime, polls, evidence, sent>>

(* The rows before anything is sent.  Of those a cancel is to cancel it    *)
(* passes over the ones without an id: when none has one it sends nothing, *)
(* and waits all the same.                                                 *)
List(c) ==
    /\ pc[c] = "listing"
    /\ \E S \in Reads(req[c].on) :
        /\ rows' = [rows EXCEPT ![c] = S]
        /\ wasRunning' = [wasRunning EXCEPT ![c] = \E d \in S : Running(d)]
        /\ todo' = [todo EXCEPT ![c] = IF req[c].op = "cancel" THEN Cancellable(S) ELSE {}]
        /\ \/ req[c].op = "schedule" /\ Proceed(c, "sending")
           \/ req[c].op = "cancel" /\ Cancellable(S) # {} /\ Proceed(c, "cancelling")
           \/ req[c].op = "cancel" /\ S # {} /\ Cancellable(S) = {} /\ Proceed(c, "reading")
           \/ req[c].op = "cancel" /\ S = {} /\ Finish(c, "not_sent")
    /\ madeThen' = [madeThen EXCEPT ![c] = made] /\ nowThen' = [nowThen EXCEPT ![c] = now]
    /\ thereThen' = [thereThen EXCEPT ![c] = {d \in listed : d.on = req[c].on /\ ~Over(d)}]
    /\ UNCHANGED <<monitoring, req, inDowntime, polls, evidence, sent>>

Queue(c, cmd) ==
    /\ queue' = Append(queue, cmd)
    /\ sent' = [sent EXCEPT ![c] = @ \cup {cmd}]
    /\ UNCHANGED <<now, listed, made, page>>

ScheduleCommand(c) ==
    [op |-> "schedule", on |-> {req[c].on} \cup (IF req[c].all THEN Parts[req[c].on] ELSE {}),
     start |-> req[c].start, by |-> c]

CancelCommand(c, d) == [op |-> "cancel", downtime |-> d, all |-> req[c].all, by |-> c]

(* schedule_downtime: one command for the object, or for a host and all    *)
(* its services.                                                           *)
Send(c) ==
    /\ pc[c] = "sending"
    /\ Queue(c, ScheduleCommand(c))
    /\ Proceed(c, "reading")
    /\ UNCHANGED <<req, rows, madeThen, nowThen, thereThen, todo, wasRunning, inDowntime, polls, evidence>>

(* Mutant of CancelNext: it stops after the first row.                     *)
CancelFirst(c) ==
    /\ pc[c] = "cancelling"
    /\ \E d \in todo[c] :
        /\ Queue(c, CancelCommand(c, d))
        /\ todo' = [todo EXCEPT ![c] = @ \ {d}]
    /\ Proceed(c, "reading")
    /\ UNCHANGED <<req, rows, madeThen, nowThen, thereThen, wasRunning, inDowntime, polls, evidence>>

(* cancel_downtime: one command per row that has an id.                    *)
CancelNext(c) ==
    /\ pc[c] = "cancelling"
    /\ \E d \in todo[c] :
        /\ Queue(c, CancelCommand(c, d))
        /\ todo' = [todo EXCEPT ![c] = @ \ {d}]
        /\ IF todo[c] = {d} THEN Proceed(c, "reading") ELSE Proceed(c, "cancelling")
    /\ UNCHANGED <<req, rows, madeThen, nowThen, thereThen, wasRunning, inDowntime, polls, evidence>>

(* Mutant of RequestFails: a failed request is taken for one that never    *)
(* came.                                                                   *)
RequestFailsUnsent(c) ==
    /\ pc[c] \notin {"returned"}
    /\ \/ UNCHANGED <<monitoring, sent>>
       \/ pc[c] = "sending" /\ Queue(c, ScheduleCommand(c))
       \/ pc[c] = "cancelling" /\ \E d \in todo[c] : Queue(c, CancelCommand(c, d))
    /\ Finish(c, "not_sent")
    /\ UNCHANGED <<req, rows, madeThen, nowThen, thereThen, todo, wasRunning, inDowntime, polls, evidence>>

(* A request fails, a command's after or before it was queued: the call    *)
(* raises.                                                                 *)
RequestFails(c) ==
    /\ pc[c] \notin {"returned"}
    /\ \/ UNCHANGED <<monitoring, sent>>
       \/ pc[c] = "sending" /\ Queue(c, ScheduleCommand(c))
       \/ pc[c] = "cancelling" /\ \E d \in todo[c] : Queue(c, CancelCommand(c, d))
    /\ Finish(c, "raised")
    /\ UNCHANGED <<req, rows, madeThen, nowThen, thereThen, todo, wasRunning, inDowntime, polls, evidence>>

-----------------------------------------------------------------------------
(* wait_for, one round: the page is read again, then the list.             *)
ReadPage(c) ==
    /\ pc[c] = "reading"
    /\ inDowntime' = [inDowntime EXCEPT ![c] = page[req[c].on]]
    /\ Proceed(c, "checking")
    /\ UNCHANGED <<monitoring, req, rows, madeThen, nowThen, thereThen, todo, wasRunning, polls, evidence, sent>>

(* Mutant of Added: the rows of before are not left out.                   *)
AddedOrThere(c, S) == S

(* downtime_id: rows without one have None in common.                      *)
Id(d) == IF d.numbered THEN d.id ELSE 0

(* The rows of S whose id was not among those of before.                   *)
Added(c, S) == {d \in S : Id(d) \notin {Id(e) : e \in rows[c]}}

Shows(c, S) ==
    \/ /\ req[c].op = "schedule"
       /\ Added(c, S) # {}
       /\ inDowntime[c] \/ ~req[c].startsNow
    \/ /\ req[c].op = "cancel"
       /\ S = {}
       /\ ~inDowntime[c] \/ ~wasRunning[c]

(* wait_for: the deadline is not over yet.                                 *)
TimeLeft(c) == polls[c] < MaxPolls

(* The list shows what the call waits for, or not yet, or not in time.     *)
CheckList(c) ==
    /\ pc[c] = "checking"
    /\ \E S \in Reads(req[c].on) :
        \/ /\ Shows(c, S)
           /\ evidence' = [evidence EXCEPT ![c] = Added(c, S)]
           /\ Finish(c, "done")
           /\ UNCHANGED polls
        \/ /\ ~Shows(c, S)
           /\ TimeLeft(c)
           /\ polls' = [polls EXCEPT ![c] = @ + 1]
           /\ Proceed(c, "reading")
           /\ UNCHANGED evidence
        \/ /\ ~Shows(c, S)
           /\ Finish(c, "sent_not_visible_yet")
           /\ UNCHANGED <<polls, evidence>>
    /\ UNCHANGED <<monitoring, req, rows, madeThen, nowThen, thereThen, todo, wasRunning, inDowntime, sent>>

CallStep(c) ==
    \/ Look(c)
    \/ List(c)
    \/ Send(c)
    \/ CancelNext(c)
    \/ RequestFails(c)
    \/ ReadPage(c)
    \/ CheckList(c)

(* Every call was made: the model stops, the server does not.              *)
AllReturned ==
    /\ \A c \in Calls : pc[c] = "returned"
    /\ UNCHANGED vars

Next ==
    \/ Tick
    \/ RunSchedule
    \/ RunCancel
    \/ \E o \in Objects : RefreshPage(o)
    \/ \E o \in Objects, start \in Starts : OtherSchedules(o, start)
    \/ \E c \in Calls : CallStep(c)
    \/ AllReturned

Spec == Init /\ [][Next]_vars

-----------------------------------------------------------------------------
(* A cancel that found rows, none of which has the id to cancel it by.     *)
NothingToSend(c) == req[c].op = "cancel" /\ rows[c] # {} /\ Cancellable(rows[c]) = {}

(* The outcome field means the same here as for the other command tools,   *)
(* with one exception: a cancel that finds rows, none of which has an id,  *)
(* returns done or sent_not_visible_yet although it has sent nothing       *)
(* ("sent_not_visible_yet: the engine has the command",                    *)
(* tools/support/commands.py).  It counts as one that sent.                *)
Contract == INSTANCE CommandContract WITH
    sent <- {c \in Calls : sent[c] # {} \/ NothingToSend(c)}
KeepsContract == Contract!Spec

Done(c) == outcome[c] = "done"

(* What the first read did not show: a downtime that starts outside the    *)
(* window of that minute, or after all the rows of a full page.            *)
Unlisted(c, d) ==
    /\ d \notin rows[c]
    /\ \/ ~Window(d, nowThen[c])
       \/ Cardinality(rows[c]) = DOWNTIMES_READ /\ \A e \in rows[c] : e.start <= d.start

(* schedule_downtime reads the list "to tell a new one from those already  *)
(* there": a row it takes for its own was made after that first read, or   *)
(* was there and out of that read's window or page.                        *)
AddedIsNew == \A c \in Calls : \A d \in evidence[c] : d.id > madeThen[c] \/ Unlisted(c, d)

(* A cancel commands downtimes of the objects its name filter matches, and *)
(* none that was made after it looked, whatever moves into its page.       *)
CancelsOnlyMatching ==
    \A c \in Calls : \A cmd \in sent[c] : cmd.op = "cancel" =>
        cmd.downtime.on \in Matching[req[c].on] /\ cmd.downtime.id <= madeThen[c]

(* cancel_downtime cancels the downtimes "on that object", no others.      *)
CancelsOnlyItsObject ==
    \A c \in Calls : \A cmd \in sent[c] : cmd.op = "cancel" => cmd.downtime.on = req[c].on

(* It cancels "every downtime on that object": when it returns done or     *)
(* sent_not_visible_yet, a command went out for each one there was, but    *)
(* those out of the first read's window or page, and those without an id.  *)
CancelsEvery ==
    \A c \in Calls : (req[c].op = "cancel" /\ outcome[c] \in {"done", "sent_not_visible_yet"}) =>
        \A d \in thereThen[c] :
            (\E cmd \in sent[c] : cmd.downtime = d) \/ ~d.numbered \/ Unlisted(c, d)
=============================================================================
