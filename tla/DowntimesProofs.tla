--------------------------- MODULE DowntimesProofs ---------------------------
(***************************************************************************)
(* Downtimes proved for any number of calls, objects and downtimes, any    *)
(* page and any window: its types, the contract of the outcome, that a row *)
(* taken for the call's own is new unless the first read could not show    *)
(* it, that a cancel sends a command for every downtime of its object that *)
(* it was shown and can name, and for none its filter does not match.      *)
(***************************************************************************)
EXTENDS Downtimes, FiniteSetTheorems, TLAPS

(* The rows a query for o has to return, if one page holds them.           *)
Current(o) == {d \in listed : d.on \in Matching[o] /\ ~Over(d) /\ Window(d, now)}

(* Downtimes are numbered in the order they are made.                      *)
Numbered ==
    /\ IsFiniteSet(listed)
    /\ \A d \in listed : d.id <= made
    /\ \A c \in Calls : madeThen[c] <= made

(* How far a call is, and what it has read and sent by then.               *)
CallInv(c) ==
    /\ pc[c] \in {"idle", "listing"} => rows[c] = {} /\ todo[c] = {} /\ evidence[c] = {}
    /\ pc[c] \in {"idle", "listing", "sending"} => sent[c] = {}
    /\ pc[c] \in {"reading", "checking"} => sent[c] # {} \/ NothingToSend(c)
    /\ pc[c] = "cancelling" => req[c].op = "cancel"
    /\ pc[c] = "sending" => req[c].op = "schedule"
    /\ outcome[c] = "open" <=> pc[c] # "returned"

(* What a call cancels are rows of its first read, of objects its query    *)
(* matches.                                                                *)
RowsInv(c) ==
    /\ \A d \in rows[c] : d.on \in Matching[req[c].on] /\ d.id <= madeThen[c]
    /\ todo[c] \subseteq rows[c]
    /\ \A cmd \in sent[c] : cmd.op = "cancel" => cmd.downtime \in rows[c]

(* A cancel's rows are those it still has to cancel, those it has, and     *)
(* those without an id.                                                    *)
CancelInv(c) ==
    req[c].op = "cancel" =>
        /\ \A d \in rows[c] : ~d.numbered \/ d \in todo[c] \/ \E cmd \in sent[c] : cmd.downtime = d
        /\ pc[c] \in {"reading", "checking"} \/ outcome[c] \in {"done", "sent_not_visible_yet"} => todo[c] = {}

(* The inductive invariant.                                                *)
IInv ==
    /\ TypeOK
    /\ Numbered
    /\ \A c \in Calls : CallInv(c) /\ RowsInv(c) /\ CancelInv(c)

(* The call has read every row that was there but those the page or the    *)
(* window kept from it, so whatever else it did not read is of later.      *)
ReadInv(c) ==
    /\ pc[c] \in {"idle", "listing"} => thereThen[c] = {}
    /\ \A d \in thereThen[c] : d \in rows[c] \/ Unlisted(c, d)
    /\ pc[c] \notin {"idle", "listing", "returned"} =>
          \A d \in listed : (d.on \in Matching[req[c].on] /\ ~Over(d) /\ d.id <= madeThen[c]) =>
                               d \in rows[c] \/ Unlisted(c, d)
    /\ \A d \in evidence[c] : d.id > madeThen[c] \/ Unlisted(c, d)

-----------------------------------------------------------------------------
(* What a query returns: rows it has to return, and what it leaves out     *)
(* starts after a full page.                                               *)
LEMMA ReadsCurrent ==
    ASSUME NEW o \in Objects, NEW S \in Reads(o)
    PROVE  S \subseteq Current(o) /\ S \subseteq listed
BY DEF Reads, FirstBy, Current

(* A row that a query leaves out comes after all those of a full page.     *)
LEMMA ReadsRest ==
    ASSUME IsFiniteSet(listed), NEW o \in Objects, NEW S \in Reads(o), NEW d \in Current(o), d \notin S
    PROVE  Cardinality(S) = DOWNTIMES_READ /\ \A e \in S : e.start <= d.start
<1>1. IsFiniteSet(Current(o)) /\ Current(o) \subseteq listed
  BY FS_Subset DEF Current
<1>2. S \in SUBSET Current(o) /\ \A e \in S : e.start <= d.start
  BY DEF Reads, FirstBy, Current
<1>3. CASE Cardinality(Current(o)) <= DOWNTIMES_READ
  <2>1. Cardinality(S) = Cardinality(Current(o))
    BY <1>3 DEF Reads, FirstBy, Current
  <2> QED
    BY <1>1, <1>2, <2>1, FS_Subset
<1>4. CASE ~(Cardinality(Current(o)) <= DOWNTIMES_READ)
  <2>1. Cardinality(S) = DOWNTIMES_READ
    BY <1>4 DEF Reads, FirstBy, Current
  <2> QED
    BY <1>2, <2>1
<1> QED
  BY <1>3, <1>4

-----------------------------------------------------------------------------
(* Types.                                                                  *)
LEMMA TypeInit == Init => TypeOK
<1>1. NoRequest \in Request
  BY ObjectsAssumption DEF NoRequest, Request, Ops
<1> QED
  BY <1>1, LimitsAssumption DEF Init, TypeOK, Steps, Outcomes

(* The commands of a call are commands.                                    *)
LEMMA CommandTypes ==
    ASSUME TypeOK, NEW c \in Calls
    PROVE  /\ ScheduleCommand(c) \in Schedule
           /\ \A d \in Downtime : CancelCommand(c, d) \in Cancel
BY PartsAssumption DEF TypeOK, Request, ScheduleCommand, CancelCommand, Schedule, Cancel

(* Queuing a command changes the queue and what the call has sent.         *)
LEMMA QueueType ==
    ASSUME TypeOK, NEW c \in Calls, NEW cmd \in Schedule \cup Cancel, Queue(c, cmd)
    PROVE  /\ queue' \in Seq(Schedule \cup Cancel)
           /\ sent' \in [Calls -> SUBSET (Schedule \cup Cancel)]
           /\ sent' = [sent EXCEPT ![c] = @ \cup {cmd}]
           /\ UNCHANGED <<now, listed, made, page>>
BY DEF Queue, TypeOK

(* Where a call goes on, and what it returns, keep their types.            *)
LEMMA StepType ==
    ASSUME TypeOK, NEW c \in Calls,
           \/ \E step \in Steps : Proceed(c, step)
           \/ \E o \in Outcomes : Finish(c, o)
    PROVE  pc' \in [Calls -> Steps] /\ outcome' \in [Calls -> Outcomes]
<1>1. "returned" \in Steps
  BY DEF Steps
<1> QED
  BY <1>1 DEF Finish, Proceed, TypeOK

(* Every step keeps the types: one case per action.                        *)
LEMMA TypeNext == TypeOK /\ [Next]_vars => TypeOK'
<1> SUFFICES ASSUME TypeOK, [Next]_vars PROVE TypeOK'
  OBVIOUS
<1>1. CASE UNCHANGED vars
  BY <1>1 DEF TypeOK, vars, monitoring, call
<1>2. CASE Tick
  BY <1>2 DEF Tick, TypeOK, call
<1>3. ASSUME NEW o \in Objects, RefreshPage(o) PROVE TypeOK'
  BY <1>3 DEF RefreshPage, InDowntime, TypeOK, call
<1>4. ASSUME NEW o \in Objects, NEW start \in Starts, OtherSchedules(o, start) PROVE TypeOK'
  <2>1. \A numbered \in BOOLEAN :
           [id |-> made + 1, numbered |-> numbered, on |-> o, start |-> start,
            end |-> start + Length, by |-> Other] \in Downtime
    BY LimitsAssumption DEF TypeOK, Downtime, Starts
  <2> QED
    BY <1>4, <2>1 DEF OtherSchedules, TypeOK, call
<1>5. CASE RunSchedule
  <2>1. Head(queue) \in Schedule /\ Tail(queue) \in Seq(Schedule \cup Cancel)
    BY <1>5 DEF RunSchedule, TypeOK, Schedule, Cancel
  <2>2. IsFiniteSet(Head(queue).on) /\ Cardinality(Head(queue).on) \in Nat
    BY <2>1, ObjectsAssumption, FS_Subset, FS_CardinalityType DEF Schedule
  <2>3. made' = made + Cardinality(Head(queue).on) /\ made' \in Nat
    BY <1>5, <2>2 DEF RunSchedule, TypeOK
  <2>4. PICK new \in [Head(queue).on -> (made + 1)..(made + Cardinality(Head(queue).on))], numbered \in BOOLEAN :
           listed' = listed \cup
              {[id |-> new[o], numbered |-> numbered, on |-> o, start |-> Head(queue).start,
                end |-> Head(queue).start + Length, by |-> Head(queue).by] : o \in Head(queue).on}
    BY <1>5 DEF RunSchedule
  <2>5. ASSUME NEW o \in Head(queue).on
        PROVE  [id |-> new[o], numbered |-> numbered, on |-> o, start |-> Head(queue).start,
                end |-> Head(queue).start + Length, by |-> Head(queue).by] \in Downtime
    <3>1. new[o] \in Nat
      BY <2>2, <2>4 DEF TypeOK
    <3> QED
      BY <2>1, <3>1, LimitsAssumption DEF Schedule, Downtime
  <2> QED
    BY <1>5, <2>1, <2>3, <2>4, <2>5 DEF RunSchedule, TypeOK, call
<1>6. CASE RunCancel
  <2>1. Tail(queue) \in Seq(Schedule \cup Cancel) /\ listed' \subseteq listed
    BY <1>6 DEF RunCancel, TypeOK
  <2> QED
    BY <1>6, <2>1 DEF RunCancel, TypeOK, call
<1>7. ASSUME NEW c \in Calls, Look(c) PROVE TypeOK'
  <2>1. req' \in [Calls -> Request]
    <3>1. PICK op \in Ops, o \in Objects, all \in BOOLEAN :
           \E start \in IF op = "schedule" THEN Starts ELSE {now} :
             req' = [req EXCEPT ![c] = [op |-> op, on |-> o, all |-> all,
                                        start |-> start, startsNow |-> (start <= now)]]
      BY <1>7 DEF Look
    <3>2. Starts \subseteq Nat /\ now \in Nat
      BY LimitsAssumption DEF TypeOK, Starts
    <3> QED
      BY <3>1, <3>2 DEF TypeOK, Request
  <2>2. pc' \in [Calls -> Steps] /\ outcome' \in [Calls -> Outcomes]
    BY <1>7, StepType DEF Look, Steps, Outcomes
  <2> QED
    BY <1>7, <2>1, <2>2 DEF Look, TypeOK, monitoring
<1>8. ASSUME NEW c \in Calls, List(c) PROVE TypeOK'
  <2>1. PICK S \in Reads(req[c].on) :
          /\ rows' = [rows EXCEPT ![c] = S]
          /\ wasRunning' = [wasRunning EXCEPT ![c] = \E d \in S : Running(d)]
          /\ todo' = [todo EXCEPT ![c] = IF req[c].op = "cancel" THEN Cancellable(S) ELSE {}]
    BY <1>8 DEF List
  <2>2. S \in SUBSET Downtime
    BY <2>1, ReadsCurrent DEF TypeOK, Request
  <2>3. /\ rows' \in [Calls -> SUBSET Downtime] /\ todo' \in [Calls -> SUBSET Downtime]
        /\ wasRunning' \in [Calls -> BOOLEAN]
    BY <2>1, <2>2 DEF TypeOK, Cancellable
  <2>4. pc' \in [Calls -> Steps] /\ outcome' \in [Calls -> Outcomes]
    BY <1>8, StepType DEF List, Steps, Outcomes
  <2> QED
    BY <1>8, <2>3, <2>4 DEF List, TypeOK, monitoring
<1>9. ASSUME NEW c \in Calls, Send(c) PROVE TypeOK'
  BY <1>9, CommandTypes, QueueType, StepType DEF Send, TypeOK, Steps
<1>10. ASSUME NEW c \in Calls, CancelNext(c) PROVE TypeOK'
  <2>1. PICK d \in todo[c] : Queue(c, CancelCommand(c, d)) /\ todo' = [todo EXCEPT ![c] = @ \ {d}]
    BY <1>10 DEF CancelNext
  <2>2. CancelCommand(c, d) \in Cancel
    BY <2>1, CommandTypes DEF TypeOK
  <2>3. pc' \in [Calls -> Steps] /\ outcome' \in [Calls -> Outcomes]
    BY <1>10, StepType DEF CancelNext, Steps
  <2> QED
    BY <1>10, <2>1, <2>2, <2>3, QueueType DEF CancelNext, TypeOK
<1>11. ASSUME NEW c \in Calls, RequestFails(c) PROVE TypeOK'
  <2>1. /\ queue' \in Seq(Schedule \cup Cancel) /\ sent' \in [Calls -> SUBSET (Schedule \cup Cancel)]
        /\ UNCHANGED <<now, listed, made, page>>
    <3>1. CASE UNCHANGED <<monitoring, sent>>
      BY <3>1 DEF TypeOK, monitoring
    <3>2. CASE Queue(c, ScheduleCommand(c))
      BY <3>2, CommandTypes, QueueType
    <3>3. ASSUME NEW d \in todo[c], Queue(c, CancelCommand(c, d))
          PROVE  /\ queue' \in Seq(Schedule \cup Cancel) /\ sent' \in [Calls -> SUBSET (Schedule \cup Cancel)]
                 /\ UNCHANGED <<now, listed, made, page>>
      <4>1. CancelCommand(c, d) \in Cancel
        BY CommandTypes DEF TypeOK
      <4> QED
        BY <3>3, <4>1, QueueType
    <3> QED
      BY <1>11, <3>1, <3>2, <3>3 DEF RequestFails
  <2>2. pc' \in [Calls -> Steps] /\ outcome' \in [Calls -> Outcomes]
    BY <1>11, StepType DEF RequestFails, Outcomes
  <2> QED
    BY <1>11, <2>1, <2>2 DEF RequestFails, TypeOK
<1>12. ASSUME NEW c \in Calls, ReadPage(c) PROVE TypeOK'
  <2>1. page[req[c].on] \in BOOLEAN
    BY DEF TypeOK, Request
  <2> QED
    BY <1>12, <2>1, StepType DEF ReadPage, TypeOK, Steps, monitoring
<1>13. ASSUME NEW c \in Calls, CheckList(c) PROVE TypeOK'
  <2>1. PICK S \in Reads(req[c].on) :
           \/ evidence' = [evidence EXCEPT ![c] = Added(c, S)] /\ UNCHANGED polls
           \/ TimeLeft(c) /\ polls' = [polls EXCEPT ![c] = @ + 1] /\ UNCHANGED evidence
           \/ UNCHANGED <<polls, evidence>>
    BY <1>13 DEF CheckList
  <2>2. Added(c, S) \in SUBSET Downtime
    BY <2>1, ReadsCurrent DEF TypeOK, Request, Added
  <2>3. evidence' \in [Calls -> SUBSET Downtime]
    BY <2>1, <2>2 DEF TypeOK
  <2>4. polls' \in [Calls -> 0..MaxPolls]
    <3>1. polls[c] \in 0..MaxPolls /\ (TimeLeft(c) => polls[c] + 1 \in 0..MaxPolls)
      BY LimitsAssumption DEF TimeLeft, TypeOK
    <3> QED
      BY <2>1, <3>1 DEF TypeOK
  <2>5. pc' \in [Calls -> Steps] /\ outcome' \in [Calls -> Outcomes]
    BY <1>13, StepType DEF CheckList, Steps, Outcomes
  <2> QED
    BY <1>13, <2>3, <2>4, <2>5 DEF CheckList, TypeOK, monitoring
<1>14. CASE AllReturned
  BY <1>1, <1>14 DEF AllReturned
<1> QED
  BY <1>1, <1>2, <1>3, <1>4, <1>5, <1>6, <1>7, <1>8, <1>9, <1>10, <1>11, <1>12, <1>13, <1>14
  DEF Next, CallStep
-----------------------------------------------------------------------------
(* New downtimes get new numbers: what a step adds to the list.            *)
LEMMA NumberedNext ==
    ASSUME TypeOK, Numbered, [Next]_vars
    PROVE  /\ Numbered'
           /\ made <= made' /\ now <= now'
           /\ \A d \in listed' \ listed : d.id > made
<1>1. CASE UNCHANGED <<listed, made, madeThen, now>>
  BY <1>1 DEF Numbered, TypeOK
<1>2. CASE Tick
  BY <1>2 DEF Tick, Numbered, TypeOK, call
<1>3. ASSUME NEW o \in Objects, NEW start \in Starts, OtherSchedules(o, start)
      PROVE  Numbered' /\ made <= made' /\ now <= now' /\ \A d \in listed' \ listed : d.id > made
  <2>1. PICK d : /\ d.id = made + 1 /\ listed' = listed \cup {d} /\ made' = made + 1
                 /\ made \in Nat /\ UNCHANGED <<now, madeThen>>
    <3>1. PICK numbered \in BOOLEAN :
             listed' = listed \cup {[id |-> made + 1, numbered |-> numbered, on |-> o,
                                     start |-> start, end |-> start + Length, by |-> Other]}
      BY <1>3 DEF OtherSchedules
    <3> QED
      BY <1>3, <3>1 DEF OtherSchedules, call, TypeOK
  <2>2. IsFiniteSet(listed')
    BY <2>1, FS_AddElement DEF Numbered
  <2>3. \A e \in listed : e.id \in Nat
    BY DEF TypeOK, Downtime
  <2> QED
    BY <2>1, <2>2, <2>3 DEF Numbered, TypeOK
<1>4. CASE RunSchedule
  <2> DEFINE on == Head(queue).on
  <2>1. on \in SUBSET Objects
    <3>1. Head(queue) \in Schedule
      BY <1>4 DEF RunSchedule, TypeOK, Schedule, Cancel
    <3> QED
      BY <3>1 DEF Schedule
  <2>2. IsFiniteSet(on) /\ Cardinality(on) \in Nat
    BY <2>1, ObjectsAssumption, FS_Subset, FS_CardinalityType
  <2>3. made' = made + Cardinality(on) /\ made \in Nat /\ UNCHANGED <<now, madeThen>>
    BY <1>4 DEF RunSchedule, call, TypeOK
  <2>4. PICK new \in [on -> (made + 1)..(made + Cardinality(on))], numbered \in BOOLEAN :
           listed' = listed \cup
              {[id |-> new[o], numbered |-> numbered, on |-> o, start |-> Head(queue).start,
                end |-> Head(queue).start + Length, by |-> Head(queue).by] : o \in on}
    BY <1>4 DEF RunSchedule
  <2> DEFINE row(o) == [id |-> new[o], numbered |-> numbered, on |-> o, start |-> Head(queue).start,
                        end |-> Head(queue).start + Length, by |-> Head(queue).by]
             added == {row(o) : o \in on}
  <2>5. listed' = listed \cup added
    BY <2>4
  <2>6. IsFiniteSet(added)
    <3> DEFINE f == [o \in on |-> row(o)]
    <3> HIDE DEF row, on
    <3>1. f \in Surjection(on, added)
      BY DEF Surjection
    <3> QED
      BY <2>2, <3>1, FS_Surjection
  <2>7. IsFiniteSet(listed')
    <3> HIDE DEF added
    <3> QED
      BY <2>5, <2>6, FS_Union DEF Numbered
  <2>8. \A d \in added : d.id \in (made + 1)..(made + Cardinality(on))
    BY <2>4
  <2>9. \A d \in listed : d.id \in Nat /\ d.id <= made
    BY DEF TypeOK, Downtime, Numbered
  <2>10. \A c \in Calls : madeThen[c] \in Nat
    BY DEF TypeOK
  <2> HIDE DEF added, on
  <2> QED
    BY <2>2, <2>3, <2>5, <2>7, <2>8, <2>9, <2>10 DEF Numbered, TypeOK
<1>5. CASE RunCancel
  <2>1. listed' \subseteq listed /\ UNCHANGED <<now, made, madeThen>>
    BY <1>5 DEF RunCancel, call
  <2> QED
    BY <2>1, FS_Subset DEF Numbered, TypeOK
<1>6. ASSUME NEW c \in Calls, List(c) PROVE Numbered'
  BY <1>6 DEF List, Numbered, TypeOK, monitoring
<1>7. ASSUME NEW c \in Calls, CallStep(c) PROVE UNCHANGED <<listed, made, now>> /\ (List(c) \/ UNCHANGED madeThen)
  BY <1>7 DEF CallStep, Look, List, Send, CancelNext, RequestFails, ReadPage, CheckList, Queue, monitoring
<1>8. \/ UNCHANGED <<listed, made, madeThen, now>> \/ Tick \/ RunSchedule \/ RunCancel
      \/ \E o \in Objects, start \in Starts : OtherSchedules(o, start)
      \/ \E c \in Calls : List(c) /\ UNCHANGED <<listed, made, now>>
  BY <1>7 DEF Next, RefreshPage, AllReturned, vars, monitoring, call
<1> QED
  BY <1>1, <1>2, <1>3, <1>4, <1>5, <1>6, <1>8 DEF TypeOK
-----------------------------------------------------------------------------
(* What a call's step leaves of the other calls.                           *)
LEMMA OthersKept ==
    ASSUME TypeOK, NEW c \in Calls, CallStep(c), NEW d \in Calls, d # c
    PROVE  /\ pc'[d] = pc[d] /\ outcome'[d] = outcome[d] /\ req'[d] = req[d] /\ rows'[d] = rows[d]
           /\ todo'[d] = todo[d] /\ sent'[d] = sent[d] /\ evidence'[d] = evidence[d]
           /\ madeThen'[d] = madeThen[d] /\ nowThen'[d] = nowThen[d] /\ thereThen'[d] = thereThen[d]
BY DEF CallStep, Look, List, Send, CancelNext, RequestFails, ReadPage, CheckList, Queue, Finish, Proceed,
   TypeOK, monitoring

(* A step of the call itself keeps its invariant: one case per action.     *)
LEMMA CallNext ==
    ASSUME TypeOK, Numbered, NEW c \in Calls, CallInv(c), RowsInv(c), CancelInv(c), CallStep(c)
    PROVE  CallInv(c)' /\ RowsInv(c)' /\ CancelInv(c)'
<1>1. CASE Look(c)
  <2>1. rows[c] = {} /\ todo[c] = {} /\ evidence[c] = {} /\ sent[c] = {} /\ outcome[c] = "open"
    BY <1>1 DEF Look, CallInv
  <2>2. UNCHANGED <<rows, todo, evidence, sent>>
    BY <1>1 DEF Look
  <2>3. \/ pc'[c] = "listing" /\ outcome'[c] = "open"
        \/ pc'[c] = "returned" /\ outcome'[c] = "not_sent"
    BY <1>1, <2>1 DEF Look, Finish, Proceed, TypeOK
  <2> QED
    BY <2>1, <2>2, <2>3 DEF CallInv, NothingToSend, RowsInv, CancelInv
<1>2. CASE List(c)
  <2>1. PICK S \in Reads(req[c].on) :
          /\ rows' = [rows EXCEPT ![c] = S]
          /\ todo' = [todo EXCEPT ![c] = IF req[c].op = "cancel" THEN Cancellable(S) ELSE {}]
          /\ \/ req[c].op = "schedule" /\ Proceed(c, "sending")
             \/ req[c].op = "cancel" /\ Cancellable(S) # {} /\ Proceed(c, "cancelling")
             \/ req[c].op = "cancel" /\ S # {} /\ Cancellable(S) = {} /\ Proceed(c, "reading")
             \/ req[c].op = "cancel" /\ S = {} /\ Finish(c, "not_sent")
    BY <1>2 DEF List
  <2>2. \A d \in S : d.on \in Matching[req[c].on] /\ d.id <= made
    BY <2>1, ReadsCurrent DEF Current, TypeOK, Request, Numbered
  <2>3. /\ rows'[c] = S /\ todo'[c] \subseteq S
        /\ req[c].op = "cancel" => todo'[c] = Cancellable(S)
    BY <2>1 DEF TypeOK, Cancellable
  <2>4. /\ sent[c] = {} /\ outcome[c] = "open" /\ UNCHANGED <<req, sent, evidence>>
        /\ madeThen'[c] = made
    BY <1>2 DEF List, CallInv, TypeOK
  <2>5. \/ req[c].op = "schedule" /\ pc'[c] = "sending" /\ outcome'[c] = "open"
        \/ req[c].op = "cancel" /\ pc'[c] = "cancelling" /\ outcome'[c] = "open"
        \/ req[c].op = "cancel" /\ pc'[c] = "reading" /\ outcome'[c] = "open" /\ S # {} /\ Cancellable(S) = {}
        \/ pc'[c] = "returned" /\ outcome'[c] = "not_sent"
    BY <2>1, <2>4 DEF Finish, Proceed, TypeOK
  <2>6. CallInv(c)'
    BY <2>3, <2>4, <2>5 DEF CallInv, NothingToSend
  <2>7. RowsInv(c)'
    BY <2>2, <2>3, <2>4 DEF RowsInv
  <2>8. CancelInv(c)'
    BY <2>3, <2>4, <2>5 DEF CancelInv, Cancellable
  <2> QED
    BY <2>6, <2>7, <2>8
<1>3. CASE Send(c)
  <2>1. sent'[c] = sent[c] \cup {ScheduleCommand(c)} /\ ScheduleCommand(c).op = "schedule"
    BY <1>3 DEF Send, Queue, ScheduleCommand, TypeOK
  <2>2. /\ pc[c] = "sending" /\ pc'[c] = "reading" /\ outcome' = outcome
        /\ UNCHANGED <<req, rows, madeThen, todo, evidence>>
    BY <1>3 DEF Send, Proceed, TypeOK
  <2>3. req[c].op # "cancel"
    BY <2>2 DEF CallInv
  <2> QED
    BY <2>1, <2>2, <2>3 DEF CallInv, NothingToSend, RowsInv, CancelInv
<1>4. CASE CancelNext(c)
  <2>1. PICK d \in todo[c] :
          /\ Queue(c, CancelCommand(c, d))
          /\ todo' = [todo EXCEPT ![c] = @ \ {d}]
          /\ IF todo[c] = {d} THEN Proceed(c, "reading") ELSE Proceed(c, "cancelling")
    BY <1>4 DEF CancelNext
  <2>2. sent'[c] = sent[c] \cup {CancelCommand(c, d)} /\ CancelCommand(c, d).downtime = d
    BY <2>1 DEF Queue, CancelCommand, TypeOK
  <2>3. todo'[c] = todo[c] \ {d} /\ d \in rows[c]
    BY <2>1 DEF RowsInv, TypeOK
  <2>4. pc[c] = "cancelling" /\ outcome' = outcome /\ UNCHANGED <<req, rows, madeThen, evidence>>
    BY <1>4, <2>1 DEF CancelNext, Proceed
  <2>5. \/ pc'[c] = "reading" /\ todo'[c] = {}
        \/ pc'[c] = "cancelling"
    BY <2>1, <2>3 DEF Proceed, TypeOK
  <2>6. outcome[c] = "open" /\ req[c].op = "cancel"
    BY <2>4 DEF CallInv
  <2>7. CallInv(c)'
    BY <2>2, <2>4, <2>5, <2>6 DEF CallInv, NothingToSend
  <2>8. RowsInv(c)'
    BY <2>2, <2>3, <2>4 DEF RowsInv
  <2>9. CancelInv(c)'
    BY <2>2, <2>3, <2>4, <2>5, <2>6 DEF CancelInv
  <2> QED
    BY <2>7, <2>8, <2>9
<1>5. CASE RequestFails(c)
  <2>1. /\ pc'[c] = "returned" /\ outcome'[c] = "raised" /\ sent[c] \subseteq sent'[c]
        /\ UNCHANGED <<req, rows, madeThen, todo, evidence>>
    BY <1>5 DEF RequestFails, Finish, Queue, TypeOK
  <2>2. \A cmd \in sent'[c] : cmd \in sent[c] \/ cmd.op = "schedule" \/ cmd.downtime \in todo[c]
    <3>1. ScheduleCommand(c).op = "schedule" /\ \A d : CancelCommand(c, d).downtime = d
      BY DEF ScheduleCommand, CancelCommand
    <3>2. ASSUME NEW new, Queue(c, new) PROVE sent'[c] = sent[c] \cup {new}
      BY <3>2 DEF Queue, TypeOK
    <3> QED
      BY <1>5, <3>1, <3>2 DEF RequestFails
  <2>3. CallInv(c)' /\ RowsInv(c)'
    BY <2>1, <2>2 DEF CallInv, NothingToSend, RowsInv
  <2>4. CancelInv(c)'
    BY <2>1 DEF CancelInv
  <2> QED
    BY <2>3, <2>4
<1>6. CASE ReadPage(c)
  BY <1>6 DEF ReadPage, Proceed, CallInv, NothingToSend, RowsInv, CancelInv, TypeOK
<1>7. CASE CheckList(c)
  <2>1. /\ pc[c] = "checking" /\ UNCHANGED <<req, rows, madeThen, todo, sent>>
        /\ \/ pc'[c] = "returned" /\ outcome'[c] \in {"done", "sent_not_visible_yet"}
           \/ pc'[c] = "reading" /\ outcome'[c] = outcome[c]
    BY <1>7 DEF CheckList, Finish, Proceed, TypeOK
  <2> QED
    BY <2>1 DEF CallInv, NothingToSend, RowsInv, CancelInv
<1> QED
  BY <1>1, <1>2, <1>3, <1>4, <1>5, <1>6, <1>7 DEF CallStep

-----------------------------------------------------------------------------
(* The inductive invariant holds at the start ...                          *)
LEMMA InvariantInit == Init => IInv
<1> SUFFICES ASSUME Init PROVE IInv
  OBVIOUS
<1>1. Numbered
  BY FS_EmptySet DEF Init, Numbered
<1>2. \A c \in Calls : CallInv(c) /\ RowsInv(c) /\ CancelInv(c)
  BY DEF Init, CallInv, RowsInv, CancelInv
<1> QED
  BY <1>1, <1>2, TypeInit DEF IInv

(* ... and every step keeps it.                                            *)
LEMMA InvariantNext == IInv /\ [Next]_vars => IInv'
<1> SUFFICES ASSUME IInv, [Next]_vars PROVE IInv'
  OBVIOUS
<1>1. TypeOK' /\ Numbered'
  BY TypeNext, NumberedNext DEF IInv
<1>2. \A c \in Calls : CallInv(c)' /\ RowsInv(c)' /\ CancelInv(c)'
  <2> SUFFICES ASSUME NEW c \in Calls PROVE CallInv(c)' /\ RowsInv(c)' /\ CancelInv(c)'
    OBVIOUS
  <2>1. CASE CallStep(c)
    BY <2>1, CallNext DEF IInv
  <2>2. CASE UNCHANGED <<pc[c], outcome[c], req[c], rows[c], madeThen[c], todo[c], sent[c], evidence[c]>>
    BY <2>2 DEF IInv, CallInv, NothingToSend, RowsInv, CancelInv
  <2>3. ASSUME NEW d \in Calls, CallStep(d), d # c PROVE CallInv(c)' /\ RowsInv(c)' /\ CancelInv(c)'
    BY <2>2, <2>3, OthersKept DEF IInv
  <2>4. CASE UNCHANGED call
    BY <2>2, <2>4 DEF call
  <2> QED
    BY <2>1, <2>3, <2>4 DEF Next, Tick, RunSchedule, RunCancel, RefreshPage, OtherSchedules, AllReturned, vars
<1> QED
  BY <1>1, <1>2 DEF IInv

(* The strengthening holds always; the properties below follow from it.    *)
THEOREM Invariance == Spec => []IInv
<1> QED
  BY InvariantInit, InvariantNext, PTL DEF Spec

(* Every variable keeps its type, for any number of calls and objects.     *)
THEOREM TypeCorrect == Spec => []TypeOK
<1>1. IInv => TypeOK
  BY DEF IInv
<1> QED
  BY <1>1, Invariance, PTL

(* A cancel sends commands for downtimes of the objects its filter matches *)
(* only, and for none made after it looked, however many there are and     *)
(* whoever set them.                                                       *)
THEOREM OnlyMatching == Spec => []CancelsOnlyMatching
<1>1. IInv => CancelsOnlyMatching
  BY DEF IInv, RowsInv, CancelsOnlyMatching
<1> QED
  BY <1>1, Invariance, PTL
-----------------------------------------------------------------------------
(* What a call was shown of what there was.                                *)

(* An own step of the call: it reads the rows there are, but those it is   *)
(* not shown, and what it later finds besides is of after that read.       *)
LEMMA ReadNext ==
    ASSUME IInv, NEW c \in Calls, ReadInv(c), CallStep(c)
    PROVE  ReadInv(c)'
<1>1. listed' = listed /\ now' = now
  BY DEF CallStep, Look, List, Send, CancelNext, RequestFails, ReadPage, CheckList, Queue, monitoring
<1>2. TypeOK /\ CallInv(c) /\ RowsInv(c)
  BY DEF IInv
<1>3. CASE Look(c)
  <2>1. /\ pc[c] = "idle" /\ pc'[c] \in {"listing", "returned"}
        /\ UNCHANGED <<rows, madeThen, nowThen, thereThen, evidence>>
    BY <1>2, <1>3 DEF Look, Finish, Proceed, TypeOK
  <2> QED
    BY <2>1 DEF ReadInv, Unlisted
<1>4. CASE List(c)
  <2>1. PICK S \in Reads(req[c].on) : rows' = [rows EXCEPT ![c] = S]
    BY <1>4 DEF List
  <2>2. req[c].on \in Objects /\ IsFiniteSet(listed)
    BY <1>2 DEF TypeOK, Request, IInv, Numbered
  <2>3. rows'[c] = S /\ nowThen'[c] = now
    BY <1>2, <1>4, <2>1 DEF List, TypeOK
  <2>4. ASSUME NEW d \in listed, d.on \in Matching[req[c].on], ~Over(d) PROVE d \in S \/ Unlisted(c, d)'
    <3>1. CASE Window(d, now) /\ d \notin S
      <4>1. d \in Current(req[c].on)
        BY <2>4, <3>1 DEF Current
      <4>2. Cardinality(S) = DOWNTIMES_READ /\ \A e \in S : e.start <= d.start
        BY <2>1, <2>2, <3>1, <4>1, ReadsRest
      <4> QED
        BY <2>3, <3>1, <4>2 DEF Unlisted
    <3>2. CASE ~Window(d, now) /\ d \notin S
      BY <2>3, <3>2 DEF Unlisted, Window
    <3> QED
      BY <3>1, <3>2
  <2>5. thereThen'[c] = {d \in listed : d.on = req[c].on /\ ~Over(d)} /\ req[c].on \in Matching[req[c].on]
    BY <1>2, <1>4, <2>2, MatchingAssumption DEF List, TypeOK
  <2>6. \A d \in thereThen'[c] : d \in rows'[c] \/ Unlisted(c, d)'
    BY <2>3, <2>4, <2>5
  <2>7. evidence'[c] = {} /\ req' = req /\ pc'[c] \notin {"idle", "listing"}
    BY <1>2, <1>4 DEF List, CallInv, Finish, Proceed, TypeOK
  <2>8. \A d \in listed' : (d.on \in Matching[req'[c].on] /\ ~Over(d)') => d \in rows'[c] \/ Unlisted(c, d)'
    BY <1>1, <2>3, <2>4, <2>7 DEF Over
  <2> QED
    BY <2>6, <2>7, <2>8 DEF ReadInv
<1>5. CASE CheckList(c)
  <2>1. PICK S \in Reads(req[c].on) : evidence' = [evidence EXCEPT ![c] = Added(c, S)] \/ UNCHANGED evidence
    BY <1>5 DEF CheckList
  <2>2. S \subseteq Current(req[c].on) /\ S \subseteq listed
    BY <1>2, <2>1, ReadsCurrent DEF TypeOK, Request
  <2>3. \A d \in Added(c, S) : d.id > madeThen[c] \/ Unlisted(c, d)
    <3> SUFFICES ASSUME NEW d \in Added(c, S), ~Unlisted(c, d) PROVE d.id > madeThen[c]
      OBVIOUS
    <3>1. d \in S /\ d \notin rows[c]
      BY DEF Added
    <3>2. d.id \in Nat /\ madeThen[c] \in Nat
      BY <1>2, <2>2, <3>1 DEF TypeOK, Downtime
    <3>3. ~(d.id <= madeThen[c])
      BY <1>5, <2>2, <3>1 DEF CheckList, ReadInv, Current
    <3> QED
      BY <3>2, <3>3
  <2>4. /\ pc[c] = "checking" /\ pc'[c] \in {"reading", "returned"}
        /\ UNCHANGED <<req, rows, madeThen, nowThen, thereThen>>
    BY <1>2, <1>5 DEF CheckList, Finish, Proceed, TypeOK
  <2>5. \A d \in evidence'[c] : d.id > madeThen[c] \/ Unlisted(c, d)
    BY <1>2, <2>1, <2>3 DEF ReadInv, TypeOK
  <2> QED
    BY <1>1, <2>4, <2>5 DEF ReadInv, Over, Unlisted
<1>6. CASE Send(c) \/ CancelNext(c) \/ RequestFails(c) \/ ReadPage(c)
  <2>1. /\ UNCHANGED <<req, rows, madeThen, nowThen, thereThen, evidence>>
        /\ pc'[c] = "returned" \/ (pc[c] \notin {"idle", "listing", "returned"} /\ pc'[c] \notin {"idle", "listing"})
    BY <1>2, <1>6 DEF Send, CancelNext, RequestFails, ReadPage, Finish, Proceed, TypeOK
  <2>2. pc[c] \in {"idle", "listing"} => evidence[c] = {} /\ thereThen[c] = {}
    BY <1>2 DEF CallInv, ReadInv
  <2> QED
    BY <1>1, <2>1, <2>2 DEF ReadInv, Over, Unlisted
<1> QED
  BY <1>3, <1>4, <1>5, <1>6 DEF CallStep

(* Any other step: a row it adds is of later, and none comes back.         *)
LEMMA ReadKept ==
    ASSUME IInv, [Next]_vars, NEW c \in Calls, ReadInv(c),
           UNCHANGED <<pc[c], req[c], rows[c], madeThen[c], nowThen[c], thereThen[c], evidence[c]>>
    PROVE  ReadInv(c)'
<1>1. now \in Nat /\ now' \in Nat /\ now <= now' /\ \A d \in listed' \ listed : d.id > made
  BY NumberedNext, TypeNext DEF IInv, TypeOK
<1>2. madeThen[c] \in Nat /\ made \in Nat /\ madeThen[c] <= made
  BY DEF IInv, Numbered, TypeOK
<1>3. listed' \subseteq Downtime
  BY TypeNext DEF IInv, TypeOK
<1>4. \A d \in listed' : d.id <= madeThen[c] => d \in listed
  BY <1>1, <1>2, <1>3 DEF Downtime
<1>5. \A d \in listed' : Over(d) => Over(d)'
  BY <1>1, <1>3 DEF Over, Downtime
<1>6. \A d : Unlisted(c, d) => Unlisted(c, d)'
  BY DEF Unlisted
<1> QED
  BY <1>4, <1>5, <1>6 DEF ReadInv

(* Every step, of whomever, keeps it for every call ...                    *)
LEMMA AllReadNext == IInv /\ (\A c \in Calls : ReadInv(c)) /\ [Next]_vars => (\A c \in Calls : ReadInv(c))'
<1> SUFFICES ASSUME IInv, \A c \in Calls : ReadInv(c), [Next]_vars, NEW c \in Calls
             PROVE  ReadInv(c)'
  OBVIOUS
<1>1. CASE CallStep(c)
  BY <1>1, ReadNext
<1>2. CASE UNCHANGED <<pc[c], req[c], rows[c], madeThen[c], nowThen[c], thereThen[c], evidence[c]>>
  BY <1>2, ReadKept
<1>3. ASSUME NEW d \in Calls, CallStep(d), d # c PROVE ReadInv(c)'
  BY <1>2, <1>3, OthersKept DEF IInv
<1>4. CASE UNCHANGED call
  BY <1>2, <1>4 DEF call
<1> QED
  BY <1>1, <1>3, <1>4 DEF Next, Tick, RunSchedule, RunCancel, RefreshPage, OtherSchedules, AllReturned, vars

(* ... so it always holds.                                                 *)
LEMMA ReadAlways == Spec => [](\A c \in Calls : ReadInv(c))
<1>1. Init => \A c \in Calls : ReadInv(c)
  BY DEF Init, ReadInv
<1> QED
  BY <1>1, AllReadNext, Invariance, PTL DEF Spec

(* A row schedule_downtime takes for its own was made after it had read    *)
(* the rows there were, or it was one which the page or the window of that *)
(* read left out.                                                          *)
THEOREM AddedRowsAreNew == Spec => []AddedIsNew
<1>1. (\A c \in Calls : ReadInv(c)) => AddedIsNew
  BY DEF ReadInv, AddedIsNew
<1> QED
  BY <1>1, ReadAlways, PTL

(* A cancel that returns has sent a command for every downtime its object  *)
(* had when it read the list, but those the page or the window left out    *)
(* and those without an id.                                                *)
THEOREM EveryOneIsCancelled == Spec => []CancelsEvery
<1>1. IInv /\ (\A c \in Calls : ReadInv(c)) => CancelsEvery
  BY DEF IInv, ReadInv, CancelInv, CancelsEvery
<1> QED
  BY <1>1, Invariance, ReadAlways, PTL

-----------------------------------------------------------------------------
(* The contract.                                                           *)
Sent == {c \in Calls : sent[c] # {} \/ NothingToSend(c)}

(* Every step maps to a step of the contract or to a stutter.              *)
LEMMA ContractStep == IInv /\ [Next]_vars => [Contract!Next]_<<Sent, outcome>>
<1> SUFFICES ASSUME IInv, [Next]_vars PROVE [Contract!Next]_<<Sent, outcome>>
  OBVIOUS
<1>1. CASE UNCHANGED call
  BY <1>1 DEF call, Sent, NothingToSend
<1>2. ASSUME NEW c \in Calls, CallStep(c) PROVE [Contract!Next]_<<Sent, outcome>>
  <2>1. TypeOK /\ CallInv(c)
    BY DEF IInv
  <2>2. pc[c] # "returned" => Contract!Open(c)
    BY <2>1 DEF CallInv, Contract!Open
  <2>3. ASSUME UNCHANGED <<sent, req, rows>> PROVE Sent' = Sent
    BY <2>3 DEF Sent, NothingToSend
  <2>4. ASSUME NEW cmd, Queue(c, cmd), UNCHANGED <<req, rows>> PROVE Sent' = Sent \cup {c}
    <3>1. sent'[c] # {} /\ \A d \in Calls : d # c => sent'[d] = sent[d]
      BY <2>1, <2>4 DEF Queue, TypeOK
    <3>2. \A d \in Calls : NothingToSend(d)' <=> NothingToSend(d)
      BY <2>4 DEF NothingToSend
    <3>3. \A d \in Calls : d \in Sent' <=> d \in Sent \cup {c}
      BY <3>1, <3>2 DEF Sent
    <3> QED
      BY <3>3 DEF Sent
  <2>5. CASE Look(c)
    <3>1. pc[c] = "idle" /\ sent' = sent /\ rows' = rows /\ rows[c] = {} /\ sent[c] = {}
      BY <2>1, <2>5 DEF Look, CallInv
    <3>2. \A d \in Calls : d # c => req'[d] = req[d]
      BY <2>1, <2>5 DEF Look, TypeOK
    <3>3. c \notin Sent /\ Sent' = Sent
      BY <3>1, <3>2 DEF Sent, NothingToSend
    <3>4. CASE Finish(c, "not_sent")
      <4>1. Contract!Refuse(c)
        BY <2>2, <3>1, <3>3, <3>4 DEF Contract!Refuse, Contract!Return, Finish, Sent
      <4> QED
        BY <4>1 DEF Contract!Next
    <3> QED
      BY <2>5, <3>3, <3>4 DEF Look, Proceed
  <2>9. CASE List(c)
    <3>1. pc[c] = "listing" /\ UNCHANGED <<sent, req>> /\ rows[c] = {} /\ sent[c] = {}
      BY <2>1, <2>9 DEF List, CallInv
    <3>2. PICK S \in Reads(req[c].on) :
            /\ rows' = [rows EXCEPT ![c] = S]
            /\ \/ req[c].op = "schedule" /\ Proceed(c, "sending")
               \/ req[c].op = "cancel" /\ Cancellable(S) # {} /\ Proceed(c, "cancelling")
               \/ req[c].op = "cancel" /\ S # {} /\ Cancellable(S) = {} /\ Proceed(c, "reading")
               \/ req[c].op = "cancel" /\ S = {} /\ Finish(c, "not_sent")
      BY <2>9 DEF List
    <3>3. rows'[c] = S /\ \A d \in Calls : d # c => rows'[d] = rows[d]
      BY <2>1, <3>2 DEF TypeOK
    <3>4. c \notin Sent
      BY <3>1 DEF Sent, NothingToSend
    <3>5. CASE req[c].op = "cancel" /\ S # {} /\ Cancellable(S) = {}
      <4>1. Sent' = Sent \cup {c}
        BY <3>1, <3>3, <3>5 DEF Sent, NothingToSend
      <4>2. outcome' = outcome
        BY <3>2, <3>5 DEF Proceed
      <4>3. Contract!Send(c)
        BY <2>2, <3>1, <4>1, <4>2 DEF Contract!Send, Sent
      <4> QED
        BY <4>3 DEF Contract!Next
    <3>6. CASE ~(req[c].op = "cancel" /\ S # {} /\ Cancellable(S) = {})
      <4>1. Sent' = Sent
        BY <3>1, <3>3, <3>6 DEF Sent, NothingToSend
      <4>2. CASE Finish(c, "not_sent")
        <5>1. Contract!Refuse(c)
          BY <2>2, <3>1, <3>4, <4>1, <4>2 DEF Contract!Refuse, Contract!Return, Finish, Sent
        <5> QED
          BY <5>1 DEF Contract!Next
      <4> QED
        BY <3>2, <4>1, <4>2 DEF Proceed
    <3> QED
      BY <3>5, <3>6
  <2>6. CASE Send(c) \/ CancelNext(c)
    <3>1. Sent' = Sent \cup {c} /\ outcome' = outcome /\ pc[c] # "returned"
      BY <2>4, <2>6 DEF Send, CancelNext, Proceed
    <3>2. Contract!Send(c)
      BY <2>2, <3>1 DEF Contract!Send, Sent
    <3> QED
      BY <3>2 DEF Contract!Next
  <2>7. CASE RequestFails(c)
    <3>1. Sent' = Sent \/ Sent' = Sent \cup {c}
      BY <2>3, <2>4, <2>7 DEF RequestFails
    <3>2. Contract!Raise(c) \/ Contract!SendAndRaise(c)
      BY <2>2, <2>7, <3>1 DEF RequestFails, Finish, Contract!Raise, Contract!Return, Contract!SendAndRaise, Sent
    <3> QED
      BY <3>2 DEF Contract!Next
  <2>8. CASE ReadPage(c) \/ CheckList(c)
    <3>1. pc[c] \in {"reading", "checking"} /\ UNCHANGED <<sent, req, rows>>
      BY <2>8 DEF ReadPage, CheckList
    <3>2. outcome' = outcome \/ \E o \in {"done", "sent_not_visible_yet"} : Finish(c, o)
      BY <2>8 DEF ReadPage, CheckList, Proceed
    <3>3. c \in Sent
      BY <2>1, <3>1 DEF CallInv, Sent
    <3>4. ASSUME NEW o \in {"done", "sent_not_visible_yet"}, Finish(c, o) PROVE Contract!Report(c)
      BY <2>2, <2>3, <3>1, <3>3, <3>4 DEF Contract!Report, Contract!Return, Finish, Sent
    <3> QED
      BY <2>3, <3>1, <3>2, <3>4 DEF Contract!Next
  <2> QED
    BY <1>2, <2>5, <2>9, <2>6, <2>7, <2>8 DEF CallStep
<1> QED
  BY <1>1, <1>2 DEF Next, Tick, RunSchedule, RunCancel, RefreshPage, OtherSchedules, AllReturned, vars

(* Every call keeps the contract of its outcome field: Downtimes           *)
(* implements CommandContract, for any number of calls and downtimes.      *)
THEOREM ContractKept == Spec => KeepsContract
<1>1. Init => Contract!Init
  BY DEF Init, Contract!Init, NothingToSend
<1>2. IInv /\ [Next]_vars => [Contract!Next]_<<{c \in Calls : sent[c] # {} \/ NothingToSend(c)}, outcome>>
  BY ContractStep DEF Sent
<1> QED
  BY <1>1, <1>2, Invariance, PTL DEF Spec, KeepsContract, Contract!Spec

-----------------------------------------------------------------------------
(* Every call makes finitely many requests.                                *)

(* How many requests a call can still make: a round of a wait is two       *)
(* reads, and a cancel commands the rows of one page.                      *)
StepsLeft(c) ==
    LET wait == 2 * (MaxPolls + 1)
        rounds == wait - 2 * polls[c]
    IN  [idle |-> wait + DOWNTIMES_READ + 2, listing |-> wait + DOWNTIMES_READ + 1, sending |-> wait + 1,
         cancelling |-> wait + Cardinality(todo[c]), reading |-> rounds, checking |-> rounds - 1,
         returned |-> 0][pc[c]]

(* Every request a call makes leaves it fewer to make, whatever the engine *)
(* does with its commands and other people schedule meanwhile: rows that   *)
(* come into the page give a cancel nothing more to do.                    *)
EveryStepCounts == [][\A c \in Calls : CallStep(c) => StepsLeft(c)' < StepsLeft(c)]_vars

(* What a call has to cancel is finite: rows of one page.                  *)
Countable == \A c \in Calls : IsFiniteSet(todo[c])

(* A page has at most DOWNTIMES_READ rows.                                 *)
LEMMA PageIsShort ==
    ASSUME IsFiniteSet(listed), NEW o \in Objects, NEW S \in Reads(o)
    PROVE  IsFiniteSet(S) /\ Cardinality(S) \in 0..DOWNTIMES_READ
<1>1. S \in SUBSET listed
  BY ReadsCurrent
<1>2. IsFiniteSet(S) /\ Cardinality(S) \in Nat
  BY <1>1, FS_Subset, FS_CardinalityType
<1>3. IsFiniteSet(Current(o))
  BY FS_Subset DEF Current
<1>4. Cardinality(Current(o)) \in Nat
  BY <1>3, FS_CardinalityType
<1>5. Cardinality(Current(o)) <= DOWNTIMES_READ => Cardinality(S) = Cardinality(Current(o))
  BY DEF Reads, FirstBy, Current
<1>6. ~(Cardinality(Current(o)) <= DOWNTIMES_READ) => Cardinality(S) = DOWNTIMES_READ
  BY DEF Reads, FirstBy, Current
<1> QED
  BY <1>2, <1>4, <1>5, <1>6, LimitsAssumption

(* The rows a cancel can name are no more than the page has.               *)
LEMMA CancellableAreFew ==
    ASSUME NEW S, IsFiniteSet(S)
    PROVE  IsFiniteSet(Cancellable(S)) /\ Cardinality(Cancellable(S)) \in 0..Cardinality(S)
<1>1. Cancellable(S) \in SUBSET S
  BY DEF Cancellable
<1>2. IsFiniteSet(Cancellable(S)) /\ Cardinality(Cancellable(S)) <= Cardinality(S)
  BY <1>1, FS_Subset
<1>3. Cardinality(Cancellable(S)) \in Nat /\ Cardinality(S) \in Nat
  BY <1>2, FS_CardinalityType
<1> QED
  BY <1>2, <1>3

(* What a call's step leaves it to cancel is finite as well.               *)
LEMMA CountableNext == TypeOK /\ Numbered /\ Countable /\ [Next]_vars => Countable'
<1> SUFFICES ASSUME TypeOK, Numbered, Countable, [Next]_vars, NEW d \in Calls PROVE IsFiniteSet(todo'[d])
  BY DEF Countable
<1>1. CASE UNCHANGED call
  BY <1>1 DEF call, Countable
<1>2. ASSUME NEW c \in Calls, CallStep(c) PROVE IsFiniteSet(todo'[d])
  <2>1. CASE List(c)
    <3>1. PICK S \in Reads(req[c].on) :
            todo' = [todo EXCEPT ![c] = IF req[c].op = "cancel" THEN Cancellable(S) ELSE {}]
      BY <2>1 DEF List
    <3>2. req[c].on \in Objects
      BY DEF TypeOK, Request
    <3>3. IsFiniteSet(Cancellable(S)) /\ IsFiniteSet({})
      BY <3>2, PageIsShort, CancellableAreFew, FS_EmptySet DEF Numbered
    <3>4. todo'[d] \in {Cancellable(S), {}, todo[d]}
      BY <3>1 DEF TypeOK
    <3> QED
      BY <3>3, <3>4 DEF Countable
  <2>2. CASE CancelNext(c)
    <3>1. PICK e \in todo[c] : todo' = [todo EXCEPT ![c] = @ \ {e}]
      BY <2>2 DEF CancelNext
    <3>2. todo'[d] = todo[d] \/ todo'[d] = todo[d] \ {e}
      BY <3>1 DEF TypeOK
    <3>3. IsFiniteSet(todo[d]) /\ IsFiniteSet(todo[d] \ {e})
      BY FS_Difference DEF Countable
    <3> QED
      BY <3>2, <3>3
  <2>3. CASE UNCHANGED todo
    BY <2>3 DEF Countable
  <2> QED
    BY <1>2, <2>1, <2>2, <2>3 DEF CallStep, Look, Send, RequestFails, ReadPage, CheckList
<1> QED
  BY <1>1, <1>2 DEF Next, vars, Tick, RunSchedule, RunCancel, RefreshPage, OtherSchedules, AllReturned

(* What is left at each step of a call.                                    *)
LEMMA LeftAt ==
    ASSUME NEW c \in Calls, polls[c] \in Nat, Cardinality(todo[c]) \in Nat
    PROVE  /\ pc[c] = "idle" => StepsLeft(c) = 2 * MaxPolls + DOWNTIMES_READ + 4
           /\ pc[c] = "listing" => StepsLeft(c) = 2 * MaxPolls + DOWNTIMES_READ + 3
           /\ pc[c] = "sending" => StepsLeft(c) = 2 * MaxPolls + 3
           /\ pc[c] = "cancelling" => StepsLeft(c) = 2 * MaxPolls + 2 + Cardinality(todo[c])
           /\ pc[c] = "reading" => StepsLeft(c) = 2 * MaxPolls + 2 - 2 * polls[c]
           /\ pc[c] = "checking" => StepsLeft(c) = 2 * MaxPolls + 1 - 2 * polls[c]
           /\ pc[c] = "returned" => StepsLeft(c) = 0
BY LimitsAssumption DEF StepsLeft

(* The same after a step.                                                  *)
LEMMA LeftAfter ==
    ASSUME NEW c \in Calls, polls'[c] \in Nat, Cardinality(todo'[c]) \in Nat
    PROVE  /\ pc'[c] = "listing" => StepsLeft(c)' = 2 * MaxPolls + DOWNTIMES_READ + 3
           /\ pc'[c] = "sending" => StepsLeft(c)' = 2 * MaxPolls + 3
           /\ pc'[c] = "cancelling" => StepsLeft(c)' = 2 * MaxPolls + 2 + Cardinality(todo'[c])
           /\ pc'[c] = "reading" => StepsLeft(c)' = 2 * MaxPolls + 2 - 2 * polls'[c]
           /\ pc'[c] = "checking" => StepsLeft(c)' = 2 * MaxPolls + 1 - 2 * polls'[c]
BY LimitsAssumption DEF StepsLeft

(* A call that has not returned has a request left.                        *)
LEMMA OpenHasSomeLeft ==
    ASSUME TypeOK, Countable, NEW c \in Calls, pc[c] # "returned"
    PROVE  StepsLeft(c) \in Nat \ {0}
<1>1. polls[c] \in 0..MaxPolls /\ Cardinality(todo[c]) \in Nat /\ MaxPolls \in Nat /\ DOWNTIMES_READ \in Nat
  BY LimitsAssumption, FS_CardinalityType DEF TypeOK, Countable
<1>2. pc[c] \in Steps
  BY DEF TypeOK
<1> QED
  BY <1>1, <1>2, LeftAt DEF Steps

(* A call that returns has none left.                                      *)
LEMMA ReturningCounts ==
    ASSUME TypeOK, Countable, NEW c \in Calls, pc[c] # "returned", NEW o, Finish(c, o)
    PROVE  StepsLeft(c)' < StepsLeft(c)
<1>1. pc'[c] = "returned"
  BY DEF Finish, TypeOK
<1>2. StepsLeft(c)' = 0
  BY <1>1 DEF StepsLeft
<1> QED
  BY <1>2, OpenHasSomeLeft

(* No request leaves as many to make as there were before it.              *)
LEMMA EachCounts ==
    ASSUME TypeOK, Numbered, Countable, NEW c \in Calls, CallStep(c)
    PROVE  StepsLeft(c)' < StepsLeft(c)
<1> DEFINE removals == Cardinality(todo[c])
<1>1. removals \in Nat /\ polls[c] \in 0..MaxPolls /\ MaxPolls \in Nat /\ DOWNTIMES_READ \in Nat \ {0}
  BY LimitsAssumption, FS_CardinalityType DEF TypeOK, Countable
<1>2. CASE Look(c)
  <2>1. pc[c] = "idle" /\ polls' = polls /\ todo' = todo /\ (Finish(c, "not_sent") \/ Proceed(c, "listing"))
    BY <1>2 DEF Look
  <2>2. ASSUME Proceed(c, "listing") PROVE StepsLeft(c)' < StepsLeft(c)
    <3>1. pc'[c] = "listing"
      BY <2>2 DEF Proceed, TypeOK
    <3> QED
      BY <1>1, <2>1, <3>1, LeftAt, LeftAfter
  <2> QED
    BY <2>1, <2>2, ReturningCounts
<1>3. CASE List(c)
  <2>1. PICK S \in Reads(req[c].on) :
            /\ todo' = [todo EXCEPT ![c] = IF req[c].op = "cancel" THEN Cancellable(S) ELSE {}]
            /\ \/ Proceed(c, "sending")
               \/ Proceed(c, "cancelling")
               \/ Proceed(c, "reading")
               \/ Finish(c, "not_sent")
    BY <1>3 DEF List
  <2>2. pc[c] = "listing" /\ polls' = polls /\ todo'[c] = IF req[c].op = "cancel" THEN Cancellable(S) ELSE {}
    BY <1>3, <2>1 DEF List, TypeOK
  <2>3. req[c].on \in Objects
    BY DEF TypeOK, Request
  <2>4. /\ Cardinality(S) \in 0..DOWNTIMES_READ /\ Cardinality({}) = 0
        /\ Cardinality(Cancellable(S)) \in 0..Cardinality(S)
    BY <2>3, PageIsShort, CancellableAreFew, FS_EmptySet DEF Numbered
  <2>5. Cardinality(todo'[c]) \in Nat /\ Cardinality(todo'[c]) <= DOWNTIMES_READ
    BY <1>1, <2>2, <2>4
  <2>6. StepsLeft(c) = 2 * MaxPolls + DOWNTIMES_READ + 3
    BY <1>1, <2>2, LeftAt
  <2>7. ASSUME Proceed(c, "sending") PROVE StepsLeft(c)' < StepsLeft(c)
    <3>1. pc'[c] = "sending" /\ polls'[c] \in Nat
      BY <1>1, <2>2, <2>7 DEF Proceed, TypeOK
    <3>2. StepsLeft(c)' = 2 * MaxPolls + 3
      BY <2>5, <3>1, LeftAfter
    <3> QED
      BY <1>1, <2>6, <3>2
  <2>8. ASSUME Proceed(c, "cancelling") PROVE StepsLeft(c)' < StepsLeft(c)
    <3>1. pc'[c] = "cancelling" /\ polls'[c] \in Nat
      BY <1>1, <2>2, <2>8 DEF Proceed, TypeOK
    <3>2. StepsLeft(c)' = 2 * MaxPolls + 2 + Cardinality(todo'[c])
      BY <2>5, <3>1, LeftAfter
    <3> QED
      BY <1>1, <2>5, <2>6, <3>2
  <2>9. ASSUME Proceed(c, "reading") PROVE StepsLeft(c)' < StepsLeft(c)
    <3>1. pc'[c] = "reading" /\ polls'[c] \in Nat
      BY <1>1, <2>2, <2>9 DEF Proceed, TypeOK
    <3>2. StepsLeft(c)' = 2 * MaxPolls + 2 - 2 * polls'[c]
      BY <2>5, <3>1, LeftAfter
    <3> QED
      BY <1>1, <2>6, <3>1, <3>2
  <2> QED
    BY <2>1, <2>2, <2>7, <2>8, <2>9, ReturningCounts
<1>4. CASE Send(c)
  <2>1. pc[c] = "sending" /\ pc'[c] = "reading" /\ todo' = todo /\ polls' = polls
    BY <1>4 DEF Send, Proceed, TypeOK
  <2> QED
    BY <1>1, <2>1, LeftAt, LeftAfter
<1>5. CASE CancelNext(c)
  <2>1. PICK d \in todo[c] :
            /\ todo' = [todo EXCEPT ![c] = @ \ {d}]
            /\ Proceed(c, "reading") \/ Proceed(c, "cancelling")
    BY <1>5 DEF CancelNext
  <2>2. pc[c] = "cancelling" /\ polls' = polls /\ todo'[c] = todo[c] \ {d}
    BY <1>5, <2>1 DEF CancelNext, TypeOK
  <2>3. IsFiniteSet(todo[c] \ {d}) /\ Cardinality(todo[c] \ {d}) = removals - 1
    BY FS_RemoveElement DEF Countable
  <2>4. Cardinality(todo[c] \ {d}) \in Nat
    BY <2>3, FS_CardinalityType
  <2>5. Cardinality(todo'[c]) = removals - 1 /\ Cardinality(todo'[c]) \in Nat /\ polls'[c] \in Nat
    BY <1>1, <2>2, <2>3, <2>4
  <2>6. StepsLeft(c) = 2 * MaxPolls + 2 + removals
    BY <1>1, <2>2, LeftAt
  <2>7. ASSUME Proceed(c, "reading") PROVE StepsLeft(c)' < StepsLeft(c)
    <3>1. pc'[c] = "reading"
      BY <2>7 DEF Proceed, TypeOK
    <3>2. StepsLeft(c)' = 2 * MaxPolls + 2 - 2 * polls'[c]
      BY <2>5, <3>1, LeftAfter
    <3> QED
      BY <1>1, <2>5, <2>6, <3>2
  <2>8. ASSUME Proceed(c, "cancelling") PROVE StepsLeft(c)' < StepsLeft(c)
    <3>1. pc'[c] = "cancelling"
      BY <2>8 DEF Proceed, TypeOK
    <3>2. StepsLeft(c)' = 2 * MaxPolls + 2 + Cardinality(todo'[c])
      BY <2>5, <3>1, LeftAfter
    <3> QED
      BY <1>1, <2>5, <2>6, <3>2
  <2> QED
    BY <2>1, <2>7, <2>8
<1>6. CASE RequestFails(c)
  BY <1>6, ReturningCounts DEF RequestFails
<1>7. CASE ReadPage(c)
  <2>1. pc[c] = "reading" /\ pc'[c] = "checking" /\ todo' = todo /\ polls' = polls
    BY <1>7 DEF ReadPage, Proceed, TypeOK
  <2> QED
    BY <1>1, <2>1, LeftAt, LeftAfter
<1>8. CASE CheckList(c)
  <2>1. ASSUME TimeLeft(c), polls' = [polls EXCEPT ![c] = @ + 1], Proceed(c, "reading")
        PROVE  StepsLeft(c)' < StepsLeft(c)
    <3>1. pc[c] = "checking" /\ pc'[c] = "reading" /\ todo' = todo /\ polls'[c] = polls[c] + 1
      BY <1>8, <2>1 DEF CheckList, Proceed, TypeOK
    <3> QED
      BY <1>1, <3>1, LeftAt, LeftAfter
  <2> QED
    BY <1>8, <2>1, ReturningCounts DEF CheckList
<1> QED
  BY <1>2, <1>3, <1>4, <1>5, <1>6, <1>7, <1>8 DEF CallStep

(* Every request of a call leaves it fewer to make, for any number of      *)
(* calls, objects and rows, any MaxPolls and DOWNTIMES_READ: no call       *)
(* cancels or waits for ever.                                              *)
THEOREM StepsRunOut == Spec => EveryStepCounts
<1>1. Init => Countable
  BY FS_EmptySet DEF Init, Countable
<1>2. TypeOK /\ Numbered /\ Countable /\ [Next]_vars =>
        [\A c \in Calls : CallStep(c) => StepsLeft(c)' < StepsLeft(c)]_vars
  BY EachCounts
<1>3. IInv => TypeOK /\ Numbered
  BY DEF IInv
<1> QED
  BY <1>1, <1>2, <1>3, CountableNext, Invariance, PTL DEF Spec, EveryStepCounts

(* What is left is a number.                                               *)
SomeLeft == \A c \in Calls : StepsLeft(c) \in Nat /\ (StepsLeft(c) = 0 <=> pc[c] = "returned")

(* A call that has not returned always has a request left: the count that  *)
(* every request lowers cannot go below 0.                                 *)
THEOREM StepsAreLeft == Spec => []SomeLeft
<1>1. Init => Countable
  BY FS_EmptySet DEF Init, Countable
<1>2. TypeOK /\ Countable => SomeLeft
  <2> SUFFICES ASSUME TypeOK, Countable, NEW c \in Calls
               PROVE  StepsLeft(c) \in Nat /\ (StepsLeft(c) = 0 <=> pc[c] = "returned")
    BY DEF SomeLeft
  <2>1. CASE pc[c] = "returned"
    BY <2>1 DEF StepsLeft
  <2>2. CASE pc[c] # "returned"
    BY <2>2, OpenHasSomeLeft
  <2> QED
    BY <2>1, <2>2
<1>3. IInv => TypeOK /\ Numbered
  BY DEF IInv
<1> QED
  BY <1>1, <1>2, <1>3, CountableNext, Invariance, PTL DEF Spec
=============================================================================
