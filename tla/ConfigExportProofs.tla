------------------------- MODULE ConfigExportProofs -------------------------
(***************************************************************************)
(* ConfigExport proved for any number of calls, polls and changes: its     *)
(* types, that done comes after the call's own export, what the engine     *)
(* runs then, and that every call keeps the contract of its outcome.       *)
(***************************************************************************)
EXTENDS ConfigExport, TLAPS

Queued(c) == \E i \in 1..Len(jobs) : jobs[i] = c
Begun(c) == exporting # None /\ exporting.by = c
Runnable(v) == v \in 0..db /\ valid[v + 1]

(* Every call's export is in one place at most: queued once, under way,    *)
(* or over; a launched one is in one of them.                              *)
OnePlace ==
    /\ \A i, j \in 1..Len(jobs) : jobs[i] = jobs[j] => i = j
    /\ \A c \in Calls : Queued(c) => ~Begun(c) /\ c \notin finished
    /\ \A c \in Calls : c \in launched <=> Queued(c) \/ Begun(c) \/ c \in finished

(* How far a call is, whether its launch reached openITCOCKPIT by then,    *)
(* and what the engine's check had said.                                   *)
CallInv(c) ==
    /\ pc[c] \in {"idle", "checking", "launching"} => c \notin launched
    /\ pc[c] = "waiting" => c \in launched
    /\ outcome[c] = "open" <=> pc[c] # "returned"
    /\ outcome[c] \in {"done", "still_running"} => c \in launched
    /\ pc[c] \in {"launching", "waiting"} \/ outcome[c] = "done" => Runnable(checked[c])
    /\ outcome[c] = "done" => c \in finished

(* Versions only grow: the engine runs none newer than the database's or   *)
(* than the one under way, and none older than an export that is over.     *)
Ordered ==
    /\ runs <= db
    /\ exporting # None => /\ exporting.version \in runs..db
                           /\ exported[exporting.by] = exporting.version
    /\ \A c \in Calls : exported[c] <= db
    /\ \A c \in finished : Runnable(exported[c]) => exported[c] <= runs

(* The inductive invariant.                                                *)
IInv ==
    /\ TypeOK
    /\ OnePlace
    /\ \A c \in Calls : CallInv(c)
    /\ Ordered

-----------------------------------------------------------------------------
(* Types.                                                                  *)
LEMMA TypeInit == Init => TypeOK
BY LimitsAssumption DEF Init, TypeOK, db, Version, Steps, Outcomes, None

(* Every step keeps the types: one case per action.                        *)
LEMMA TypeNext == TypeOK /\ [Next]_vars => TypeOK'
<1> SUFFICES ASSUME TypeOK, [Next]_vars PROVE TypeOK'
  OBVIOUS
<1>1. CASE UNCHANGED vars
  BY <1>1 DEF TypeOK, vars, server, call, db
<1>2. ASSUME NEW ok \in BOOLEAN, Change(ok) PROVE TypeOK'
  BY <1>2, LimitsAssumption DEF Change, TypeOK, db, Version, call
<1>3. CASE BeginExport
  <2>1. Head(jobs) \in Calls /\ Tail(jobs) \in Seq(Calls)
    BY <1>3 DEF BeginExport, TypeOK
  <2> QED
    BY <1>3, <2>1 DEF BeginExport, TypeOK, db, call
<1>4. CASE EndExport
  BY <1>4 DEF EndExport, TypeOK, db, call, None
<1>5. ASSUME NEW c \in Calls, ReadStatus(c) PROVE TypeOK'
  BY <1>5 DEF ReadStatus, Finish, Proceed, TypeOK, Steps, Outcomes, server, db
<1>6. ASSUME NEW c \in Calls, Verify(c) PROVE TypeOK'
  BY <1>6 DEF Verify, Finish, Proceed, TypeOK, Steps, Outcomes, server, db
<1>7. ASSUME NEW c \in Calls, Launch(c) PROVE TypeOK'
  BY <1>7 DEF Launch, QueueExport, Proceed, TypeOK, Steps, db
<1>8. ASSUME NEW c \in Calls, SeeOver(c) PROVE TypeOK'
  BY <1>8 DEF SeeOver, Finish, TypeOK, Steps, Outcomes, server, db
<1>9. ASSUME NEW c \in Calls, SeeRunning(c) PROVE TypeOK'
  <2>1. polls' \in [Calls -> 0..MaxPolls]
    <3>1. polls[c] \in 0..MaxPolls /\ (TimeLeft(c) => polls[c] + 1 \in 0..MaxPolls)
      BY LimitsAssumption DEF TimeLeft, TypeOK
    <3> QED
      BY <1>9, <3>1 DEF SeeRunning, TypeOK
  <2> QED
    BY <1>9, <2>1 DEF SeeRunning, Finish, TypeOK, Steps, Outcomes, server, db
<1>10. ASSUME NEW c \in Calls, RequestFails(c) PROVE TypeOK'
  <2>1. /\ jobs' \in Seq(Calls) /\ launched' \in SUBSET Calls
        /\ UNCHANGED <<valid, runs, exporting, finished, exported>>
    <3>1. CASE UNCHANGED <<server, launched>>
      BY <3>1 DEF TypeOK, server
    <3>2. CASE QueueExport(c)
      BY <3>2 DEF QueueExport, TypeOK
    <3> QED
      BY <1>10, <3>1, <3>2 DEF RequestFails
  <2>2. pc' \in [Calls -> Steps] /\ outcome' \in [Calls -> Outcomes] /\ UNCHANGED <<checked, polls>>
    BY <1>10 DEF RequestFails, Finish, TypeOK, Steps, Outcomes
  <2> QED
    BY <2>1, <2>2 DEF TypeOK, db
<1>11. CASE AllOver
  BY <1>11 DEF AllOver, TypeOK, vars, server, call, db
<1> QED
  BY <1>1, <1>2, <1>3, <1>4, <1>5, <1>6, <1>7, <1>8, <1>9, <1>10, <1>11 DEF Next, CallStep

-----------------------------------------------------------------------------
(* What a launch and the begin of an export do to the queue.               *)
LEMMA LaunchQueues ==
    ASSUME TypeOK, NEW c \in Calls, jobs' = Append(jobs, c)
    PROVE  \A d \in Calls : Queued(d)' <=> Queued(d) \/ d = c
<1>1. /\ Len(jobs') = Len(jobs) + 1 /\ Len(jobs) \in Nat
      /\ \A i \in 1..Len(jobs) : jobs'[i] = jobs[i]
      /\ jobs'[Len(jobs) + 1] = c
  BY DEF TypeOK
<1> QED
  BY <1>1 DEF Queued

(* The export that begins leaves the queue, the others stay in it.         *)
LEMMA BeginUnqueues ==
    ASSUME TypeOK, OnePlace, jobs # <<>>, jobs' = Tail(jobs)
    PROVE  /\ Head(jobs) \in Calls /\ Queued(Head(jobs))
           /\ \A d \in Calls : Queued(d)' <=> Queued(d) /\ d # Head(jobs)
           /\ \A i, j \in 1..Len(jobs') : jobs'[i] = jobs'[j] => i = j
<1>1. /\ Len(jobs') = Len(jobs) - 1 /\ Len(jobs) \in Nat \ {0}
      /\ \A i \in 1..Len(jobs') : jobs'[i] = jobs[i + 1]
      /\ Head(jobs) = jobs[1] /\ Head(jobs) \in Calls
  BY DEF TypeOK
<1>2. \A i \in 2..Len(jobs) : jobs[i] = jobs'[i - 1] /\ i - 1 \in 1..Len(jobs')
  BY <1>1
<1>3. \A i, j \in 1..Len(jobs) : jobs[i] = jobs[j] => i = j
  BY DEF OnePlace
<1>4. \A i, j \in 1..Len(jobs') : jobs'[i] = jobs'[j] => i = j
  BY <1>1, <1>3
<1>5. ASSUME NEW d \in Calls, Queued(d)' PROVE Queued(d) /\ d # Head(jobs)
  BY <1>1, <1>3, <1>5 DEF Queued
<1>6. ASSUME NEW d \in Calls, Queued(d), d # Head(jobs) PROVE Queued(d)'
  <2>1. PICK i \in 1..Len(jobs) : jobs[i] = d
    BY <1>6 DEF Queued
  <2>2. i \in 2..Len(jobs)
    BY <1>1, <1>6, <2>1
  <2> QED
    BY <1>2, <2>1, <2>2 DEF Queued
<1>7. Queued(Head(jobs))
  BY <1>1 DEF Queued
<1> QED
  BY <1>1, <1>4, <1>5, <1>6, <1>7
-----------------------------------------------------------------------------
(* An export moves from the queue to the worker to the exports that are    *)
(* over, and is in one of these places from its launch on.                 *)
LEMMA OnePlaceNext ==
    ASSUME TypeOK, OnePlace, \A c \in Calls : CallInv(c), [Next]_vars
    PROVE  OnePlace'
<1>1. CASE UNCHANGED <<jobs, exporting, finished, launched>>
  BY <1>1 DEF OnePlace, Queued, Begun
<1>2. CASE BeginExport
  <2>1. /\ exporting = None /\ exporting' # None /\ exporting'.by = Head(jobs)
        /\ jobs # <<>> /\ jobs' = Tail(jobs) /\ UNCHANGED <<finished, launched>>
    BY <1>2 DEF BeginExport, call, None, NoVersion, TypeOK, Version
  <2>2. \A d \in Calls : Begun(d)' <=> d = Head(jobs)
    BY <2>1 DEF Begun
  <2>3. \A d \in Calls : ~Begun(d)
    BY <2>1 DEF Begun
  <2> QED
    BY <2>1, <2>2, <2>3, BeginUnqueues DEF OnePlace
<1>3. CASE EndExport
  <2>1. /\ exporting # None /\ exporting' = None /\ finished' = finished \cup {exporting.by}
        /\ UNCHANGED <<jobs, launched>>
    BY <1>3 DEF EndExport, call
  <2>2. \A d \in Calls : (Queued(d)' <=> Queued(d)) /\ ~Begun(d)' /\ (Begun(d) <=> d = exporting.by)
    BY <2>1 DEF Queued, Begun
  <2> QED
    BY <2>1, <2>2 DEF OnePlace
<1>4. ASSUME NEW c \in Calls, pc[c] = "launching", QueueExport(c) PROVE OnePlace'
  <2>1. c \notin launched /\ ~Queued(c) /\ ~Begun(c) /\ c \notin finished
    BY <1>4 DEF CallInv, OnePlace
  <2>2. \A d \in Calls : Queued(d)' <=> Queued(d) \/ d = c
    BY <1>4, LaunchQueues DEF QueueExport
  <2>3. \A d \in Calls : Begun(d)' <=> Begun(d)
    BY <1>4 DEF QueueExport, Begun
  <2>4. \A i, j \in 1..Len(jobs') : jobs'[i] = jobs'[j] => i = j
    <3>1. /\ Len(jobs') = Len(jobs) + 1 /\ Len(jobs) \in Nat
          /\ \A i \in 1..Len(jobs) : jobs'[i] = jobs[i] /\ jobs[i] # c
          /\ jobs'[Len(jobs) + 1] = c
      BY <1>4, <2>1 DEF QueueExport, TypeOK, Queued
    <3>2. \A i, j \in 1..Len(jobs) : jobs[i] = jobs[j] => i = j
      BY DEF OnePlace
    <3> QED
      BY <3>1, <3>2
  <2> QED
    BY <1>4, <2>1, <2>2, <2>3, <2>4 DEF QueueExport, OnePlace
<1>5. \/ UNCHANGED <<jobs, exporting, finished, launched>>
      \/ BeginExport \/ EndExport
      \/ \E c \in Calls : pc[c] = "launching" /\ QueueExport(c)
  <2>1. CASE \E c \in Calls : CallStep(c)
    BY <2>1 DEF CallStep, ReadStatus, Verify, Launch, SeeOver, SeeRunning, RequestFails, server
  <2>2. CASE UNCHANGED vars \/ AllOver \/ \E ok \in BOOLEAN : Change(ok)
    BY <2>2 DEF AllOver, Change, vars, server, call
  <2> QED
    BY <2>1, <2>2 DEF Next
<1> QED
  BY <1>1, <1>2, <1>3, <1>4, <1>5

(* What the engine can run it can run for ever: versions are never         *)
(* changed, only added.                                                    *)
LEMMA RunnableStays ==
    ASSUME TypeOK, [Next]_vars, NEW v, Runnable(v)
    PROVE  Runnable(v)'
<1>1. UNCHANGED valid \/ \E ok \in BOOLEAN : valid' = Append(valid, ok)
  BY DEF Next, Change, BeginExport, EndExport, AllOver, CallStep, ReadStatus, Verify, Launch, SeeOver,
     SeeRunning, RequestFails, QueueExport, server, vars
<1>2. valid \in Seq(BOOLEAN)
  BY DEF TypeOK
<1> QED
  BY <1>1, <1>2 DEF Runnable, db
(* What a call's step leaves of the other calls.                           *)
LEMMA OthersKept ==
    ASSUME TypeOK, NEW c \in Calls, CallStep(c), NEW d \in Calls, d # c
    PROVE  /\ pc'[d] = pc[d] /\ outcome'[d] = outcome[d] /\ checked'[d] = checked[d]
           /\ d \in launched' <=> d \in launched
BY DEF CallStep, ReadStatus, Verify, Launch, SeeOver, SeeRunning, RequestFails, QueueExport, Finish, Proceed,
   TypeOK, server

(* A step of the call itself keeps its invariant.                          *)
LEMMA CallNext ==
    ASSUME TypeOK, OnePlace, NEW c \in Calls, CallInv(c), CallStep(c)
    PROVE  CallInv(c)'
<1>1. CASE ReadStatus(c)
  BY <1>1 DEF ReadStatus, Finish, Proceed, CallInv, TypeOK, server
<1>2. CASE Verify(c)
  <2>1. checked'[c] = db /\ db \in 0..db /\ valid' = valid
    BY <1>2 DEF Verify, TypeOK, Version, server
  <2>2. pc'[c] = "launching" => Runnable(checked[c])'
    BY <1>2, <2>1 DEF Verify, Finish, TypeOK, Runnable, db
  <2>3. /\ pc[c] = "checking" /\ UNCHANGED launched
        /\ \/ pc'[c] = "launching" /\ outcome'[c] = outcome[c]
           \/ pc'[c] = "returned" /\ outcome'[c] = "not_sent"
    BY <1>2 DEF Verify, Finish, Proceed, TypeOK
  <2> QED
    BY <2>2, <2>3 DEF CallInv
<1>3. CASE Launch(c)
  BY <1>3 DEF Launch, QueueExport, Proceed, CallInv, Runnable, db, TypeOK
<1>4. CASE SeeOver(c)
  <2>1. c \in launched /\ exporting = None /\ jobs = <<>>
    BY <1>4 DEF SeeOver, RunningNow, CallInv
  <2>2. c \in finished
    BY <2>1 DEF OnePlace, Queued, Begun
  <2>3. /\ pc[c] = "waiting" /\ pc'[c] = "returned" /\ outcome'[c] = "done"
        /\ UNCHANGED <<launched, finished, checked, valid>>
    BY <1>4 DEF SeeOver, Finish, TypeOK, server
  <2> QED
    BY <2>1, <2>2, <2>3 DEF CallInv, Runnable, db
<1>5. CASE SeeRunning(c)
  <2>1. /\ pc[c] = "waiting" /\ UNCHANGED <<launched, finished, checked, valid>>
        /\ \/ pc'[c] = "waiting" /\ outcome'[c] = outcome[c]
           \/ pc'[c] = "returned" /\ outcome'[c] = "still_running"
    BY <1>5 DEF SeeRunning, Finish, TypeOK, server
  <2> QED
    BY <2>1 DEF CallInv, Runnable, db
<1>6. CASE RequestFails(c)
  <2>1. pc'[c] = "returned" /\ outcome'[c] = "raised"
    BY <1>6 DEF RequestFails, Finish, TypeOK
  <2> QED
    BY <2>1 DEF CallInv
<1> QED
  BY <1>1, <1>2, <1>3, <1>4, <1>5, <1>6 DEF CallStep

(* Every step keeps the invariant of every call.                           *)
LEMMA CallsNext ==
    ASSUME TypeOK, OnePlace, \A c \in Calls : CallInv(c), [Next]_vars
    PROVE  \A c \in Calls : CallInv(c)'
<1> SUFFICES ASSUME NEW c \in Calls PROVE CallInv(c)'
  OBVIOUS
<1>1. \A v : Runnable(v) => Runnable(v)'
  BY RunnableStays
<1>2. finished \subseteq finished'
  BY DEF Next, Change, BeginExport, EndExport, AllOver, CallStep, ReadStatus, Verify, Launch, SeeOver,
     SeeRunning, RequestFails, QueueExport, server, vars
<1>3. CASE CallStep(c)
  BY <1>3, CallNext
<1>4. CASE /\ pc'[c] = pc[c] /\ outcome'[c] = outcome[c] /\ checked'[c] = checked[c]
           /\ c \in launched' <=> c \in launched
  BY <1>1, <1>2, <1>4 DEF CallInv
<1>5. CASE UNCHANGED call
  BY <1>4, <1>5 DEF call
<1>6. ASSUME NEW d \in Calls, CallStep(d), d # c PROVE CallInv(c)'
  BY <1>4, <1>6, OthersKept
<1> QED
  BY <1>3, <1>5, <1>6 DEF Next, Change, BeginExport, EndExport, AllOver, vars

(* Every step keeps the order of the versions.                             *)
LEMMA OrderedNext ==
    ASSUME TypeOK, OnePlace, Ordered, [Next]_vars
    PROVE  Ordered'
<1>1. db \in Nat /\ runs \in Nat
  BY DEF TypeOK, Version
<1>2. CASE UNCHANGED <<valid, runs, exporting, finished, exported>>
  BY <1>2 DEF Ordered, Runnable, db
<1>3. ASSUME NEW ok \in BOOLEAN, Change(ok) PROVE Ordered'
  <2>1. db' = db + 1 /\ UNCHANGED <<runs, exporting, finished, exported>>
    BY <1>3 DEF Change, db, TypeOK
  <2>2. \A v \in 0..db : valid'[v + 1] = valid[v + 1]
    BY <1>3 DEF Change, db, TypeOK
  <2>3. \A d \in Calls : exported[d] \in Version \cup {NoVersion} /\ exported[d] <= db
    BY DEF TypeOK, Ordered
  <2>4. \A d \in Calls : Runnable(exported[d])' => Runnable(exported[d])
    BY <1>1, <2>1, <2>2, <2>3 DEF Runnable, Version, NoVersion
  <2>5. ASSUME exporting # None PROVE exporting.version \in runs'..db'
    <3>1. exporting.version \in runs..db
      BY <2>5 DEF Ordered
    <3> QED
      BY <1>1, <2>1, <3>1
  <2>6. runs' <= db' /\ \A d \in Calls : exported'[d] <= db'
    BY <1>1, <2>1, <2>3 DEF Ordered, Version, NoVersion
  <2>7. \A d \in finished' : Runnable(exported[d])' => exported'[d] <= runs'
    BY <2>1, <2>4 DEF Ordered, TypeOK
  <2>8. exporting' # None => exported'[exporting'.by] = exporting'.version
    BY <2>1 DEF Ordered
  <2> QED
    BY <2>1, <2>5, <2>6, <2>7, <2>8 DEF Ordered
<1>4. CASE BeginExport
  <2>1. /\ Head(jobs) \in Calls /\ Head(jobs) \notin finished
        /\ exporting' = [by |-> Head(jobs), version |-> db]
        /\ exported' = [exported EXCEPT ![Head(jobs)] = db]
        /\ UNCHANGED <<valid, runs, finished>>
    BY <1>4, BeginUnqueues DEF BeginExport, OnePlace
  <2>2. exported'[Head(jobs)] = db /\ \A d \in Calls : d # Head(jobs) => exported'[d] = exported[d]
    BY <2>1 DEF TypeOK
  <2>3. db' = db /\ \A v : Runnable(v)' <=> Runnable(v)
    BY <2>1 DEF Runnable, db
  <2>4. \A d \in Calls : exported'[d] <= db'
    BY <1>1, <2>2, <2>3 DEF Ordered
  <2>5. \A d \in finished' : Runnable(exported[d])' => exported'[d] <= runs'
    BY <2>1, <2>2, <2>3 DEF Ordered, TypeOK
  <2>6. runs' <= db' /\ exporting'.version \in runs'..db' /\ exported'[exporting'.by] = exporting'.version
    BY <1>1, <2>1, <2>2, <2>3 DEF Ordered
  <2> QED
    BY <2>4, <2>5, <2>6 DEF Ordered
<1>5. CASE EndExport
  <2>1. /\ exporting # None /\ exporting' = None /\ finished' = finished \cup {exporting.by}
        /\ runs' = (IF valid[exporting.version + 1] THEN exporting.version ELSE runs)
        /\ UNCHANGED <<valid, exported>>
    BY <1>5 DEF EndExport
  <2>2. /\ exporting.version \in runs..db /\ exporting.by \in Calls
        /\ exported[exporting.by] = exporting.version
    BY <2>1 DEF Ordered, TypeOK
  <2>3. db' = db /\ \A v : Runnable(v)' <=> Runnable(v)
    BY <2>1 DEF Runnable, db
  <2>4. runs <= runs' /\ runs' <= db
    BY <1>1, <2>1, <2>2 DEF Ordered
  <2>5. Runnable(exporting.version) => exporting.version = runs'
    BY <2>1 DEF Runnable
  <2>6. \A d \in finished : exported[d] \in Int /\ (Runnable(exported[d]) => exported[d] <= runs)
    BY DEF Ordered, TypeOK, Version, NoVersion
  <2>7. runs' \in Nat
    BY <1>1, <2>1, <2>2
  <2>8. \A d \in finished' : Runnable(exported[d])' => exported'[d] <= runs'
    BY <1>1, <2>1, <2>2, <2>3, <2>4, <2>5, <2>6, <2>7
  <2> QED
    BY <2>1, <2>3, <2>4, <2>8 DEF Ordered
<1> QED
  BY <1>2, <1>3, <1>4, <1>5 DEF Next, AllOver, CallStep, ReadStatus, Verify, Launch, SeeOver,
     SeeRunning, RequestFails, QueueExport, server, vars

-----------------------------------------------------------------------------
(* The inductive invariant holds at the start ...                          *)
LEMMA InvariantInit == Init => IInv
<1> SUFFICES ASSUME Init PROVE IInv
  OBVIOUS
<1>1. db = 0
  BY DEF Init, db
<1>2. OnePlace /\ \A c \in Calls : CallInv(c)
  BY DEF Init, OnePlace, Queued, Begun, CallInv
<1>3. Ordered
  BY <1>1 DEF Init, Ordered, NoVersion
<1> QED
  BY <1>2, <1>3, TypeInit DEF IInv

(* ... and always; the properties below follow from it.                    *)
THEOREM Invariance == Spec => []IInv
<1>1. IInv /\ [Next]_vars => IInv'
  BY TypeNext, OnePlaceNext, CallsNext, OrderedNext DEF IInv
<1> QED
  BY <1>1, InvariantInit, PTL DEF Spec

(* Every variable keeps its type, for any number of calls and changes.     *)
THEOREM TypeCorrect == Spec => []TypeOK
<1>1. IInv => TypeOK
  BY DEF IInv
<1> QED
  BY <1>1, Invariance, PTL

(* done is not said before the call's own export is over, however many     *)
(* calls launch exports, before or after it.                               *)
THEOREM DoneIsAfterExport == Spec => []DoneAfterOwnExport
<1>1. IInv => DoneAfterOwnExport
  BY DEF IInv, CallInv, DoneAfterOwnExport, Done
<1> QED
  BY <1>1, Invariance, PTL

(* The engine runs what was checked for a done call, or a newer version,   *)
(* when the export took the version that was checked.                      *)
THEOREM DoneRunsChecked == Spec => []DoneRunsIfUnchanged
<1>1. IInv => DoneRunsIfUnchanged
  <2> SUFFICES ASSUME IInv, NEW c \in Calls, outcome[c] = "done", exported[c] = checked[c]
               PROVE  runs >= checked[c]
    BY DEF DoneRunsIfUnchanged, Done
  <2>1. c \in finished /\ Runnable(exported[c])
    BY DEF IInv, CallInv
  <2>2. exported[c] <= runs
    BY <2>1 DEF IInv, Ordered
  <2> QED
    BY <2>1, <2>2 DEF IInv, TypeOK, Version, NoVersion
<1> QED
  BY <1>1, Invariance, PTL

-----------------------------------------------------------------------------
(* The contract: still_running is its sent_not_visible_yet.                *)
Reported == [c \in Calls |-> IF outcome[c] = "still_running" THEN "sent_not_visible_yet" ELSE outcome[c]]

(* Every step maps to a step of the contract or to a stutter.              *)
LEMMA ContractStep == IInv /\ [Next]_vars => [Contract!Next]_<<launched, Reported>>
<1> SUFFICES ASSUME IInv, [Next]_vars PROVE [Contract!Next]_<<launched, Reported>>
  OBVIOUS
<1>1. CASE UNCHANGED call
  BY <1>1 DEF call, Reported
<1>2. ASSUME NEW c \in Calls, CallStep(c) PROVE [Contract!Next]_<<launched, Reported>>
  <2>1. TypeOK /\ CallInv(c)
    BY DEF IInv
  <2>2. pc[c] # "returned" => Contract!Open(c)
    BY <2>1 DEF CallInv, Contract!Open
  <2>3. ASSUME NEW o, Finish(c, o)
        PROVE  Reported' = [Reported EXCEPT ![c] = IF o = "still_running" THEN "sent_not_visible_yet" ELSE o]
    BY <2>1, <2>3 DEF Finish, Reported, TypeOK
  <2>4. CASE ReadStatus(c) \/ Verify(c)
    <3>1. pc[c] # "returned" /\ c \notin launched /\ UNCHANGED launched
      BY <2>1, <2>4 DEF ReadStatus, Verify, CallInv
    <3>2. CASE UNCHANGED outcome
      BY <3>1, <3>2 DEF Reported
    <3>3. CASE Finish(c, "not_sent")
      <4>1. Contract!Refuse(c)
        BY <2>2, <2>3, <3>1, <3>3 DEF Contract!Refuse, Contract!Return, Reported
      <4> QED
        BY <4>1 DEF Contract!Next
    <3> QED
      BY <2>4, <3>2, <3>3 DEF ReadStatus, Verify, Proceed
  <2>5. CASE Launch(c)
    <3>1. Contract!Send(c)
      BY <2>2, <2>5 DEF Launch, QueueExport, Proceed, Reported, Contract!Send
    <3> QED
      BY <3>1 DEF Contract!Next
  <2>6. CASE SeeOver(c) \/ SeeRunning(c)
    <3>1. pc[c] # "returned" /\ c \in launched /\ UNCHANGED launched
      BY <2>1, <2>6 DEF SeeOver, SeeRunning, CallInv
    <3>2. CASE UNCHANGED outcome
      BY <3>1, <3>2 DEF Reported
    <3>3. ASSUME NEW o \in {"done", "still_running"}, Finish(c, o) PROVE Contract!Next
      <4>1. Contract!Report(c)
        BY <2>2, <2>3, <3>1, <3>3 DEF Contract!Report, Contract!Return, Reported
      <4> QED
        BY <4>1 DEF Contract!Next
    <3> QED
      BY <2>6, <3>2, <3>3 DEF SeeOver, SeeRunning
  <2>7. CASE RequestFails(c)
    <3>1. Contract!Raise(c) \/ Contract!SendAndRaise(c)
      BY <2>2, <2>3, <2>7 DEF RequestFails, QueueExport, Contract!Raise, Contract!Return, Contract!SendAndRaise,
         Reported
    <3> QED
      BY <3>1 DEF Contract!Next
  <2> QED
    BY <1>2, <2>4, <2>5, <2>6, <2>7 DEF CallStep
<1> QED
  BY <1>1, <1>2 DEF Next, Change, BeginExport, EndExport, AllOver, vars

(* Every call keeps the contract of its outcome: ConfigExport implements   *)
(* CommandContract, for any number of calls and whatever fails.            *)
THEOREM ContractKept == Spec => KeepsContract
<1>1. Init => Contract!Init
  BY DEF Init, Contract!Init
<1>2. IInv /\ [Next]_vars => [Contract!Next]_<<launched, Reported>>
  BY ContractStep
<1> QED
  BY <1>1, <1>2, Invariance, PTL DEF Spec, KeepsContract, Contract!Spec, Reported

-----------------------------------------------------------------------------
(* Every call makes finitely many requests.                                *)

(* How many requests a call can still make.                                *)
StepsLeft(c) ==
    [idle |-> MaxPolls + 4, checking |-> MaxPolls + 3, launching |-> MaxPolls + 2,
     waiting |-> MaxPolls + 1 - polls[c], returned |-> 0][pc[c]]

(* Every request a call makes leaves it fewer to make, whatever the job    *)
(* server, the other calls and the configuration do between them: a call   *)
(* makes at most MaxPolls + 4, so it can wait for no export for ever.      *)
EveryStepCounts == [][\A c \in Calls : CallStep(c) => StepsLeft(c)' < StepsLeft(c)]_vars

(* A request that fails ends the call, wherever it was.                    *)
LEMMA ReturnedHasNoneLeft ==
    ASSUME TypeOK, NEW c \in Calls, NEW o, Finish(c, o)
    PROVE  StepsLeft(c)' = 0
<1>1. pc'[c] = "returned"
  BY DEF Finish, TypeOK
<1> QED
  BY <1>1 DEF StepsLeft

(* A call that has not returned has a request left.                        *)
LEMMA OpenHasSomeLeft ==
    ASSUME TypeOK, NEW c \in Calls, pc[c] # "returned"
    PROVE  StepsLeft(c) \in 1..(MaxPolls + 4)
<1>1. pc[c] \in {"idle", "checking", "launching", "waiting"} /\ polls[c] \in 0..MaxPolls
  BY DEF TypeOK, Steps
<1> QED
  BY <1>1, LimitsAssumption DEF StepsLeft

(* No request leaves as many to make as there were before it.              *)
LEMMA EachCounts ==
    ASSUME TypeOK, NEW c \in Calls, CallStep(c)
    PROVE  StepsLeft(c)' < StepsLeft(c)
<1>1. ASSUME NEW o, Finish(c, o), pc[c] # "returned" PROVE StepsLeft(c)' < StepsLeft(c)
  BY <1>1, ReturnedHasNoneLeft, OpenHasSomeLeft
<1>2. CASE ReadStatus(c)
  <2>1. ASSUME Proceed(c, "checking") PROVE StepsLeft(c)' < StepsLeft(c)
    <3>1. pc[c] = "idle" /\ pc'[c] = "checking"
      BY <1>2, <2>1 DEF ReadStatus, Proceed, TypeOK
    <3> QED
      BY <3>1, LimitsAssumption DEF StepsLeft
  <2> QED
    BY <1>1, <1>2, <2>1 DEF ReadStatus
<1>3. CASE Verify(c)
  <2>1. ASSUME Proceed(c, "launching") PROVE StepsLeft(c)' < StepsLeft(c)
    <3>1. pc[c] = "checking" /\ pc'[c] = "launching"
      BY <1>3, <2>1 DEF Verify, Proceed, TypeOK
    <3> QED
      BY <3>1, LimitsAssumption DEF StepsLeft
  <2> QED
    BY <1>1, <1>3, <2>1 DEF Verify
<1>4. CASE Launch(c)
  <2>1. pc[c] = "launching" /\ pc'[c] = "waiting" /\ polls'[c] = polls[c] /\ polls[c] \in 0..MaxPolls
    BY <1>4 DEF Launch, Proceed, TypeOK
  <2> QED
    BY <2>1, LimitsAssumption DEF StepsLeft
<1>5. CASE SeeOver(c) \/ RequestFails(c)
  BY <1>1, <1>5 DEF SeeOver, RequestFails
<1>6. CASE SeeRunning(c)
  <2>1. ASSUME polls' = [polls EXCEPT ![c] = @ + 1], UNCHANGED pc PROVE StepsLeft(c)' < StepsLeft(c)
    <3>1. pc[c] = "waiting" /\ pc'[c] = "waiting" /\ polls'[c] = polls[c] + 1 /\ polls[c] \in 0..MaxPolls
      BY <1>6, <2>1 DEF SeeRunning, TypeOK
    <3> QED
      BY <3>1, LimitsAssumption DEF StepsLeft
  <2> QED
    BY <1>1, <1>6, <2>1 DEF SeeRunning
<1> QED
  BY <1>2, <1>3, <1>4, <1>5, <1>6 DEF CallStep

(* Every request of a call leaves it fewer to make, for any MaxPolls, any  *)
(* number of calls and exports that never end: what bounds a call, and     *)
(* what remains of CallsReturn without a word on fairness.                 *)
THEOREM StepsRunOut == Spec => EveryStepCounts
<1>1. TypeOK /\ [Next]_vars => [\A c \in Calls : CallStep(c) => StepsLeft(c)' < StepsLeft(c)]_vars
  BY EachCounts
<1> QED
  BY <1>1, TypeCorrect, PTL DEF Spec, EveryStepCounts

FewLeft ==
    \A c \in Calls :
        /\ StepsLeft(c) \in 0..(MaxPolls + 4)
        /\ StepsLeft(c) = 0 => pc[c] = "returned"

(* A call that has not returned is never without a request left, and never *)
(* has more than MaxPolls + 4.                                             *)
THEOREM StepsAreFew == Spec => []FewLeft
<1>1. TypeOK => FewLeft
  <2> SUFFICES ASSUME TypeOK, NEW c \in Calls
               PROVE  StepsLeft(c) \in 0..(MaxPolls + 4) /\ (StepsLeft(c) = 0 => pc[c] = "returned")
    BY DEF FewLeft
  <2>1. CASE pc[c] = "returned"
    BY <2>1, LimitsAssumption DEF StepsLeft
  <2>2. CASE pc[c] # "returned"
    BY <2>2, OpenHasSomeLeft, LimitsAssumption
  <2> QED
    BY <2>1, <2>2
<1> QED
  BY <1>1, TypeCorrect, PTL
=============================================================================
