------------------------ MODULE EngineCommandsProofs ------------------------
(***************************************************************************)
(* EngineCommands proved for any number of calls, services and polls: its  *)
(* types, that an acknowledgement reported as done is a new one, that      *)
(* nothing is left when a removal with services reports done, and that     *)
(* every call keeps the contract of its outcome.                           *)
(***************************************************************************)
EXTENDS EngineCommands, FiniteSetTheorems, TLAPS

(* Which steps a call can be at with nothing queued yet, and with          *)
(* something queued for certain.                                           *)
Before == {"idle", "listing", "sending"}
After == {"waiting", "counting", "watching"}

(* How far a call is, and what it has queued and returned by then.         *)
CallInv(c) ==
    /\ pc[c] \in Before => queued[c] = {}
    /\ pc[c] \in After => queued[c] # {}
    /\ outcome[c] = "open" <=> pc[c] # "returned"
    /\ pc[c] = "idle" => shown[c] = None

(* What makes an acknowledgement shown to an acknowledging call new: the   *)
(* call proceeded because it saw none, and acks are numbered by the run.   *)
NewInv(c) ==
    /\ target[c].runs <= runs
    /\ pc[c] = "listing" => req[c].op = "remove"
    /\ pc[c] \in {"sending", "waiting"} /\ req[c].op = "acknowledge" /\ ack[req[c].on] # None
          => ack[req[c].on].at > target[c].runs
    /\ req[c].op = "acknowledge" /\ shown[c] # None => shown[c].at > target[c].runs

(* An acknowledgement is numbered by the run that made it, and no run is   *)
(* ahead of the engine.                                                    *)
AcksRan == \A o \in Objects : ack[o] # None => ack[o].at <= runs

(* The inductive invariant.                                                *)
IInv ==
    /\ TypeOK
    /\ AcksRan
    /\ \A c \in Calls : CallInv(c)
    /\ \A c \in Calls : NewInv(c)

-----------------------------------------------------------------------------
(* Acknowledged services can be counted, all of them and one page of them. *)
LEMMA PagesCounted ==
    /\ Cardinality(AckedServices) \in Nat
    /\ \A S \in ReadServices : S \in SUBSET Services /\ Cardinality(S) \in Nat
<1>1. IsFiniteSet(AckedServices) /\ AckedServices \in SUBSET Services
  BY HostAssumption, FS_Subset DEF AckedServices
<1>2. ASSUME NEW S \in ReadServices PROVE S \in SUBSET Services /\ IsFiniteSet(S)
  <2>1. S \subseteq AckedServices
    BY DEF ReadServices
  <2> QED
    BY <1>1, <2>1, FS_Subset
<1> QED
  BY <1>1, <1>2, FS_CardinalityType

(* Whatever a wait ends with, the call goes on at a step and with an       *)
(* outcome of their types.                                                 *)
LEMMA AfterWaitType ==
    ASSUME TypeOK, NEW c \in Calls, NEW result \in {"done", "sent_not_visible_yet"}, AfterWait(c, result)
    PROVE  /\ pc' \in [Calls -> Steps]
           /\ polls' \in [Calls -> 0..MaxPolls]
           /\ state' \in [Calls -> {"done", "sent_not_visible_yet"}]
           /\ outcome' \in [Calls -> Outcomes]
<1>1. polls' \in [Calls -> 0..MaxPolls]
  <2>1. 0 \in 0..MaxPolls
    BY LimitsAssumption
  <2> QED
    BY <2>1 DEF AfterWait, TypeOK
<1>2. state' \in [Calls -> {"done", "sent_not_visible_yet"}]
  BY DEF AfterWait, TypeOK
<1>3. (\E step \in {"counting", "removing"} : Proceed(c, step)) \/ Finish(c, result)
  BY DEF AfterWait
<1>4. pc' \in [Calls -> Steps] /\ outcome' \in [Calls -> Outcomes]
  <2>1. ASSUME NEW step \in {"counting", "removing"}, Proceed(c, step)
        PROVE  pc' \in [Calls -> Steps] /\ outcome' \in [Calls -> Outcomes]
    <3>1. step \in Steps
      BY DEF Steps
    <3> QED
      BY <2>1, <3>1 DEF Proceed, TypeOK
  <2>2. ASSUME Finish(c, result)
        PROVE  pc' \in [Calls -> Steps] /\ outcome' \in [Calls -> Outcomes]
    <3>1. "returned" \in Steps /\ result \in Outcomes
      BY DEF Steps, Outcomes
    <3> QED
      BY <2>2, <3>1 DEF Finish, TypeOK
  <2> QED
    BY <1>3, <2>1, <2>2
<1> QED
  BY <1>1, <1>2, <1>4

(* A queued command is a command.                                          *)
LEMMA QueueType ==
    ASSUME TypeOK, NEW c \in Calls, NEW op \in Ops, NEW objects \in SUBSET Objects, Queue(c, op, objects)
    PROVE  queue' \in Seq(Command) /\ queued' \in [Calls -> SUBSET Objects]
<1>1. [op |-> op, on |-> objects, call |-> c] \in Command
  BY DEF Command
<1> QED
  BY <1>1 DEF Queue, TypeOK

(* TypeOK is inductive.                                                    *)
LEMMA TypeInit == Init => TypeOK
<1>1. NoRequest \in Request
  BY DEF NoRequest, Request, Ops, Objects
<1> QED
  BY <1>1, LimitsAssumption DEF Init, TypeOK, Target, Ack, Earlier, Steps, Outcomes

(* Every step keeps the types: one case per action.                        *)
LEMMA TypeNext == TypeOK /\ [Next]_vars => TypeOK'
<1> SUFFICES ASSUME TypeOK, [Next]_vars PROVE TypeOK'
  OBVIOUS
<1>1. CASE UNCHANGED vars
  BY <1>1 DEF TypeOK, vars, engine, call
<1>2. ASSUME NEW o \in Objects, StateChange(o) PROVE TypeOK'
  BY <1>2 DEF TypeOK, StateChange, call
<1>3. ASSUME NEW o \in Objects, RegularCheck(o) PROVE TypeOK'
  BY <1>3, LimitsAssumption DEF TypeOK, RegularCheck, call
<1>4. CASE RunCommand
  <2>1. Head(queue) \in Command /\ Tail(queue) \in Seq(Command)
    BY <1>4 DEF RunCommand, TypeOK
  <2>2. ack' \in [Objects -> Ack \cup {None}]
    <3>1. [by |-> Head(queue).call, at |-> runs + 1] \in Ack
      BY <2>1 DEF TypeOK, Ack, Command
    <3>2. ack \in [Objects -> Ack \cup {None}]
      BY DEF TypeOK
    <3>3. \/ ack' = [o \in Objects |-> IF o \in Head(queue).on /\ problem[o]
                                      THEN [by |-> Head(queue).call, at |-> runs + 1] ELSE ack[o]]
          \/ ack' = [o \in Objects |-> IF o \in Head(queue).on THEN None ELSE ack[o]]
          \/ ack' = ack
      BY <1>4 DEF RunCommand
    <3> QED
      BY <3>1, <3>2, <3>3
  <2>3. checks' \in [Objects -> Nat]
    BY <1>4, <2>1 DEF RunCommand, TypeOK
  <2> QED
    BY <1>4, <2>1, <2>2, <2>3 DEF RunCommand, TypeOK, call
<1>5. ASSUME NEW c \in Calls, Look(c) PROVE TypeOK'
  <2>1. PICK r \in Request :
           /\ req' = [req EXCEPT ![c] = r]
           /\ target' = [target EXCEPT ![c] = [ack |-> ack[r.on], checks |-> checks[r.on], runs |-> runs]]
    BY <1>5 DEF Look
  <2>2. [ack |-> ack[r.on], checks |-> checks[r.on], runs |-> runs] \in Target
    BY DEF TypeOK, Request, Target
  <2>3. pc' \in [Calls -> Steps] /\ outcome' \in [Calls -> Outcomes]
    <3>1. (\E step \in {"sending", "listing"} : Proceed(c, step)) \/ Finish(c, "not_sent")
      BY <1>5 DEF Look, DecideAcknowledge, DecideReschedule, DecideRemove
    <3> QED
      BY <3>1 DEF Finish, Proceed, TypeOK, Steps, Outcomes
  <2> QED
    BY <1>5, <2>1, <2>2, <2>3 DEF Look, TypeOK, engine
<1>6. ASSUME NEW c \in Calls, ListServices(c) PROVE TypeOK'
  <2>1. PICK S \in ReadServices : todo' = [todo EXCEPT ![c] = S]
    BY <1>6 DEF ListServices
  <2>2. todo' \in [Calls -> SUBSET Services]
    BY <2>1, PagesCounted DEF TypeOK
  <2>3. pc' \in [Calls -> Steps] /\ outcome' \in [Calls -> Outcomes]
    BY <1>6 DEF ListServices, Finish, Proceed, TypeOK, Steps, Outcomes
  <2> QED
    BY <1>6, <2>2, <2>3 DEF ListServices, TypeOK, engine
<1>7. ASSUME NEW c \in Calls, ReadFails(c) PROVE TypeOK'
  BY <1>7 DEF ReadFails, Finish, TypeOK, Steps, Outcomes, engine
<1>8. ASSUME NEW c \in Calls, Send(c) PROVE TypeOK'
  <2>1. req[c].op \in Ops /\ Covered(c) \in SUBSET Objects
    BY DEF TypeOK, Request, Covered
  <2>2. queue' \in Seq(Command) /\ queued' \in [Calls -> SUBSET Objects]
    BY <1>8, <2>1, QueueType DEF Send
  <2> QED
    BY <1>8, <2>2, LimitsAssumption DEF Send, Queue, Proceed, TypeOK, Steps
<1>9. ASSUME NEW c \in Calls, RemoveNext(c) PROVE TypeOK'
  <2>1. PICK s \in todo[c] : Queue(c, "remove", {s}) /\ todo' = [todo EXCEPT ![c] = @ \ {s}]
    BY <1>9 DEF RemoveNext
  <2>2. {s} \in SUBSET Objects
    BY <2>1 DEF TypeOK, Objects
  <2>3. queue' \in Seq(Command) /\ queued' \in [Calls -> SUBSET Objects]
    BY <2>1, <2>2, QueueType DEF Ops
  <2>4. pc' \in [Calls -> Steps] /\ outcome' = outcome
    BY <1>9 DEF RemoveNext, Proceed, TypeOK, Steps
  <2> QED
    BY <1>9, <2>1, <2>3, <2>4, LimitsAssumption DEF RemoveNext, Queue, TypeOK
<1>10. ASSUME NEW c \in Calls, SendFails(c) PROVE TypeOK'
  <2>1. queue' \in Seq(Command) /\ queued' \in [Calls -> SUBSET Objects] /\ UNCHANGED <<problem, ack, checks, runs>>
    <3>1. CASE UNCHANGED <<engine, queued>>
      BY <3>1 DEF TypeOK, engine
    <3>2. CASE Queue(c, req[c].op, Covered(c))
      <4>1. req[c].op \in Ops /\ Covered(c) \in SUBSET Objects
        BY DEF TypeOK, Request, Covered
      <4> QED
        BY <3>2, <4>1, QueueType DEF Queue
    <3>3. ASSUME NEW s \in todo[c], Queue(c, "remove", {s})
          PROVE  queue' \in Seq(Command) /\ queued' \in [Calls -> SUBSET Objects] /\ UNCHANGED <<problem, ack, checks, runs>>
      <4>1. {s} \in SUBSET Objects
        BY DEF TypeOK, Objects
      <4> QED
        BY <3>3, <4>1, QueueType DEF Queue, Ops
    <3> QED
      BY <1>10, <3>1, <3>2, <3>3 DEF SendFails
  <2> QED
    BY <1>10, <2>1 DEF SendFails, Finish, TypeOK, Steps, Outcomes
<1>11. ASSUME NEW c \in Calls, SeeChange(c) PROVE TypeOK'
  <2>1. ack[req[c].on] \in Ack \cup {None}
    BY DEF TypeOK, Request
  <2> QED
    BY <1>11, <2>1, AfterWaitType DEF SeeChange, TypeOK, engine
<1>12. ASSUME NEW c \in Calls, SeeNothing(c) PROVE TypeOK'
  <2>1. polls[c] + 1 \in 0..MaxPolls
    BY <1>12, LimitsAssumption DEF SeeNothing, TimeLeft, TypeOK
  <2> QED
    BY <1>12, <2>1 DEF SeeNothing, TypeOK, engine
<1>13. ASSUME NEW c \in Calls, GiveUp(c) PROVE TypeOK'
  BY <1>13, AfterWaitType DEF GiveUp, TypeOK, engine
<1>14. ASSUME NEW c \in Calls, CountServices(c) PROVE TypeOK'
  BY <1>14 DEF CountServices, Finish, TypeOK, Steps, Outcomes, engine
<1>15. ASSUME NEW c \in Calls, SeeNoneLeft(c) PROVE TypeOK'
  BY <1>15 DEF SeeNoneLeft, Finish, TypeOK, Steps, Outcomes, engine
<1>16. ASSUME NEW c \in Calls, SeeSomeLeft(c) PROVE TypeOK'
  <2>1. polls[c] + 1 \in 0..MaxPolls
    BY <1>16, LimitsAssumption DEF SeeSomeLeft, TimeLeft, TypeOK
  <2> QED
    BY <1>16, <2>1 DEF SeeSomeLeft, TypeOK, engine
<1>17. ASSUME NEW c \in Calls, GiveUpServices(c) PROVE TypeOK'
  BY <1>17 DEF GiveUpServices, Finish, TypeOK, Steps, Outcomes, engine
<1> QED
  BY <1>1, <1>2, <1>3, <1>4, <1>5, <1>6, <1>7, <1>8, <1>9, <1>10, <1>11, <1>12, <1>13, <1>14,
     <1>15, <1>16, <1>17 DEF Next, CallStep

-----------------------------------------------------------------------------
(* What a call's step leaves of the other calls.                           *)
LEMMA OthersKept ==
    ASSUME TypeOK, NEW c \in Calls, CallStep(c), NEW d \in Calls, d # c
    PROVE  /\ pc'[d] = pc[d] /\ queued'[d] = queued[d] /\ outcome'[d] = outcome[d]
           /\ shown'[d] = shown[d] /\ target'[d] = target[d] /\ req'[d] = req[d]
<1>1. pc'[d] = pc[d] /\ outcome'[d] = outcome[d]
  <2>1. (\E step \in Steps : pc' = [pc EXCEPT ![c] = step]) \/ pc' = pc
    BY DEF CallStep, Look, DecideAcknowledge, DecideReschedule, DecideRemove, ListServices, ReadFails, Send, RemoveNext, SendFails, SeeChange, SeeNothing,
           GiveUp, CountServices, SeeNoneLeft, SeeSomeLeft, GiveUpServices, AfterWait, Finish, Proceed, Steps
  <2>2. (\E o : outcome' = [outcome EXCEPT ![c] = o]) \/ outcome' = outcome
    BY DEF CallStep, Look, DecideAcknowledge, DecideReschedule, DecideRemove, ListServices, ReadFails, Send, RemoveNext, SendFails, SeeChange, SeeNothing,
           GiveUp, CountServices, SeeNoneLeft, SeeSomeLeft, GiveUpServices, AfterWait, Finish, Proceed
  <2> QED
    BY <2>1, <2>2 DEF TypeOK
<1>2. queued'[d] = queued[d]
  BY DEF CallStep, Look, ListServices, ReadFails, Send, RemoveNext, SendFails, SeeChange, SeeNothing,
         GiveUp, CountServices, SeeNoneLeft, SeeSomeLeft, GiveUpServices, Queue, TypeOK
<1>3. shown'[d] = shown[d]
  BY DEF CallStep, Look, ListServices, ReadFails, Send, RemoveNext, SendFails, SeeChange, SeeNothing,
         GiveUp, CountServices, SeeNoneLeft, SeeSomeLeft, GiveUpServices, TypeOK
<1>4. target'[d] = target[d] /\ req'[d] = req[d]
  BY DEF CallStep, Look, ListServices, ReadFails, Send, RemoveNext, SendFails, SeeChange, SeeNothing,
         GiveUp, CountServices, SeeNoneLeft, SeeSomeLeft, GiveUpServices, TypeOK
<1> QED
  BY <1>1, <1>2, <1>3, <1>4

(* A call's own step keeps what is known of it.                            *)
LEMMA CallNext ==
    ASSUME TypeOK, NEW c \in Calls, CallInv(c), CallStep(c)
    PROVE  CallInv(c)'
<1>1. CASE Look(c)
  <2>1. pc[c] = "idle" /\ queued' = queued /\ shown' = shown
    BY <1>1 DEF Look
  <2>2. (\E step \in {"sending", "listing"} : Proceed(c, step)) \/ Finish(c, "not_sent")
    BY <1>1 DEF Look, DecideAcknowledge, DecideReschedule, DecideRemove
  <2> QED
    BY <2>1, <2>2 DEF CallInv, Before, After, Proceed, Finish, TypeOK
<1>2. CASE ListServices(c)
  <2>1. pc[c] = "listing" /\ queued' = queued /\ shown' = shown
    BY <1>2 DEF ListServices
  <2>2. (\E step \in {"sending", "removing"} : Proceed(c, step)) \/ Finish(c, "not_sent")
    BY <1>2 DEF ListServices
  <2> QED
    BY <2>1, <2>2 DEF CallInv, Before, After, Proceed, Finish, TypeOK
<1>3. CASE ReadFails(c) \/ SendFails(c)
  BY <1>3 DEF CallInv, Before, After, ReadFails, SendFails, Finish, TypeOK
<1>4. CASE Send(c)
  <2>1. Covered(c) # {}
    BY DEF Covered, Objects
  <2>2. queued'[c] # {}
    BY <1>4, <2>1 DEF Send, Queue, TypeOK
  <2> QED
    BY <1>4, <2>2 DEF CallInv, Before, After, Send, Proceed, TypeOK
<1>5. CASE RemoveNext(c)
  <2>1. queued'[c] # {}
    BY <1>5 DEF RemoveNext, Queue, TypeOK
  <2>2. \E step \in {"watching", "removing"} : Proceed(c, step)
    BY <1>5 DEF RemoveNext
  <2> QED
    BY <1>5, <2>1, <2>2 DEF CallInv, Before, After, RemoveNext, Proceed, TypeOK
<1>6. CASE SeeChange(c) \/ GiveUp(c)
  <2>1. pc[c] = "waiting" /\ queued' = queued
    BY <1>6 DEF SeeChange, GiveUp
  <2>2. (\E step \in {"counting", "removing"} : Proceed(c, step)) \/ (\E o \in {"done", "sent_not_visible_yet"} : Finish(c, o))
    BY <1>6 DEF SeeChange, GiveUp, AfterWait
  <2> QED
    BY <2>1, <2>2 DEF CallInv, Before, After, Proceed, Finish, TypeOK
<1>7. CASE SeeNothing(c) \/ SeeSomeLeft(c)
  BY <1>7 DEF CallInv, SeeNothing, SeeSomeLeft, Before, After
<1>8. CASE CountServices(c) \/ SeeNoneLeft(c)
  <2>1. state[c] # "open"
    BY DEF TypeOK
  <2> QED
    BY <1>8, <2>1 DEF CallInv, Before, After, CountServices, SeeNoneLeft, Finish, TypeOK
<1>9. CASE GiveUpServices(c)
  BY <1>9 DEF CallInv, Before, After, GiveUpServices, Finish, TypeOK
<1> QED
  BY <1>1, <1>2, <1>3, <1>4, <1>5, <1>6, <1>7, <1>8, <1>9 DEF CallStep

(* What the engine and the world do leaves an acknowledgement a call has   *)
(* seen none of newer than the call's look.                                *)
LEMMA NewByEngine ==
    ASSUME TypeOK, AcksRan, UNCHANGED call,
           RunCommand \/ \E o \in Objects : StateChange(o) \/ RegularCheck(o)
    PROVE  AcksRan' /\ \A c \in Calls : NewInv(c) => NewInv(c)'
<1>1. runs' \in Nat /\ runs' >= runs
  BY DEF RunCommand, StateChange, RegularCheck, TypeOK
<1>2. \A o \in Objects : ack'[o] # None => ack'[o] = ack[o] \/ (ack'[o].at = runs + 1 /\ runs' = runs + 1)
  BY DEF RunCommand, StateChange, RegularCheck, TypeOK
<1>3. AcksRan'
  <2>1. \A o \in Objects : ack[o] # None => ack[o].at \in Nat /\ ack[o].at <= runs
    BY DEF AcksRan, TypeOK, Ack
  <2> QED
    <3> SUFFICES ASSUME NEW o \in Objects, ack'[o] # None PROVE ack'[o].at <= runs'
      BY DEF AcksRan
    <3>1. CASE ack'[o] = ack[o]
      BY <1>1, <2>1, <3>1 DEF TypeOK
    <3>2. CASE ack'[o].at = runs + 1 /\ runs' = runs + 1
      BY <1>1, <3>2
    <3> QED
      BY <1>2, <3>1, <3>2
<1>4. ASSUME NEW c \in Calls, NewInv(c) PROVE NewInv(c)'
  <2>1. target[c].runs \in Nat /\ req[c].on \in Objects /\ target[c].runs <= runs
    BY <1>4 DEF TypeOK, Target, Request, NewInv
  <2> QED
    BY <1>1, <1>2, <1>4, <2>1 DEF NewInv, call, TypeOK
<1> QED
  BY <1>3, <1>4

(* So do the call's own steps: it goes on only when it saw none.           *)
LEMMA NewByCall ==
    ASSUME TypeOK, AcksRan, NEW c \in Calls, CallInv(c), NewInv(c), CallStep(c)
    PROVE  NewInv(c)'
<1>1. UNCHANGED <<ack, runs>>
  BY DEF CallStep, Look, ListServices, ReadFails, Send, RemoveNext, SendFails, SeeChange, SeeNothing,
         GiveUp, CountServices, SeeNoneLeft, SeeSomeLeft, GiveUpServices, Queue, engine
<1>2. CASE Look(c)
  <2>1. PICK r \in Request :
           /\ req' = [req EXCEPT ![c] = r]
           /\ target' = [target EXCEPT ![c] = [ack |-> ack[r.on], checks |-> checks[r.on], runs |-> runs]]
           /\ r.op = "acknowledge" => ack[r.on] = None \/ Finish(c, "not_sent")
           /\ r.op = "remove" \/ Proceed(c, "sending") \/ Finish(c, "not_sent")
    BY <1>2 DEF Look, DecideAcknowledge, DecideReschedule, DecideRemove, Acknowledgeable
  <2>2. pc[c] = "idle" /\ shown' = shown /\ shown[c] = None
    BY <1>2 DEF Look, CallInv
  <2>3. req'[c] = r /\ target'[c].runs = runs
    BY <2>1 DEF TypeOK
  <2>4. r.op = "acknowledge" => ack[r.on] = None \/ pc'[c] = "returned"
    BY <2>1 DEF Finish, TypeOK
  <2>5. r.op = "remove" \/ pc'[c] # "listing"
    BY <2>1 DEF Finish, Proceed, TypeOK
  <2> QED
    BY <1>1, <2>2, <2>3, <2>4, <2>5 DEF NewInv, TypeOK
<1>3. CASE SeeChange(c)
  <2>1. pc[c] = "waiting" /\ shown'[c] = ack[req[c].on] /\ UNCHANGED <<req, target>>
    BY <1>3 DEF SeeChange, TypeOK
  <2>2. pc'[c] \notin {"listing", "sending", "waiting"}
    <3>1. (\E step \in {"counting", "removing"} : Proceed(c, step)) \/ Finish(c, "done")
      BY <1>3 DEF SeeChange, AfterWait
    <3> QED
      BY <3>1 DEF Proceed, Finish, TypeOK
  <2> QED
    BY <1>1, <2>1, <2>2 DEF NewInv
<1>4. CASE Send(c)
  BY <1>1, <1>4 DEF NewInv, Send, Proceed, TypeOK
<1>5. CASE ListServices(c)
  <2>1. pc[c] = "listing" /\ req[c].op = "remove" /\ UNCHANGED <<req, target, shown>>
    BY <1>5 DEF ListServices, NewInv
  <2> QED
    BY <1>1, <2>1 DEF NewInv
<1>6. CASE SeeNothing(c)
  BY <1>1, <1>6 DEF NewInv, SeeNothing
<1>7. CASE \/ ReadFails(c) \/ RemoveNext(c) \/ SendFails(c) \/ GiveUp(c) \/ CountServices(c)
           \/ SeeNoneLeft(c) \/ SeeSomeLeft(c) \/ GiveUpServices(c)
  <2>1. UNCHANGED <<req, target, shown>>
    BY <1>7 DEF ReadFails, RemoveNext, SendFails, GiveUp, CountServices, SeeNoneLeft, SeeSomeLeft, GiveUpServices
  <2>2. pc'[c] \notin {"listing", "sending", "waiting"}
    BY <1>7 DEF ReadFails, RemoveNext, SendFails, GiveUp, CountServices, SeeNoneLeft, SeeSomeLeft,
       GiveUpServices, AfterWait, Finish, Proceed, TypeOK
  <2> QED
    BY <1>1, <2>1, <2>2 DEF NewInv
<1> QED
  BY <1>2, <1>3, <1>4, <1>5, <1>6, <1>7 DEF CallStep

-----------------------------------------------------------------------------
(* The inductive invariant holds at the start ...                          *)
LEMMA InvariantInit == Init => IInv
<1> SUFFICES ASSUME Init PROVE IInv
  OBVIOUS
<1>1. TypeOK
  BY TypeInit
<1>2. AcksRan
  BY <1>1 DEF Init, AcksRan, Earlier, None, Objects
<1>3. \A c \in Calls : CallInv(c)
  BY DEF Init, CallInv, Before, After
<1>4. \A c \in Calls : NewInv(c)
  BY DEF Init, NewInv
<1> QED
  BY <1>1, <1>2, <1>3, <1>4 DEF IInv

(* ... and every step keeps it.                                            *)
LEMMA InvariantNext == IInv /\ [Next]_vars => IInv'
<1> SUFFICES ASSUME IInv, [Next]_vars PROVE IInv'
  OBVIOUS
<1>1. TypeOK' /\ TypeOK
  BY TypeNext DEF IInv
<1>2. CASE UNCHANGED vars
  <2>1. UNCHANGED <<ack, runs, pc, queued, outcome, shown, target, req>>
    BY <1>2 DEF vars, engine, call
  <2>2. AcksRan'
    BY <2>1 DEF IInv, AcksRan
  <2>3. \A c \in Calls : CallInv(c)' /\ NewInv(c)'
    BY <2>1 DEF IInv, CallInv, NewInv
  <2> QED
    BY <1>1, <2>2, <2>3 DEF IInv
<1>3. CASE RunCommand \/ \E o \in Objects : StateChange(o) \/ RegularCheck(o)
  <2>1. UNCHANGED call
    BY <1>3 DEF RunCommand, StateChange, RegularCheck
  <2>2. \A c \in Calls : CallInv(c)'
    BY <2>1 DEF IInv, CallInv, call
  <2> QED
    BY <1>1, <1>3, <2>1, <2>2, NewByEngine DEF IInv
<1>4. ASSUME NEW c \in Calls, CallStep(c) PROVE IInv'
  <2>1. UNCHANGED <<ack, runs>>
    BY <1>4 DEF CallStep, Look, ListServices, ReadFails, Send, RemoveNext, SendFails, SeeChange, SeeNothing,
         GiveUp, CountServices, SeeNoneLeft, SeeSomeLeft, GiveUpServices, Queue, engine
  <2>2. AcksRan'
    BY <2>1 DEF IInv, AcksRan
  <2>3. CallInv(c)' /\ NewInv(c)'
    BY <1>1, <1>4, CallNext, NewByCall DEF IInv
  <2>4. ASSUME NEW d \in Calls, d # c PROVE CallInv(d)' /\ NewInv(d)'
    <3>1. /\ pc'[d] = pc[d] /\ queued'[d] = queued[d] /\ outcome'[d] = outcome[d]
          /\ shown'[d] = shown[d] /\ target'[d] = target[d] /\ req'[d] = req[d]
      BY <1>1, <1>4, <2>4, OthersKept
    <3> QED
      BY <2>1, <3>1 DEF IInv, CallInv, NewInv
  <2> QED
    BY <1>1, <2>2, <2>3, <2>4 DEF IInv
<1> QED
  BY <1>2, <1>3, <1>4 DEF Next

(* The strengthening holds always; the properties below follow from it.    *)
THEOREM Invariance == Spec => []IInv
<1> QED
  BY InvariantInit, InvariantNext, PTL DEF Spec

(* Every variable keeps its type, for any number of calls and services.    *)
THEOREM TypeCorrect == Spec => []TypeOK
<1>1. IInv => TypeOK
  BY DEF IInv
<1> QED
  BY <1>1, Invariance, PTL

(* An acknowledgement a call of acknowledge_problem reports as done was    *)
(* made by a command the engine ran after the call had looked.             *)
THEOREM DoneShowsNew == Spec => []DoneIsNew
<1>1. IInv => DoneIsNew
  BY DEF IInv, NewInv, DoneIsNew
<1> QED
  BY <1>1, Invariance, PTL

(* An empty page of acknowledged services means that there is none.        *)
LEMMA NoneReadIsNone == ReadServices = {{}} => AckedServices = {}
<1> SUFFICES ASSUME ReadServices = {{}} PROVE AckedServices = {}
  OBVIOUS
<1>1. IsFiniteSet(AckedServices)
  BY HostAssumption, FS_Subset DEF AckedServices
<1>2. Cardinality({}) = 0
  BY FS_EmptySet
<1>3. Cardinality(AckedServices) = 0
  BY <1>2, PagesCounted, LimitsAssumption DEF ReadServices
<1> QED
  BY <1>1, <1>3, FS_EmptySet

(* remove_acknowledgement with_services that commanded services says done  *)
(* only when none is acknowledged, for every number of services and every  *)
(* SERVICES_READ, also when they do not fit one page.                      *)
THEOREM NothingIsLeft == Spec => DoneLeavesNone
<1>1. ASSUME TypeOK, [Next]_vars, NEW c \in Calls,
             pc[c] = "watching", outcome'[c] = "done", outcome[c] # "done"
      PROVE  AckedServices = {}
  <2>1. outcome'[c] # outcome[c]
    BY <1>1
  <2>2. CallStep(c)
    <3>1. CASE UNCHANGED call
      BY <2>1, <3>1 DEF call
    <3>2. ASSUME NEW d \in Calls, CallStep(d) PROVE d = c
      BY <1>1, <2>1, <3>2, OthersKept
    <3> QED
      BY <1>1, <3>1, <3>2 DEF Next, vars, RunCommand, StateChange, RegularCheck
  <2>3. SeeNoneLeft(c)
    BY <1>1, <2>2 DEF CallStep, Look, ListServices, ReadFails, Send, RemoveNext, SendFails, SeeChange,
         SeeNothing, GiveUp, CountServices, SeeSomeLeft, GiveUpServices, Finish, TypeOK
  <2> QED
    BY <2>3, NoneReadIsNone DEF SeeNoneLeft
<1>2. TypeOK /\ [Next]_vars =>
        [\A c \in Calls : (pc[c] = "watching" /\ outcome'[c] = "done" /\ outcome[c] # "done") => AckedServices = {}]_vars
  BY <1>1
<1> QED
  BY <1>2, TypeCorrect, PTL DEF Spec, DoneLeavesNone

-----------------------------------------------------------------------------
(* The contract: a call's steps map to Send, SendAndRaise, Refuse, Report  *)
(* or Raise of CommandContract, and everything else to a stutter.          *)
Sent == {c \in Calls : queued[c] # {}}

(* Every step maps to a step of the contract or to a stutter.              *)
LEMMA ContractStep == IInv /\ [Next]_vars => [Contract!Next]_<<Sent, outcome>>
<1> SUFFICES ASSUME IInv, [Next]_vars PROVE [Contract!Next]_<<Sent, outcome>>
  OBVIOUS
<1>1. CASE UNCHANGED vars
  BY <1>1 DEF vars, call, Sent
<1>2. CASE RunCommand \/ \E o \in Objects : StateChange(o) \/ RegularCheck(o)
  BY <1>2 DEF RunCommand, StateChange, RegularCheck, call, Sent
<1>3. ASSUME NEW c \in Calls, CallStep(c) PROVE [Contract!Next]_<<Sent, outcome>>
  <2>1. TypeOK /\ CallInv(c) /\ CallInv(c)'
    BY <1>3, CallNext DEF IInv
  <2>2. pc[c] # "returned" => Contract!Open(c)
    BY <2>1 DEF CallInv, Contract!Open
  <2>3. ASSUME queued' = queued PROVE Sent' = Sent
    BY <2>3 DEF Sent
  <2>4. ASSUME NEW op, NEW objects, objects # {}, Queue(c, op, objects) PROVE Sent' = Sent \cup {c}
    BY <2>1, <2>4 DEF Sent, Queue, TypeOK
  <2>5. Covered(c) # {}
    BY DEF Covered, Objects
  <2>6. CASE Look(c) \/ ListServices(c)
    <3>1. pc[c] \in {"idle", "listing"} /\ queued' = queued
      BY <2>6 DEF Look, ListServices
    <3>2. outcome' = outcome \/ Finish(c, "not_sent")
      BY <2>6 DEF Look, DecideAcknowledge, DecideReschedule, DecideRemove, ListServices, Proceed
    <3>3. c \notin Sent
      BY <2>1, <3>1 DEF CallInv, Before, Sent
    <3>4. CASE Finish(c, "not_sent")
      <4>1. Contract!Refuse(c)
        BY <2>2, <2>3, <3>1, <3>3, <3>4 DEF Contract!Refuse, Contract!Return, Finish, Sent
      <4> QED
        BY <4>1 DEF Contract!Next
    <3> QED
      BY <2>3, <3>1, <3>2, <3>4
  <2>7. CASE ReadFails(c)
    <3>1. Contract!Raise(c)
      BY <2>2, <2>3, <2>7 DEF ReadFails, Finish, Contract!Raise, Contract!Return, Sent
    <3> QED
      BY <3>1 DEF Contract!Next
  <2>8. CASE Send(c) \/ RemoveNext(c)
    <3>1. Sent' = Sent \cup {c}
      BY <2>4, <2>5, <2>8 DEF Send, RemoveNext
    <3>2. Contract!Send(c)
      BY <2>2, <2>8, <3>1 DEF Send, RemoveNext, Proceed, Contract!Send, Sent
    <3> QED
      BY <3>2 DEF Contract!Next
  <2>9. CASE SendFails(c)
    <3>1. Sent' = Sent \/ Sent' = Sent \cup {c}
      BY <2>3, <2>4, <2>5, <2>9 DEF SendFails
    <3>2. Contract!Raise(c) \/ Contract!SendAndRaise(c)
      BY <2>2, <2>9, <3>1 DEF SendFails, Finish, Contract!Raise, Contract!Return, Contract!SendAndRaise, Sent
    <3> QED
      BY <3>2 DEF Contract!Next
  <2>10. CASE \/ SeeChange(c) \/ SeeNothing(c) \/ GiveUp(c) \/ CountServices(c)
              \/ SeeNoneLeft(c) \/ SeeSomeLeft(c) \/ GiveUpServices(c)
    <3>1. pc[c] \in After /\ queued' = queued
      BY <2>10 DEF SeeChange, SeeNothing, GiveUp, CountServices, SeeNoneLeft, SeeSomeLeft, GiveUpServices, After
    <3>2. outcome' = outcome \/ \E o \in {"done", "sent_not_visible_yet"} : Finish(c, o)
      <4>1. state[c] \in {"done", "sent_not_visible_yet"}
        BY <2>1 DEF TypeOK
      <4> QED
        BY <2>10, <4>1 DEF SeeChange, SeeNothing, GiveUp, CountServices, SeeNoneLeft, SeeSomeLeft,
           GiveUpServices, AfterWait, Proceed
    <3>3. c \in Sent
      BY <2>1, <3>1 DEF CallInv, Sent
    <3>4. ASSUME NEW o \in {"done", "sent_not_visible_yet"}, Finish(c, o) PROVE Contract!Report(c)
      BY <2>2, <2>3, <3>1, <3>3, <3>4 DEF Contract!Report, Contract!Return, Finish, After, Sent
    <3> QED
      BY <2>3, <3>1, <3>2, <3>4 DEF Contract!Next
  <2> QED
    BY <1>3, <2>6, <2>7, <2>8, <2>9, <2>10 DEF CallStep
<1> QED
  BY <1>1, <1>2, <1>3 DEF Next

(* Every call keeps the contract of its outcome field, for any number of   *)
(* calls and whatever fails: EngineCommands implements CommandContract.    *)
THEOREM ContractKept == Spec => KeepsContract
<1>1. Init => Contract!Init
  BY DEF Init, Contract!Init
<1>2. IInv /\ [Next]_vars => [Contract!Next]_<<{c \in Calls : queued[c] # {}}, outcome>>
  BY ContractStep DEF Sent
<1> QED
  BY <1>1, <1>2, Invariance, PTL DEF Spec, KeepsContract, Contract!Spec

-----------------------------------------------------------------------------
(* Every call makes finitely many requests.                                *)

(* How many requests a call can still make: it waits twice at most, each   *)
(* time for as many reads as there is time for, and commands the services  *)
(* of one page at most.                                                    *)
StepsLeft(c) ==
    LET wait == MaxPolls + 1
        reads == wait - polls[c]
        removals == Cardinality(todo[c])
    IN  [idle |-> 3 + 2 * wait + SERVICES_READ, listing |-> 2 + 2 * wait + SERVICES_READ,
         sending |-> 1 + 2 * wait + removals, waiting |-> reads + wait + removals,
         counting |-> 1, removing |-> wait + removals, watching |-> reads, returned |-> 0][pc[c]]

(* Every request a call makes leaves it fewer to make, whatever the engine *)
(* and the other calls do between them: commands that never run, changes   *)
(* that come and go, and services acknowledged again while it removes them *)
(* cannot keep it going.                                                   *)
EveryStepCounts == [][\A c \in Calls : CallStep(c) => StepsLeft(c)' < StepsLeft(c)]_vars

(* Nothing is left to remove for a call that has not begun.                *)
NothingYet == \A c \in Calls : pc[c] = "idle" => todo[c] = {}

(* No step goes back to idle, and none gives an idle call something to     *)
(* remove.                                                                 *)
LEMMA NothingYetKept == TypeOK /\ NothingYet /\ [Next]_vars => NothingYet'
<1> SUFFICES ASSUME TypeOK, NothingYet, [Next]_vars, NEW c \in Calls, pc'[c] = "idle" PROVE todo'[c] = {}
  BY DEF NothingYet
<1>1. CASE UNCHANGED call
  BY <1>1 DEF call, NothingYet
<1>2. ASSUME NEW d \in Calls, CallStep(d) PROVE todo'[c] = {}
  <2>1. pc'[d] # "idle" \/ UNCHANGED <<pc, todo>>
    <3>1. (\E step \in Steps \ {"idle"} : pc' = [pc EXCEPT ![d] = step]) \/ UNCHANGED <<pc, todo>>
      BY <1>2 DEF CallStep, Look, DecideAcknowledge, DecideReschedule, DecideRemove, ListServices, ReadFails,
         Send, RemoveNext, SendFails, SeeChange, SeeNothing, GiveUp, CountServices, SeeNoneLeft, SeeSomeLeft,
         GiveUpServices, AfterWait, Finish, Proceed, Steps
    <3> QED
      BY <3>1 DEF TypeOK
  <2>2. c # d => pc'[c] = pc[c] /\ todo'[c] = todo[c]
    <3>1. c # d => todo'[c] = todo[c]
      BY <1>2 DEF CallStep, Look, ListServices, ReadFails, Send, RemoveNext, SendFails, SeeChange, SeeNothing,
         GiveUp, CountServices, SeeNoneLeft, SeeSomeLeft, GiveUpServices, TypeOK
    <3> QED
      BY <1>2, <3>1, OthersKept
  <2> QED
    BY <2>1, <2>2 DEF NothingYet
<1> QED
  BY <1>1, <1>2 DEF Next, vars, RunCommand, StateChange, RegularCheck

(* What a call still has to remove, it can count.                          *)
LEMMA TodoCounted ==
    ASSUME TypeOK, NEW c \in Calls
    PROVE  /\ IsFiniteSet(todo[c]) /\ Cardinality(todo[c]) \in Nat
           /\ \A s \in todo[c] : Cardinality(todo[c] \ {s}) = Cardinality(todo[c]) - 1
<1>1. todo[c] \in SUBSET Services
  BY DEF TypeOK
<1>2. IsFiniteSet(todo[c])
  BY <1>1, HostAssumption, FS_Subset
<1> QED
  BY <1>2, FS_CardinalityType, FS_RemoveElement

(* A page of services has at most SERVICES_READ of them.                   *)
LEMMA PageIsShort ==
    ASSUME NEW S \in ReadServices
    PROVE  Cardinality(S) \in 0..SERVICES_READ
<1>1. Cardinality(AckedServices) \in Nat
  BY PagesCounted
<1>2. Cardinality(AckedServices) <= SERVICES_READ => Cardinality(S) = Cardinality(AckedServices)
  BY DEF ReadServices
<1>3. ~(Cardinality(AckedServices) <= SERVICES_READ) => Cardinality(S) = SERVICES_READ
  BY DEF ReadServices
<1> QED
  BY <1>1, <1>2, <1>3, LimitsAssumption

(* The most a call can have left.                                          *)
MostSteps == 3 + 2 * (MaxPolls + 1) + SERVICES_READ

(* What is left at each step of a call.                                    *)
LEMMA LeftAt ==
    ASSUME TypeOK, NEW c \in Calls
    PROVE  /\ pc[c] = "idle" => StepsLeft(c) = MostSteps
           /\ pc[c] = "listing" => StepsLeft(c) = MostSteps - 1
           /\ pc[c] = "sending" => StepsLeft(c) = 2 * MaxPolls + 3 + Cardinality(todo[c])
           /\ pc[c] = "waiting" => StepsLeft(c) = 2 * MaxPolls + 2 - polls[c] + Cardinality(todo[c])
           /\ pc[c] = "counting" => StepsLeft(c) = 1
           /\ pc[c] = "removing" => StepsLeft(c) = MaxPolls + 1 + Cardinality(todo[c])
           /\ pc[c] = "watching" => StepsLeft(c) = MaxPolls + 1 - polls[c]
           /\ pc[c] = "returned" => StepsLeft(c) = 0
<1>1. MaxPolls \in Nat /\ SERVICES_READ \in Nat /\ polls[c] \in Nat /\ Cardinality(todo[c]) \in Nat
  BY TodoCounted, LimitsAssumption DEF TypeOK
<1> QED
  BY <1>1 DEF StepsLeft, MostSteps
(* The same after a step.                                                  *)
LEMMA LeftAfter ==
    ASSUME NEW c \in Calls, polls'[c] \in 0..MaxPolls, Cardinality(todo'[c]) \in Nat
    PROVE  /\ pc'[c] = "listing" => StepsLeft(c)' = MostSteps - 1
           /\ pc'[c] = "sending" => StepsLeft(c)' = 2 * MaxPolls + 3 + Cardinality(todo'[c])
           /\ pc'[c] = "waiting" => StepsLeft(c)' = 2 * MaxPolls + 2 - polls'[c] + Cardinality(todo'[c])
           /\ pc'[c] = "counting" => StepsLeft(c)' = 1
           /\ pc'[c] = "removing" => StepsLeft(c)' = MaxPolls + 1 + Cardinality(todo'[c])
           /\ pc'[c] = "watching" => StepsLeft(c)' = MaxPolls + 1 - polls'[c]
<1>1. MaxPolls \in Nat /\ SERVICES_READ \in Nat /\ polls'[c] \in Nat
  BY LimitsAssumption
<1> QED
  BY <1>1 DEF StepsLeft, MostSteps

(* A call that has not returned has a request left.                        *)
LEMMA OpenHasSomeLeft ==
    ASSUME TypeOK, NEW c \in Calls, pc[c] # "returned"
    PROVE  StepsLeft(c) \in Nat \ {0}
<1>1. polls[c] \in 0..MaxPolls /\ Cardinality(todo[c]) \in Nat /\ MostSteps \in Nat /\ MostSteps >= 5
  BY TodoCounted, LimitsAssumption DEF TypeOK, MostSteps
<1>2. pc[c] \in Steps
  BY DEF TypeOK
<1> QED
  BY <1>1, <1>2, LeftAt, LimitsAssumption DEF Steps

(* A call that returns has none left.                                      *)
LEMMA ReturningCounts ==
    ASSUME TypeOK, NEW c \in Calls, pc[c] # "returned", NEW o, Finish(c, o)
    PROVE  StepsLeft(c)' < StepsLeft(c)
<1>1. pc'[c] = "returned"
  BY DEF Finish, TypeOK
<1>2. StepsLeft(c)' = 0
  BY <1>1 DEF StepsLeft
<1> QED
  BY <1>2, OpenHasSomeLeft

(* After a wait, what the call goes on to is shorter than the wait was.    *)
LEMMA AfterWaitCounts ==
    ASSUME TypeOK, NEW c \in Calls, pc[c] = "waiting", NEW o, AfterWait(c, o), UNCHANGED todo
    PROVE  StepsLeft(c)' < StepsLeft(c)
<1>1. polls[c] \in 0..MaxPolls /\ polls'[c] = 0 /\ todo'[c] = todo[c] /\ Cardinality(todo[c]) \in Nat /\ MaxPolls \in Nat
  BY TodoCounted, LimitsAssumption DEF TypeOK, AfterWait
<1>2. StepsLeft(c) = 2 * MaxPolls + 2 - polls[c] + Cardinality(todo[c])
  BY LeftAt
<1>3. CASE Finish(c, o)
  BY <1>3, ReturningCounts
<1>4. CASE Proceed(c, "counting")
  <2>1. pc'[c] = "counting"
    BY <1>4 DEF Proceed, TypeOK
  <2>2. StepsLeft(c)' = 1
    BY <1>1, <2>1, LeftAfter
  <2> QED
    BY <1>1, <1>2, <2>2, LimitsAssumption
<1>5. CASE Proceed(c, "removing")
  <2>1. pc'[c] = "removing"
    BY <1>5 DEF Proceed, TypeOK
  <2>2. StepsLeft(c)' = MaxPolls + 1 + Cardinality(todo[c])
    BY <1>1, <2>1, LeftAfter
  <2> QED
    BY <1>1, <1>2, <2>2, LimitsAssumption
<1> QED
  BY <1>3, <1>4, <1>5 DEF AfterWait

(* No request leaves as many to make as there were before it.              *)
LEMMA EachCounts ==
    ASSUME TypeOK, NothingYet, NEW c \in Calls, CallStep(c)
    PROVE  StepsLeft(c)' < StepsLeft(c)
<1> DEFINE removals == Cardinality(todo[c])
<1>1. removals \in Nat /\ polls[c] \in 0..MaxPolls /\ MaxPolls \in Nat /\ SERVICES_READ \in Nat \ {0}
  BY TodoCounted, LimitsAssumption DEF TypeOK
<1>2. CASE Look(c)
  <2>1. pc[c] = "idle" /\ todo' = todo /\ polls' = polls
    BY <1>2 DEF Look
  <2>2. removals = 0
    BY <2>1, FS_EmptySet DEF NothingYet
  <2>3. StepsLeft(c) = MostSteps
    BY <2>1, LeftAt
  <2>4. ASSUME Proceed(c, "sending") PROVE StepsLeft(c)' < StepsLeft(c)
    <3>1. pc'[c] = "sending"
      BY <2>4 DEF Proceed, TypeOK
    <3>2. StepsLeft(c)' = 2 * MaxPolls + 3 + removals
      BY <1>1, <2>1, <3>1, LeftAfter
    <3> QED
      BY <1>1, <2>2, <2>3, <3>2 DEF MostSteps
  <2>5. ASSUME Proceed(c, "listing") PROVE StepsLeft(c)' < StepsLeft(c)
    <3>1. pc'[c] = "listing"
      BY <2>5 DEF Proceed, TypeOK
    <3>2. StepsLeft(c)' = MostSteps - 1
      BY <1>1, <2>1, <3>1, LeftAfter
    <3> QED
      BY <1>1, <2>3, <3>2 DEF MostSteps
  <2>6. Finish(c, "not_sent") \/ Proceed(c, "sending") \/ Proceed(c, "listing")
    BY <1>2 DEF Look, DecideAcknowledge, DecideReschedule, DecideRemove
  <2> QED
    BY <2>1, <2>4, <2>5, <2>6, ReturningCounts
<1>3. CASE ListServices(c)
  <2>1. PICK S \in ReadServices :
            /\ todo' = [todo EXCEPT ![c] = S]
            /\ Proceed(c, "sending") \/ Proceed(c, "removing") \/ Finish(c, "not_sent")
    BY <1>3 DEF ListServices
  <2>2. pc[c] = "listing" /\ polls' = polls /\ todo'[c] = S
    BY <1>3, <2>1 DEF ListServices, TypeOK
  <2>3. Cardinality(S) \in 0..SERVICES_READ
    BY PageIsShort
  <2>4. StepsLeft(c) = MostSteps - 1
    BY <2>2, LeftAt
  <2>5. ASSUME Proceed(c, "sending") PROVE StepsLeft(c)' < StepsLeft(c)
    <3>1. pc'[c] = "sending"
      BY <2>5 DEF Proceed, TypeOK
    <3>2. StepsLeft(c)' = 2 * MaxPolls + 3 + Cardinality(S)
      BY <1>1, <2>2, <2>3, <3>1, LeftAfter
    <3> QED
      BY <1>1, <2>3, <2>4, <3>2 DEF MostSteps
  <2>6. ASSUME Proceed(c, "removing") PROVE StepsLeft(c)' < StepsLeft(c)
    <3>1. pc'[c] = "removing"
      BY <2>6 DEF Proceed, TypeOK
    <3>2. StepsLeft(c)' = MaxPolls + 1 + Cardinality(S)
      BY <1>1, <2>2, <2>3, <3>1, LeftAfter
    <3> QED
      BY <1>1, <2>3, <2>4, <3>2 DEF MostSteps
  <2> QED
    BY <2>1, <2>2, <2>5, <2>6, ReturningCounts
<1>4. CASE ReadFails(c) \/ SendFails(c)
  BY <1>4, ReturningCounts DEF ReadFails, SendFails
<1>5. CASE Send(c)
  <2>1. pc[c] = "sending" /\ pc'[c] = "waiting" /\ todo' = todo /\ polls'[c] = 0
    BY <1>5 DEF Send, Proceed, TypeOK
  <2>2. StepsLeft(c) = 2 * MaxPolls + 3 + removals
    BY <2>1, LeftAt
  <2>3. StepsLeft(c)' = 2 * MaxPolls + 2 + removals
    BY <1>1, <2>1, LeftAfter
  <2> QED
    BY <1>1, <2>2, <2>3
<1>6. CASE RemoveNext(c)
  <2>1. PICK s \in todo[c] :
            /\ todo' = [todo EXCEPT ![c] = @ \ {s}]
            /\ Proceed(c, "watching") \/ Proceed(c, "removing")
    BY <1>6 DEF RemoveNext
  <2>2. pc[c] = "removing" /\ polls'[c] = 0 /\ todo'[c] = todo[c] \ {s}
    BY <1>6, <2>1 DEF RemoveNext, TypeOK
  <2>3. Cardinality(todo'[c]) = removals - 1
    BY <2>2, TodoCounted
  <2>4. IsFiniteSet(todo[c] \ {s})
    BY TodoCounted, FS_RemoveElement
  <2>5. Cardinality(todo'[c]) \in Nat
    BY <2>2, <2>4, FS_CardinalityType
  <2>6. StepsLeft(c) = MaxPolls + 1 + removals /\ polls'[c] \in 0..MaxPolls
    BY <1>1, <2>2, LeftAt
  <2>7. ASSUME Proceed(c, "watching") PROVE StepsLeft(c)' < StepsLeft(c)
    <3>1. pc'[c] = "watching"
      BY <2>7 DEF Proceed, TypeOK
    <3>2. StepsLeft(c)' = MaxPolls + 1 - polls'[c]
      BY <2>5, <2>6, <3>1, LeftAfter
    <3> QED
      BY <1>1, <2>2, <2>3, <2>5, <2>6, <3>2
  <2>8. ASSUME Proceed(c, "removing") PROVE StepsLeft(c)' < StepsLeft(c)
    <3>1. pc'[c] = "removing"
      BY <2>8 DEF Proceed, TypeOK
    <3>2. StepsLeft(c)' = MaxPolls + 1 + Cardinality(todo'[c])
      BY <2>5, <2>6, <3>1, LeftAfter
    <3> QED
      BY <1>1, <2>3, <2>6, <3>2
  <2> QED
    BY <2>1, <2>7, <2>8
<1>7. CASE SeeChange(c) \/ GiveUp(c)
  BY <1>7, AfterWaitCounts DEF SeeChange, GiveUp
<1>8. CASE SeeNothing(c) \/ SeeSomeLeft(c)
  <2>1. /\ pc[c] \in {"waiting", "watching"} /\ pc'[c] = pc[c] /\ todo' = todo
        /\ polls'[c] = polls[c] + 1 /\ polls[c] < MaxPolls
    BY <1>8 DEF SeeNothing, SeeSomeLeft, TimeLeft, TypeOK
  <2>2. polls'[c] \in 0..MaxPolls
    BY <1>1, <2>1
  <2> QED
    BY <1>1, <2>1, <2>2, LeftAt, LeftAfter
<1>9. CASE CountServices(c) \/ SeeNoneLeft(c) \/ GiveUpServices(c)
  BY <1>9, ReturningCounts DEF CountServices, SeeNoneLeft, GiveUpServices
<1> QED
  BY <1>2, <1>3, <1>4, <1>5, <1>6, <1>7, <1>8, <1>9 DEF CallStep

(* Every request of a call leaves it fewer to make, for any number of      *)
(* calls and services, any MaxPolls and SERVICES_READ, and commands that   *)
(* never run: CallsReturn up to the fairness of the call's own thread.     *)
THEOREM StepsRunOut == Spec => EveryStepCounts
<1>1. Init => NothingYet
  BY DEF Init, NothingYet
<1>2. TypeOK /\ NothingYet /\ [Next]_vars => [\A c \in Calls : CallStep(c) => StepsLeft(c)' < StepsLeft(c)]_vars
  BY EachCounts
<1> QED
  BY <1>1, <1>2, NothingYetKept, TypeCorrect, PTL DEF Spec, EveryStepCounts

(* What is left is a number, and one above 0 until the call has returned.  *)
SomeLeft ==
    \A c \in Calls :
        /\ StepsLeft(c) \in Nat
        /\ StepsLeft(c) = 0 <=> pc[c] = "returned"

(* A call that has not returned always has a request left: the count that  *)
(* every request lowers cannot go below 0.                                 *)
THEOREM StepsAreLeft == Spec => []SomeLeft
<1>1. TypeOK => SomeLeft
  BY LeftAt, OpenHasSomeLeft DEF SomeLeft
<1> QED
  BY <1>1, TypeCorrect, PTL
=============================================================================
