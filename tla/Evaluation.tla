----------------------------- MODULE Evaluation -----------------------------
(***************************************************************************)
(* oitc-mcp-eval (evaluation/cli.py, runner.py, checks.py, store.py): asks *)
(* models questions about a live openITCOCKPIT.  Cases that only read run  *)
(* in a thread pool; a case that sets the instance up has it to itself and *)
(* puts it back.  Then the results go to a JSON file and, one transaction  *)
(* for each model, to a database.  The command may be stopped at any time. *)
(*                                                                         *)
(* A job is one sample of one case with one model.  Of an answer counts    *)
(* whether there is one and whether a tool had returned what it has to     *)
(* quote; what a model itself changes on the instance is left out.         *)
(***************************************************************************)
EXTENDS FiniteSets, Integers, Sequences

CONSTANTS
    NModels,   \* models, asked one after the other in the order of jobs_for
    NReading,  \* cases without setup and reset
    NActing,   \* cases with them
    NSamples,  \* --samples
    Workers,   \* --workers
    MaxSteps,  \* turns a model may take
    Attempts,  \* ATTEMPTS of the endpoint
    Steps      \* steps of a setup; the reset has one for each

ASSUME JobsAssumption == {NModels, NReading, NActing, NSamples} \subseteq Nat \ {0}
ASSUME LimitsAssumption == {Workers, MaxSteps, Attempts, Steps} \subseteq Nat \ {0}

PerModel(n) == n * NSamples
Pooled == 1..(NModels * PerModel(NReading))
Serial == (Cardinality(Pooled) + 1)..(Cardinality(Pooled) + NModels * PerModel(NActing))
Jobs == Pooled \cup Serial

(* jobs_for: models, then cases, then samples.                             *)
ModelOf(j) ==
    IF j \in Pooled THEN 1 + (j - 1) \div PerModel(NReading)
    ELSE 1 + (j - Cardinality(Pooled) - 1) \div PerModel(NActing)
JobsOf(m) == {j \in Jobs : ModelOf(j) = m}

VARIABLES
    phase,   \* where main is
    options, \* the options that decide whether it runs
    job,     \* job[j]: where the job is and what came of it so far
    left,    \* effects of setup steps that are still on the instance
    broken,  \* jobs of which a step was refused, raised or never came to run
    written, \* whether the JSON file is there
    draft,   \* the rows of the open transaction: at most one run and its samples
    kept     \* the runs committed to the database

evalVars == <<phase, options, job, left, broken, written, draft, kept>>

Idle == [at |-> "waiting", done |-> 0, turns |-> 0, tries |-> 0, shown |-> FALSE,
         said |-> FALSE, ended |-> "well", verdict |-> "none"]
RunRow == [model : 1..NModels, passed : Nat, samples : SUBSET Jobs]
(* Whether the arguments and files are usable, --write, whether a tool that*)
(* cannot be undone is at hand without --allow-deletes, and the consent.   *)
Options == [usable : BOOLEAN, write : BOOLEAN, permanent : BOOLEAN, yes : BOOLEAN]

EvaluationTypeOK ==
    /\ phase \in {"start", "reading", "acting", "connect", "saving", "killed", "crash"}
                 \cup {"exit_0", "exit_1", "exit_2"}
    /\ options \in Options
    /\ job \in [Jobs -> [at : {"waiting", "setup", "asking", "reset", "grade", "over"},
                         done : 0..Steps, turns : 0..MaxSteps, tries : 0..Attempts, shown : BOOLEAN,
                         said : BOOLEAN, ended : {"well", "error", "interrupt"},
                         verdict : {"none", "passed", "failed", "error"}]]
    /\ left \subseteq Serial \X (1..Steps) /\ broken \subseteq Serial
    /\ written \in BOOLEAN /\ draft \in Seq(RunRow) /\ kept \in Seq(RunRow)

EvaluationInit ==
    /\ phase = "start" /\ options \in Options
    /\ job = [j \in Jobs |-> Idle]
    /\ left = {} /\ broken = {}
    /\ written = FALSE /\ draft = << >> /\ kept = << >>

-----------------------------------------------------------------------------
(* The checks before anything runs, and the confirmation.  There are acting*)
(* cases, so that a run without --write is refused.                        *)
StartRun ==
    /\ phase = "start"
    /\ phase' = IF ~options.usable \/ ~options.write \/ options.permanent THEN "exit_2"
                ELSE IF ~options.yes THEN "exit_1" ELSE "reading"
    /\ UNCHANGED <<options, job, left, broken, written, draft, kept>>

AtWork(j) == job[j].at \notin {"waiting", "over"}
Over(j) == job[j].at = "over"

(* A pool thread takes the next reading job; an acting one waits for all   *)
(* before it.                                                              *)
TakeUp(j) ==
    /\ job[j].at = "waiting"
    /\ \/ /\ phase = "reading" /\ j \in Pooled
          /\ \A i \in 1..(j - 1) : job[i].at # "waiting"
          /\ Cardinality({i \in Pooled : AtWork(i)}) < Workers
          /\ job' = [job EXCEPT ![j].at = "asking"]
       \/ /\ phase = "acting" /\ j \in Serial
          /\ \A i \in Serial : i < j => Over(i)
          /\ job' = [job EXCEPT ![j].at = "setup"]
    /\ UNCHANGED <<phase, options, left, broken, written, draft, kept>>

(* Mutant of ClosePool: it is not waited for.                              *)
ClosePoolBegun ==
    /\ phase = "reading" /\ \A j \in Pooled : job[j].at # "waiting"
    /\ phase' = "acting"
    /\ UNCHANGED <<options, job, left, broken, written, draft, kept>>

(* Leaving the with block waits for every job of the pool.                 *)
ClosePool ==
    /\ phase = "reading" /\ \A j \in Pooled : Over(j)
    /\ phase' = "acting"
    /\ UNCHANGED <<options, job, left, broken, written, draft, kept>>

-----------------------------------------------------------------------------
Decided(j, v) == [job EXCEPT ![j] = [Idle EXCEPT !.at = "over", !.verdict = v]]

(* prepare, for the setup: a tool that answers with an error is passed by. *)
SetUp(j) ==
    /\ job[j].at = "setup"
    /\ LET n == job[j].done + 1
       IN  /\ job' = [job EXCEPT ![j].done = n % Steps, ![j].at = IF n = Steps THEN "asking" ELSE @]
           /\ left' = left \cup {<<j, n>>} \/ UNCHANGED left
    /\ UNCHANGED <<phase, options, broken, written, draft, kept>>

(* A post of the setup raises: the job is over, the reset does not run, as *)
(* it belongs to the inner try.                                            *)
SetUpRaises(j) ==
    /\ job[j].at = "setup"
    /\ job' = Decided(j, "error")
    /\ broken' = broken \cup {j}
    /\ UNCHANGED <<phase, options, left, written, draft, kept>>

(* Mutant of Leave: without the finally.                                   *)
LeaveAtOnce(j, how) ==
    IF how = "well" THEN [job EXCEPT ![j].at = "reset"] ELSE Decided(j, "error")

(* The inner try is left, one way or another, and the reset runs.          *)
Leave(j, how) == [job EXCEPT ![j].at = "reset", ![j].ended = how]

(* complete: a busy endpoint is tried again, at the last attempt it raises,*)
(* as any other error does at once.                                        *)
EndpointFails(j) ==
    /\ job[j].at = "asking"
    /\ \/ job' = Leave(j, "error")
       \/ job[j].tries + 1 < Attempts /\ job' = [job EXCEPT ![j].tries = @ + 1]
    /\ UNCHANGED <<phase, options, left, broken, written, draft, kept>>

(* answer: a turn of the model, with tools that fail or return a value, or *)
(* with its answer.  After the last turn there is none.                    *)
Turn(j) ==
    /\ job[j].at = "asking"
    /\ \/ \E value \in BOOLEAN :
            LET went == [job EXCEPT ![j].turns = @ + 1, ![j].tries = 0, ![j].shown = @ \/ value]
            IN  job' = IF job[j].turns + 1 = MaxSteps THEN [went EXCEPT ![j].at = "reset"] ELSE went
       \/ job' = [Leave(j, "well") EXCEPT ![j].said = TRUE]
    /\ UNCHANGED <<phase, options, left, broken, written, draft, kept>>

(* Ctrl-C while a model is asked reaches a job of the main thread: it is   *)
(* reset as after an error, and nothing of the run is kept.                *)
Interrupt(j) ==
    /\ phase = "acting" /\ job[j].at = "asking"
    /\ job' = Leave(j, "interrupt")
    /\ UNCHANGED <<phase, options, left, broken, written, draft, kept>>

(* prepare, for the reset: a refused step is passed by here too.           *)
PutBack(j) ==
    /\ job[j].at = "reset" /\ j \in Serial
    /\ LET n == job[j].done + 1
       IN  /\ job' = [job EXCEPT ![j].done = n % Steps, ![j].at = IF n = Steps THEN "grade" ELSE @]
           /\ \/ left' = left \ {<<j, n>>} /\ UNCHANGED broken
              \/ broken' = broken \cup {j} /\ UNCHANGED left
    /\ UNCHANGED <<phase, options, written, draft, kept>>

(* It raises: the remaining steps are skipped, a good answer is lost too.  *)
(* After a Ctrl-C the error takes its place and the run goes on.           *)
PutBackRaises(j) ==
    /\ job[j].at = "reset" /\ j \in Serial
    /\ job' = Decided(j, "error")
    /\ broken' = broken \cup {j}
    /\ UNCHANGED <<phase, options, left, written, draft, kept>>

(* grade: no answer fails; one that must quote a value passes only if some *)
(* tool returned it.                                                       *)
Grades(j) ==
    IF job[j].ended # "well" THEN {"error"}
    ELSE IF job[j].said /\ job[j].shown THEN {"passed", "failed"} ELSE {"failed"}

Grade(j) ==
    /\ job[j].at = "grade" \/ (job[j].at = "reset" /\ j \in Pooled)
    /\ \E v \in Grades(j) : job' = Decided(j, v)
    /\ phase' = IF job[j].ended = "interrupt" THEN "killed" ELSE phase
    /\ UNCHANGED <<options, left, broken, written, draft, kept>>

-----------------------------------------------------------------------------
(* report.write: the whole record as JSON.  That may fail, as connect may: *)
(* then the command ends with an error.                                    *)
WriteRecord ==
    /\ phase = "acting" /\ \A j \in Jobs : Over(j)
    /\ \/ phase' = "connect" /\ written' = TRUE
       \/ phase' = "crash" /\ UNCHANGED written
    /\ UNCHANGED <<options, job, left, broken, draft, kept>>

Connect ==
    /\ phase = "connect"
    /\ phase' \in {"saving", "crash"}
    /\ UNCHANGED <<options, job, left, broken, written, draft, kept>>

Passed(m) == {j \in JobsOf(m) : job[j].verdict = "passed"}
NextRun == [model |-> Len(kept) + 1, passed |-> Cardinality(Passed(Len(kept) + 1)), samples |-> {}]

(* Mutant of InsertRun: the run is committed by itself.                    *)
InsertRunCommitted ==
    /\ phase = "saving" /\ draft = << >> /\ Len(kept) < NModels
    /\ kept' = Append(kept, NextRun)
    /\ UNCHANGED <<phase, options, job, left, broken, written, draft>>

(* save: the run of the next model, then its samples and calls, and then   *)
(* both at once are there for good.                                        *)
InsertRun ==
    /\ phase = "saving" /\ draft = << >> /\ Len(kept) < NModels
    /\ draft' = <<NextRun>>
    /\ UNCHANGED <<phase, options, job, left, broken, written, kept>>

InsertSamples ==
    /\ phase = "saving" /\ draft # << >> /\ draft[1].samples = {}
    /\ draft' = <<[draft[1] EXCEPT !.samples = JobsOf(draft[1].model)]>>
    /\ UNCHANGED <<phase, options, job, left, broken, written, kept>>

Commit ==
    /\ phase = "saving" /\ draft # << >> /\ draft[1].samples # {}
    /\ kept' = kept \o draft /\ draft' = << >>
    /\ UNCHANGED <<phase, options, job, left, broken, written>>

Finish ==
    /\ phase = "saving" /\ Len(kept) = NModels
    /\ phase' = IF \A j \in Jobs : job[j].verdict = "passed" THEN "exit_0" ELSE "exit_1"
    /\ UNCHANGED <<options, job, left, broken, written, draft, kept>>

Running == phase \in {"reading", "acting", "connect", "saving"}

(* The process is killed; an open transaction is rolled back.              *)
Kill ==
    /\ Running
    /\ phase' = "killed" /\ draft' = << >>
    /\ UNCHANGED <<options, job, left, broken, written, kept>>

EvaluationOver == ~Running /\ phase # "start" /\ UNCHANGED evalVars

EvaluationNext ==
    \/ StartRun \/ ClosePool \/ WriteRecord \/ Connect
    \/ InsertRun \/ InsertSamples \/ Commit \/ Finish
    \/ Running /\ \E j \in Jobs :
        \/ TakeUp(j) \/ SetUp(j) \/ SetUpRaises(j)
        \/ EndpointFails(j) \/ Turn(j) \/ Interrupt(j)
        \/ PutBack(j) \/ PutBackRaises(j) \/ Grade(j)
    \/ Kill
    \/ EvaluationOver

EvaluationSpec == EvaluationInit /\ [][EvaluationNext]_evalVars

-----------------------------------------------------------------------------
(* "A case that sets the instance up has to have it to itself": from its   *)
(* first setup step until it is reset no other job is at work, and it only *)
(* runs where writing was allowed and confirmed.                           *)
AloneWhileActing ==
    \A j \in Serial : AtWork(j) =>
        /\ \A i \in Jobs \ {j} : ~AtWork(i)
        /\ options.write /\ options.yes /\ ~options.permanent

(* "Cases clean up after themselves": however a job ended, with an answer, *)
(* without one or with an error of the endpoint, what its setup did is     *)
(* undone, unless a step of its setup or reset failed.                     *)
RestoredUnlessBroken ==
    \A j \in Serial : Over(j) /\ j \notin broken => \A n \in 1..Steps : <<j, n>> \notin left

(* However a run is stopped, what the database holds of it is whole: every *)
(* sample of the model, with the result it counts, and the JSON record was *)
(* written before.  The command succeeds only if all passed and is kept.   *)
KeptWhole ==
    /\ \A i \in 1..Len(kept) :
        /\ kept[i].samples = JobsOf(kept[i].model) /\ kept[i].model = i
        /\ kept[i].passed = Cardinality(Passed(i))
        /\ written /\ \A j \in kept[i].samples : Over(j)
    /\ phase = "exit_0" => Len(kept) = NModels /\ \A j \in Jobs : job[j].verdict = "passed"
=============================================================================
