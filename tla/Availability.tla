---------------------------- MODULE Availability ----------------------------
(***************************************************************************)
(* get_availability_report (tools/get_availability_report.py, api/ and     *)
(* analysis/availability.py): from the state changes openITCOCKPIT         *)
(* recorded, read page by page, and the downtimes that ran, the time an    *)
(* object spent in each state of a window, and how much of it was planned. *)
(*                                                                         *)
(* The downtimes are asked for by name.  The filter matches a part of the  *)
(* name, so rows of other objects come with the object's own; the endpoint *)
(* lists no downtime that began before its own window (api/downtimes.py);  *)
(* and of the rows one page is read, in whatever order they come.          *)
(*                                                                         *)
(* Times are seconds.  The window is Start .. End - 1: the second t is the *)
(* time from t to t + 1.                                                   *)
(***************************************************************************)
EXTENDS Integers, Sequences, FiniteSets, Folds, FiniteSetsExt

CONSTANTS
    States,      \* state codes
    Start, End,  \* the window
    Shift,       \* how far the user's clocks are set back within the window
    PAGE,        \* rows of one page of the history
    MAX_CHANGES, \* changes after which the reading stops
    Downtimes,   \* rows the name filter may match
    Since,       \* the begin of the window of the downtime endpoint
    LIMIT,       \* rows of downtimes read
    MaxDowntimes,\* bound of the model: rows the filter matches
    MaxHistory   \* bound of the model: changes recorded before the report;
                 \* meanwhile comes at most one more than that

NoState == -1
Epoch == 0 \* actualEndTime of a downtime that has not ended

ASSUME StatesAssumption == States \subseteq Nat /\ IsFiniteSet(States)
ASSUME WindowAssumption == Start \in Nat /\ End \in Nat /\ Start < End
                            /\ Shift \in Int /\ Shift < End - Start
ASSUME PagesAssumption == PAGE \in Nat \ {0} /\ MAX_CHANGES \in Nat /\ MaxHistory \in Nat
ASSUME DowntimesAssumption ==
    /\ Downtimes \subseteq [own : BOOLEAN, started : BOOLEAN, cancelled : BOOLEAN,
                           begin : Nat, scheduled : Nat, actual : Nat]
    /\ IsFiniteSet(Downtimes) /\ Since \in Nat /\ LIMIT \in Nat

VARIABLES
    history,   \* what openITCOCKPIT recorded of the object, oldest first
    stage,        \* the step the report is at
    opening,   \* the state before the window, or NoState
    page,      \* the page to be read next
    read,      \* len(found)
    found,     \* the changes read
    truncated, \* whether the reading stopped early
    matched,   \* the downtimes whose object's name the filter matched
    rows,      \* the downtimes read
    from,      \* covered_from
    cursor, current, \* current_from and current_state of segments
    total, planned   \* seconds per state

reportVars == <<history, stage, opening, page, read, found, truncated, matched, rows, from, cursor,
                current, total, planned>>
reading == <<opening, page, read, found, truncated>>
answered == <<matched, rows>>
measuring == <<from, cursor, current, total, planned>>

StateChange == [time : 0 .. End, state : States]
Stages == {"opening", "reading", "downtimes", "measuring", "reported", "no_history", "raised"}

ReportTypeOK ==
    /\ history \in Seq(StateChange)
    /\ stage \in Stages
    /\ opening \in States \cup {NoState}
    /\ page \in Nat \ {0} /\ read \in Nat /\ truncated \in BOOLEAN
    /\ found \subseteq {ch \in StateChange : ch.time >= Start}
    /\ matched \subseteq Downtimes /\ rows \subseteq matched
    /\ {from, cursor} \subseteq Start .. End
    /\ current \in States \cup (IF stage \in {"measuring", "reported"} THEN {} ELSE {NoState})
    /\ {total, planned} \subseteq [States -> Nat]

Ordered(h) == \A i, j \in DOMAIN h : i < j => h[i].time <= h[j].time

(* Any history, also one that has several changes in one second.           *)
ReportInit ==
    /\ history \in {h \in UNION {[1 .. n -> StateChange] : n \in 0 .. MaxHistory} : Ordered(h)}
    /\ stage = "opening"
    /\ opening = NoState /\ page = 1 /\ read = 0 /\ found = {} /\ truncated = FALSE
    /\ matched = {} /\ rows = {}
    /\ from = Start /\ cursor = Start /\ current = NoState
    /\ total = [s \in States |-> 0] /\ planned = [s \in States |-> 0]

-----------------------------------------------------------------------------
(* openITCOCKPIT's answers, newest record first.                           *)

(* filter[to] = moment, limit 1.                                           *)
Before(moment) == {i \in DOMAIN history : history[i].time <= moment}
Newest(I) == CHOOSE i \in I : \A j \in I : j <= i

(* Page p of the changes from Start to End, as places in the history.      *)
PageRows(p) ==
    {i \in DOMAIN history :
        /\ history[i].time >= Start
        /\ Len(history) - p * PAGE < i /\ i <= Len(history) - (p - 1) * PAGE}

(* The object changes again within the second the window ends in.          *)
Record(s) ==
    /\ Len(history) <= MaxHistory
    /\ history' = Append(history, [time |-> End, state |-> s])
    /\ UNCHANGED <<stage, reading, answered, measuring>>

-----------------------------------------------------------------------------
(* The requests of the report.                                             *)

ReadOpening ==
    /\ stage = "opening"
    /\ opening' = IF Before(Start) = {} THEN NoState ELSE history[Newest(Before(Start))].state
    /\ stage' = "reading"
    /\ UNCHANGED <<history, page, read, found, truncated, answered, measuring>>

(* Mutant of LastPage: an empty page does not end the reading.             *)
LastButEmpty(answer) == answer # {} /\ Cardinality(answer) < PAGE

LastPage(answer) == Cardinality(answer) < PAGE

(* Behind an empty page all are empty: they are not told apart.            *)
NextPage(answer) == IF answer = {} THEN page ELSE page + 1

ReadPage ==
    /\ stage = "reading"
    /\ LET answer == PageRows(page)
           some == read + Cardinality(answer)
           last == LastPage(answer)
       IN  /\ found' = found \cup {history[i] : i \in answer}
           /\ read' = some
           /\ truncated' = (~last /\ some >= MAX_CHANGES)
           /\ IF last \/ truncated'
              THEN stage' = "downtimes" /\ UNCHANGED page
              ELSE page' = NextPage(answer) /\ UNCHANGED stage
    /\ UNCHANGED <<history, opening, answered, measuring>>

(* recorded[0]: sorted orders changes of one second by their state.        *)
Precedes(a, b) == a.time < b.time \/ (a.time = b.time /\ a.state <= b.state)
First(C) == CHOOSE a \in C : \A b \in C : Precedes(a, b)

(* Mutant of CoveredFrom: the first change is carried back to the begin.   *)
CoveredAll == Start

(* Where the report begins when nothing was recorded before the window.    *)
CoveredFrom == IF opening = NoState THEN First(found).time ELSE Start

FirstState == IF opening = NoState THEN First(found).state ELSE opening

(* What the endpoint answers of the downtimes the filter matches.          *)
Pages(matches) ==
    LET all == {d \in matches : d.begin >= Since}
    IN  {S \in SUBSET all : Cardinality(S) <= LIMIT /\ (S # all => Cardinality(S) = LIMIT)}

(* The downtimes are read, and the measuring begins, if there is anything  *)
(* to measure.                                                             *)
ReadDowntimes ==
    /\ stage = "downtimes"
    /\ matched' \in {D \in SUBSET Downtimes : Cardinality(D) <= MaxDowntimes}
    /\ rows' \in Pages(matched')
    /\ IF opening = NoState /\ found = {}
       THEN stage' = "no_history" /\ UNCHANGED measuring
       ELSE /\ stage' = "measuring"
            /\ from' = CoveredFrom /\ cursor' = CoveredFrom /\ current' = FirstState
            /\ UNCHANGED <<total, planned>>
    /\ UNCHANGED <<history, reading>>

(* A request fails: the tool raises.                                       *)
ReadFails ==
    /\ stage \in {"opening", "reading", "downtimes"}
    /\ stage' = "raised"
    /\ UNCHANGED <<history, reading, answered, measuring>>

-----------------------------------------------------------------------------
(* The arithmetic.                                                         *)

LargerOf(a, b) == IF a >= b THEN a ELSE b
SmallerOf(a, b) == IF a <= b THEN a ELSE b

(* Python subtracts two times of one zone as the clock on the wall shows   *)
(* them: of all the times here, the begin and the end of the window only.  *)
Seconds(a, b) == b - a - (IF a = Start /\ b = End THEN Shift ELSE 0)

(* Mutant of Period: a downtime that ended early lasts as it was planned.  *)
PeriodAsPlanned(d) == [begin |-> d.begin, end |-> d.scheduled]

Period(d) == [begin |-> d.begin, end |-> IF d.actual = Epoch THEN d.scheduled ELSE d.actual]
Ran(d) == d.started /\ ~d.cancelled
Periods == {Period(d) : d \in {e \in rows : Ran(e)}}

(* merge: periods in order, each one that begins within the one before it  *)
(* joined to it.                                                           *)
Join(w, merged) ==
    LET n == Len(merged)
    IN  IF n > 0 /\ w.begin <= merged[n].end
        THEN [merged EXCEPT ![n].end = LargerOf(@, w.end)]
        ELSE Append(merged, w)

InOrder(v, w) == v.begin < w.begin \/ (v.begin = w.begin /\ v.end <= w.end)

(* Mutant of Merge: overlapping periods are left as they are.              *)
MergeNone(W) == MapThenFoldSet(LAMBDA w, merged : Append(merged, w), <<>>, LAMBDA w : w,
    LAMBDA S : CHOOSE w \in S : \A v \in S : InOrder(v, w), {w \in W : w.end > w.begin})

Merge(W) == MapThenFoldSet(Join, <<>>, LAMBDA w : w,
    LAMBDA S : CHOOSE w \in S : \A v \in S : InOrder(v, w), {w \in W : w.end > w.begin})

Overlap(a, b, w) == LargerOf(0, Seconds(LargerOf(a, w.begin), SmallerOf(b, w.end)))

(* The object was in the current state until moment.                       *)
Span(moment) ==
    LET merged == Merge(Periods)
    IN  /\ total' = [total EXCEPT ![current] = @ + Seconds(cursor, moment)]
        /\ planned' = [planned EXCEPT ![current] =
                         @ + MapThenSumSet(LAMBDA i : Overlap(cursor, moment, merged[i]), DOMAIN merged)]

(* The changes inside the window that are not behind the cursor.  Those at *)
(* the cursor come in the order of their states.                           *)
Ahead ==
    {ch \in found :
        /\ from < ch.time /\ ch.time < End
        /\ cursor < ch.time \/ (cursor = ch.time /\ current < ch.state)}

(* One round of the loop of segments.                                      *)
NextChange ==
    /\ stage = "measuring" /\ Ahead # {}
    /\ LET ch == First(Ahead)
       IN  /\ IF ch.time > cursor THEN Span(ch.time) ELSE UNCHANGED <<total, planned>>
           /\ cursor' = ch.time /\ current' = ch.state
    /\ UNCHANGED <<history, stage, reading, answered, from>>

(* The last span, and the report.                                          *)
Report ==
    /\ stage = "measuring" /\ Ahead = {}
    /\ IF End > cursor THEN Span(End) ELSE UNCHANGED <<total, planned>>
    /\ stage' = "reported"
    /\ UNCHANGED <<history, reading, answered, from, cursor, current>>

Over == stage \in {"reported", "no_history", "raised"} /\ UNCHANGED reportVars

ReportStep ==
    \/ ReadOpening
    \/ ReadPage
    \/ ReadDowntimes
    \/ NextChange
    \/ Report

ReportNext ==
    \/ ReportStep
    \/ ReadFails
    \/ \E s \in States : Record(s)
    \/ Over

ReportSpec == ReportInit /\ [][ReportNext]_reportVars

(* The thread of the call keeps running: every request ends by the time    *)
(* limit of the client.                                                    *)
FairReportSpec == ReportSpec /\ WF_reportVars(ReportStep)

-----------------------------------------------------------------------------
(* The object is in state s during second t: nothing was recorded between  *)
(* a change to s and the end of t.                                         *)
Held(s, t) ==
    \E i \in DOMAIN history :
        /\ history[i].state = s /\ history[i].time <= t
        /\ \A j \in DOMAIN history : i < j => history[j].time > t

(* The downtime was in force: it began as scheduled and was not over.      *)
InForce(d, t) ==
    /\ d.started /\ ~d.cancelled /\ d.begin <= t
    /\ IF d.actual # Epoch THEN t < d.actual ELSE t < d.scheduled

RealTotal(s) == Cardinality({t \in from .. End - 1 : Held(s, t)})
RealPlanned(D, s) ==
    Cardinality({t \in from .. End - 1 :
        Held(s, t) /\ \E d \in D : InForce(d, t)})

(* The object's own downtimes, and whether they are what was read: the     *)
(* filter matched no other object, none is older than the endpoint lists,  *)
(* and a page holds them.                                                  *)
Own == {d \in matched : d.own}
OwnRead == Own = matched /\ (\A d \in Own : d.begin >= Since) /\ Cardinality(Own) <= LIMIT

(* No two changes inside the window in one second.                         *)
Untied ==
    \A i, j \in DOMAIN history :
        i < j /\ Start < history[i].time /\ history[j].time < End => history[i].time < history[j].time

(* The report shows, for each state, the seconds the object was in it,     *)
(* unless reading stopped early or two changes are of one second: no       *)
(* change is lost between two pages, none counted twice, and nothing is    *)
(* said of the time before the history.                                    *)
MeasuresHistory ==
    (stage = "reported" /\ ~truncated /\ Untied) => \A s \in States : total[s] = RealTotal(s)

(* And the seconds of it in a downtime that ran, those in several counted  *)
(* once: in a downtime of the rows read, and so in "the downtimes of the   *)
(* object that were actually in force" where the rows are the object's own *)
(* and all of them.  Where they are not, the report counts the downtimes   *)
(* of other objects, or misses some.                                       *)
PlannedOnce ==
    (stage = "reported" /\ ~truncated /\ Untied) =>
        \A s \in States :
            /\ planned[s] = RealPlanned(rows, s)
            /\ OwnRead => planned[s] = RealPlanned(Own, s)

(* "Share of the window spent in any of these states, as a percentage":    *)
(* the seconds of all states are those of the window, and no more of a     *)
(* state is planned than there is of it, so no percentage exceeds 100.     *)
SharesOfWindow ==
    stage = "reported" =>
        /\ MapThenSumSet(LAMBDA s : total[s], States) = Seconds(from, End)
        /\ \A s \in States : planned[s] <= total[s]

(* The report comes, or raises, however the history grows: some page ends  *)
(* the reading.                                                            *)
ReportReturns == <>(stage \in {"reported", "no_history", "raised"})
=============================================================================
