------------------------------ MODULE Dashboard ------------------------------
(***************************************************************************)
(* The figures of the dashboard (dashboard/service.py): the funnel of the  *)
(* interviews invited in a period, the durations, the evaluations, and the *)
(* series that counts each event on the day it happened on, in the zone of *)
(* the user.                                                               *)
(*                                                                         *)
(* Every figure is an operator from the stamps of the interviews and the   *)
(* parameters of the request.  The stamps are set by the steps an          *)
(* interview takes, each of which is a transaction here: what two of them  *)
(* do at once is in Invitations and InterviewEvaluation.  The overview is  *)
(* made of several statements, of which the two that count the evaluated   *)
(* are told apart: a commit may come between them.                         *)
(***************************************************************************)
EXTENDS Integers, FiniteSets, FiniteSetsExt

CONSTANTS Interviews,
          Zones,               \* tz_offset_minutes, in units of the clock
          DayLength,           \* a day, in units of the clock
          DEFAULT_PERIOD, MAX_TIMESERIES_DAYS,
          MaxTime,             \* bound on the clock
          null

VARIABLES now,
          row,      \* row[i]: the interview and its evaluation, status "none" before it exists
          reading   \* an overview between its two statements

vars == <<now, row, reading>>

\* What the values of the constants have to satisfy.
ParametersOK == DayLength \in Nat \ {0} /\ MAX_TIMESERIES_DAYS \in Nat /\ DEFAULT_PERIOD \in Nat

InterviewStatus == {"none", "invited", "opened", "consented", "in_progress", "completed", "processing",
                    "evaluated", "reviewed", "advanced", "rejected", "expired", "cancelled"}
Stamps == {"invited", "opened", "consented", "started", "completed", "evaluated"}
\* done: the evaluation is done; decision: there is one.
Row == [status: InterviewStatus, at: [Stamps -> Int \cup {null}], done: BOOLEAN, decision: BOOLEAN]
\* begun, stale: between the statements, without and with a commit since; wrong, late: they have
\* disagreed, without and with a commit between them.
Reading == [step: {"none", "begun", "stale", "wrong", "late"}, evaluated: Nat]

TypeOK ==
    /\ now \in 0..MaxTime
    /\ row \in [Interviews -> Row]
    /\ reading \in Reading

NotReading(step) == [step |-> step, evaluated |-> 0]
NoRow == [status |-> "none", at |-> [s \in Stamps |-> null], done |-> FALSE, decision |-> FALSE]
Init == now = 0 /\ row = [i \in Interviews |-> NoRow] /\ reading = NotReading("none")
-----------------------------------------------------------------------------
(* The steps of an interview. *)

\* The stamp transition() sets with a status, among those the dashboard reads.
stamps == [opened |-> "opened", consented |-> "consented", in_progress |-> "started",
           completed |-> "completed", evaluated |-> "evaluated"]
transition(r, status) ==
    [r EXCEPT !.status = status,
              !.at = IF status \in DOMAIN stamps THEN [@ EXCEPT ![stamps[status]] = now] ELSE @]

Commit(i, r) ==
    /\ row' = [row EXCEPT ![i] = r]
    /\ reading' = IF reading.step \in {"begun", "stale"} THEN [reading EXCEPT !.step = "stale"] ELSE NotReading("none")
    /\ UNCHANGED now

Tick == now < MaxTime /\ now' = now + 1 /\ UNCHANGED <<row, reading>>

invite(i) ==
    /\ row[i].status = "none"
    /\ Commit(i, [NoRow EXCEPT !.status = "invited", !.at["invited"] = now])

open(i) == row[i].status = "invited" /\ Commit(i, transition(row[i], "opened"))
\* Who consents without having opened the page has opened it now.
\* Variant: only the consent is stamped.
submit_consentAtOnce(r) == transition(r, "consented")
submit_consent(r) == transition(IF r.status = "invited" THEN transition(r, "opened") ELSE r, "consented")
Consent(i) == row[i].status \in {"invited", "opened"} /\ Commit(i, submit_consent(row[i]))
start(i) == row[i].status = "consented" /\ Commit(i, transition(row[i], "in_progress"))
_finish(i) == row[i].status = "in_progress" /\ Commit(i, transition(row[i], "completed"))
expire(i) == /\ row[i].status \in {"invited", "opened", "consented"}
             /\ Commit(i, transition(row[i], "expired"))
resend(i) == row[i].status = "expired" /\ Commit(i, transition(row[i], "invited"))
cancel(i) == /\ row[i].status \in {"invited", "opened", "consented", "in_progress", "completed", "processing"}
             /\ Commit(i, transition(row[i], "cancelled"))
process(i) == row[i].status = "completed" /\ Commit(i, transition(row[i], "processing"))
evaluate_interview(i) ==
    row[i].status = "processing" /\ Commit(i, [transition(row[i], "evaluated") EXCEPT !.done = TRUE])
\* Variant: the date of the evaluation is left.
reprocessedKeepsDate(r) == [transition(r, "processing") EXCEPT !.done = FALSE]
reprocessed(r) == [transition(r, "processing") EXCEPT !.done = FALSE, !.at["evaluated"] = null]
reprocess(i) == row[i].status = "evaluated" /\ Commit(i, reprocessed(row[i]))
\* A decision before the conclusion leaves the status.
decide(i, target) ==
    LET r == [row[i] EXCEPT !.decision = TRUE]
    IN  /\ row[i].status \in {"completed", "processing", "evaluated", "reviewed", "advanced", "rejected"}
        /\ Commit(i, IF \/ r.status \in {target, "completed", "processing"}
                        \/ target = "reviewed" /\ r.status # "evaluated"
                     THEN r ELSE transition(r, target))
-----------------------------------------------------------------------------
(* The figures. *)

Least(S) == CHOOSE x \in S : \A y \in S : x <= y
AtLeast(a, b) == IF a < b THEN b ELSE a
Period == [start: (0..MaxTime) \cup {null}, end: 0..(MaxTime + 1)]
\* The parameters of the request, null for those not given.
resolve_period(from, to, all_time) ==
    LET end_at == IF to # null THEN to ELSE now
    IN  [start |-> IF all_time THEN null ELSE IF from # null THEN from ELSE end_at - DEFAULT_PERIOD, end |-> end_at]
Periods == {p \in {resolve_period(s, e, a) : s, e \in 0..MaxTime \cup {null}, a \in BOOLEAN} :
               p.start # null => p.start <= p.end}

Rows == {i \in Interviews : row[i].status # "none"}
At(i, s) == row[i].at[s]
_in_period(p) == {i \in Rows : At(i, "invited") <= p.end /\ (p.start # null => At(i, "invited") >= p.start)}

Count(p, s) == Cardinality({i \in _in_period(p) : At(i, s) # null})
Decided(p) == Cardinality({i \in _in_period(p) : row[i].decision})
Pending(p) == Cardinality({i \in _in_period(p) : At(i, "completed") # null /\ ~row[i].decision /\ row[i].status # "cancelled"})
_durations(p) == {<<At(i, "completed") - At(i, "invited"),
                    IF At(i, "evaluated") = null THEN null ELSE At(i, "evaluated") - At(i, "completed")>> :
                     i \in {j \in _in_period(p) : At(j, "completed") # null}}
_evaluations(p) == {i \in _in_period(p) : row[i].done}

\* The overview of all time: the counts of the funnel first, the evaluations afterwards.
AllTime == resolve_period(null, null, TRUE)
BeginOverview ==
    /\ reading.step \notin {"begun", "stale"}
    /\ reading' = [step |-> "begun", evaluated |-> Count(AllTime, "evaluated")]
    /\ UNCHANGED <<now, row>>
overview ==
    /\ reading.step \in {"begun", "stale"}
    /\ reading' = NotReading(IF Cardinality(_evaluations(AllTime)) = reading.evaluated THEN "none"
                             ELSE IF reading.step = "stale" THEN "late" ELSE "wrong")
    /\ UNCHANGED <<now, row>>

\* The series.
SeriesStamps == {"invited", "completed", "evaluated"}
\* Variant: the interviews of the cohort only.
SelectedOfCohort(p) == _in_period(p)
Selected(p) == {i \in Rows : /\ At(i, "invited") <= p.end
                             /\ p.start # null => \E s \in SeriesStamps : At(i, s) # null /\ At(i, s) >= p.start}
DateOf(t, zone) == (t + zone) \div DayLength
Falls(p, t) == t # null /\ (p.start # null => t >= p.start) /\ t <= p.end
day_of(p, i, s, zone) == IF Falls(p, At(i, s)) THEN DateOf(At(i, s), zone) ELSE null
Buckets(p, zone) == {day_of(p, i, s, zone) : i \in Selected(p), s \in SeriesStamps} \ {null}
Days(p, zone) ==
    LET last == DateOf(p.end, zone)
        first == IF p.start # null THEN DateOf(p.start, zone)
                 ELSE IF Buckets(p, zone) = {} THEN last ELSE Least(Buckets(p, zone))
    IN  AtLeast(first, last - MAX_TIMESERIES_DAYS)..last
\* The point of a day.
timeseries(p, zone, day, s) == Cardinality({i \in Selected(p) : day_of(p, i, s, zone) = day})

Next ==
    \/ Tick
    \/ \E i \in Interviews : \/ invite(i) \/ open(i) \/ Consent(i) \/ start(i) \/ _finish(i) \/ expire(i)
                             \/ resend(i) \/ cancel(i) \/ process(i) \/ evaluate_interview(i) \/ reprocess(i)
                             \/ \E target \in {"advanced", "rejected", "reviewed"} : decide(i, target)
    \/ BeginOverview
    \/ overview

Spec == Init /\ [][Next]_vars
-----------------------------------------------------------------------------
(* Properties. *)

\* The funnel narrows: in every period at most as many have opened as were invited, and so on down to
\* the evaluated, and nobody is decided on or awaited who has not completed; whatever expired, was sent
\* again, cancelled, evaluated anew or decided on in between.
FunnelNarrows ==
    \A p \in Periods :
        /\ Count(p, "invited") >= Count(p, "opened") /\ Count(p, "opened") >= Count(p, "consented")
        /\ Count(p, "consented") >= Count(p, "started") /\ Count(p, "started") >= Count(p, "completed")
        /\ Count(p, "completed") >= Count(p, "evaluated")
        /\ Decided(p) + Pending(p) <= Count(p, "completed")
        /\ \A d \in _durations(p) : d[1] >= 0 /\ (d[2] # null => d[2] >= 0)

\* The series is whole: an event of the period is counted on exactly one day that is shown, whichever
\* the zone, unless its day lies before the longest series there is; the invited of all the days are
\* those of the funnel.
SeriesIsWhole ==
    \A p \in Periods, zone \in Zones :
        LET days == Days(p, zone)
            cut == DateOf(p.end, zone) - MAX_TIMESERIES_DAYS
            Sum(s) == MapThenSumSet(LAMBDA day : timeseries(p, zone, day, s), days)
        IN  /\ \A s \in SeriesStamps :
                  Sum(s) = Cardinality({i \in Rows : Falls(p, At(i, s)) /\ DateOf(At(i, s), zone) >= cut})
            /\ (\A i \in Rows : DateOf(At(i, "invited"), zone) >= cut) => Sum("invited") = Count(p, "invited")

\* As many evaluations are broken down by their recommendation as the funnel says have been evaluated,
\* unless something was committed between the two statements.
BreakdownIsOfFunnel ==
    reading.step # "wrong" /\ \A p \in Periods : Cardinality(_evaluations(p)) = Count(p, "evaluated")

\* The figures of the dashboard are true, all together.
FiguresAreTrue == TypeOK /\ FunnelNarrows /\ SeriesIsWhole /\ BreakdownIsOfFunnel
-----------------------------------------------------------------------------
(* Properties the repository states and the code does not have. *)

\* dashboard/service.py of the overview, one answer: its figures are of one moment.
OneMoment == reading.step # "late"
=============================================================================
