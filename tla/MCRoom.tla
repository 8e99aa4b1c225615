------------------------------- MODULE MCRoom -------------------------------
(***************************************************************************)
(* Small instances for TLC of what is recorded and what is made of it: the *)
(* interview room, the signs the page collects, the score of the answers   *)
(* and the figures of the dashboard.  The first state chooses the part.    *)
(* While it is another, the room rests in its first state; the variables   *)
(* of the other parts are null.                                            *)
(***************************************************************************)
EXTENDS InterviewRoom, TLC

CONSTANTS Signals, LastQuestion, AWAY_MIN, AWAY_TOTAL, AWAY_MIN_COUNT, HEARTBEAT_GAP,
          FACES_MANY_MIN_SAMPLES, MaxRecordings, MaxSignals, MaxTroubles,  \* Integrity
          Vacancies, Named, fit, no_fit, MaxAttempts, MaxScores,           \* Scoring
          Interviews, Zones, DayLength, DEFAULT_PERIOD, MAX_TIMESERIES_DAYS, \* Dashboard
          MaxTime,                                                         \* of more than one part
          null, r1, r2

VARIABLES part, now,                                                       \* of more than one part
          signal, page, flight, log, question, reviews, past,              \* Integrity
          vacancy, given, conclusion,                                      \* Scoring
          row, reading                                                     \* Dashboard

I == INSTANCE Integrity
S == INSTANCE Scoring WITH answers <- given
D == INSTANCE Dashboard

ASSUME SizesOK == ParametersOK /\ I!ParametersOK /\ S!ParametersOK /\ D!ParametersOK

OfIntegrity == <<signal, page, flight, log, question, reviews, past>>
OfScoring == <<vacancy, given, conclusion>>
OfDashboard == <<row, reading>>
OfOthers == <<now, OfIntegrity, OfScoring, OfDashboard>>
all_vars == <<part, vars, OfOthers>>

NoIntegrity ==
    /\ signal = null /\ page = null /\ flight = null /\ log = null
    /\ question = null /\ reviews = null /\ past = null
NoScoring == vacancy = null /\ given = null /\ conclusion = null
NoDashboard == row = null /\ reading = null

MCInit ==
    /\ Init
    /\ \/ part = "room" /\ now = null /\ NoIntegrity /\ NoScoring /\ NoDashboard
       \/ part = "integrity" /\ I!Init /\ NoScoring /\ NoDashboard
       \/ part = "scoring" /\ S!Init /\ now = null /\ NoIntegrity /\ NoDashboard
       \/ part = "dashboard" /\ D!Init /\ NoIntegrity /\ NoScoring

NextRoom == part = "room" /\ Next /\ UNCHANGED <<part, OfOthers>>
NextIntegrity == part = "integrity" /\ I!Next /\ UNCHANGED <<part, vars, OfScoring, OfDashboard>>
NextScoring == part = "scoring" /\ S!Next /\ UNCHANGED <<part, vars, now, OfIntegrity, OfDashboard>>
NextDashboard == part = "dashboard" /\ D!Next /\ UNCHANGED <<part, vars, OfIntegrity, OfScoring>>

MCNext == NextRoom \/ NextIntegrity \/ NextScoring \/ NextDashboard
MCSpec == MCInit /\ [][MCNext]_all_vars

RequestSymmetry == Permutations(Requests)
-----------------------------------------------------------------------------
\* The recommendation is earned, silence is not bad, and quotes are where they are said to be.
ScoreIsSound == part = "scoring" => S!ScoreIsSound

\* What the recruiter is shown has happened: nobody is accused of what was not done, and a long absence is
\* noticed; the funnel narrows, the series is whole and the breakdown is of the funnel.
ReportsAreTrue ==
    /\ part = "integrity" => I!ReportIsFair
    /\ part = "dashboard" => D!FiguresAreTrue
-----------------------------------------------------------------------------
(* Values of the constants: two faces make a sample worth a look; a vacancy without a rubric, one of two *)
(* competencies that share a question, one of three of which one is asked about nowhere.                 *)

SignalsOf == [away |-> 1, paste |-> 1, faces |-> 2, heartbeat |-> 1]
SomeVacancies ==
    {[rubric |-> <<>>, links |-> <<{}, {}>>],
     [rubric |-> "a" :> 1 @@ "b" :> 5, links |-> <<{"a"}, {"a", "b"}>>],
     [rubric |-> "a" :> 5 @@ "b" :> 5 @@ "c" :> 4, links |-> <<{"a"}, {"b"}>>]}
TwoAndOne == <<2, 1>>
AroundUTC == {-1, 0, 1}
=============================================================================
