------------------------------ MODULE Scoring ------------------------------
(***************************************************************************)
(* From the answers of an interview to its conclusion: which answer counts *)
(* for a question, which transcripts the evaluator is shown, what is made  *)
(* of its output, and the recommendation the scores give                   *)
(* (evaluation/scoring, evaluation/service.evaluate_payload).              *)
(*                                                                         *)
(* The model's output is anything its schema admits: competencies left     *)
(* out, named twice or invented, quotes from nowhere.  A competency is     *)
(* named by its id or by its name, which is the same here.  A transcript   *)
(* is the pair of its question and attempt, and a quote is the whole of    *)
(* one; personal data and the prompt are left out.  Scores are in tenths.  *)
(***************************************************************************)
EXTENDS Integers, Sequences, FiniteSets, FiniteSetsExt, SequencesExt

CONSTANTS Vacancies,   \* vacancies: the weights of a rubric, and the competencies each question is about
          Named,       \* competencies the model may name
          fit, no_fit, \* EVAL_FIT_THRESHOLD, EVAL_NO_FIT_THRESHOLD
          MaxAttempts, \* bound on the attempts, per question
          MaxScores,   \* bound on the length of competency_scores
          null

VARIABLES vacancy,    \* what it was when the interview was evaluated
          answers,    \* the rows of Answer
          conclusion  \* EvaluationResult

vars == <<vacancy, answers, conclusion>>

\* What the values of the constants have to satisfy.
ParametersOK == {fit, no_fit} \subseteq Nat /\ no_fit < fit /\ MaxScores \in Nat

SCALE_MIN == 1
SCALE_MAX == 4
DEFAULT_WEIGHT == 3
CRITICAL_WEIGHT == 4

rubric == vacancy.rubric
links == vacancy.links
Questions == DOMAIN links
Nothing == <<0, 0>>
NoTime == -1
Length == 2        \* of a recording
NoScore == -1

Answer == [q: Questions, attempt: Nat, status: {"uploaded", "done", "failed"}, final: BOOLEAN, silent: BOOLEAN]
Id(a) == <<a.q, a.attempt>>
Text(a) == IF a.status = "done" /\ ~a.silent THEN Id(a) ELSE Nothing

Score == [of: Named, score: {SCALE_MIN, SCALE_MAX}]
\* question_index may be one there is no question for.
Evidence == [question_index: 1 .. Cardinality(Questions) + 1, answer_id: {Nothing, <<1, 1>>},
             quote: {Nothing, <<1, 1>>, <<1, 2>>}, start_s: {NoTime, Length + 1}, end_s: {1, Length + 2},
             verified: {FALSE}]
Scores(length) == UNION {[1 .. n -> Score] : n \in 0 .. length}

\* EvaluationOutput, one side of it at a time: scores, assessments of questions, a quote.
EvaluationOutput ==
    [competency_scores: Scores(MaxScores), question_assessments: {<<>>}, confident: {TRUE}, evidence: {<<>>}]
    \cup [competency_scores: Scores(2), question_assessments: {<<>>}, confident: {FALSE}, evidence: {<<>>}]
    \cup [competency_scores: Scores(1), question_assessments: {<<1>>, <<4, 4>>}, confident: {TRUE}, evidence: {<<>>}]
    \cup [competency_scores: {<<>>}, question_assessments: {<<4>>}, confident: {TRUE},
          evidence: {<<e>> : e \in Evidence}]

TypeOK ==
    /\ vacancy \in Vacancies
    /\ \A k \in DOMAIN answers : answers[k] \in Answer
    /\ conclusion # null =>
         /\ conclusion.fit_score \in {NoScore} \cup 0 .. 1000
         /\ conclusion.recommendation \in {"fit", "no_fit", "needs_check"}

Init == vacancy \in Vacancies /\ answers = <<>> /\ conclusion = null
-----------------------------------------------------------------------------
\* Which answer counts.

Finals(q) == {k \in DOMAIN answers : answers[k].q = q /\ answers[k].final}
_STATUS_RANK == [done |-> 3, processing |-> 2, uploaded |-> 2, failed |-> 1, recording |-> 0, abandoned |-> 0]
Key(k) == _STATUS_RANK[answers[k].status] * (MaxAttempts[answers[k].q] + 1) + answers[k].attempt

\* Variant: the last attempt, whatever became of it.
last_final_answer(q) == IF Finals(q) = {} THEN 0 ELSE Max(Finals(q))
pick_final_answers(q) ==
    IF Finals(q) = {} THEN 0 ELSE CHOOSE k \in Finals(q) : \A o \in Finals(q) : Key(o) <= Key(k)

transcripts_from_answers ==
    [q \in Questions |->
       LET k == pick_final_answers(q)
       IN IF k = 0 THEN [answer_id |-> Nothing, text |-> Nothing, limit |-> NoTime]
          ELSE [answer_id |-> Id(answers[k]), text |-> Text(answers[k]), limit |-> Length]]

unassessable_competencies(transcripts) ==
    {c \in DOMAIN rubric : /\ \E q \in Questions : c \in links[q]
                           /\ \A q \in Questions : c \in links[q] => transcripts[q].text = Nothing}
-----------------------------------------------------------------------------
\* The score: over the competencies of the rubric, not over what the model named.

ScoresOf(scores, c) == {k \in DOMAIN scores : scores[k].of = c}
Matched(scores) == {c \in DOMAIN rubric : ScoresOf(scores, c) # {}}
\* Of repeated scores the first counts, and what is missing has the lowest.
ScoreOf(scores, c) == IF c \in Matched(scores) THEN scores[Min(ScoresOf(scores, c))].score ELSE SCALE_MIN
unmatched(scores) == scores # <<>> /\ Matched(scores) = {}
_weight_of(c) == IF c \in DOMAIN rubric THEN rubric[c] ELSE DEFAULT_WEIGHT

\* weighted / total, from 1..4 to 0..1000, rounded.
normalize(weighted, total) ==
    (2 * 1000 * (weighted - total) + (SCALE_MAX - SCALE_MIN) * total) \div (2 * (SCALE_MAX - SCALE_MIN) * total)
Mean(numbers) == normalize(FoldSeq(+, 0, numbers), Len(numbers))
SimpleMean(scores) == Mean([k \in DOMAIN scores |-> scores[k].score])
WeightedMean(scores, cs) ==
    normalize(MapThenSumSet(LAMBDA c : ScoreOf(scores, c) * rubric[c], cs), MapThenSumSet(LAMBDA c : rubric[c], cs))

\* Variant: a competency nobody was heard about counts like the others.
CountsAll(cs, skipped) == cs
Assessed(cs, skipped) == cs \ skipped

fit_score(output, skipped) ==
    LET scores == output.competency_scores
        assessed == Assessed(DOMAIN rubric, skipped)
    IN CASE DOMAIN rubric # {} /\ scores # <<>> /\ unmatched(scores) -> SimpleMean(scores)
         [] DOMAIN rubric # {} /\ scores # <<>> /\ ~unmatched(scores) ->
                IF assessed = {} THEN NoScore ELSE WeightedMean(scores, assessed)
         [] (DOMAIN rubric = {} \/ scores = <<>>) /\ output.question_assessments # <<>> ->
                Mean(output.question_assessments)
         [] DOMAIN rubric = {} /\ scores # <<>> /\ output.question_assessments = <<>> -> SimpleMean(scores)
         [] OTHER -> NoScore

ByThreshold(score) == IF score >= fit THEN "fit" ELSE IF score < no_fit THEN "no_fit" ELSE "needs_check"

\* What forbids "fit": a 1 for a critical competency, a competency without a score.
Doubt(scores, skipped) ==
    \/ \E k \in DOMAIN scores : /\ scores[k].of \notin skipped
                                /\ scores[k].score = SCALE_MIN /\ _weight_of(scores[k].of) >= CRITICAL_WEIGHT
    \/ DOMAIN rubric # {} /\ scores # <<>> /\ (DOMAIN rubric \ Matched(scores)) \ skipped # {}

recommend(score, output, skipped) ==
    IF score = NoScore \/ skipped # {} \/ ~output.confident
       \/ (ByThreshold(score) = "fit" /\ Doubt(output.competency_scores, skipped))
    THEN "needs_check" ELSE ByThreshold(score)
-----------------------------------------------------------------------------
\* The quotes.

\* The answer is found by the number of the question, which models copy more reliably than ids.
normalize_output(e, transcripts) ==
    IF e.question_index \in Questions /\ transcripts[e.question_index].answer_id # Nothing
    THEN [e EXCEPT !.answer_id = transcripts[e.question_index].answer_id] ELSE e

Clamped(t, limit) == IF t = NoTime \/ limit = NoTime \/ t <= limit THEN t ELSE limit

verify_quotes(e, transcripts) ==
    LET known == e.question_index \in Questions
        limit == IF known THEN transcripts[e.question_index].limit ELSE NoTime
        start == Clamped(e.start_s, limit)
        end == Clamped(e.end_s, limit)
        swap == start # NoTime /\ end # NoTime /\ end < start
    IN [e EXCEPT !.verified = known /\ e.quote # Nothing /\ e.quote = transcripts[e.question_index].text,
                 !.start_s = IF swap THEN end ELSE start, !.end_s = IF swap THEN start ELSE end]
-----------------------------------------------------------------------------
\* One more attempt is completed; the one before may have stayed final (two requests at once).
Attempt(q) ==
    /\ conclusion = null
    /\ LET n == Cardinality({k \in DOMAIN answers : answers[k].q = q}) IN
       /\ n < MaxAttempts[q] /\ q >= (IF answers = <<>> THEN q ELSE Last(answers).q)
       /\ \E keep \in BOOLEAN :
            answers' = [k \in DOMAIN answers |-> IF answers[k].q = q /\ ~keep
                                                 THEN [answers[k] EXCEPT !.final = FALSE] ELSE answers[k]]
                       \o <<[q |-> q, attempt |-> n + 1, status |-> "uploaded", final |-> TRUE, silent |-> FALSE]>>
    /\ UNCHANGED <<vacancy, conclusion>>

\* Transcribed, or given up.
Processed(k) ==
    /\ conclusion = null /\ answers[k].status = "uploaded"
    /\ \E status \in {"done", "failed"}, silent \in BOOLEAN :
         /\ silent => status = "done"
         /\ answers' = [answers EXCEPT ![k].status = status, ![k].silent = silent]
    /\ UNCHANGED <<vacancy, conclusion>>

evaluate_payload(output) ==
    LET transcripts == transcripts_from_answers
        skipped == unassessable_competencies(transcripts)
        score == fit_score(output, skipped)
    IN conclusion' = [output |-> output, fit_score |-> score,
                      recommendation |-> recommend(score, output, skipped),
                      evidence |-> [k \in DOMAIN output.evidence |->
                          verify_quotes(normalize_output(output.evidence[k], transcripts), transcripts)]]

\* Nothing is waited for any more.
Evaluate ==
    /\ conclusion = null /\ answers # <<>>
    /\ \A k \in DOMAIN answers : answers[k].status # "uploaded"
    /\ \E output \in EvaluationOutput : evaluate_payload(output)
    /\ UNCHANGED <<vacancy, answers>>

Next ==
    \/ \E q \in Questions : Attempt(q)
    \/ \E k \in DOMAIN answers : Processed(k)
    \/ Evaluate

Spec == Init /\ [][Next]_vars
-----------------------------------------------------------------------------
(* Correctness: of a conclusion that was made. *)

Given == conclusion.output.competency_scores
\* A question was heard: the newest of its counted recordings that were transcribed has a text.
Heard(q) ==
    \E k \in Finals(q) : /\ Text(answers[k]) # Nothing
                         /\ \A o \in Finals(q) : answers[o].status = "done" => answers[o].attempt <= answers[k].attempt
Unheard == {c \in DOMAIN rubric : (\E q \in Questions : c \in links[q]) /\ \A q \in Questions : c \in links[q] => ~Heard(q)}

\* "Fit" is earned: whom the model has scored by the rubric is recommended only if it named every
\* competency, gave no 1 to a critical one, was heard about each and was sure of it.
FitIsEarned ==
    conclusion.recommendation = "fit" =>
      /\ conclusion.output.confident /\ Unheard = {}
      /\ Given # <<>> => \A c \in DOMAIN rubric :
           /\ \E k \in DOMAIN Given : Given[k].of = c
           /\ rubric[c] >= CRITICAL_WEIGHT => \A k \in DOMAIN Given : Given[k].of = c => Given[k].score > SCALE_MIN

\* No data is not bad: when there is no transcript for a competency, the interview is looked at by a
\* person, and what the model gave for it does not change the score.
NoDataIsNotBad ==
    Unheard # {} =>
      /\ conclusion.recommendation = "needs_check"
      /\ \A k \in DOMAIN Given : Given[k].of \in Unheard =>
           fit_score([conclusion.output EXCEPT !.competency_scores[k].score = 5 - @], Unheard) = conclusion.fit_score

\* What the model invented or repeated changes nothing, once it named one competency of the rubric.
OnlyTheRubricCounts ==
    LET Counts(k) == Given[k].of \in DOMAIN rubric /\ \A o \in 1 .. k - 1 : Given[o].of # Given[k].of
        counted == {k \in DOMAIN Given : Counts(k)}
    IN counted # {} =>
         fit_score([conclusion.output EXCEPT !.competency_scores = [k \in 1 .. Cardinality(counted) |->
                       Given[CHOOSE o \in counted : Cardinality({p \in counted : p <= o}) = k]]], Unheard)
         = conclusion.fit_score

\* A better score never makes the result worse.
Rank == [no_fit |-> 0, needs_check |-> 1, fit |-> 2]
BetterIsNotWorse ==
    \A k \in DOMAIN Given :
      LET better == [conclusion.output EXCEPT !.competency_scores[k].score = SCALE_MAX]
          score == fit_score(better, Unheard)
      IN score >= conclusion.fit_score
         /\ Rank[recommend(score, better, Unheard)] >= Rank[conclusion.recommendation]

\* A quote that is said to be found is in the recording it leads to, and its times lie within it.
QuotesAreThere ==
    \A j \in DOMAIN conclusion.evidence :
      LET e == conclusion.evidence[j] IN
      /\ e.verified => \E k \in DOMAIN answers : Id(answers[k]) = e.answer_id /\ Text(answers[k]) = e.quote
      /\ e.start_s # NoTime /\ e.end_s # NoTime => e.start_s <= e.end_s
      /\ e.question_index \in Questions /\ Finals(e.question_index) # {} => e.start_s <= Length /\ e.end_s <= Length

ScoreIsSound ==
    /\ TypeOK
    /\ conclusion # null =>
         FitIsEarned /\ NoDataIsNotBad /\ OnlyTheRubricCounts /\ BetterIsNotWorse /\ QuotesAreThere
-----------------------------------------------------------------------------
(* Properties the repository states and the code does not have. *)

\* A competency the model left out does not admit "fit" (scoring), also when it scored none.
MissingIsNotFit ==
    conclusion # null /\ conclusion.recommendation = "fit" =>
        \A c \in DOMAIN rubric : \E k \in DOMAIN Given : Given[k].of = c
=============================================================================
