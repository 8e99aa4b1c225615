------------------------------ MODULE Feedback ------------------------------
(***************************************************************************)
(* What is sent once an interview is evaluated (notifications/outreach.py): *)
(* the letter to the recruiter that the conclusion is ready, and the       *)
(* feedback to the candidate, so many days after the conclusion or after   *)
(* the decision.                                                           *)
(*                                                                         *)
(* The evaluator (evaluation/service.py) and the decision                  *)
(* (reports/service.py) commit first and schedule the feedback in a second *)
(* transaction.  Both enqueue one job under one key: while it is queued or *)
(* runs, enqueueing it again changes nothing.                              *)
(***************************************************************************)
EXTENDS Integers, Sequences

CONSTANTS Modes,        \* the settings of the vacancy that are considered
          AfterDays,    \* candidate_feedback_after_days
          MaxDecisions, \* bound on the decisions
          MaxReprocess, \* bound on how often the interview is evaluated again
          max_attempts, \* of the job interview.feedback
          Horizon       \* the last day

VARIABLES today,
          mode,       \* Vacancy.candidate_feedback_mode
          interview,  \* status and decision, and the days they are from
          evaluation, \* pending, or done, with the text of the feedback or without
          evaluator,  \* the job interview.process: decided is what it has loaded
          decider,    \* the request of the decision
          job,        \* the row of the job interview.feedback
          letters,    \* the days the letters of feedback were written
          ready,      \* the letters to the recruiter
          unsubscribed,
          counts,     \* what is bounded
          past        \* history: a process has died; a decision was made before the conclusion, or by the
                      \* link of a report

vars == <<today, mode, interview, evaluation, evaluator, decider, job, letters, ready,
          unsubscribed, counts, past>>

Days == 0..Horizon
\* decidedOn, concludedOn: the days of the first decision and of the first conclusion.
Interview == [status: {"processing", "evaluated", "decided"}, decision: BOOLEAN,
              decidedOn: Days, concludedOn: Days]
Job == [status: {"none", "queued", "running", "sent", "ended"}, due: Days, attempts: 0..max_attempts]

TypeOK ==
    /\ today \in Days /\ mode \in Modes /\ interview \in Interview
    /\ evaluation \in [status: {"pending", "done"}, text: BOOLEAN]
    /\ evaluator \in [pc: {"due", "asking", "notify", "idle"}, decided: BOOLEAN]
    /\ decider \in {"idle", "schedule"}
    /\ job \in Job /\ letters \in Seq(Days)
    /\ ready \in 0..(MaxReprocess + 1) /\ unsubscribed \in BOOLEAN
    /\ past \in [died: BOOLEAN, early: BOOLEAN, shared: BOOLEAN]
    /\ counts \in [decisions: 0..MaxDecisions, reprocess: 0..MaxReprocess]

Init ==
    /\ today = 0 /\ mode \in Modes
    /\ interview = [status |-> "processing", decision |-> FALSE, decidedOn |-> 0, concludedOn |-> 0]
    /\ evaluation = [status |-> "pending", text |-> FALSE]
    /\ evaluator = [pc |-> "due", decided |-> FALSE]
    /\ decider = "idle"
    /\ job = [status |-> "none", due |-> 0, attempts |-> 0]
    /\ letters = <<>> /\ ready = 0 /\ unsubscribed = FALSE
    /\ counts = [decisions |-> 0, reprocess |-> 0]
    /\ past = [died |-> FALSE, early |-> FALSE, shared |-> FALSE]
-----------------------------------------------------------------------------
(* The schedule. *)

Wanted(decided) == mode = "auto_after_days" \/ (mode = "after_decision" /\ decided)

\* Variant: the delay is forgotten.
AtOnce(due) ==
    IF job.status \in {"none", "ended"} THEN [status |-> "queued", due |-> today, attempts |-> 0]
                                        ELSE job
Enqueued(due) ==
    IF job.status \in {"none", "ended"} THEN [status |-> "queued", due |-> due, attempts |-> 0]
                                        ELSE job

Scheduled(decided) == IF Wanted(decided) THEN Enqueued(today + AfterDays) ELSE job

\* A day that is scheduled for is a day of the model.
InTime == today + AfterDays <= Horizon
-----------------------------------------------------------------------------
(* The evaluation. *)

\* The interview is loaded, with the decision there is; one that is evaluated is skipped.
Load ==
    /\ evaluator.pc = "due"
    /\ evaluator' = IF interview.status = "processing"
                    THEN [pc |-> "asking", decided |-> interview.decision]
                    ELSE [evaluator EXCEPT !.pc = "idle"]
    /\ UNCHANGED <<today, mode, interview, evaluation, decider, job, letters, ready, unsubscribed, counts, past>>

\* The conclusion is committed.
Conclude ==
    /\ evaluator.pc = "asking"
    /\ evaluation' = [status |-> "done", text |-> mode # "off"]
    /\ interview' = [interview EXCEPT !.status = "evaluated",
                                      !.concludedOn = IF counts.reprocess = 0 THEN today ELSE @]
    /\ evaluator' = [evaluator EXCEPT !.pc = "notify"]
    /\ UNCHANGED <<today, mode, decider, job, letters, ready, unsubscribed, counts, past>>

Notified == ready + 1

\* The letter to the recruiter, and the schedule.
Notify ==
    /\ evaluator.pc = "notify"
    /\ ready' = Notified
    /\ job' = Scheduled(evaluator.decided)
    /\ evaluator' = [evaluator EXCEPT !.pc = "idle"]
    /\ UNCHANGED <<today, mode, interview, evaluation, decider, letters, unsubscribed, counts, past>>

\* The conclusion is withdrawn, and made again.
reprocess ==
    /\ interview.status = "evaluated" /\ evaluator.pc = "idle"
    /\ counts.reprocess < MaxReprocess /\ InTime
    /\ interview' = [interview EXCEPT !.status = "processing"]
    /\ evaluation' = [status |-> "pending", text |-> FALSE]
    /\ evaluator' = [pc |-> "due", decided |-> FALSE]
    /\ counts' = [counts EXCEPT !.reprocess = @ + 1]
    /\ UNCHANGED <<today, mode, decider, job, letters, ready, unsubscribed, past>>
-----------------------------------------------------------------------------
(* The decision. *)

Decided(shared) ==
    /\ counts.decisions < MaxDecisions /\ InTime
    /\ interview' = [interview EXCEPT !.decision = TRUE,
                                      !.status = IF @ = "processing" THEN @ ELSE "decided",
                                      !.decidedOn = IF interview.decision THEN @ ELSE today]
    /\ counts' = [counts EXCEPT !.decisions = @ + 1]
    /\ past' = [past EXCEPT !.early = @ \/ interview.status = "processing", !.shared = @ \/ shared]
    /\ UNCHANGED <<today, mode, evaluation, evaluator, job, letters, ready, unsubscribed>>

decide == decider = "idle" /\ decider' = "schedule" /\ Decided(FALSE)

\* By the link of a report nothing is scheduled.
public_decide == UNCHANGED decider /\ Decided(TRUE)

\* Variant: the decision does not schedule.
Unscheduled == job
DecisionSchedules == Scheduled(TRUE)

ScheduleFeedback ==
    /\ decider = "schedule"
    /\ job' = DecisionSchedules
    /\ decider' = "idle"
    /\ UNCHANGED <<today, mode, interview, evaluation, evaluator, letters, ready, unsubscribed, counts, past>>
-----------------------------------------------------------------------------
(* The job of the feedback. *)

AttemptsLeft == job.attempts < max_attempts

Claim ==
    /\ job.status = "queued" /\ job.due <= today
    /\ job' = IF AttemptsLeft
              THEN [job EXCEPT !.status = "running", !.attempts = @ + 1]
              ELSE [job EXCEPT !.status = "ended"]
    /\ UNCHANGED <<today, mode, interview, evaluation, evaluator, decider, letters, ready, unsubscribed, counts, past>>

\* Variant: the conclusion is not looked at.
Sendable == mode # "off" /\ ~unsubscribed /\ (mode = "after_decision" => interview.decision)
MaySend == Sendable /\ evaluation.status = "done" /\ evaluation.text

send_candidate_feedback ==
    /\ job.status = "running"
    /\ letters' = IF MaySend THEN Append(letters, today) ELSE letters
    /\ job' = [job EXCEPT !.status = "sent"]
    /\ UNCHANGED <<today, mode, interview, evaluation, evaluator, decider, ready, unsubscribed, counts, past>>

\* Variant: the job is released instead.
Released == [job EXCEPT !.status = "queued"]
Completed == [job EXCEPT !.status = "ended"]

End ==
    /\ job.status = "sent"
    /\ job' = Completed
    /\ UNCHANGED <<today, mode, interview, evaluation, evaluator, decider, letters, ready, unsubscribed, counts, past>>

unsubscribe ==
    /\ ~unsubscribed /\ unsubscribed' = TRUE
    /\ UNCHANGED <<today, mode, interview, evaluation, evaluator, decider, job, letters, ready, counts, past>>
-----------------------------------------------------------------------------
(* A worker dies: its evaluation and its letter are begun again; the server dies. *)
Die ==
    /\ past' = [past EXCEPT !.died = TRUE]
    /\ \/ /\ evaluator.pc \in {"asking", "notify"}
          /\ evaluator' = [evaluator EXCEPT !.pc = "due"] /\ UNCHANGED <<decider, job>>
       \/ /\ job.status \in {"running", "sent"}
          /\ job' = [job EXCEPT !.status = "queued"] /\ UNCHANGED <<decider, evaluator>>
       \/ /\ decider = "schedule"
          /\ decider' = "idle" /\ UNCHANGED <<evaluator, job>>
    /\ UNCHANGED <<today, mode, interview, evaluation, letters, ready, unsubscribed, counts>>

\* An evaluation, a request and a letter take less than a day; an evaluation that has failed may
\* be begun again days later.
Tick ==
    /\ today < Horizon
    /\ evaluator.pc \in {"idle", "due"} /\ (evaluator.pc = "due" => today + 1 + AfterDays <= Horizon)
    /\ decider = "idle" /\ job.status \notin {"running", "sent"}
    /\ ~(job.status = "queued" /\ job.due <= today)
    /\ today' = today + 1
    /\ UNCHANGED <<mode, interview, evaluation, evaluator, decider, job, letters, ready, unsubscribed, counts, past>>

Next ==
    \/ Load \/ Conclude \/ Notify \/ reprocess
    \/ decide \/ public_decide \/ ScheduleFeedback
    \/ Claim \/ send_candidate_feedback \/ End \/ unsubscribe
    \/ Die \/ Tick

Spec == Init /\ [][Next]_vars

\* The workers and the server go on, and so do the days.
Evaluates == Load \/ Conclude \/ Notify \/ ScheduleFeedback
Works == Claim \/ send_candidate_feedback \/ End
FairSpec == Spec /\ WF_vars(Evaluates) /\ WF_vars(Works) /\ WF_vars(Tick)
-----------------------------------------------------------------------------
(* Correctness. *)

\* As long as no process has died, a conclusion that the recruiter can see has its letter as soon as
\* its job has ended (backend/README.md: the letter is in one transaction with the event).
ReadyIsTold == ~past.died /\ evaluation.status = "done" /\ evaluator.pc = "idle" => ready > 0

\* As long as no process has died and no decision came before the conclusion, the candidate gets one
\* letter for each event that schedules one, whatever the order of the decisions, the conclusions
\* that are made again and the letters.
FeedbackOnce ==
    ~past.died /\ ~past.early =>
        Len(letters) <= counts.decisions + counts.reprocess + IF mode = "auto_after_days" THEN 1 ELSE 0

\* The feedback after a decision comes so many days after the first one, and after the conclusion
\* that it is about, whatever dies.
NotBeforeDecision ==
    mode = "after_decision" =>
        \A k \in 1..Len(letters) : interview.decision /\ letters[k] >= interview.decidedOn + AfterDays

\* The feedback after the conclusion comes so many days after it, unless a decision was made before.
NotBeforeConclusion ==
    mode = "auto_after_days" /\ ~past.early =>
        \A k \in 1..Len(letters) : letters[k] >= interview.concludedOn + AfterDays

\* Feedback is about a conclusion: none is written while it is made again.
AboutConclusion == Len(letters') > Len(letters) => interview.status # "processing"

\* The types, and the days.
FeedbackInTime == TypeOK /\ NotBeforeDecision /\ NotBeforeConclusion

\* Each event has its letter, to the recruiter and to the candidate, and no more.
EachEventTold == ReadyIsTold /\ FeedbackOnce

\* Once there are a decision of the cabinet and a conclusion before it, the feedback is written,
\* unless a process dies or the candidate wants none.
Announced == mode = "after_decision" /\ interview.decision /\ interview.status # "processing"
Written == letters # <<>> \/ unsubscribed \/ past.died \/ past.early \/ past.shared
FeedbackComes == Announced ~> Written
=============================================================================
