------------------------- MODULE InterviewEvaluation -------------------------
(***************************************************************************)
(* The evaluation of one interview (evaluation/jobs.py, evaluate_interview *)
(* of evaluation/service.py): jobs interview.process that wait for the     *)
(* transcripts by enqueueing their successor, call the model, and write    *)
(* the evaluation and the status of the interview; the recruiter may       *)
(* reprocess, cancel or decide meanwhile.                                  *)
(*                                                                         *)
(* A job is a row of the queue; its number in the sequence is its place in *)
(* the order by created_at.  An execution holds the interview as it was    *)
(* loaded before the model was called, and writes by id.                   *)
(***************************************************************************)
EXTENDS Integers, Sequences, FiniteSets

CONSTANTS Execs,      \* executions that can be under way at once
          Calls,      \* requests to reprocess that can be under way at once
          None,       \* no execution
          MaxTries,   \* Job.max_attempts
          WAIT_MAX_RETRIES,
          Recruiter,  \* may the recruiter cancel and decide
          MaxReprocess,  \* bound on requests to reprocess
          MaxBreaks      \* bound on kills, stops and lost leases together

\* What the values of the constants have to satisfy.
ParametersOK ==
    /\ None \notin Execs /\ MaxTries \in Nat \ {0} /\ WAIT_MAX_RETRIES \in Nat
    /\ Recruiter \in BOOLEAN /\ {MaxReprocess, MaxBreaks} \subseteq Nat

VARIABLES status,      \* interview.status
          evaluation,  \* evaluation.status, or none
          pending,     \* are there final answers without a transcript
          jobs,        \* the rows of the queue
          exec,        \* exec[e]: an execution of process_interview
          call,        \* call[c]: a request to reprocess
          counts       \* reprocessings, kills, stops and lost leases so far;
                       \* history: returned: some job went back to the queue;
                       \* overlapped: two requests to reprocess were under way at once

vars == <<status, evaluation, pending, jobs, exec, call, counts>>

Statuses == {"completed", "processing", "evaluated", "reviewed", "advanced", "rejected", "cancelled"}
TRANSITIONS == [
    completed  |-> {"processing", "cancelled"},
    processing |-> {"evaluated", "completed", "cancelled"},
    evaluated  |-> {"reviewed", "advanced", "rejected", "processing"},
    reviewed   |-> {"advanced", "rejected"},
    advanced   |-> {"rejected"},
    rejected   |-> {"advanced"},
    cancelled  |-> {}]

Evaluations == {"none", "pending", "failed", "done"}
Keys == {"base", "wait", "reprocess"}
Job == [key: Keys, n: Nat, waited: 0 .. WAIT_MAX_RETRIES, by: Execs \cup {None},
        st: {"queued", "running", "done", "failed"}, tries: 0 .. MaxTries]
NewJob(key, n, waited) ==
    [key |-> key, n |-> n, waited |-> waited, by |-> None, st |-> "queued", tries |-> 0]

\* waiting: the successor is committed, the end of this execution not yet recorded.
Exec == [pc: {"idle", "started", "entered", "turn", "asking", "answered", "waiting"},
         j: Nat, seen: Statuses]
Idle == [pc |-> "idle", j |-> 0, seen |-> "completed"]
\* seen and had: the status and the evaluation as the request has loaded them.
Call == [open: BOOLEAN, seen: Statuses, had: Evaluations]

TypeOK ==
    /\ status \in Statuses /\ evaluation \in Evaluations /\ pending \in BOOLEAN
    /\ jobs \in Seq(Job) /\ exec \in [Execs -> Exec] /\ call \in [Calls -> Call]
    /\ \A e \in Execs : exec[e].pc # "idle" => exec[e].j \in DOMAIN jobs
    /\ counts \in [reprocess: Nat, kills: Nat, stops: Nat, lost: Nat, returned: BOOLEAN, overlapped: BOOLEAN]

\* The candidate has just finished the interview.
Init ==
    /\ status = "completed" /\ evaluation = "none" /\ pending \in BOOLEAN
    /\ jobs = <<NewJob("base", 0, 0)>>
    /\ exec = [e \in Execs |-> Idle]
    /\ call = [c \in Calls |-> [open |-> FALSE, seen |-> "completed", had |-> "none"]]
    /\ counts = [reprocess |-> 0, kills |-> 0, stops |-> 0, lost |-> 0, returned |-> FALSE, overlapped |-> FALSE]
-----------------------------------------------------------------------------
(* The queue, as process_interview sees it. *)

active_jobs == {j \in DOMAIN jobs : jobs[j].st \in {"queued", "running"}}

enqueue(key, n, waited) ==
    IF \E j \in active_jobs : jobs[j].key = key /\ jobs[j].n = n THEN jobs
    ELSE Append(jobs, NewJob(key, n, waited))

\* The outcome of an execution that no longer owns the job is refused.
Recorded(e, st) ==
    [jobs EXCEPT ![exec[e].j] = IF @.by = e THEN [@ EXCEPT !.st = st, !.by = None] ELSE @]
OutOfTries(j) == jobs[j].tries >= MaxTries

Completed(e) == Recorded(e, "done")
Failed(e) == Recorded(e, IF OutOfTries(exec[e].j) THEN "failed" ELSE "queued")
CountReturned(e) ==
    counts' = [counts EXCEPT !.returned = @ \/ jobs'[exec[e].j].st = "queued"]
Ends(e) == exec' = [exec EXCEPT ![e] = Idle]

\* A successor is not due before its predecessor's end is recorded, or its worker is dead.
\* New jobs are taken in their order; the pause of one that failed is of any length.
Due(j) ==
    /\ jobs[j].waited > 0 => \A e \in Execs : exec[e].pc # "waiting"
    /\ jobs[j].tries = 0 => \A k \in 1 .. j - 1 :
                               ~(jobs[k].st = "queued" /\ jobs[k].tries = 0 /\ jobs[k].waited = 0)
MayBreak == counts.kills + counts.stops + counts.lost < MaxBreaks

\* The lease of a live execution runs out.
LeaseLost(j) == jobs[j].st = "running" /\ jobs[j].by # None
Claimable(j) ==
    \/ jobs[j].st = "queued" /\ Due(j)
    \/ jobs[j].st = "running" /\ (jobs[j].by = None \/ MayBreak)
CountLost(j) == counts' = [counts EXCEPT !.lost = IF LeaseLost(j) THEN @ + 1 ELSE @]

Take(e, j) ==
    /\ exec[e].pc = "idle" /\ Claimable(j) /\ ~OutOfTries(j)
    /\ jobs' = [jobs EXCEPT ![j].st = "running", ![j].by = e, ![j].tries = @ + 1]
    /\ exec' = [exec EXCEPT ![e] = [Idle EXCEPT !.pc = "started", !.j = j]]
    /\ CountLost(j)
    /\ UNCHANGED <<status, evaluation, pending, call>>

Bury(j) ==
    /\ jobs[j].st = "running" /\ Claimable(j) /\ OutOfTries(j)
    /\ jobs' = [jobs EXCEPT ![j].st = "failed", ![j].by = None]
    /\ CountLost(j)
    /\ UNCHANGED <<status, evaluation, pending, exec, call>>
-----------------------------------------------------------------------------
(* One execution. *)

\* The interview is loaded; one that needs no evaluation is skipped.
Load(e) ==
    /\ exec[e].pc = "started"
    /\ IF status \in {"completed", "processing"}
       THEN /\ exec' = [exec EXCEPT ![e].pc = "entered", ![e].seen = status]
            /\ UNCHANGED jobs
       ELSE jobs' = Completed(e) /\ Ends(e)
    /\ UNCHANGED <<status, evaluation, pending, call, counts>>

\* The conditional UPDATE completed -> processing.
_claim_interview(e) ==
    /\ exec[e].pc = "entered" /\ exec[e].seen = "completed"
    /\ IF status = "completed"
       THEN /\ status' = "processing"
            /\ exec' = [exec EXCEPT ![e].pc = "turn"]
            /\ UNCHANGED jobs
       ELSE jobs' = Completed(e) /\ Ends(e) /\ UNCHANGED status
    /\ UNCHANGED <<evaluation, pending, call, counts>>

\* Variant: nobody else counts.
_another_job_is_runningNever(j) == FALSE
_another_job_is_running(j) == \E k \in active_jobs : k < j /\ jobs[k].st = "running"

CheckTurn(e) ==
    /\ exec[e].pc = "entered" /\ exec[e].seen = "processing"
    /\ IF _another_job_is_running(exec[e].j)
       THEN jobs' = Completed(e) /\ Ends(e)
       ELSE exec' = [exec EXCEPT ![e].pc = "turn"] /\ UNCHANGED jobs
    /\ UNCHANGED <<status, evaluation, pending, call, counts>>

\* Transcripts are missing: the successor takes over, so many times.
Wait(e) ==
    LET attempt == jobs[exec[e].j].waited + 1 IN
    /\ exec[e].pc = "turn" /\ pending /\ attempt <= WAIT_MAX_RETRIES
    /\ jobs' = enqueue("wait", attempt, attempt)
    /\ exec' = [exec EXCEPT ![e].pc = "waiting"]
    /\ UNCHANGED <<status, evaluation, pending, call, counts>>

\* The interview is loaded again, the evaluation marked pending, and the model called.
evaluate_interview(e) ==
    /\ exec[e].pc = "turn" /\ (~pending \/ jobs[exec[e].j].waited >= WAIT_MAX_RETRIES)
    /\ IF status = "processing"
       THEN /\ evaluation' = "pending"
            /\ exec' = [exec EXCEPT ![e].pc = "asking", ![e].seen = status]
            /\ UNCHANGED jobs
       ELSE jobs' = Failed(e) /\ Ends(e) /\ UNCHANGED evaluation
    /\ CountReturned(e)
    /\ UNCHANGED <<status, pending, call>>

\* Variant: the error is left to the queue.
ModelFailsSilently(e) ==
    /\ exec[e].pc = "asking"
    /\ jobs' = Failed(e) /\ Ends(e) /\ CountReturned(e)
    /\ UNCHANGED <<status, evaluation, pending, call>>

ModelFails(e) ==
    /\ exec[e].pc = "asking"
    /\ evaluation' = "failed"
    /\ jobs' = Failed(e) /\ Ends(e) /\ CountReturned(e)
    /\ UNCHANGED <<status, pending, call>>

\* transition() looks at the interview in memory, which was processing.
ModelAnswers(e) ==
    /\ exec[e].pc = "asking" /\ "evaluated" \in TRANSITIONS[exec[e].seen]
    /\ evaluation' = "done" /\ status' = "evaluated"
    /\ exec' = [exec EXCEPT ![e].pc = "answered"]
    /\ UNCHANGED <<pending, jobs, call, counts>>

Finish(e) ==
    /\ exec[e].pc \in {"answered", "waiting"}
    /\ jobs' = Completed(e) /\ Ends(e)
    /\ UNCHANGED <<status, evaluation, pending, call, counts>>

\* The worker stops, or its heartbeat finds the job taken over.
Cancelled(e) ==
    LET own == jobs[exec[e].j].by = e IN
    /\ exec[e].pc # "idle"
    /\ own => MayBreak
    /\ jobs' = IF own THEN [Recorded(e, "queued") EXCEPT ![exec[e].j].tries = @ - 1] ELSE jobs
    /\ counts' = [counts EXCEPT !.stops = IF own THEN @ + 1 ELSE @, !.returned = @ \/ own]
    /\ Ends(e)
    /\ UNCHANGED <<status, evaluation, pending, call>>

Killed(e) ==
    /\ exec[e].pc # "idle" /\ MayBreak
    /\ jobs' = [jobs EXCEPT ![exec[e].j].by = IF @ = e THEN None ELSE @]
    /\ counts' = [counts EXCEPT !.kills = @ + 1]
    /\ Ends(e)
    /\ UNCHANGED <<status, evaluation, pending, call>>
-----------------------------------------------------------------------------
(* The answers and the recruiter. *)

\* A transcript arrives, or an answer that had failed is tried again.
Transcribing ==
    /\ pending' = ~pending
    /\ UNCHANGED <<status, evaluation, jobs, exec, call, counts>>

Reprocessable(s, ev) ==
    \/ s \in {"evaluated", "completed"}
    \/ s = "processing" /\ ev = "failed"

Refused == active_jobs # {} \/ ~Reprocessable(status, evaluation)

\* The request reads the interview, its jobs and its evaluation ...
reprocess(c) ==
    /\ ~call[c].open /\ counts.reprocess < MaxReprocess
    /\ ~Refused
    /\ call' = [call EXCEPT ![c] = [open |-> TRUE, seen |-> status, had |-> evaluation]]
    /\ counts' = [counts EXCEPT !.reprocess = @ + 1, !.overlapped = @ \/ \E d \in Calls : call[d].open]
    /\ UNCHANGED <<status, evaluation, pending, jobs, exec>>

\* Variant: the previous result stays until it is overwritten.
reset_evaluationLater(had) == evaluation
\* What was pending as it was loaded is not written.
reset_evaluation(had) == IF had = "pending" THEN evaluation ELSE "pending"

\* The request found no evaluation and would insert one beside that of another.
RowExists(c) == call[c].had = "none" /\ evaluation # "none"

\* ... and commits what follows from them, or is rolled back.
ReprocessCommits(c) ==
    /\ call[c].open
    /\ IF RowExists(c)
       THEN UNCHANGED <<status, evaluation, jobs>>
       ELSE /\ status' = IF call[c].seen = "evaluated" THEN "processing" ELSE status
            /\ evaluation' = reset_evaluation(call[c].had)
            /\ jobs' = enqueue("reprocess",
                               1 + Cardinality({j \in DOMAIN jobs : jobs[j].key = "reprocess"}), 0)
    /\ call' = [call EXCEPT ![c].open = FALSE]
    /\ UNCHANGED <<pending, exec, counts>>

cancel ==
    /\ Recruiter /\ "cancelled" \in TRANSITIONS[status]
    /\ status' = "cancelled"
    /\ UNCHANGED <<evaluation, pending, jobs, exec, call, counts>>

\* A decision before the evaluation leaves the status alone.
decide(target) ==
    /\ Recruiter /\ status \notin {"completed", "processing", "cancelled"}
    /\ target # status /\ (target = "reviewed" => status = "evaluated")
    /\ status' = target
    /\ UNCHANGED <<evaluation, pending, jobs, exec, call, counts>>

Advances(e) ==
    \/ Load(e) \/ _claim_interview(e) \/ CheckTurn(e) \/ Wait(e) \/ evaluate_interview(e)
    \/ ModelFails(e) \/ ModelAnswers(e) \/ Finish(e)

Next ==
    \/ \E e \in Execs : Advances(e) \/ Cancelled(e) \/ Killed(e)
    \/ \E j \in DOMAIN jobs : Bury(j) \/ \E e \in Execs : Take(e, j)
    \/ \E c \in Calls : reprocess(c) \/ ReprocessCommits(c)
    \/ Transcribing \/ cancel \/ \E t \in {"reviewed", "advanced", "rejected"} : decide(t)

Spec == Init /\ [][Next]_vars

(***************************************************************************)
(* Fairness.  An execution goes on, as the calls of the model have a       *)
(* timeout; the workers take what is queued and bury what is out of tries. *)
(* Nothing makes the transcripts arrive.                                   *)
(***************************************************************************)
FairSpec ==
    /\ Spec
    /\ \A e \in Execs : WF_vars(Advances(e))
    /\ WF_vars(\E j \in DOMAIN jobs, e \in Execs : Take(e, j))
    /\ WF_vars(\E j \in DOMAIN jobs : Bury(j))
    /\ \A c \in Calls : WF_vars(ReprocessCommits(c))
-----------------------------------------------------------------------------
(* Properties. *)

\* As long as no job came back to the queue, no lease was lost and no two requests to reprocess overlapped,
\* the model is called by one execution at a time, however many jobs there are and whoever is killed.
OneEvaluator ==
    ~counts.returned /\ counts.lost = 0 /\ ~counts.overlapped =>
        \A d, e \in Execs : exec[d].pc = "asking" /\ exec[e].pc = "asking" => d = e

\* Until a lease is lost or two requests to reprocess overlap, the old result is not to be seen while a
\* new evaluation is under way.
NoOldScores == counts.lost = 0 /\ ~counts.overlapped /\ status = "processing" => evaluation # "done"

Unbroken == counts.kills + counts.stops + counts.lost = 0

\* As long as no execution was broken off, and no two requests to reprocess overlapped, an evaluated
\* interview has its evaluation.
EvaluatedIsDone == Unbroken /\ ~counts.overlapped /\ status = "evaluated" => evaluation = "done"

\* The rows keep their types, and the status of the interview and its evaluation agree.
ResultMatches == TypeOK /\ NoOldScores /\ EvaluatedIsDone

\* The model is called by one execution at a time, and what it leaves agrees.
EvaluationIsSound == OneEvaluator /\ ResultMatches

\* Every finished interview is evaluated, or shows an error that can be reprocessed,
\* also when its transcripts never come, unless an execution was broken off.
JudgedNow == status \notin {"completed", "processing"} \/ evaluation = "failed" \/ ~Unbroken
Judged == Unbroken /\ status \in {"completed", "processing"} ~> JudgedNow

(* Properties the repository states and the code does not have. *)

\* While a job of the interview is unfinished, a request to reprocess is refused (evaluation/jobs.py reprocess).
ReprocessedAlone == [][\A c \in Calls : call[c].open /\ ~call'[c].open => active_jobs = {}]_vars

\* The status of the interview only moves along TRANSITIONS.
TransitionsRespected == [][status' # status => status' \in TRANSITIONS[status]]_vars

\* An interview in processing has a job or can be reprocessed.
NotAbandoned == status = "processing" => active_jobs # {} \/ Reprocessable(status, evaluation)
=============================================================================
