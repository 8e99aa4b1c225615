--------------------- MODULE InterviewEvaluation_proofs ---------------------
(***************************************************************************)
(* Theorems about InterviewEvaluation for every number of executions,      *)
(* requests, tries and waits; and about Vacancies, the other part of       *)
(* MCInterview, for every number of editors and questions.                 *)
(***************************************************************************)
EXTENDS MCInterview, FiniteSetTheorems, SequenceTheorems, TLAPS

Running(e) == exec[e].pc # "idle"

\* Only a running job has an execution that owns it, and it has used a try.
Owned == \A j \in DOMAIN jobs : jobs[j].by # None => jobs[j].st = "running" /\ jobs[j].tries >= 1

\* As long as no lease was lost an execution owns its job.
OwnJob == counts.lost = 0 => \A e \in Execs : Running(e) => jobs[exec[e].j].st = "running" /\ jobs[exec[e].j].by = e

Typed == TypeOK /\ Owned /\ OwnJob

\* Before a request to reprocess commits nothing is to be done for the interview.
Clear ==
    counts.lost = 0 /\ ~counts.overlapped =>
        \A c \in Calls : call[c].open => /\ active_jobs = {}
                                         /\ \A d \in Calls : call[d].open => d = c

Orderly == counts.lost = 0 /\ ~counts.overlapped /\ ~counts.returned

\* Of two unfinished jobs the later is the successor that the earlier one queues.
Succession ==
    Orderly => \A j, k \in active_jobs :
        j < k => /\ status # "completed"
                 /\ jobs[j].st = "running"
                 /\ jobs[k].key = "wait" /\ jobs[k].n = jobs[j].waited + 1 /\ jobs[k].waited = jobs[k].n

\* An interview that is being evaluated does not get back to where nobody has begun.
Begun == \A e \in Execs :
    \/ exec[e].pc \in {"turn", "asking", "answered", "waiting"}
    \/ exec[e].pc = "entered" /\ exec[e].seen = "processing"
    => status # "completed"

\* An execution that has its turn has no unfinished job before it.
Turns ==
    Orderly => \A e \in Execs :
        exec[e].pc \in {"turn", "asking", "answered", "waiting"} => \A k \in active_jobs : k >= exec[e].j

OneAtATime == Clear /\ Begun /\ Succession /\ Turns

Whole == Unbroken /\ ~counts.overlapped

\* Where nothing is broken off a running job has its execution, and a second unfinished job waits for
\* the end of the first to be recorded.
HandedOver ==
    Whole => /\ \A j \in active_jobs : jobs[j].st = "running" => jobs[j].by # None
             /\ \A j, k \in active_jobs :
                    j < k => /\ jobs[k].st = "queued" /\ jobs[k].waited > 0
                             /\ jobs[j].st = "running" /\ exec[jobs[j].by].pc = "waiting"

\* Neither the model nor a request to reprocess is at work on an interview that is evaluated.
NotEvaluated ==
    Whole => /\ \A e \in Execs : exec[e].pc = "asking" => status # "evaluated"
             /\ \A c \in Calls : call[c].open /\ status = "evaluated" => call[c].seen = "evaluated"

Clean == counts.lost = 0 /\ ~counts.overlapped

\* The evaluation is what a request to reprocess has loaded until it commits.
Loaded == Clean => \A c \in Calls : call[c].open => call[c].had = evaluation

Fresh == Clean => (status \in {"completed", "processing"} => evaluation # "done")

Agreed == HandedOver /\ NotEvaluated /\ Loaded /\ Fresh /\ EvaluatedIsDone
-----------------------------------------------------------------------------
(* Rows and executions. *)

LEMMA Constants ==
    ASSUME ParametersOK
    PROVE  None \notin Execs /\ MaxTries \in Nat /\ MaxTries >= 1 /\ WAIT_MAX_RETRIES \in Nat
BY DEF ParametersOK

LEMMA RowReplaced ==
    ASSUME NEW s \in Seq(Job), NEW j \in DOMAIN s, NEW r \in Job
    PROVE  LET t == [s EXCEPT ![j] = r]
           IN  t \in Seq(Job) /\ DOMAIN t = DOMAIN s /\ t[j] = r /\ \A i \in DOMAIN s : i # j => t[i] = s[i]
<1>1. Len(s) \in Nat /\ DOMAIN s = 1 .. Len(s) /\ \A i \in 1 .. Len(s) : s[i] \in Job  OBVIOUS
<1>2. [s EXCEPT ![j] = r] \in [1 .. Len(s) -> Job]  BY <1>1
<1>3. [s EXCEPT ![j] = r] \in Seq(Job)  BY <1>1, <1>2
<1>4. QED  BY <1>1, <1>2, <1>3

LEMMA RowAdded ==
    ASSUME NEW s \in Seq(Job), NEW r \in Job
    PROVE  LET t == Append(s, r)
           IN  /\ t \in Seq(Job) /\ Len(t) = Len(s) + 1 /\ t[Len(s) + 1] = r
               /\ \A i \in DOMAIN s : i \in DOMAIN t /\ t[i] = s[i]
               /\ \A i \in DOMAIN t : i \in DOMAIN s \/ (i = Len(s) + 1 /\ \A k \in DOMAIN s : k < i)
<1> DEFINE t == Append(s, r)
<1>1. t \in Seq(Job) /\ Len(t) = Len(s) + 1 /\ Len(s) \in Nat /\ t[Len(s) + 1] = r  OBVIOUS
<1>2. DOMAIN s = 1 .. Len(s) /\ DOMAIN t = 1 .. Len(t)  BY <1>1
<1>3. \A i \in 1 .. Len(s) : t[i] = s[i]  OBVIOUS
<1> HIDE DEF t
<1>4. /\ \A i \in DOMAIN s : i \in DOMAIN t /\ t[i] = s[i]
      /\ \A i \in DOMAIN t : i \in DOMAIN s \/ (i = Len(s) + 1 /\ \A k \in DOMAIN s : k < i)
  BY <1>1, <1>2, <1>3
<1>5. QED  BY <1>1, <1>4 DEF t

\* Recording an outcome, or giving a job up, changes what the execution owns and nothing else.
RowsOf(e, st) ==
    /\ jobs' \in Seq(Job) /\ DOMAIN jobs' = DOMAIN jobs
    /\ \A i \in DOMAIN jobs :
          IF i = exec[e].j /\ jobs[i].by = e
          THEN /\ jobs'[i].st = st /\ jobs'[i].by = None
               /\ jobs'[i].key = jobs[i].key /\ jobs'[i].n = jobs[i].n /\ jobs'[i].waited = jobs[i].waited
          ELSE jobs'[i] = jobs[i]

LEMMA RecordedRows ==
    ASSUME ParametersOK, Typed, NEW e \in Execs, Running(e), NEW st \in {"queued", "running", "done", "failed"},
           NEW t \in 0 .. MaxTries,
           \/ jobs' = Recorded(e, st)
           \/ jobs[exec[e].j].by = e /\ jobs' = [Recorded(e, st) EXCEPT ![exec[e].j].tries = t]
    PROVE  RowsOf(e, st)
<1> DEFINE j == exec[e].j
<1>1. j \in DOMAIN jobs /\ jobs \in Seq(Job) /\ jobs[j] \in Job  BY DEF Typed, TypeOK, Running
<1>2. [jobs[j] EXCEPT !.st = st, !.by = None] \in Job  BY <1>1 DEF Job
<1>3. CASE jobs[j].by # e
  <2>1. jobs' = [jobs EXCEPT ![j] = jobs[j]]  BY <1>1, <1>3 DEF Recorded
  <2>2. jobs' = jobs  BY <1>1, <2>1
  <2>3. QED  BY <1>1, <1>3, <2>2 DEF RowsOf
<1>4. CASE jobs[j].by = e
  <2> DEFINE r == [jobs[j] EXCEPT !.st = st, !.by = None]
             r2 == [r EXCEPT !.tries = t]
  <2>1. Recorded(e, st) = [jobs EXCEPT ![j] = r]  BY <1>1, <1>4 DEF Recorded
  <2>2. r2 \in Job  BY <1>2 DEF Job
  <2>3. /\ r.st = st /\ r.by = None /\ r.key = jobs[j].key /\ r.n = jobs[j].n /\ r.waited = jobs[j].waited
        /\ r2.st = st /\ r2.by = None /\ r2.key = jobs[j].key /\ r2.n = jobs[j].n /\ r2.waited = jobs[j].waited
    BY <1>1 DEF Job
  <2>4. jobs' = [jobs EXCEPT ![j] = r] \/ jobs' = [jobs EXCEPT ![j] = r2]
    BY <2>1, <1>1, <1>4
  <2> HIDE DEF j, r, r2
  <2>5. CASE jobs' = [jobs EXCEPT ![j] = r]
    <3>1. r \in Job  BY <1>2 DEF r
    <3>2. /\ jobs' \in Seq(Job) /\ DOMAIN jobs' = DOMAIN jobs
          /\ jobs'[j] = r /\ \A i \in DOMAIN jobs : i # j => jobs'[i] = jobs[i]
      BY <1>1, <2>5, <3>1, RowReplaced
    <3>3. QED  BY <1>4, <2>3, <3>2 DEF RowsOf, j
  <2>6. CASE jobs' = [jobs EXCEPT ![j] = r2]
    <3>2. /\ jobs' \in Seq(Job) /\ DOMAIN jobs' = DOMAIN jobs
          /\ jobs'[j] = r2 /\ \A i \in DOMAIN jobs : i # j => jobs'[i] = jobs[i]
      BY <1>1, <2>2, <2>6, RowReplaced
    <3>3. QED  BY <1>4, <2>3, <3>2 DEF RowsOf, j
  <2>7. QED  BY <2>4, <2>5, <2>6
<1>5. QED  BY <1>3, <1>4

LEMMA KilledRows ==
    ASSUME ParametersOK, Typed, NEW e \in Execs, Killed(e)
    PROVE  RowsOf(e, "running")
<1> DEFINE j == exec[e].j
           r == [jobs[j] EXCEPT !.by = IF jobs[j].by = e THEN None ELSE jobs[j].by]
<1>1. j \in DOMAIN jobs /\ jobs \in Seq(Job) /\ jobs[j] \in Job  BY DEF Typed, TypeOK, Killed
<1>2. r \in Job /\ r.st = jobs[j].st /\ r.key = jobs[j].key /\ r.n = jobs[j].n /\ r.waited = jobs[j].waited
      /\ r.by = (IF jobs[j].by = e THEN None ELSE jobs[j].by)
  BY <1>1 DEF Job
<1>3. jobs[j].by # e => r = jobs[j]  BY <1>1 DEF Job
<1>4. jobs' = [jobs EXCEPT ![j] = r]  BY <1>1 DEF Killed
<1>5. e # None /\ (jobs[j].by = e => jobs[j].st = "running")  BY <1>1, Constants DEF Typed, Owned
<1>0. r \in Job /\ j \in DOMAIN jobs /\ jobs \in Seq(Job)  BY <1>1, <1>2
<1> HIDE DEF j, r
<1>6. /\ jobs' \in Seq(Job) /\ DOMAIN jobs' = DOMAIN jobs
      /\ jobs'[j] = r /\ \A i \in DOMAIN jobs : i # j => jobs'[i] = jobs[i]
  BY <1>0, <1>4, RowReplaced
<1>7. QED  BY <1>2, <1>3, <1>5, <1>6 DEF RowsOf, j
-----------------------------------------------------------------------------
(* What a step of an execution does. *)

Counts == [reprocess: Nat, kills: Nat, stops: Nat, lost: Nat, returned: BOOLEAN, overlapped: BOOLEAN]

\* The counts of what an execution may suffer do not decrease.
CountsGrow ==
    /\ counts' \in Counts /\ counts'.overlapped = counts.overlapped /\ counts'.lost >= counts.lost
    /\ (Unbroken)' => Unbroken
    /\ counts.returned => counts'.returned

\* The execution ends: the outcome is recorded, given up or lost.
Leaves(e) ==
    /\ Running(e) /\ Ends(e) /\ status' = status /\ pending' = pending /\ call' = call
    /\ evaluation' = evaluation \/ (exec[e].pc = "asking" /\ evaluation' = "failed")
    /\ CountsGrow /\ counts'.lost = counts.lost
    /\ \E st \in {"queued", "running", "done", "failed"} :
          /\ RowsOf(e, st)
          /\ jobs[exec[e].j].by = e => /\ st = "queued" => counts'.returned
                                       /\ (Unbroken)' => st # "running" /\ (exec[e].pc = "waiting" => st = "done")

\* The execution goes on.
Goes(e) ==
    /\ Running(e) /\ jobs' = jobs /\ pending' = pending /\ call' = call
    /\ exec' \in [Execs -> Exec] /\ exec'[e].j = exec[e].j
    /\ \A d \in Execs : d # e => exec'[d] = exec[d]
    /\ CountsGrow /\ counts'.lost = counts.lost
    /\ \/ /\ exec[e].pc = "started" /\ exec'[e].pc = "entered" /\ exec'[e].seen = status
          /\ status' = status /\ evaluation' = evaluation
       \/ /\ exec[e].pc = "entered" /\ exec'[e].pc = "turn" /\ evaluation' = evaluation
          /\ \/ status = "completed" /\ status' = "processing"
             \/ exec[e].seen = "processing" /\ status' = status /\ ~_another_job_is_running(exec[e].j)
       \/ /\ exec[e].pc = "turn" /\ exec'[e].pc = "asking" /\ evaluation' = "pending"
          /\ status = "processing" /\ status' = status
       \/ exec[e].pc = "asking" /\ exec'[e].pc = "answered" /\ evaluation' = "done" /\ status' = "evaluated"

LEMMA SameCounts ==
    ASSUME Typed, counts' = counts
    PROVE  CountsGrow /\ counts'.lost = counts.lost
<1>1. counts \in Counts /\ counts.lost \in Nat  BY DEF Typed, TypeOK, Counts
<1>2. (Unbroken)' => Unbroken  BY DEF Unbroken
<1>3. QED  BY <1>1, <1>2 DEF CountsGrow

LEMMA ReturnedCounts ==
    ASSUME Typed, NEW e \in Execs, CountReturned(e)
    PROVE  /\ CountsGrow /\ counts'.lost = counts.lost
           /\ jobs'[exec[e].j].st = "queued" => counts'.returned
<1> DEFINE b == jobs'[exec[e].j].st = "queued"
<1>1. counts \in Counts  BY DEF Typed, TypeOK, Counts
<1>2. counts' = [counts EXCEPT !.returned = counts.returned \/ b]  BY DEF CountReturned
<1> HIDE DEF b
<1>3. (counts.returned \/ b) \in BOOLEAN  OBVIOUS
<1>4. /\ counts' \in Counts /\ counts'.overlapped = counts.overlapped /\ counts'.lost = counts.lost
      /\ counts'.kills = counts.kills /\ counts'.stops = counts.stops
      /\ counts'.returned = (counts.returned \/ b)
  BY <1>1, <1>2, <1>3 DEF Counts
<1>5. counts.lost \in Nat  BY <1>1 DEF Counts
<1>6. CountsGrow
  <2>1. counts'.lost >= counts.lost  BY <1>4, <1>5
  <2>2. (Unbroken)' => Unbroken  BY <1>4 DEF Unbroken
  <2>3. counts.returned => counts'.returned  BY <1>4
  <2>4. QED  BY <1>4, <2>1, <2>2, <2>3 DEF CountsGrow
<1>7. b => counts'.returned  BY <1>4
<1>8. QED  BY <1>4, <1>6, <1>7 DEF b

LEMMA IdleExec == Idle \in Exec
<1>1. 0 \in Nat /\ "completed" \in Statuses  BY DEF Statuses
<1>2. QED  BY <1>1 DEF Idle, Exec

LEMMA FailedRows ==
    ASSUME ParametersOK, Typed, NEW e \in Execs, exec[e].pc \in {"turn", "asking"}, jobs' = Failed(e), CountReturned(e)
    PROVE  \E st \in {"queued", "running", "done", "failed"} :
              /\ RowsOf(e, st)
              /\ jobs[exec[e].j].by = e => /\ st = "queued" => counts'.returned
                                           /\ (Unbroken)' => st # "running" /\ (exec[e].pc = "waiting" => st = "done")
<1> DEFINE st == IF OutOfTries(exec[e].j) THEN "failed" ELSE "queued"
<1>1. Running(e) /\ exec[e].j \in DOMAIN jobs  BY DEF Running, Typed, TypeOK
<1>2. st \in {"queued", "running", "done", "failed"} /\ st # "running"  OBVIOUS
<1>3. jobs' = Recorded(e, st)  BY DEF Failed
<1> HIDE DEF st
<1>4. RowsOf(e, st)
  <2>1. 0 \in 0 .. MaxTries  BY Constants
  <2>2. QED  BY <1>1, <1>2, <1>3, <2>1, RecordedRows
<1>5. jobs[exec[e].j].by = e => jobs'[exec[e].j].st = st  BY <1>1, <1>4 DEF RowsOf
<1>6. jobs'[exec[e].j].st = "queued" => counts'.returned  BY ReturnedCounts
<1>7. QED  BY <1>2, <1>4, <1>5, <1>6

LEMMA CompletedRows ==
    ASSUME ParametersOK, Typed, NEW e \in Execs, Running(e), jobs' = Completed(e)
    PROVE  \E st \in {"queued", "running", "done", "failed"} :
              /\ RowsOf(e, st)
              /\ jobs[exec[e].j].by = e => /\ st = "queued" => counts'.returned
                                           /\ (Unbroken)' => st # "running" /\ (exec[e].pc = "waiting" => st = "done")
<1>1. 0 \in 0 .. MaxTries  BY Constants
<1>2. jobs' = Recorded(e, "done")  BY DEF Completed
<1>3. RowsOf(e, "done")  BY <1>1, <1>2, RecordedRows
<1>4. QED  BY <1>3

LEMMA BrokenOff ==
    ASSUME ParametersOK, Typed, NEW e \in Execs, Cancelled(e) \/ Killed(e)
    PROVE  Leaves(e)
<1> DEFINE j == exec[e].j
           own == jobs[j].by = e
<1>1. j \in DOMAIN jobs /\ jobs[j] \in Job /\ Running(e)  BY DEF Typed, TypeOK, Running, Cancelled, Killed
<1>2. /\ counts \in Counts /\ counts.lost \in Nat /\ counts.stops \in Nat /\ counts.kills \in Nat
      /\ counts.returned \in BOOLEAN
  BY DEF Typed, TypeOK, Counts
<1>3. CASE Killed(e)
  <2>1. counts' = [counts EXCEPT !.kills = counts.kills + 1]  BY <1>3 DEF Killed
  <2>2. /\ counts' \in Counts /\ counts'.overlapped = counts.overlapped /\ counts'.lost = counts.lost
        /\ counts'.kills = counts.kills + 1 /\ counts'.stops = counts.stops /\ counts'.returned = counts.returned
    BY <1>2, <2>1 DEF Counts
  <2>3. ~(Unbroken)'  BY <1>2, <2>2 DEF Unbroken
  <2>4. CountsGrow /\ counts'.lost = counts.lost
    <3>1. counts'.lost >= counts.lost  BY <1>2, <2>2
    <3>2. QED  BY <2>2, <2>3, <3>1 DEF CountsGrow
  <2>5. RowsOf(e, "running")  BY <1>3, KilledRows
  <2>6. Ends(e) /\ status' = status /\ evaluation' = evaluation /\ pending' = pending /\ call' = call
    BY <1>3 DEF Killed
  <2>7. QED  BY <1>1, <2>3, <2>4, <2>5, <2>6 DEF Leaves
<1>4. CASE Cancelled(e) /\ own
  <2> DEFINE t == jobs[j].tries - 1
  <2>1. t \in 0 .. MaxTries  BY <1>1, <1>4, Constants DEF Typed, Owned, Job
  <2>2. jobs' = [Recorded(e, "queued") EXCEPT ![j].tries = Recorded(e, "queued")[j].tries - 1]
    BY <1>4 DEF Cancelled
  <2>3. Recorded(e, "queued")[j].tries = jobs[j].tries
    BY <1>1, <1>4 DEF Recorded, Typed, TypeOK, Job
  <2>4. jobs' = [Recorded(e, "queued") EXCEPT ![j].tries = t]  BY <2>2, <2>3
  <2> HIDE DEF t
  <2>5. RowsOf(e, "queued")  BY <1>1, <1>4, <2>1, <2>4, RecordedRows
  <2>6. counts' = [counts EXCEPT !.stops = counts.stops + 1, !.returned = counts.returned \/ own]
    BY <1>4 DEF Cancelled
  <2>7. /\ counts' \in Counts /\ counts'.overlapped = counts.overlapped /\ counts'.lost = counts.lost
        /\ counts'.kills = counts.kills /\ counts'.stops = counts.stops + 1 /\ counts'.returned = TRUE
    <3>1. (counts.returned \/ own) = TRUE  BY <1>4
    <3>2. counts' = [counts EXCEPT !.stops = counts.stops + 1, !.returned = TRUE]  BY <2>6, <3>1
    <3>3. counts.stops + 1 \in Nat /\ TRUE \in BOOLEAN  BY <1>2
    <3> HIDE DEF own, j
    <3>4. counts' = [counts EXCEPT !.stops = counts.stops + 1, !.returned = TRUE]  BY <3>2
    <3>5. QED  BY <1>2, <3>3, <3>4 DEF Counts
  <2>8. ~(Unbroken)'  BY <1>2, <2>7 DEF Unbroken
  <2>9. CountsGrow
    <3>1. counts'.lost >= counts.lost  BY <1>2, <2>7
    <3>2. QED  BY <2>7, <2>8, <3>1 DEF CountsGrow
  <2>10. Ends(e) /\ status' = status /\ evaluation' = evaluation /\ pending' = pending /\ call' = call
    BY <1>4 DEF Cancelled
  <2>11. QED  BY <1>1, <2>5, <2>7, <2>8, <2>9, <2>10 DEF Leaves
<1>5. CASE Cancelled(e) /\ ~own
  <2>1. jobs' = jobs  BY <1>5 DEF Cancelled
  <2>2. counts' = [counts EXCEPT !.stops = counts.stops, !.returned = counts.returned \/ own]
    BY <1>5 DEF Cancelled
  <2>3. (counts.returned \/ own) = counts.returned  BY <1>2, <1>5
  <2>4. counts' = counts  BY <1>2, <2>2, <2>3 DEF Counts
  <2>5. CountsGrow /\ counts'.lost = counts.lost  BY <2>4, SameCounts
  <2>6. RowsOf(e, "done")  BY <1>5, <2>1 DEF RowsOf, Typed, TypeOK
  <2>7. Ends(e) /\ status' = status /\ evaluation' = evaluation /\ pending' = pending /\ call' = call
    BY <1>5 DEF Cancelled
  <2>8. QED  BY <1>1, <1>5, <2>5, <2>6, <2>7 DEF Leaves
<1>6. QED  BY <1>3, <1>4, <1>5

LEMMA Advance ==
    ASSUME ParametersOK, Typed, NEW e \in Execs, Advances(e)
    PROVE  Leaves(e) \/ Goes(e) \/ Wait(e)
<1> DEFINE Stays(x) == /\ x \in Exec /\ x.j = exec[e].j
                       /\ exec' = [exec EXCEPT ![e] = x]
<1>0. exec \in [Execs -> Exec] /\ exec[e] \in Exec /\ status \in Statuses  BY DEF Typed, TypeOK
<1>1. \A x : Stays(x) => /\ exec' \in [Execs -> Exec] /\ exec'[e] = x /\ exec'[e].j = exec[e].j
                         /\ \A d \in Execs : d # e => exec'[d] = exec[d]
  BY <1>0
<1>2. CASE Load(e)
  <2>1. Running(e)  BY <1>2 DEF Load, Running
  <2>2. CASE status \in {"completed", "processing"}
    <3> DEFINE x == [exec[e] EXCEPT !.pc = "entered", !.seen = status]
    <3>1. x \in Exec /\ x.j = exec[e].j /\ x.pc = "entered" /\ x.seen = status  BY <1>0 DEF Exec
    <3>2. exec' = [exec EXCEPT ![e] = x]  BY <1>0, <1>2, <2>2 DEF Load
    <3> HIDE DEF x
    <3>3. Stays(x)  BY <3>1, <3>2
    <3>4. CountsGrow /\ counts'.lost = counts.lost  BY <1>2, SameCounts DEF Load
    <3>5. QED  BY <1>1, <1>2, <2>1, <2>2, <3>1, <3>3, <3>4 DEF Load, Goes
  <2>3. CASE status \notin {"completed", "processing"}
    <3>1. jobs' = Completed(e) /\ Ends(e)  BY <1>2, <2>3 DEF Load
    <3>2. CountsGrow /\ counts'.lost = counts.lost  BY <1>2, SameCounts DEF Load
    <3>3. QED  BY <1>2, <2>1, <3>1, <3>2, CompletedRows DEF Load, Leaves
  <2>4. QED  BY <2>2, <2>3
<1>3. CASE _claim_interview(e)
  <2>1. Running(e)  BY <1>3 DEF _claim_interview, Running
  <2>2. CountsGrow /\ counts'.lost = counts.lost  BY <1>3, SameCounts DEF _claim_interview
  <2>3. CASE status = "completed"
    <3> DEFINE x == [exec[e] EXCEPT !.pc = "turn"]
    <3>1. x \in Exec /\ x.j = exec[e].j /\ x.pc = "turn"  BY <1>0 DEF Exec
    <3>2. exec' = [exec EXCEPT ![e] = x]  BY <1>0, <1>3, <2>3 DEF _claim_interview
    <3> HIDE DEF x
    <3>3. Stays(x)  BY <3>1, <3>2
    <3>5. QED  BY <1>1, <1>3, <2>1, <2>2, <2>3, <3>1, <3>3 DEF _claim_interview, Goes
  <2>4. CASE status # "completed"
    <3>1. jobs' = Completed(e) /\ Ends(e) /\ UNCHANGED status  BY <1>3, <2>4 DEF _claim_interview
    <3>2. QED  BY <1>3, <2>1, <2>2, <3>1, CompletedRows DEF _claim_interview, Leaves
  <2>5. QED  BY <2>3, <2>4
<1>4. CASE CheckTurn(e)
  <2>1. Running(e)  BY <1>4 DEF CheckTurn, Running
  <2>2. CountsGrow /\ counts'.lost = counts.lost  BY <1>4, SameCounts DEF CheckTurn
  <2>3. CASE ~_another_job_is_running(exec[e].j)
    <3> DEFINE x == [exec[e] EXCEPT !.pc = "turn"]
    <3>1. x \in Exec /\ x.j = exec[e].j /\ x.pc = "turn"  BY <1>0 DEF Exec
    <3>2. exec' = [exec EXCEPT ![e] = x]  BY <1>0, <1>4, <2>3 DEF CheckTurn
    <3> HIDE DEF x
    <3>3. Stays(x)  BY <3>1, <3>2
    <3>5. QED  BY <1>1, <1>4, <2>1, <2>2, <2>3, <3>1, <3>3 DEF CheckTurn, Goes
  <2>4. CASE _another_job_is_running(exec[e].j)
    <3>1. jobs' = Completed(e) /\ Ends(e)  BY <1>4, <2>4 DEF CheckTurn
    <3>2. QED  BY <1>4, <2>1, <2>2, <3>1, CompletedRows DEF CheckTurn, Leaves
  <2>5. QED  BY <2>3, <2>4
<1>5. CASE evaluate_interview(e)
  <2>1. Running(e)  BY <1>5 DEF evaluate_interview, Running
  <2>2. CountsGrow /\ counts'.lost = counts.lost  BY <1>5, ReturnedCounts DEF evaluate_interview
  <2>3. CASE status = "processing"
    <3> DEFINE x == [exec[e] EXCEPT !.pc = "asking", !.seen = status]
    <3>1. x \in Exec /\ x.j = exec[e].j /\ x.pc = "asking"  BY <1>0 DEF Exec
    <3>2. exec' = [exec EXCEPT ![e] = x]  BY <1>0, <1>5, <2>3 DEF evaluate_interview
    <3> HIDE DEF x
    <3>3. Stays(x)  BY <3>1, <3>2
    <3>5. QED  BY <1>1, <1>5, <2>1, <2>2, <2>3, <3>1, <3>3 DEF evaluate_interview, Goes
  <2>4. CASE status # "processing"
    <3>1. jobs' = Failed(e) /\ Ends(e) /\ UNCHANGED evaluation  BY <1>5, <2>4 DEF evaluate_interview
    <3>2. exec[e].pc \in {"turn", "asking"} /\ CountReturned(e)  BY <1>5 DEF evaluate_interview
    <3>3. QED  BY <1>5, <2>1, <2>2, <3>1, <3>2, FailedRows DEF evaluate_interview, Leaves
  <2>5. QED  BY <2>3, <2>4
<1>6. CASE ModelFails(e)
  <2>1. Running(e) /\ exec[e].pc \in {"turn", "asking"}  BY <1>6 DEF ModelFails, Running
  <2>2. CountsGrow /\ counts'.lost = counts.lost  BY <1>6, ReturnedCounts DEF ModelFails
  <2>3. QED  BY <1>6, <2>1, <2>2, FailedRows DEF ModelFails, Leaves
<1>7. CASE ModelAnswers(e)
  <2>1. Running(e)  BY <1>7 DEF ModelAnswers, Running
  <2>2. CountsGrow /\ counts'.lost = counts.lost  BY <1>7, SameCounts DEF ModelAnswers
  <2> DEFINE x == [exec[e] EXCEPT !.pc = "answered"]
  <2>3. x \in Exec /\ x.j = exec[e].j /\ x.pc = "answered"  BY <1>0 DEF Exec
  <2>4. exec' = [exec EXCEPT ![e] = x]  BY <1>0, <1>7 DEF ModelAnswers
  <2> HIDE DEF x
  <2>5. Stays(x)  BY <2>3, <2>4
  <2>6. QED  BY <1>1, <1>7, <2>1, <2>2, <2>3, <2>5 DEF ModelAnswers, Goes
<1>8. CASE Finish(e)
  <2>1. Running(e)  BY <1>8 DEF Finish, Running
  <2>2. CountsGrow /\ counts'.lost = counts.lost  BY <1>8, SameCounts DEF Finish
  <2>3. QED  BY <1>8, <2>1, <2>2, CompletedRows DEF Finish, Leaves
<1>9. QED  BY <1>2, <1>3, <1>4, <1>5, <1>6, <1>7, <1>8 DEF Advances
-----------------------------------------------------------------------------
(* What the steps of the queue do. *)

\* The row of j comes to st and is owned by b.
RowOf(j, st, b) ==
    /\ jobs' \in Seq(Job) /\ DOMAIN jobs' = DOMAIN jobs
    /\ \A i \in DOMAIN jobs : i # j => jobs'[i] = jobs[i]
    /\ jobs'[j].st = st /\ jobs'[j].by = b
    /\ jobs'[j].key = jobs[j].key /\ jobs'[j].n = jobs[j].n /\ jobs'[j].waited = jobs[j].waited

LEMMA LostCounts ==
    ASSUME Typed, NEW j \in DOMAIN jobs, CountLost(j)
    PROVE  /\ CountsGrow /\ counts'.returned = counts.returned
           /\ counts'.lost = (IF LeaseLost(j) THEN counts.lost + 1 ELSE counts.lost)
           /\ LeaseLost(j) => counts'.lost # 0
<1> DEFINE l == IF LeaseLost(j) THEN counts.lost + 1 ELSE counts.lost
<1>1. counts \in Counts /\ counts.lost \in Nat /\ counts.kills \in Nat /\ counts.stops \in Nat
  BY DEF Typed, TypeOK, Counts
<1>2. l \in Nat /\ l >= counts.lost /\ (LeaseLost(j) => l # 0)  BY <1>1
<1>3. counts' = [counts EXCEPT !.lost = l]  BY DEF CountLost
<1>4. l = (IF LeaseLost(j) THEN counts.lost + 1 ELSE counts.lost)  OBVIOUS
<1> HIDE DEF l
<1>5. /\ counts' \in Counts /\ counts'.overlapped = counts.overlapped /\ counts'.lost = l
      /\ counts'.kills = counts.kills /\ counts'.stops = counts.stops /\ counts'.returned = counts.returned
  BY <1>1, <1>2, <1>3 DEF Counts
<1>6. (Unbroken)' => Unbroken  BY <1>1, <1>2, <1>5 DEF Unbroken
<1>7. CountsGrow
  <2>1. counts'.lost >= counts.lost  BY <1>2, <1>5
  <2>2. QED  BY <1>5, <1>6, <2>1 DEF CountsGrow
<1>8. counts'.lost = (IF LeaseLost(j) THEN counts.lost + 1 ELSE counts.lost)  BY <1>4, <1>5
<1>9. LeaseLost(j) => counts'.lost # 0  BY <1>2, <1>5
<1>10. QED  BY <1>5, <1>7, <1>8, <1>9

\* An execution takes a job: one that is due, or one whose worker is dead or whose lease was lost.
Takes(e, j) ==
    /\ ~Running(e) /\ Claimable(j) /\ RowOf(j, "running", e) /\ jobs'[j].tries >= 1
    /\ exec' \in [Execs -> Exec] /\ exec'[e].pc = "started" /\ exec'[e].j = j
    /\ \A d \in Execs : d # e => exec'[d] = exec[d]
    /\ CountsGrow /\ counts'.returned = counts.returned
    /\ IF LeaseLost(j) THEN counts'.lost # 0 ELSE counts'.lost = counts.lost
    /\ UNCHANGED <<status, evaluation, pending, call>>

LEMMA Taking ==
    ASSUME ParametersOK, Typed, NEW e \in Execs, NEW j \in DOMAIN jobs, Take(e, j)
    PROVE  Takes(e, j)
<1> DEFINE r == [jobs[j] EXCEPT !.st = "running", !.by = e, !.tries = jobs[j].tries + 1]
           x == [Idle EXCEPT !.pc = "started", !.j = j]
<1>0. jobs \in Seq(Job) /\ exec \in [Execs -> Exec]  BY DEF Typed, TypeOK
<1>1. /\ jobs \in Seq(Job) /\ jobs[j] \in Job /\ exec \in [Execs -> Exec] /\ j \in Nat
      /\ jobs[j].tries \in Nat
  <2>1. jobs[j] \in Job /\ j \in Nat  BY <1>0
  <2>2. QED  BY <1>0, <2>1, Constants DEF Job
<1>2. jobs[j].tries + 1 \in 0 .. MaxTries /\ jobs[j].tries + 1 >= 1
  BY <1>1, Constants DEF Take, OutOfTries
<1>3. r \in Job  BY <1>1, <1>2 DEF Job
<1>4. /\ r.st = "running" /\ r.by = e /\ r.tries >= 1
      /\ r.key = jobs[j].key /\ r.n = jobs[j].n /\ r.waited = jobs[j].waited
  BY <1>1, <1>2 DEF Job
<1>5. x \in Exec /\ x.pc = "started" /\ x.j = j  BY <1>1, IdleExec DEF Exec, Idle
<1>6. jobs' = [jobs EXCEPT ![j] = r]  BY <1>1 DEF Take
<1>7. exec' = [exec EXCEPT ![e] = x]  BY DEF Take
<1> HIDE DEF r, x
<1>8. /\ jobs' \in Seq(Job) /\ DOMAIN jobs' = DOMAIN jobs /\ jobs'[j] = r
      /\ \A i \in DOMAIN jobs : i # j => jobs'[i] = jobs[i]
  BY <1>1, <1>3, <1>6, RowReplaced
<1>9. RowOf(j, "running", e) /\ jobs'[j].tries >= 1  BY <1>4, <1>8 DEF RowOf
<1>10. exec' \in [Execs -> Exec] /\ exec'[e] = x /\ \A d \in Execs : d # e => exec'[d] = exec[d]
  BY <1>1, <1>5, <1>7
<1>11. /\ CountsGrow /\ counts'.returned = counts.returned
       /\ IF LeaseLost(j) THEN counts'.lost # 0 ELSE counts'.lost = counts.lost
  <2>1. CountLost(j)  BY DEF Take
  <2>2. QED  BY <2>1, LostCounts
<1>12. ~Running(e) /\ Claimable(j) /\ UNCHANGED <<status, evaluation, pending, call>>
  BY DEF Take, Running
<1>13. QED  BY <1>5, <1>9, <1>10, <1>11, <1>12 DEF Takes

\* A job that ran out of tries is buried.
Buries(j) ==
    /\ jobs[j].st = "running" /\ RowOf(j, "failed", None)
    /\ CountsGrow /\ counts'.returned = counts.returned
    /\ IF LeaseLost(j) THEN counts'.lost # 0 ELSE counts'.lost = counts.lost
    /\ UNCHANGED <<status, evaluation, pending, exec, call>>

LEMMA Burying ==
    ASSUME ParametersOK, Typed, NEW j \in DOMAIN jobs, Bury(j)
    PROVE  Buries(j)
<1> DEFINE r == [jobs[j] EXCEPT !.st = "failed", !.by = None]
<1>1. jobs \in Seq(Job) /\ jobs[j] \in Job  BY DEF Typed, TypeOK
<1>2. r \in Job  BY <1>1 DEF Job
<1>3. /\ r.st = "failed" /\ r.by = None
      /\ r.key = jobs[j].key /\ r.n = jobs[j].n /\ r.waited = jobs[j].waited
  BY <1>1 DEF Job
<1>4. jobs' = [jobs EXCEPT ![j] = r]  BY <1>1 DEF Bury
<1> HIDE DEF r
<1>5. /\ jobs' \in Seq(Job) /\ DOMAIN jobs' = DOMAIN jobs /\ jobs'[j] = r
      /\ \A i \in DOMAIN jobs : i # j => jobs'[i] = jobs[i]
  BY <1>1, <1>2, <1>4, RowReplaced
<1>6. RowOf(j, "failed", None)  BY <1>3, <1>5 DEF RowOf
<1>7. /\ CountsGrow /\ counts'.returned = counts.returned
      /\ IF LeaseLost(j) THEN counts'.lost # 0 ELSE counts'.lost = counts.lost
  <2>1. CountLost(j)  BY DEF Bury
  <2>2. QED  BY <2>1, LostCounts
<1>8. jobs[j].st = "running" /\ UNCHANGED <<status, evaluation, pending, exec, call>>  BY DEF Bury
<1>9. QED  BY <1>6, <1>7, <1>8 DEF Buries

\* A new row comes last, unless an unfinished job has its key.
Adds(key, n, waited) ==
    /\ jobs' \in Seq(Job)
    /\ IF \E j \in active_jobs : jobs[j].key = key /\ jobs[j].n = n THEN jobs' = jobs
       ELSE /\ Len(jobs) + 1 \in DOMAIN jobs' /\ jobs'[Len(jobs) + 1] = NewJob(key, n, waited)
            /\ \A i \in DOMAIN jobs : i \in DOMAIN jobs' /\ jobs'[i] = jobs[i]
            /\ \A i \in DOMAIN jobs' : i \in DOMAIN jobs \/ (i = Len(jobs) + 1 /\ \A k \in DOMAIN jobs : k < i)

LEMMA Enqueueing ==
    ASSUME ParametersOK, Typed, NEW key \in Keys, NEW n \in Nat, NEW waited \in 0 .. WAIT_MAX_RETRIES,
           jobs' = enqueue(key, n, waited)
    PROVE  Adds(key, n, waited)
<1> DEFINE r == NewJob(key, n, waited)
<1>1. r \in Job  BY Constants DEF NewJob, Job
<1>2. jobs \in Seq(Job) /\ Len(jobs) \in Nat  BY DEF Typed, TypeOK
<1>3. CASE \E j \in active_jobs : jobs[j].key = key /\ jobs[j].n = n
  <2>1. jobs' = jobs  BY <1>3 DEF enqueue
  <2>2. QED  BY <1>2, <1>3, <2>1 DEF Adds
<1>4. CASE ~\E j \in active_jobs : jobs[j].key = key /\ jobs[j].n = n
  <2>1. jobs' = Append(jobs, r)  BY <1>4 DEF enqueue
  <2> HIDE DEF r
  <2>2. /\ jobs' \in Seq(Job) /\ Len(jobs') = Len(jobs) + 1 /\ jobs'[Len(jobs) + 1] = r
        /\ \A i \in DOMAIN jobs : i \in DOMAIN jobs' /\ jobs'[i] = jobs[i]
        /\ \A i \in DOMAIN jobs' : i \in DOMAIN jobs \/ (i = Len(jobs) + 1 /\ \A k \in DOMAIN jobs : k < i)
    BY <1>1, <1>2, <2>1, RowAdded
  <2>3. Len(jobs) + 1 \in DOMAIN jobs'  BY <1>2, <2>2
  <2>4. QED  BY <1>4, <2>2, <2>3 DEF Adds, r
<1>5. QED  BY <1>3, <1>4
-----------------------------------------------------------------------------
(* The steps of the rest, and all steps together. *)

\* A job that waits for the answers queues its successor.
HandsOn(e) ==
    /\ exec[e].pc = "turn" /\ Adds("wait", jobs[exec[e].j].waited + 1, jobs[exec[e].j].waited + 1)
    /\ exec' \in [Execs -> Exec] /\ exec'[e].pc = "waiting" /\ exec'[e].j = exec[e].j
    /\ \A d \in Execs : d # e => exec'[d] = exec[d]
    /\ UNCHANGED <<status, evaluation, pending, call, counts>>

LEMMA Waiting ==
    ASSUME ParametersOK, Typed, NEW e \in Execs, Wait(e)
    PROVE  HandsOn(e)
<1> DEFINE a == jobs[exec[e].j].waited + 1
           x == [exec[e] EXCEPT !.pc = "waiting"]
<1>1. exec[e].j \in DOMAIN jobs /\ jobs[exec[e].j] \in Job /\ exec \in [Execs -> Exec] /\ exec[e] \in Exec
  BY DEF Typed, TypeOK, Wait
<1>2. a \in 0 .. WAIT_MAX_RETRIES /\ a \in Nat /\ "wait" \in Keys  BY <1>1, Constants DEF Wait, Job, Keys
<1>3. jobs' = enqueue("wait", a, a)  BY DEF Wait
<1>4. x \in Exec /\ x.pc = "waiting" /\ x.j = exec[e].j  BY <1>1 DEF Exec
<1>5. exec' = [exec EXCEPT ![e] = x]  BY <1>1 DEF Wait
<1> HIDE DEF a, x
<1>6. Adds("wait", a, a)  BY <1>2, <1>3, Enqueueing
<1>7. exec' \in [Execs -> Exec] /\ exec'[e] = x /\ \A d \in Execs : d # e => exec'[d] = exec[d]
  BY <1>1, <1>4, <1>5
<1>8. QED  BY <1>4, <1>6, <1>7 DEF HandsOn, Wait, a

\* A request to reprocess has found no unfinished job.
Asks(c) ==
    /\ ~call[c].open /\ active_jobs = {}
    /\ call' \in [Calls -> Call] /\ call'[c].open /\ call'[c].seen = status /\ call'[c].had = evaluation
    /\ \A d \in Calls : d # c => call'[d] = call[d]
    /\ counts' \in Counts /\ counts'.lost = counts.lost
    /\ Unbroken <=> (Unbroken)'
    /\ ~counts'.returned => ~counts.returned
    /\ ~counts'.overlapped => ~counts.overlapped /\ \A d \in Calls : ~call[d].open
    /\ UNCHANGED <<status, evaluation, pending, jobs, exec>>

LEMMA Asking ==
    ASSUME Typed, NEW c \in Calls, reprocess(c)
    PROVE  Asks(c)
<1> DEFINE x == [open |-> TRUE, seen |-> status, had |-> evaluation]
           o == \E d \in Calls : call[d].open
<1>1. /\ counts \in Counts /\ counts.reprocess \in Nat /\ counts.overlapped \in BOOLEAN
      /\ call \in [Calls -> Call] /\ status \in Statuses /\ evaluation \in Evaluations
  BY DEF Typed, TypeOK, Counts
<1>2. x \in Call /\ x.open /\ x.seen = status /\ x.had = evaluation  BY <1>1 DEF Call
<1>3. call' = [call EXCEPT ![c] = x]  BY DEF reprocess
<1>4. counts' = [counts EXCEPT !.reprocess = counts.reprocess + 1, !.overlapped = counts.overlapped \/ o]
  BY DEF reprocess
<1>5. (counts.overlapped \/ o) \in BOOLEAN  OBVIOUS
<1>6. ~o => \A d \in Calls : ~call[d].open  OBVIOUS
<1>7. counts.reprocess + 1 \in Nat  BY <1>1
<1> HIDE DEF x, o
<1>8. /\ counts' \in Counts /\ counts'.overlapped = (counts.overlapped \/ o) /\ counts'.lost = counts.lost
      /\ counts'.kills = counts.kills /\ counts'.stops = counts.stops /\ counts'.returned = counts.returned
  BY <1>1, <1>4, <1>5, <1>7 DEF Counts
<1>9. Unbroken <=> (Unbroken)'  BY <1>8 DEF Unbroken
<1>10. ~counts'.overlapped => ~counts.overlapped /\ ~o  BY <1>8
<1>11. call' \in [Calls -> Call] /\ call'[c] = x /\ \A d \in Calls : d # c => call'[d] = call[d]
  BY <1>1, <1>2, <1>3
<1>12. ~call[c].open /\ active_jobs = {} /\ UNCHANGED <<status, evaluation, pending, jobs, exec>>
  BY DEF reprocess, Refused
<1>13. ~counts'.returned => ~counts.returned  BY <1>8
<1>14. QED  BY <1>2, <1>6, <1>8, <1>9, <1>10, <1>11, <1>12, <1>13 DEF Asks

\* The request commits: the old result is gone and a job is queued.
Commits(c) ==
    /\ call[c].open /\ status' = (IF call[c].seen = "evaluated" THEN "processing" ELSE status)
    /\ evaluation' = (IF call[c].had = "pending" THEN evaluation ELSE "pending")
    /\ \E n \in Nat : Adds("reprocess", n, 0)
    /\ call' \in [Calls -> Call] /\ ~call'[c].open
    /\ \A d \in Calls : d # c => call'[d] = call[d]
    /\ UNCHANGED <<pending, exec, counts>>

\* The request is rolled back.
Refuses(c) ==
    /\ call' \in [Calls -> Call] /\ ~call'[c].open
    /\ \A d \in Calls : d # c => call'[d] = call[d]
    /\ UNCHANGED <<status, evaluation, pending, jobs, exec, counts>>

LEMMA Committing ==
    ASSUME ParametersOK, Typed, NEW c \in Calls, ReprocessCommits(c)
    PROVE  Commits(c) \/ Refuses(c)
<1> DEFINE R == {j \in DOMAIN jobs : jobs[j].key = "reprocess"}
           x == [call[c] EXCEPT !.open = FALSE]
<1>1. jobs \in Seq(Job) /\ call \in [Calls -> Call] /\ call[c] \in Call  BY DEF Typed, TypeOK
<1>2. Cardinality(R) \in Nat
  <2>1. Len(jobs) \in Nat /\ DOMAIN jobs = 1 .. Len(jobs)  BY <1>1
  <2>2. IsFiniteSet(1 .. Len(jobs))  BY <2>1, FS_Interval
  <2>3. R \subseteq 1 .. Len(jobs)  BY <2>1
  <2> HIDE DEF R
  <2>4. IsFiniteSet(R)  BY <2>2, <2>3, FS_Subset
  <2>5. QED  BY <2>4, FS_CardinalityType
<1> DEFINE n == 1 + Cardinality(R)
<1>3. n \in Nat /\ 0 \in 0 .. WAIT_MAX_RETRIES /\ "reprocess" \in Keys  BY <1>2, Constants DEF Keys
<1>5. x \in Call /\ ~x.open  BY <1>1 DEF Call
<1>6. call' = [call EXCEPT ![c] = x]  BY <1>1 DEF ReprocessCommits
<1>4. ~RowExists(c) => jobs' = enqueue("reprocess", n, 0)  BY DEF ReprocessCommits
<1> HIDE DEF n, x
<1>7. ~RowExists(c) => Adds("reprocess", n, 0)  BY <1>3, <1>4, Enqueueing
<1>8. call' \in [Calls -> Call] /\ call'[c] = x /\ \A d \in Calls : d # c => call'[d] = call[d]
  BY <1>1, <1>5, <1>6
<1>9. CASE RowExists(c)  BY <1>5, <1>8, <1>9 DEF Refuses, ReprocessCommits
<1>10. CASE ~RowExists(c)
  <2>1. /\ call[c].open /\ status' = (IF call[c].seen = "evaluated" THEN "processing" ELSE status)
        /\ evaluation' = (IF call[c].had = "pending" THEN evaluation ELSE "pending")
        /\ UNCHANGED <<pending, exec, counts>>
    BY <1>10 DEF ReprocessCommits, reset_evaluation
  <2>2. QED  BY <1>3, <1>5, <1>7, <1>8, <1>10, <2>1 DEF Commits
<1>11. QED  BY <1>9, <1>10

\* What happens beside the queue, or nothing.
Aside ==
    /\ status' = status \/ (status' \in {"cancelled", "reviewed", "advanced", "rejected"})
    /\ pending' \in BOOLEAN
    /\ UNCHANGED <<evaluation, jobs, exec, call, counts>>

LEMMA Steps ==
    ASSUME ParametersOK, Typed, [Next]_vars
    PROVE  \/ \E e \in Execs : Leaves(e) \/ Goes(e) \/ HandsOn(e)
           \/ \E j \in DOMAIN jobs : Buries(j) \/ \E e \in Execs : Takes(e, j)
           \/ \E c \in Calls : Asks(c) \/ Commits(c) \/ Refuses(c)
           \/ Aside
<1>1. ASSUME NEW e \in Execs, Advances(e) \/ Cancelled(e) \/ Killed(e)
      PROVE  Leaves(e) \/ Goes(e) \/ HandsOn(e)
  BY <1>1, Advance, BrokenOff, Waiting
<1>2. ASSUME NEW j \in DOMAIN jobs, Bury(j) \/ \E e \in Execs : Take(e, j)
      PROVE  Buries(j) \/ \E e \in Execs : Takes(e, j)
  BY <1>2, Burying, Taking
<1>3. ASSUME NEW c \in Calls, reprocess(c) \/ ReprocessCommits(c)
      PROVE  Asks(c) \/ Commits(c) \/ Refuses(c)
  BY <1>3, Asking, Committing
<1>4. ASSUME Transcribing \/ cancel \/ (\E t \in {"reviewed", "advanced", "rejected"} : decide(t)) \/ UNCHANGED vars
      PROVE  Aside
  BY <1>4 DEF Transcribing, cancel, decide, vars, Aside, Typed, TypeOK
<1>5. QED  BY <1>1, <1>2, <1>3, <1>4 DEF Next
-----------------------------------------------------------------------------
(* Types, and who owns what. *)

LEMMA StartIsTyped ==
    ASSUME ParametersOK, Init
    PROVE  Typed
<1> DEFINE r == NewJob("base", 0, 0)
<1>1. r \in Job /\ r.by = None  BY Constants DEF NewJob, Job, Keys
<1>2. jobs = <<r>>  BY DEF Init
<1> HIDE DEF r
<1>3. jobs \in Seq(Job) /\ \A j \in DOMAIN jobs : jobs[j].by = None  BY <1>1, <1>2
<1>4. exec \in [Execs -> Exec] /\ \A e \in Execs : exec[e].pc = "idle"  BY IdleExec DEF Init, Idle
<1>5. call \in [Calls -> Call]
  <2>1. [open |-> FALSE, seen |-> "completed", had |-> "none"] \in Call  BY DEF Call, Statuses, Evaluations
  <2>2. QED  BY <2>1 DEF Init
<1>6. counts \in [reprocess: Nat, kills: Nat, stops: Nat, lost: Nat, returned: BOOLEAN, overlapped: BOOLEAN]
  <2>1. 0 \in Nat /\ FALSE \in BOOLEAN  OBVIOUS
  <2>2. counts = [reprocess |-> 0, kills |-> 0, stops |-> 0, lost |-> 0, returned |-> FALSE, overlapped |-> FALSE]
    BY DEF Init
  <2>3. QED  BY <2>1, <2>2
<1>7. status \in Statuses /\ evaluation \in Evaluations /\ pending \in BOOLEAN
  BY DEF Init, Statuses, Evaluations
<1>8. TypeOK  BY <1>3, <1>4, <1>5, <1>6, <1>7 DEF TypeOK
<1>9. Owned /\ OwnJob  BY <1>3, <1>4 DEF Owned, OwnJob, Running
<1>10. QED  BY <1>8, <1>9 DEF Typed

\* The rows that a step of the execution e, or the burial of a job, leaves are typed and owned.
LEMMA OwnedRows ==
    ASSUME ParametersOK, Typed, NEW e \in Execs, NEW st, RowsOf(e, st)
    PROVE  (Owned)' /\ \A i \in DOMAIN jobs : jobs'[i].by # None => jobs'[i] = jobs[i]
BY DEF RowsOf, Typed, Owned

LEMMA TypesKept ==
    ASSUME ParametersOK, Typed, [Next]_vars
    PROVE  (Typed)'
<1> USE DEF Counts
<1>0. /\ status \in Statuses /\ evaluation \in Evaluations /\ pending \in BOOLEAN
      /\ jobs \in Seq(Job) /\ exec \in [Execs -> Exec] /\ call \in [Calls -> Call]
      /\ \A d \in Execs : exec[d].pc # "idle" => exec[d].j \in DOMAIN jobs
      /\ counts \in Counts /\ counts.lost \in Nat
      /\ Owned /\ OwnJob /\ None \notin Execs
  BY Constants DEF Typed, TypeOK
<1>1. ASSUME NEW e \in Execs, Leaves(e)
      PROVE  (Typed)'
  <2>0. PICK st \in {"queued", "running", "done", "failed"} : RowsOf(e, st)  BY <1>1 DEF Leaves
  <2>1. /\ exec' \in [Execs -> Exec] /\ exec'[e].pc = "idle"
        /\ \A d \in Execs : d # e => exec'[d] = exec[d]
    BY <1>0, <1>1, IdleExec DEF Leaves, Ends, Idle
  <2>2. evaluation' \in Evaluations /\ counts' \in Counts /\ jobs' \in Seq(Job) /\ DOMAIN jobs' = DOMAIN jobs
    BY <1>0, <1>1, <2>0 DEF Leaves, Evaluations, CountsGrow, RowsOf
  <2>3. TypeOK'  BY <1>0, <1>1, <2>1, <2>2 DEF Leaves, TypeOK
  <2>4. OwnJob'
    <3>1. SUFFICES ASSUME counts'.lost = 0, NEW d \in Execs, exec'[d].pc # "idle"
                   PROVE  jobs'[exec'[d].j].st = "running" /\ jobs'[exec'[d].j].by = d
      BY DEF OwnJob, Running
    <3>2. d # e /\ exec'[d] = exec[d] /\ exec[d].j \in DOMAIN jobs  BY <1>0, <2>1, <3>1
    <3>3. jobs[exec[d].j].st = "running" /\ jobs[exec[d].j].by = d
      BY <1>0, <1>1, <3>1, <3>2 DEF OwnJob, Running, Leaves
    <3>4. jobs'[exec[d].j] = jobs[exec[d].j]  BY <2>0, <3>2, <3>3 DEF RowsOf
    <3>5. QED  BY <3>2, <3>3, <3>4
  <2>5. Owned'  BY <2>0, OwnedRows
  <2>6. QED  BY <2>3, <2>4, <2>5 DEF Typed
<1>2. ASSUME NEW e \in Execs, Goes(e)
      PROVE  (Typed)'
  <2>1. /\ jobs' = jobs /\ exec' \in [Execs -> Exec] /\ exec'[e].j = exec[e].j /\ exec[e].pc # "idle"
        /\ \A d \in Execs : d # e => exec'[d] = exec[d]
        /\ counts' \in Counts /\ counts'.lost = counts.lost /\ pending' = pending /\ call' = call
    BY <1>2 DEF Goes, CountsGrow, Running
  <2>2. status' \in Statuses /\ evaluation' \in Evaluations
    BY <1>0, <1>2 DEF Goes, Statuses, Evaluations
  <2>3. \A d \in Execs : exec'[d].pc # "idle" => exec'[d].j = exec[d].j /\ exec[d].pc # "idle"
    BY <2>1
  <2>4. TypeOK'  BY <1>0, <2>1, <2>2, <2>3 DEF TypeOK
  <2>5. Owned' /\ OwnJob'  BY <1>0, <2>1, <2>3 DEF Owned, OwnJob, Running
  <2>6. QED  BY <2>4, <2>5 DEF Typed
<1>3. ASSUME NEW e \in Execs, HandsOn(e)
      PROVE  (Typed)'
  <2>1. /\ exec' \in [Execs -> Exec] /\ exec'[e].j = exec[e].j /\ exec[e].pc # "idle"
        /\ \A d \in Execs : d # e => exec'[d] = exec[d]
        /\ counts' = counts /\ pending' = pending /\ call' = call /\ status' = status /\ evaluation' = evaluation
    BY <1>3 DEF HandsOn
  <2>2. \A d \in Execs : exec'[d].pc # "idle" => exec'[d].j = exec[d].j /\ exec[d].pc # "idle"
    BY <2>1
  <2>3. /\ jobs' \in Seq(Job)
        /\ \A i \in DOMAIN jobs : i \in DOMAIN jobs' /\ jobs'[i] = jobs[i]
        /\ \A i \in DOMAIN jobs' : i \in DOMAIN jobs \/ jobs'[i].by = None
    BY <1>3 DEF HandsOn, Adds, NewJob
  <2>4. TypeOK'  BY <1>0, <2>1, <2>2, <2>3 DEF TypeOK
  <2>5. Owned' /\ OwnJob'  BY <1>0, <2>1, <2>2, <2>3 DEF Owned, OwnJob, Running
  <2>6. QED  BY <2>4, <2>5 DEF Typed
<1>4. ASSUME NEW j \in DOMAIN jobs, Buries(j)
      PROVE  (Typed)'
  <2>1. /\ jobs' \in Seq(Job) /\ DOMAIN jobs' = DOMAIN jobs /\ jobs'[j].by = None
        /\ \A i \in DOMAIN jobs : i # j => jobs'[i] = jobs[i]
        /\ counts' \in Counts /\ jobs[j].st = "running"
        /\ IF LeaseLost(j) THEN counts'.lost # 0 ELSE counts'.lost = counts.lost
        /\ UNCHANGED <<status, evaluation, pending, exec, call>>
    BY <1>4 DEF Buries, RowOf, CountsGrow
  <2>2. TypeOK'  BY <1>0, <2>1 DEF TypeOK
  <2>3. Owned'  BY <1>0, <2>1 DEF Owned
  <2>4. OwnJob'
    <3>1. SUFFICES ASSUME counts'.lost = 0, NEW d \in Execs, exec[d].pc # "idle"
                   PROVE  jobs'[exec[d].j].st = "running" /\ jobs'[exec[d].j].by = d
      BY <2>1 DEF OwnJob, Running
    <3>2. ~LeaseLost(j) /\ counts.lost = 0  BY <2>1, <3>1
    <3>3. jobs[exec[d].j].st = "running" /\ jobs[exec[d].j].by = d /\ exec[d].j \in DOMAIN jobs
      BY <1>0, <3>1, <3>2 DEF OwnJob, Running
    <3>4. exec[d].j # j  BY <1>0, <2>1, <3>2, <3>3 DEF LeaseLost
    <3>5. QED  BY <2>1, <3>3, <3>4
  <2>5. QED  BY <2>2, <2>3, <2>4 DEF Typed
<1>5. ASSUME NEW j \in DOMAIN jobs, NEW e \in Execs, Takes(e, j)
      PROVE  (Typed)'
  <2>1. /\ jobs' \in Seq(Job) /\ DOMAIN jobs' = DOMAIN jobs
        /\ jobs'[j].by = e /\ jobs'[j].st = "running" /\ jobs'[j].tries >= 1
        /\ \A i \in DOMAIN jobs : i # j => jobs'[i] = jobs[i]
        /\ exec' \in [Execs -> Exec] /\ exec'[e].j = j /\ \A d \in Execs : d # e => exec'[d] = exec[d]
        /\ counts' \in Counts
        /\ IF LeaseLost(j) THEN counts'.lost # 0 ELSE counts'.lost = counts.lost
        /\ UNCHANGED <<status, evaluation, pending, call>>
    BY <1>5 DEF Takes, RowOf, CountsGrow
  <2>2. TypeOK'  BY <1>0, <2>1 DEF TypeOK
  <2>3. Owned'  BY <1>0, <2>1 DEF Owned
  <2>4. OwnJob'
    <3>1. SUFFICES ASSUME counts'.lost = 0, NEW d \in Execs, exec'[d].pc # "idle", d # e
                   PROVE  jobs'[exec'[d].j].st = "running" /\ jobs'[exec'[d].j].by = d
      BY <2>1 DEF OwnJob, Running
    <3>2. ~LeaseLost(j) /\ counts.lost = 0 /\ exec'[d] = exec[d]  BY <2>1, <3>1
    <3>3. jobs[exec[d].j].st = "running" /\ jobs[exec[d].j].by = d /\ exec[d].j \in DOMAIN jobs
      BY <1>0, <3>1, <3>2 DEF OwnJob, Running
    <3>4. exec[d].j # j  BY <1>0, <2>1, <3>2, <3>3 DEF LeaseLost
    <3>5. QED  BY <2>1, <3>2, <3>3, <3>4
  <2>5. QED  BY <2>2, <2>3, <2>4 DEF Typed
<1>6. ASSUME NEW c \in Calls, Asks(c)
      PROVE  (Typed)'
  <2>1. TypeOK'  BY <1>0, <1>6 DEF Asks, TypeOK
  <2>2. Owned' /\ OwnJob'  BY <1>0, <1>6 DEF Asks, Owned, OwnJob, Running
  <2>3. QED  BY <2>1, <2>2 DEF Typed
<1>7. ASSUME NEW c \in Calls, Commits(c)
      PROVE  (Typed)'
  <2>1. /\ jobs' \in Seq(Job)
        /\ \A i \in DOMAIN jobs : i \in DOMAIN jobs' /\ jobs'[i] = jobs[i]
        /\ \A i \in DOMAIN jobs' : i \in DOMAIN jobs \/ jobs'[i].by = None
    BY <1>7 DEF Commits, Adds, NewJob
  <2>2. status' \in Statuses /\ evaluation' \in Evaluations  BY <1>0, <1>7 DEF Commits, Statuses, Evaluations
  <2>3. call' \in [Calls -> Call] /\ exec' = exec /\ counts' = counts /\ pending' = pending  BY <1>7 DEF Commits
  <2>4. TypeOK'  BY <1>0, <2>1, <2>2, <2>3 DEF TypeOK
  <2>5. Owned' /\ OwnJob'  BY <1>0, <2>1, <2>3 DEF Owned, OwnJob, Running
  <2>6. QED  BY <2>4, <2>5 DEF Typed
<1>8. ASSUME Aside
      PROVE  (Typed)'
  <2>1. status' \in Statuses /\ pending' \in BOOLEAN /\ UNCHANGED <<evaluation, jobs, exec, call, counts>>
    BY <1>0, <1>8 DEF Aside, Statuses
  <2>2. TypeOK'  BY <1>0, <2>1 DEF TypeOK
  <2>3. Owned' /\ OwnJob'  BY <1>0, <2>1 DEF Owned, OwnJob, Running
  <2>4. QED  BY <2>2, <2>3 DEF Typed
<1>9. ASSUME NEW c \in Calls, Refuses(c)
      PROVE  (Typed)'
  <2>1. TypeOK'  BY <1>0, <1>9 DEF Refuses, TypeOK
  <2>2. Owned' /\ OwnJob'  BY <1>0, <1>9 DEF Refuses, Owned, OwnJob, Running
  <2>3. QED  BY <2>1, <2>2 DEF Typed
<1>10. QED  BY <1>1, <1>2, <1>3, <1>4, <1>5, <1>6, <1>7, <1>8, <1>9, Steps
-----------------------------------------------------------------------------
(* One execution at a time. *)

\* A step that queues nothing new leaves a part of the unfinished jobs, as they were or running.
Shrinks ==
    \A i \in active_jobs' :
        /\ i \in active_jobs
        /\ jobs'[i].key = jobs[i].key /\ jobs'[i].n = jobs[i].n /\ jobs'[i].waited = jobs[i].waited
        /\ Orderly' /\ jobs[i].st = "running" => jobs'[i].st = "running"

LEMMA OrderlyBefore ==
    ASSUME Typed, CountsGrow
    PROVE  /\ counts'.lost = 0 /\ ~counts'.overlapped => counts.lost = 0 /\ ~counts.overlapped
           /\ Orderly' => Orderly
<1>1. counts.lost \in Nat /\ counts'.lost \in Nat  BY DEF Typed, TypeOK, CountsGrow, Counts
<1>2. counts'.lost = 0 => counts.lost = 0  BY <1>1 DEF CountsGrow
<1>3. QED  BY <1>2 DEF CountsGrow, Orderly

LEMMA Shrinking ==
    ASSUME ParametersOK, Typed
    PROVE  /\ \A e \in Execs : Leaves(e) => Shrinks
           /\ \A e \in Execs : Goes(e) => Shrinks
           /\ \A j \in DOMAIN jobs : Buries(j) => Shrinks
           /\ \A j \in DOMAIN jobs, e \in Execs : Takes(e, j) => Shrinks /\ j \in active_jobs
           /\ \A c \in Calls : Asks(c) \/ Refuses(c) => Shrinks
           /\ Aside => Shrinks
<1>0. Owned /\ OwnJob /\ None \notin Execs  BY Constants DEF Typed
<1>1. ASSUME NEW e \in Execs, Leaves(e) PROVE Shrinks
  <2>1. PICK st \in {"queued", "running", "done", "failed"} :
             /\ RowsOf(e, st) /\ (jobs[exec[e].j].by = e /\ st = "queued" => counts'.returned)
    BY <1>1 DEF Leaves
  <2>2. ASSUME NEW i \in active_jobs'
        PROVE  /\ i \in active_jobs
               /\ jobs'[i].key = jobs[i].key /\ jobs'[i].n = jobs[i].n /\ jobs'[i].waited = jobs[i].waited
               /\ Orderly' /\ jobs[i].st = "running" => jobs'[i].st = "running"
    <3>1. i \in DOMAIN jobs /\ jobs'[i].st \in {"queued", "running"}  BY <2>1, <2>2 DEF active_jobs, RowsOf
    <3>2. CASE i = exec[e].j /\ jobs[i].by = e
      <4>1. /\ jobs'[i].st = st
            /\ jobs'[i].key = jobs[i].key /\ jobs'[i].n = jobs[i].n /\ jobs'[i].waited = jobs[i].waited
        BY <2>1, <3>1, <3>2 DEF RowsOf
      <4>2. jobs[i].st = "running"  BY <1>0, <3>1, <3>2 DEF Owned
      <4>3. Orderly' => st # "queued"  BY <2>1, <3>2 DEF Orderly
      <4>4. QED  BY <3>1, <4>1, <4>2, <4>3 DEF active_jobs
    <3>3. CASE ~(i = exec[e].j /\ jobs[i].by = e)
      <4>1. jobs'[i] = jobs[i]  BY <2>1, <3>1, <3>3 DEF RowsOf
      <4>2. QED  BY <3>1, <4>1 DEF active_jobs
    <3>4. QED  BY <3>2, <3>3
  <2>3. QED  BY <2>2 DEF Shrinks
<1>2. ASSUME jobs' = jobs PROVE Shrinks  BY <1>2 DEF Shrinks, active_jobs
<1>3. ASSUME NEW j \in DOMAIN jobs, Buries(j) PROVE Shrinks
  BY <1>3 DEF Buries, RowOf, Shrinks, active_jobs
<1>4. ASSUME NEW j \in DOMAIN jobs, NEW e \in Execs, Takes(e, j) PROVE Shrinks /\ j \in active_jobs
  <2>1. j \in active_jobs  BY <1>4 DEF Takes, Claimable, active_jobs
  <2>2. QED  BY <1>4, <2>1 DEF Takes, RowOf, Shrinks, active_jobs
<1>5. QED  BY <1>1, <1>2, <1>3, <1>4 DEF Goes, Asks, Refuses, Aside

\* The job of an execution is unfinished.
LEMMA Busy ==
    ASSUME Typed, counts.lost = 0, NEW e \in Execs, Running(e)
    PROVE  /\ exec[e].j \in active_jobs /\ exec[e].j \in Nat
           /\ jobs[exec[e].j].st = "running" /\ jobs[exec[e].j].by = e
BY DEF Typed, TypeOK, OwnJob, Running, active_jobs

LEMMA JobsAreNumbers == ASSUME Typed PROVE active_jobs \subseteq Nat
<1>1. jobs \in Seq(Job)  BY DEF Typed, TypeOK
<1>2. DOMAIN jobs \subseteq Nat  BY <1>1
<1>3. QED  BY <1>2 DEF active_jobs

LEMMA ClearKept ==
    ASSUME ParametersOK, Typed, Clear, [Next]_vars
    PROVE  (Clear)'
<1> DEFINE R == counts'.lost = 0 /\ ~counts'.overlapped
<1> SUFFICES ASSUME R PROVE \A c \in Calls : call'[c].open => /\ active_jobs' = {}
                                                              /\ \A d \in Calls : call'[d].open => d = c
  BY DEF Clear
<1>0. ASSUME CountsGrow PROVE counts.lost = 0 /\ ~counts.overlapped
  BY <1>0, OrderlyBefore
<1>1. ASSUME Shrinks, counts.lost = 0 /\ ~counts.overlapped, call' = call
      PROVE  \A c \in Calls : call'[c].open => /\ active_jobs' = {}
                                               /\ \A d \in Calls : call'[d].open => d = c
  <2>1. active_jobs = {} => active_jobs' = {}  BY <1>1 DEF Shrinks
  <2>2. QED  BY <1>1, <2>1 DEF Clear
<1>2. CASE \E e \in Execs : Leaves(e) \/ Goes(e)  BY <1>0, <1>1, <1>2, Shrinking DEF Leaves, Goes
<1>3. CASE \E e \in Execs : HandsOn(e)
  <2>1. PICK e \in Execs : HandsOn(e)  BY <1>3
  <2>2. counts.lost = 0 /\ ~counts.overlapped /\ Running(e) /\ call' = call  BY <2>1 DEF HandsOn, Running
  <2>3. active_jobs # {}  BY <2>2, Busy
  <2>4. QED  BY <2>2, <2>3 DEF Clear
<1>4. CASE \E j \in DOMAIN jobs : Buries(j) \/ \E e \in Execs : Takes(e, j)
  BY <1>0, <1>1, <1>4, Shrinking DEF Buries, Takes
<1>5. CASE \E c \in Calls : Asks(c)
  <2>1. PICK c \in Calls : Asks(c)  BY <1>5
  <2>2. active_jobs = {} /\ jobs' = jobs /\ \A d \in Calls : d # c => ~call'[d].open  BY <2>1 DEF Asks
  <2>3. active_jobs' = {}  BY <2>2 DEF active_jobs
  <2>4. QED  BY <2>2, <2>3
<1>6. CASE \E c \in Calls : Commits(c)
  <2>1. PICK c \in Calls : Commits(c)  BY <1>6
  <2>2. counts' = counts /\ call[c].open /\ ~call'[c].open /\ \A d \in Calls : d # c => call'[d] = call[d]
    BY <2>1 DEF Commits
  <2>3. QED  BY <2>2 DEF Clear
<1>7. CASE Aside  BY <1>1, <1>7, Shrinking DEF Aside
<1>8. CASE \E c \in Calls : Refuses(c)
  <2>1. PICK c \in Calls : Refuses(c)  BY <1>8
  <2>2. /\ counts' = counts /\ jobs' = jobs /\ ~call'[c].open
        /\ \A d \in Calls : d # c => call'[d] = call[d]
    BY <2>1 DEF Refuses
  <2>3. active_jobs' = active_jobs  BY <2>2 DEF active_jobs
  <2>4. QED  BY <2>2, <2>3 DEF Clear
<1>9. QED  BY <1>2, <1>3, <1>4, <1>5, <1>6, <1>7, <1>8, Steps

LEMMA BegunKept ==
    ASSUME ParametersOK, Typed, Begun, [Next]_vars
    PROVE  (Begun)'
<1> DEFINE In(x) == x.pc \in {"turn", "asking", "answered", "waiting"} \/ (x.pc = "entered" /\ x.seen = "processing")
<1>0. ASSUME NEW e \in Execs, \A d \in Execs : d # e => exec'[d] = exec[d],
             status' = "completed" => status = "completed",
             In(exec'[e]) => status' # "completed"
      PROVE  (Begun)'
  BY <1>0 DEF Begun
<1>1. ASSUME exec' = exec, status' = "completed" => status = "completed"
      PROVE  (Begun)'
  BY <1>1 DEF Begun
<1>2. CASE \E e \in Execs : Leaves(e)
  <2>1. PICK e \in Execs : Leaves(e)  BY <1>2
  <2>2. exec'[e].pc = "idle" /\ \A d \in Execs : d # e => exec'[d] = exec[d]
    BY <2>1, IdleExec DEF Leaves, Ends, Idle, Typed, TypeOK
  <2>3. QED  BY <1>0, <2>1, <2>2 DEF Leaves
<1>3. CASE \E e \in Execs : Goes(e) \/ HandsOn(e)
  <2>1. PICK e \in Execs : Goes(e) \/ HandsOn(e)  BY <1>3
  <2>2. status' = "completed" => status = "completed"  BY <2>1 DEF Goes, HandsOn
  <2>3. In(exec'[e]) => status' # "completed"  BY <2>1 DEF Goes, HandsOn, Begun
  <2>4. QED  BY <1>0, <2>1, <2>2, <2>3 DEF Goes, HandsOn
<1>4. CASE \E j \in DOMAIN jobs : Buries(j)  BY <1>1, <1>4 DEF Buries
<1>5. CASE \E j \in DOMAIN jobs : \E e \in Execs : Takes(e, j)
  <2>1. PICK j \in DOMAIN jobs, e \in Execs : Takes(e, j)  BY <1>5
  <2>2. exec'[e].pc = "started" /\ status' = status  BY <2>1 DEF Takes
  <2>3. QED  BY <1>0, <2>1, <2>2 DEF Takes
<1>6. CASE \E c \in Calls : Asks(c)  BY <1>1, <1>6 DEF Asks
<1>7. CASE \E c \in Calls : Commits(c)  BY <1>1, <1>7 DEF Commits
<1>8. CASE Aside  BY <1>1, <1>8 DEF Aside
<1>9. CASE \E c \in Calls : Refuses(c)  BY <1>1, <1>9 DEF Refuses
<1>10. QED  BY <1>2, <1>3, <1>4, <1>5, <1>6, <1>7, <1>8, <1>9, Steps

LEMMA SuccessionKept ==
    ASSUME ParametersOK, Typed, Clear, Begun, Succession, Turns, [Next]_vars
    PROVE  (Succession)'
<1> DEFINE Next2(j, k) == /\ status # "completed"
                          /\ jobs[j].st = "running"
                          /\ jobs[k].key = "wait" /\ jobs[k].n = jobs[j].waited + 1 /\ jobs[k].waited = jobs[k].n
<1> SUFFICES ASSUME Orderly' PROVE \A j, k \in active_jobs' : j < k => Next2(j, k)'
  BY DEF Succession
<1>0. ASSUME CountsGrow PROVE Orderly
  BY <1>0, OrderlyBefore
<1>1. ASSUME Shrinks, Orderly, status' = "completed" => status = "completed"
      PROVE  \A j, k \in active_jobs' : j < k => Next2(j, k)'
  <2>1. SUFFICES ASSUME NEW j \in active_jobs', NEW k \in active_jobs', j < k
                 PROVE  Next2(j, k)'
    OBVIOUS
  <2>2. j \in active_jobs /\ k \in active_jobs  BY <2>1, <1>1 DEF Shrinks
  <2>3. Next2(j, k)  BY <1>1, <2>1, <2>2 DEF Succession
  <2>4. /\ jobs'[k].key = jobs[k].key /\ jobs'[k].n = jobs[k].n /\ jobs'[k].waited = jobs[k].waited
        /\ jobs'[j].waited = jobs[j].waited /\ jobs'[j].st = "running"
    BY <1>1, <2>1, <2>3 DEF Shrinks
  <2>5. QED  BY <1>1, <2>3, <2>4
<1>2. ASSUME NEW e \in Execs, Leaves(e) \/ Goes(e)
      PROVE  \A j, k \in active_jobs' : j < k => Next2(j, k)'
  <2>1. Shrinks /\ Orderly  BY <1>0, <1>2, Shrinking DEF Leaves, Goes
  <2>2. status' = "completed" => status = "completed"  BY <1>2 DEF Leaves, Goes
  <2>3. QED  BY <1>1, <2>1, <2>2
<1>3. ASSUME NEW e \in Execs, HandsOn(e)
      PROVE  \A j, k \in active_jobs' : j < k => Next2(j, k)'
  <2> DEFINE p == exec[e].j
             a == jobs[p].waited + 1
             l == Len(jobs) + 1
  <2>1. Orderly /\ counts.lost = 0 /\ Running(e) /\ status' = status /\ exec[e].pc = "turn"
    BY <1>3 DEF HandsOn, Orderly, Running
  <2>2. p \in active_jobs /\ p \in Nat /\ jobs[p].st = "running" /\ status # "completed"
    BY <2>1, Busy DEF Begun
  <2>3. Adds("wait", a, a)  BY <1>3 DEF HandsOn
  <2>4. CASE \E j \in active_jobs : jobs[j].key = "wait" /\ jobs[j].n = a
    <3>1. jobs' = jobs  BY <2>3, <2>4 DEF Adds
    <3>2. active_jobs' = active_jobs  BY <3>1 DEF active_jobs
    <3>3. QED  BY <2>1, <3>1, <3>2 DEF Succession
  <2>5. CASE ~\E j \in active_jobs : jobs[j].key = "wait" /\ jobs[j].n = a
    <3>1. /\ jobs'[l] = NewJob("wait", a, a)
          /\ \A i \in DOMAIN jobs : i \in DOMAIN jobs' /\ jobs'[i] = jobs[i]
          /\ \A i \in DOMAIN jobs' : i \in DOMAIN jobs \/ (i = l /\ \A k \in DOMAIN jobs : k < i)
      BY <2>3, <2>5 DEF Adds
    <3>2. \A j \in active_jobs : j = p
      <4>1. SUFFICES ASSUME NEW j \in active_jobs, j # p PROVE FALSE  OBVIOUS
      <4>2. j \in Nat /\ j >= p  BY <2>1, <4>1, JobsAreNumbers DEF Turns
      <4>3. p < j  BY <2>2, <4>1, <4>2
      <4>4. jobs[j].key = "wait" /\ jobs[j].n = a  BY <2>1, <2>2, <4>1, <4>3 DEF Succession
      <4>5. QED  BY <2>5, <4>1, <4>4
    <3>3. \A i \in active_jobs' : i = p \/ i = l
      <4>1. SUFFICES ASSUME NEW i \in active_jobs', i # l PROVE i = p  OBVIOUS
      <4>2. i \in DOMAIN jobs /\ jobs'[i] = jobs[i]  BY <3>1, <4>1 DEF active_jobs
      <4>3. i \in active_jobs  BY <4>1, <4>2 DEF active_jobs
      <4>4. QED  BY <3>2, <4>3
    <3>4. p \in DOMAIN jobs /\ jobs'[p] = jobs[p]  BY <2>2, <3>1 DEF active_jobs
    <3>5. l \notin DOMAIN jobs /\ l \in Nat /\ p < l
      <4>1. jobs \in Seq(Job)  BY DEF Typed, TypeOK
      <4>2. Len(jobs) \in Nat /\ DOMAIN jobs = 1 .. Len(jobs)  BY <4>1
      <4>3. QED  BY <4>2, <3>4
    <3>6. jobs'[l].key = "wait" /\ jobs'[l].n = a /\ jobs'[l].waited = a  BY <3>1 DEF NewJob
    <3>7. SUFFICES ASSUME NEW j \in active_jobs', NEW k \in active_jobs', j < k
                   PROVE  Next2(j, k)'
      OBVIOUS
    <3>8. j = p /\ k = l
      <4>1. ~(p < p) /\ ~(l < l) /\ ~(l < p)  BY <2>2, <3>5
      <4>2. QED  BY <3>3, <3>7, <4>1
    <3>9. status' # "completed" /\ jobs'[j].st = "running" /\ jobs'[j].waited + 1 = a
      BY <2>1, <2>2, <3>4, <3>8
    <3>10. jobs'[k].key = "wait" /\ jobs'[k].n = a /\ jobs'[k].waited = a  BY <3>6, <3>8
    <3> HIDE DEF a, l, p
    <3>11. QED  BY <3>9, <3>10
  <2>6. QED  BY <2>4, <2>5
<1>4. ASSUME NEW j \in DOMAIN jobs, Buries(j) \/ \E e \in Execs : Takes(e, j)
      PROVE  \A i, k \in active_jobs' : i < k => Next2(i, k)'
  <2>1. Shrinks /\ Orderly /\ status' = status  BY <1>0, <1>4, Shrinking DEF Buries, Takes
  <2>2. QED  BY <1>1, <2>1
<1>5. ASSUME NEW c \in Calls, Asks(c)
      PROVE  \A j, k \in active_jobs' : j < k => Next2(j, k)'
  <2>1. active_jobs = {} /\ jobs' = jobs  BY <1>5 DEF Asks
  <2>2. active_jobs' = {}  BY <2>1 DEF active_jobs
  <2>3. QED  BY <2>2
<1>6. ASSUME NEW c \in Calls, Commits(c)
      PROVE  \A j, k \in active_jobs' : j < k => Next2(j, k)'
  <2>1. active_jobs = {}  BY <1>6 DEF Commits, Clear, Orderly
  <2>2. PICK n \in Nat : Adds("reprocess", n, 0)  BY <1>6 DEF Commits
  <2>3. /\ \A i \in DOMAIN jobs : i \in DOMAIN jobs' /\ jobs'[i] = jobs[i]
        /\ \A i \in DOMAIN jobs' : i \in DOMAIN jobs \/ i = Len(jobs) + 1
    BY <2>1, <2>2 DEF Adds
  <2>4. \A i \in active_jobs' : i = Len(jobs) + 1  BY <2>1, <2>3 DEF active_jobs
  <2>5. Len(jobs) + 1 \in Nat
    <3>1. jobs \in Seq(Job)  BY DEF Typed, TypeOK
    <3>2. QED  BY <3>1
  <2>6. \A j, k \in active_jobs' : ~(j < k)
    <3>1. ~(Len(jobs) + 1 < Len(jobs) + 1)  BY <2>5
    <3>2. QED  BY <2>4, <3>1
  <2>7. QED  BY <2>6
<1>7. ASSUME Aside
      PROVE  \A j, k \in active_jobs' : j < k => Next2(j, k)'
  <2>1. Shrinks /\ Orderly  BY <1>7, Shrinking DEF Aside, Orderly
  <2>2. status' = "completed" => status = "completed"  BY <1>7 DEF Aside
  <2>3. QED  BY <1>1, <2>1, <2>2
<1>8. ASSUME NEW c \in Calls, Refuses(c)
      PROVE  \A j, k \in active_jobs' : j < k => Next2(j, k)'
  <2>1. Shrinks /\ Orderly /\ status' = status  BY <1>8, Shrinking DEF Refuses, Orderly
  <2>2. QED  BY <1>1, <2>1
<1> HIDE DEF Next2
<1>9. QED  BY <1>2, <1>3, <1>4, <1>5, <1>6, <1>7, <1>8, Steps

LEMMA TurnsKept ==
    ASSUME ParametersOK, Typed, Clear, Succession, Turns, [Next]_vars
    PROVE  (Turns)'
<1> DEFINE Past(x) == x.pc \in {"turn", "asking", "answered", "waiting"}
           First(x, A) == Past(x) => \A k \in A : k >= x.j
<1> SUFFICES ASSUME Orderly' PROVE \A d \in Execs : First(exec'[d], active_jobs')
  BY DEF Turns
<1>0. ASSUME CountsGrow PROVE Orderly
  BY <1>0, OrderlyBefore
<1>1. ASSUME Shrinks, Orderly, NEW d \in Execs, exec'[d] = exec[d]
      PROVE  First(exec'[d], active_jobs')
  BY <1>1 DEF Shrinks, Turns
<1>2. ASSUME NEW e \in Execs, Leaves(e)
      PROVE  \A d \in Execs : First(exec'[d], active_jobs')
  <2>1. Shrinks /\ Orderly  BY <1>0, <1>2, Shrinking DEF Leaves
  <2>2. exec'[e].pc = "idle" /\ \A d \in Execs : d # e => exec'[d] = exec[d]
    BY <1>2, IdleExec DEF Leaves, Ends, Idle, Typed, TypeOK
  <2>3. QED  BY <1>1, <2>1, <2>2
<1>3. ASSUME NEW e \in Execs, Goes(e)
      PROVE  \A d \in Execs : First(exec'[d], active_jobs')
  <2> DEFINE p == exec[e].j
  <2>1. Shrinks /\ Orderly /\ Running(e)  BY <1>0, <1>3, Shrinking DEF Goes
  <2>2. \A d \in Execs : d # e => exec'[d] = exec[d]  BY <1>3 DEF Goes
  <2>3. exec'[e].j = p /\ active_jobs' = active_jobs  BY <1>3 DEF Goes, active_jobs
  <2>4. p \in active_jobs /\ p \in Nat  BY <2>1, Busy DEF Orderly
  <2>5. ASSUME Past(exec'[e]), NEW k \in active_jobs, ~(k >= p) PROVE FALSE
    <3>1. k \in Nat /\ k < p  BY <2>4, <2>5, JobsAreNumbers
    <3>2. status # "completed" /\ jobs[k].st = "running"  BY <2>1, <2>4, <2>5, <3>1 DEF Succession
    <3>3. ~Past(exec[e])  BY <2>1, <2>5 DEF Turns
    <3>4. ~_another_job_is_running(p)  BY <1>3, <2>5, <3>2, <3>3 DEF Goes
    <3>5. QED  BY <2>5, <3>1, <3>2, <3>4 DEF _another_job_is_running
  <2>6. First(exec'[e], active_jobs')  BY <2>3, <2>5
  <2>7. QED  BY <1>1, <2>1, <2>2, <2>6
<1>4. ASSUME NEW e \in Execs, HandsOn(e)
      PROVE  \A d \in Execs : First(exec'[d], active_jobs')
  <2>1. Orderly  BY <1>4 DEF HandsOn, Orderly
  <2>2. \A i \in active_jobs' : i \in active_jobs \/ \A k \in DOMAIN jobs : k < i
    BY <1>4 DEF HandsOn, Adds, active_jobs
  <2>3. SUFFICES ASSUME NEW d \in Execs, Past(exec'[d]), NEW i \in active_jobs' PROVE i >= exec'[d].j
    OBVIOUS
  <2>4. Past(exec[d]) /\ exec'[d].j = exec[d].j  BY <1>4, <2>3 DEF HandsOn
  <2>5. exec[d].j \in DOMAIN jobs /\ exec[d].j \in Nat  BY <2>1, <2>4, Busy DEF Running, Orderly, active_jobs
  <2>6. CASE i \in active_jobs  BY <2>1, <2>4, <2>6 DEF Turns
  <2>7. CASE \A k \in DOMAIN jobs : k < i
    <3>1. i \in Nat
      <4>1. jobs' \in Seq(Job)  BY <1>4 DEF HandsOn, Adds
      <4>2. i \in DOMAIN jobs'  BY <2>3 DEF active_jobs
      <4>3. QED  BY <4>1, <4>2
    <3>2. QED  BY <2>4, <2>5, <2>7, <3>1
  <2>8. QED  BY <2>2, <2>6, <2>7
<1>5. ASSUME NEW j \in DOMAIN jobs, Buries(j)
      PROVE  \A d \in Execs : First(exec'[d], active_jobs')
  <2>1. Shrinks /\ Orderly /\ exec' = exec  BY <1>0, <1>5, Shrinking DEF Buries
  <2>2. QED  BY <1>1, <2>1
<1>6. ASSUME NEW j \in DOMAIN jobs, NEW e \in Execs, Takes(e, j)
      PROVE  \A d \in Execs : First(exec'[d], active_jobs')
  <2>1. Shrinks /\ Orderly  BY <1>0, <1>6, Shrinking DEF Takes
  <2>2. ~Past(exec'[e]) /\ \A d \in Execs : d # e => exec'[d] = exec[d]  BY <1>6 DEF Takes
  <2>3. QED  BY <1>1, <2>1, <2>2
<1>7. ASSUME NEW c \in Calls, Asks(c)
      PROVE  \A d \in Execs : First(exec'[d], active_jobs')
  <2>1. active_jobs = {} /\ jobs' = jobs  BY <1>7 DEF Asks
  <2>2. active_jobs' = {}  BY <2>1 DEF active_jobs
  <2>3. QED  BY <2>2
<1>8. ASSUME NEW c \in Calls, Commits(c)
      PROVE  \A d \in Execs : First(exec'[d], active_jobs')
  <2>1. active_jobs = {} /\ exec' = exec /\ counts.lost = 0  BY <1>8 DEF Commits, Clear, Orderly
  <2>2. \A d \in Execs : ~Running(d)  BY <2>1, Busy
  <2>3. QED  BY <2>1, <2>2 DEF Running
<1>9. ASSUME Aside
      PROVE  \A d \in Execs : First(exec'[d], active_jobs')
  <2>1. Shrinks /\ Orderly /\ exec' = exec  BY <1>9, Shrinking DEF Aside, Orderly
  <2>2. QED  BY <1>1, <2>1
<1>10. ASSUME NEW c \in Calls, Refuses(c)
      PROVE  \A d \in Execs : First(exec'[d], active_jobs')
  <2>1. Shrinks /\ Orderly /\ exec' = exec  BY <1>10, Shrinking DEF Refuses, Orderly
  <2>2. QED  BY <1>1, <2>1
<1> HIDE DEF First
<1>11. QED  BY <1>2, <1>3, <1>4, <1>5, <1>6, <1>7, <1>8, <1>9, <1>10, Steps

\* Two executions that have their turn have one job, and a job has one owner.
LEMMA OneHasItsTurn ==
    ASSUME Typed, Turns
    PROVE  OneEvaluator
<1>1. SUFFICES ASSUME Orderly, NEW d \in Execs, NEW e \in Execs, exec[d].pc = "asking", exec[e].pc = "asking"
               PROVE  d = e
  BY DEF OneEvaluator, Orderly
<1>2. counts.lost = 0 /\ Running(d) /\ Running(e)  BY <1>1 DEF Orderly, Running
<1>3. /\ exec[d].j \in active_jobs /\ exec[d].j \in Nat /\ jobs[exec[d].j].by = d
      /\ exec[e].j \in active_jobs /\ exec[e].j \in Nat /\ jobs[exec[e].j].by = e
  BY <1>2, Busy
<1>4. exec[d].j >= exec[e].j /\ exec[e].j >= exec[d].j  BY <1>1, <1>3 DEF Turns
<1>5. exec[d].j = exec[e].j  BY <1>3, <1>4
<1>6. QED  BY <1>3, <1>5
-----------------------------------------------------------------------------
(* The status and the evaluation agree. *)

LEMMA WholeBefore ==
    ASSUME Typed
    PROVE  /\ Whole => counts.lost = 0 /\ ~counts.overlapped
           /\ CountsGrow /\ Whole' => Whole
<1>1. counts.lost \in Nat /\ counts.kills \in Nat /\ counts.stops \in Nat  BY DEF Typed, TypeOK
<1>2. Whole => counts.lost = 0 /\ ~counts.overlapped  BY <1>1 DEF Whole, Unbroken
<1>3. CountsGrow /\ Whole' => Whole  BY DEF CountsGrow, Whole
<1>4. QED  BY <1>2, <1>3

\* Where nothing is broken off there is one execution, and its job is the only unfinished one
\* until it has queued a successor.
LEMMA Alone ==
    ASSUME Typed, HandedOver, Whole, NEW e \in Execs, Running(e)
    PROVE  /\ exec[e].j \in active_jobs
           /\ exec[e].pc # "waiting" => \A k \in active_jobs : k = exec[e].j
           /\ \A d \in Execs : Running(d) => d = e
           /\ \A j, k \in active_jobs : j < k => j = exec[e].j /\ exec[e].pc = "waiting"
<1> DEFINE p == exec[e].j
<1>0. counts.lost = 0  BY WholeBefore
<1>1. p \in active_jobs /\ p \in Nat /\ jobs[p].st = "running" /\ jobs[p].by = e  BY <1>0, Busy
<1>2. \A j, k \in active_jobs :
        j < k => jobs[k].st = "queued" /\ jobs[j].st = "running" /\ exec[jobs[j].by].pc = "waiting"
  BY DEF HandedOver
<1> HIDE DEF p
<1>3. \A k \in active_jobs : ~(k < p)  BY <1>1, <1>2
<1>4. \A k \in active_jobs : p < k => exec[e].pc = "waiting" /\ jobs[k].st = "queued"  BY <1>1, <1>2
<1>5. \A k \in active_jobs : k = p \/ p < k  BY <1>1, <1>3, JobsAreNumbers
<1>6. \A d \in Execs : Running(d) => d = e
  <2>1. SUFFICES ASSUME NEW d \in Execs, Running(d) PROVE d = e  OBVIOUS
  <2>2. exec[d].j \in active_jobs /\ jobs[exec[d].j].st = "running" /\ jobs[exec[d].j].by = d  BY <1>0, <2>1, Busy
  <2>3. exec[d].j = p  BY <1>4, <1>5, <2>2
  <2>4. QED  BY <1>1, <2>2, <2>3
<1>7. ASSUME NEW j \in active_jobs, NEW k \in active_jobs, j < k
      PROVE  j = p /\ exec[e].pc = "waiting"
  <2>1. jobs[j].st = "running"  BY <1>2, <1>7
  <2>2. j = p  BY <1>4, <1>5, <2>1
  <2>3. QED  BY <1>4, <1>7, <2>2
<1>8. QED  BY <1>1, <1>4, <1>5, <1>6, <1>7 DEF p

LEMMA HandedOverKept ==
    ASSUME ParametersOK, Typed, Clear, HandedOver, [Next]_vars
    PROVE  (HandedOver)'
<1> DEFINE Pair(j, k) == /\ jobs[k].st = "queued" /\ jobs[k].waited > 0
                         /\ jobs[j].st = "running" /\ exec[jobs[j].by].pc = "waiting"
           Fine(j) == jobs[j].st = "running" => jobs[j].by # None
           Goal == /\ \A j \in active_jobs' : Fine(j)'
                   /\ \A j, k \in active_jobs' : j < k => Pair(j, k)'
<1> SUFFICES ASSUME Whole' PROVE Goal
  BY DEF HandedOver
<1>0. ASSUME CountsGrow PROVE Whole /\ counts.lost = 0  BY <1>0, WholeBefore
<1>u. counts'.lost = 0 /\ (Unbroken)'
  <2>1. (Typed)'  BY TypesKept
  <2>2. counts'.lost \in Nat /\ counts'.kills \in Nat /\ counts'.stops \in Nat  BY <2>1 DEF Typed, TypeOK
  <2>3. QED  BY <2>2 DEF Whole, Unbroken
<1>n. None \notin Execs  BY Constants
<1>1. ASSUME NEW e \in Execs, Leaves(e) PROVE Goal
  <2>0. Whole /\ counts.lost = 0 /\ Running(e)  BY <1>0, <1>1 DEF Leaves
  <2> DEFINE p == exec[e].j
  <2>1. p \in active_jobs /\ jobs[p].by = e  BY <2>0, Busy
  <2>2. PICK st \in {"queued", "running", "done", "failed"} :
             RowsOf(e, st) /\ st # "running" /\ (exec[e].pc = "waiting" => st = "done")
    BY <1>1, <1>u, <2>1 DEF Leaves
  <2>3. /\ DOMAIN jobs' = DOMAIN jobs /\ jobs'[p].st = st
        /\ \A i \in DOMAIN jobs : i # p => jobs'[i] = jobs[i]
    BY <2>1, <2>2 DEF RowsOf, active_jobs
  <2>4. Shrinks  BY <1>1, Shrinking
  <2>5. \A j \in active_jobs' : Fine(j)'
    <3>1. SUFFICES ASSUME NEW j \in active_jobs', j # p PROVE Fine(j)'  BY <2>2, <2>3
    <3>2. j \in active_jobs /\ jobs'[j] = jobs[j]  BY <2>3, <2>4, <3>1 DEF Shrinks, active_jobs
    <3>3. QED  BY <2>0, <3>2 DEF HandedOver
  <2>6. \A j, k \in active_jobs' : ~(j < k)
    <3>1. SUFFICES ASSUME NEW j \in active_jobs', NEW k \in active_jobs', j < k PROVE FALSE  OBVIOUS
    <3>2. j \in active_jobs /\ k \in active_jobs  BY <2>4, <3>1 DEF Shrinks
    <3>3. j = p /\ exec[e].pc = "waiting"  BY <2>0, <3>1, <3>2, Alone
    <3>4. jobs'[j].st = "done"  BY <2>2, <2>3, <3>3
    <3>5. QED  BY <3>1, <3>4 DEF active_jobs
  <2>7. QED  BY <2>5, <2>6
<1>2. ASSUME NEW e \in Execs, Goes(e) PROVE Goal
  <2>0. Whole /\ Running(e) /\ exec[e].pc # "waiting" /\ jobs' = jobs  BY <1>0, <1>2 DEF Goes
  <2>1. active_jobs' = active_jobs  BY <2>0 DEF active_jobs
  <2>2. \A j, k \in active_jobs : ~(j < k)  BY <2>0, Alone
  <2>3. QED  BY <2>0, <2>1, <2>2 DEF HandedOver
<1>3. ASSUME NEW e \in Execs, HandsOn(e) PROVE Goal
  <2> DEFINE p == exec[e].j
             a == jobs[p].waited + 1
             l == Len(jobs) + 1
  <2>0. /\ Whole /\ counts.lost = 0 /\ Running(e) /\ exec[e].pc # "waiting"
        /\ exec'[e].pc = "waiting"
    BY <1>3, <1>u DEF HandsOn, Whole, Unbroken, Running
  <2>1. p \in active_jobs /\ jobs[p].st = "running" /\ jobs[p].by = e /\ p \in Nat  BY <2>0, Busy
  <2>2. \A k \in active_jobs : k = p  BY <2>0, Alone
  <2>3. a \in Nat /\ a > 0
    <3>1. jobs[p] \in Job  BY <2>1 DEF active_jobs, Typed, TypeOK
    <3>2. QED  BY <3>1, Constants DEF Job
  <2>4. Adds("wait", a, a)  BY <1>3 DEF HandsOn
  <2>5. CASE jobs' = jobs
    <3>1. active_jobs' = active_jobs  BY <2>5 DEF active_jobs
    <3>2. \A j, k \in active_jobs : ~(j < k)  BY <2>0, Alone
    <3>3. QED  BY <2>0, <2>5, <3>1, <3>2 DEF HandedOver
  <2>6. CASE jobs' # jobs
    <3>1. /\ jobs'[l] = NewJob("wait", a, a)
          /\ \A i \in DOMAIN jobs : i \in DOMAIN jobs' /\ jobs'[i] = jobs[i]
          /\ \A i \in DOMAIN jobs' : i \in DOMAIN jobs \/ (i = l /\ \A k \in DOMAIN jobs : k < i)
      BY <2>4, <2>6 DEF Adds
    <3>2. \A i \in active_jobs' : i = p \/ i = l
      <4>1. SUFFICES ASSUME NEW i \in active_jobs', i # l PROVE i = p  OBVIOUS
      <4>2. i \in DOMAIN jobs /\ jobs'[i] = jobs[i]  BY <3>1, <4>1 DEF active_jobs
      <4>3. i \in active_jobs  BY <4>1, <4>2 DEF active_jobs
      <4>4. QED  BY <2>2, <4>3
    <3>3. jobs'[p] = jobs[p]  BY <2>1, <3>1 DEF active_jobs
    <3>4. l \in Nat /\ p < l
      <4>1. jobs \in Seq(Job)  BY DEF Typed, TypeOK
      <4>2. Len(jobs) \in Nat /\ DOMAIN jobs = 1 .. Len(jobs)  BY <4>1
      <4>3. QED  BY <4>2, <2>1 DEF active_jobs
    <3>5. jobs'[l].st = "queued" /\ jobs'[l].waited = a  BY <3>1 DEF NewJob
    <3> HIDE DEF a, l, p
    <3>6. \A j \in active_jobs' : Fine(j)'  BY <1>n, <2>1, <3>2, <3>3, <3>5
    <3>7. \A j, k \in active_jobs' : j < k => Pair(j, k)'
      <4>1. SUFFICES ASSUME NEW j \in active_jobs', NEW k \in active_jobs', j < k PROVE Pair(j, k)'  OBVIOUS
      <4>2. j = p /\ k = l
        <5>1. ~(p < p) /\ ~(l < l) /\ ~(l < p)  BY <2>1, <3>4
        <5>2. QED  BY <3>2, <4>1, <5>1
      <4>3. jobs'[k].st = "queued" /\ jobs'[k].waited = a  BY <3>5, <4>2
      <4>4. jobs'[j].st = "running" /\ jobs'[j].by = e  BY <2>1, <3>3, <4>2
      <4>5. QED  BY <2>0, <2>3, <4>3, <4>4
    <3>8. QED  BY <3>6, <3>7
  <2>7. QED  BY <2>5, <2>6
<1>4. ASSUME NEW j \in DOMAIN jobs, Buries(j) PROVE Goal
  <2>1. Whole /\ jobs[j].st = "running" /\ ~LeaseLost(j)  BY <1>0, <1>4, <1>u DEF Buries
  <2>2. j \in active_jobs  BY <2>1 DEF active_jobs
  <2>3. jobs[j].by # None  BY <2>1, <2>2 DEF HandedOver
  <2>4. QED  BY <2>1, <2>3 DEF LeaseLost
<1>5. ASSUME NEW j \in DOMAIN jobs, NEW e \in Execs, Takes(e, j) PROVE Goal
  <2>1. Whole /\ counts.lost = 0 /\ ~LeaseLost(j) /\ Claimable(j)  BY <1>0, <1>5, <1>u DEF Takes
  <2>2. j \in active_jobs /\ Shrinks  BY <1>5, Shrinking
  <2>3. jobs[j].st = "queued" /\ Due(j)
    <3>1. jobs[j].st = "running" => jobs[j].by # None  BY <2>1, <2>2 DEF HandedOver
    <3>2. QED  BY <2>1, <3>1 DEF Claimable, LeaseLost
  <2>4. \A k \in active_jobs : k = j
    <3>1. SUFFICES ASSUME NEW k \in active_jobs, k # j PROVE FALSE  OBVIOUS
    <3>2. k \in Nat /\ j \in Nat  BY <2>2, JobsAreNumbers
    <3>3. CASE j < k  BY <2>1, <2>2, <2>3, <3>3 DEF HandedOver
    <3>4. CASE k < j
      <4>1. jobs[j].waited > 0 /\ jobs[k].st = "running" /\ exec[jobs[k].by].pc = "waiting" /\ jobs[k].by # None
        BY <2>1, <2>2, <3>4 DEF HandedOver
      <4>2. jobs[k] \in Job  BY DEF active_jobs, Typed, TypeOK
      <4>3. jobs[k].by \in Execs  BY <4>1, <4>2 DEF Job
      <4>4. QED  BY <2>3, <4>1, <4>3 DEF Due
    <3>5. QED  BY <3>1, <3>2, <3>3, <3>4
  <2>5. \A k \in active_jobs' : k = j  BY <2>2, <2>4 DEF Shrinks
  <2>6. jobs'[j].by = e /\ e # None /\ ~(j < j)
    <3>1. j \in Nat  BY <2>2, JobsAreNumbers
    <3>2. QED  BY <1>5, <1>n, <3>1 DEF Takes, RowOf
  <2>7. QED  BY <2>5, <2>6
<1>6. ASSUME NEW c \in Calls, Asks(c) PROVE Goal
  <2>1. active_jobs = {} /\ jobs' = jobs  BY <1>6 DEF Asks
  <2>2. active_jobs' = {}  BY <2>1 DEF active_jobs
  <2>3. QED  BY <2>2
<1>7. ASSUME NEW c \in Calls, Commits(c) PROVE Goal
  <2>0. Whole /\ counts.lost = 0 /\ ~counts.overlapped
    <3>1. counts' = counts  BY <1>7 DEF Commits
    <3>2. Whole  BY <3>1 DEF Whole, Unbroken
    <3>3. QED  BY <3>2, WholeBefore
  <2>1. active_jobs = {}  BY <1>7, <2>0 DEF Commits, Clear
  <2>2. PICK n \in Nat : Adds("reprocess", n, 0)  BY <1>7 DEF Commits
  <2>3. /\ \A i \in DOMAIN jobs : i \in DOMAIN jobs' /\ jobs'[i] = jobs[i]
        /\ \A i \in DOMAIN jobs' : i \in DOMAIN jobs \/ i = Len(jobs) + 1
        /\ jobs'[Len(jobs) + 1] = NewJob("reprocess", n, 0)
    BY <2>1, <2>2 DEF Adds
  <2>4. \A i \in active_jobs' : i = Len(jobs) + 1  BY <2>1, <2>3 DEF active_jobs
  <2>5. ~(Len(jobs) + 1 < Len(jobs) + 1)
    <3>1. jobs \in Seq(Job)  BY DEF Typed, TypeOK
    <3>2. Len(jobs) \in Nat  BY <3>1
    <3>3. QED  BY <3>2
  <2>6. jobs'[Len(jobs) + 1].st = "queued"  BY <2>3 DEF NewJob
  <2>7. QED  BY <2>4, <2>5, <2>6
<1>8. ASSUME Aside PROVE Goal
  <2>1. jobs' = jobs /\ exec' = exec /\ Whole  BY <1>8 DEF Aside, Whole, Unbroken
  <2>2. active_jobs' = active_jobs  BY <2>1 DEF active_jobs
  <2>3. QED  BY <2>1, <2>2 DEF HandedOver
<1>9. ASSUME NEW c \in Calls, Refuses(c) PROVE Goal
  <2>1. jobs' = jobs /\ exec' = exec /\ Whole  BY <1>9 DEF Refuses, Whole, Unbroken
  <2>2. active_jobs' = active_jobs  BY <2>1 DEF active_jobs
  <2>3. QED  BY <2>1, <2>2 DEF HandedOver
<1> HIDE DEF Goal
<1>10. QED  BY <1>1, <1>2, <1>3, <1>4, <1>5, <1>6, <1>7, <1>8, <1>9, Steps

LEMMA CleanBefore ==
    ASSUME Typed, CountsGrow, (Clean)'
    PROVE  Clean
BY OrderlyBefore DEF Clean

LEMMA LoadedKept ==
    ASSUME ParametersOK, Typed, Clear, Loaded, [Next]_vars
    PROVE  (Loaded)'
<1> DEFINE Had == \A c \in Calls : call'[c].open => call'[c].had = evaluation'
<1> SUFFICES ASSUME (Clean)' PROVE Had
  BY DEF Loaded
<1>0. ASSUME CountsGrow PROVE Clean  BY <1>0, CleanBefore
<1>1. ASSUME Clean, call' = call, evaluation' = evaluation PROVE Had  BY <1>1 DEF Loaded
<1>2. ASSUME NEW e \in Execs, Leaves(e) \/ Goes(e) \/ HandsOn(e) PROVE Had
  <2>1. Running(e) /\ call' = call  BY <1>2 DEF Leaves, Goes, HandsOn, Running
  <2>2. Clean  BY <1>0, <1>2, SameCounts DEF Leaves, Goes, HandsOn
  <2>3. active_jobs # {}  BY <2>1, <2>2, Busy DEF Clean
  <2>4. QED  BY <2>1, <2>2, <2>3 DEF Clear, Clean
<1>3. ASSUME NEW j \in DOMAIN jobs, Buries(j) \/ \E e \in Execs : Takes(e, j) PROVE Had
  <2>1. CountsGrow /\ call' = call /\ evaluation' = evaluation  BY <1>3 DEF Buries, Takes
  <2>2. QED  BY <1>0, <1>1, <2>1
<1>4. ASSUME NEW c \in Calls, Asks(c) PROVE Had
  <2>1. ~counts'.overlapped  BY DEF Clean
  <2>2. \A d \in Calls : ~call[d].open  BY <1>4, <2>1 DEF Asks
  <2>3. QED  BY <1>4, <2>2 DEF Asks
<1>5. ASSUME NEW c \in Calls, Commits(c) PROVE Had
  <2>1. Clean  BY <1>5 DEF Commits, Clean
  <2>2. \A d \in Calls : call[d].open => d = c  BY <1>5, <2>1 DEF Commits, Clear, Clean
  <2>3. QED  BY <1>5, <2>2 DEF Commits
<1>6. ASSUME NEW c \in Calls, Refuses(c) PROVE Had
  <2>1. Clean  BY <1>6 DEF Refuses, Clean
  <2>2. QED  BY <1>6, <2>1 DEF Refuses, Loaded
<1>7. ASSUME Aside PROVE Had
  <2>1. Clean  BY <1>7 DEF Aside, Clean
  <2>2. QED  BY <1>1, <1>7, <2>1 DEF Aside
<1> HIDE DEF Had
<1>8. QED  BY <1>2, <1>3, <1>4, <1>5, <1>6, <1>7, Steps

LEMMA AgreementKept ==
    ASSUME ParametersOK, Typed, Clear, HandedOver, NotEvaluated, Loaded, Fresh, EvaluatedIsDone, [Next]_vars
    PROVE  NotEvaluated' /\ Fresh' /\ EvaluatedIsDone'
<1> DEFINE Asked == \A e \in Execs : exec[e].pc = "asking" => status # "evaluated"
           Open == \A c \in Calls : call[c].open /\ status = "evaluated" => call[c].seen = "evaluated"
           Seen == status = "evaluated" => evaluation = "done"
           Goal == Fresh' /\ (Whole' => Asked' /\ Open' /\ Seen')
<1> SUFFICES Goal
  BY DEF NotEvaluated, EvaluatedIsDone, Whole
<1>0. ASSUME CountsGrow, Whole' PROVE Whole /\ counts.lost = 0 /\ ~counts.overlapped /\ Asked /\ Open /\ Seen
  <2>1. Whole /\ counts.lost = 0 /\ ~counts.overlapped  BY <1>0, WholeBefore
  <2>2. QED  BY <2>1 DEF NotEvaluated, EvaluatedIsDone, Whole
<1>f. ASSUME CountsGrow PROVE (Clean)' => Clean  BY <1>f, CleanBefore
<1>1. ASSUME NEW e \in Execs, Leaves(e) PROVE Goal
  <2>1. /\ status' = status /\ call' = call /\ CountsGrow
        /\ evaluation' = evaluation \/ (exec[e].pc = "asking" /\ evaluation' = "failed")
    BY <1>1 DEF Leaves
  <2>2. exec'[e].pc = "idle" /\ \A d \in Execs : d # e => exec'[d] = exec[d]
    BY <1>1, IdleExec DEF Leaves, Ends, Idle, Typed, TypeOK
  <2>3. Fresh'  BY <1>f, <2>1 DEF Fresh
  <2>4. QED  BY <1>0, <2>1, <2>2, <2>3
<1>2. ASSUME NEW e \in Execs, Goes(e) PROVE Goal
  <2>1. call' = call /\ CountsGrow /\ Running(e) /\ \A d \in Execs : d # e => exec'[d] = exec[d]
    BY <1>2 DEF Goes
  <2>2. Fresh'  BY <1>2, <1>f DEF Goes, Fresh
  <2>3. SUFFICES ASSUME Whole' PROVE Asked' /\ Open' /\ Seen'  BY <2>2
  <2>4. Whole /\ counts.lost = 0 /\ ~counts.overlapped /\ Asked /\ Open /\ Seen  BY <1>0, <2>1, <2>3
  <2>5. CASE exec'[e].pc = "answered"
    <3>1. \A d \in Execs : exec'[d].pc # "asking"
      <4>1. \A d \in Execs : d # e => exec[d].pc = "idle"  BY <2>1, <2>4, Alone DEF Running
      <4>2. QED  BY <2>1, <2>5, <4>1
    <3>2. \A c \in Calls : ~call[c].open
      <4>1. active_jobs # {}  BY <2>1, <2>4, Busy
      <4>2. QED  BY <2>4, <4>1 DEF Clear
    <3>3. evaluation' = "done"  BY <1>2, <2>5 DEF Goes
    <3>4. QED  BY <2>1, <3>1, <3>2, <3>3
  <2>6. CASE exec'[e].pc # "answered"
    <3>1. status' = "evaluated" => status = "evaluated" /\ evaluation' = evaluation /\ exec'[e].pc # "asking"
      BY <1>2, <2>6 DEF Goes
    <3>2. QED  BY <2>1, <2>4, <3>1
  <2>7. QED  BY <2>5, <2>6
<1>3. ASSUME NEW e \in Execs, HandsOn(e) PROVE Goal
  <2>1. /\ UNCHANGED <<status, evaluation, call, counts>> /\ exec'[e].pc = "waiting"
        /\ \A d \in Execs : d # e => exec'[d] = exec[d]
    BY <1>3 DEF HandsOn
  <2>2. CountsGrow  BY <2>1, SameCounts
  <2>3. Fresh'  BY <1>f, <2>1, <2>2 DEF Fresh
  <2>4. QED  BY <1>0, <2>1, <2>2, <2>3
<1>4. ASSUME NEW j \in DOMAIN jobs, Buries(j) PROVE Goal
  <2>1. UNCHANGED <<status, evaluation, call, exec>> /\ CountsGrow  BY <1>4 DEF Buries
  <2>2. Fresh'  BY <1>f, <2>1 DEF Fresh
  <2>3. QED  BY <1>0, <2>1, <2>2
<1>5. ASSUME NEW j \in DOMAIN jobs, NEW e \in Execs, Takes(e, j) PROVE Goal
  <2>1. /\ UNCHANGED <<status, evaluation, call>> /\ exec'[e].pc = "started" /\ CountsGrow
        /\ \A d \in Execs : d # e => exec'[d] = exec[d]
    BY <1>5 DEF Takes
  <2>2. Fresh'  BY <1>f, <2>1 DEF Fresh
  <2>3. QED  BY <1>0, <2>1, <2>2
<1>6. ASSUME NEW c \in Calls, Asks(c) PROVE Goal
  <2>1. /\ UNCHANGED <<status, evaluation, exec>> /\ call'[c].seen = status
        /\ \A d \in Calls : d # c => call'[d] = call[d]
        /\ Whole' => Whole
        /\ (Clean)' => Clean
    BY <1>6 DEF Asks, Whole, Clean
  <2>2. Fresh'  BY <2>1 DEF Fresh
  <2>3. Whole' => Asked /\ Open /\ Seen  BY <2>1 DEF NotEvaluated, EvaluatedIsDone, Whole
  <2>4. QED  BY <2>1, <2>2, <2>3
<1>7. ASSUME NEW c \in Calls, Commits(c) PROVE Goal
  <2>1. /\ UNCHANGED <<exec, counts>> /\ call[c].open /\ ~call'[c].open
        /\ evaluation' = (IF call[c].had = "pending" THEN evaluation ELSE "pending")
        /\ status' = (IF call[c].seen = "evaluated" THEN "processing" ELSE status)
        /\ \A d \in Calls : d # c => call'[d] = call[d]
    BY <1>7 DEF Commits
  <2>2. CountsGrow  BY <2>1, SameCounts
  <2>3. Fresh'
    <3>1. Clean => evaluation' = "pending"  BY <2>1 DEF Loaded
    <3>2. (Clean)' => Clean  BY <1>f, <2>2
    <3>3. QED  BY <3>1, <3>2 DEF Fresh
  <2>4. SUFFICES ASSUME Whole' PROVE Asked' /\ Open' /\ Seen'  BY <2>3
  <2>5. Asked /\ Open  BY <1>0, <2>2, <2>4
  <2>6. status' # "evaluated"  BY <2>1, <2>5
  <2>7. QED  BY <2>6
<1>8. ASSUME Aside PROVE Goal
  <2>1. UNCHANGED <<evaluation, exec, call, counts>> /\ (status' \in {"evaluated", "completed", "processing"} => status' = status)
    BY <1>8 DEF Aside
  <2>2. CountsGrow  BY <2>1, SameCounts
  <2>3. Fresh'  BY <1>f, <2>1, <2>2 DEF Fresh
  <2>4. QED  BY <1>0, <2>1, <2>2, <2>3
<1>9. ASSUME NEW c \in Calls, Refuses(c) PROVE Goal
  <2>1. /\ UNCHANGED <<status, evaluation, exec, counts>> /\ ~call'[c].open
        /\ \A d \in Calls : d # c => call'[d] = call[d]
    BY <1>9 DEF Refuses
  <2>2. CountsGrow  BY <2>1, SameCounts
  <2>3. Fresh'  BY <1>f, <2>1, <2>2 DEF Fresh
  <2>4. QED  BY <1>0, <2>1, <2>2, <2>3
<1> HIDE DEF Goal
<1>10. QED  BY <1>1, <1>2, <1>3, <1>4, <1>5, <1>6, <1>7, <1>8, <1>9, Steps
-----------------------------------------------------------------------------
(* The theorems. *)

IInv == Typed /\ OneAtATime /\ Agreed

LEMMA StartIsSound ==
    ASSUME ParametersOK, Init
    PROVE  IInv
<1>1. Typed  BY StartIsTyped
<1>2. (\A e \in Execs : exec[e].pc = "idle") /\ (\A c \in Calls : ~call[c].open)  BY DEF Init, Idle
<1>3. \A j \in DOMAIN jobs : j = 1 /\ jobs[j].st = "queued"
  <2> DEFINE r == NewJob("base", 0, 0)
  <2>1. jobs = <<r>> /\ r.st = "queued"  BY DEF Init, NewJob
  <2> HIDE DEF r
  <2>2. QED  BY <2>1
<1>4. \A j, k \in active_jobs : ~(j < k)
  <2>1. ~(1 < 1)  OBVIOUS
  <2>2. QED  BY <1>3, <2>1 DEF active_jobs
<1>5. OneAtATime  BY <1>2, <1>4 DEF OneAtATime, Clear, Begun, Succession, Turns
<1>6. HandedOver  BY <1>3, <1>4 DEF HandedOver, active_jobs
<1>7. NotEvaluated /\ Loaded /\ Fresh /\ EvaluatedIsDone
  BY <1>2 DEF Init, NotEvaluated, Loaded, Fresh, EvaluatedIsDone
<1>8. QED  BY <1>1, <1>5, <1>6, <1>7 DEF IInv, Agreed

LEMMA SoundnessIsKept ==
    ASSUME ParametersOK, IInv, [Next]_vars
    PROVE  IInv'
<1>1. /\ Typed /\ Clear /\ Begun /\ Succession /\ Turns
      /\ HandedOver /\ NotEvaluated /\ Loaded /\ Fresh /\ EvaluatedIsDone
  BY DEF IInv, OneAtATime, Agreed
<1>2. Typed'  BY <1>1, TypesKept
<1>3. OneAtATime'  BY <1>1, ClearKept, BegunKept, SuccessionKept, TurnsKept DEF OneAtATime
<1>4. Agreed'  BY <1>1, HandedOverKept, LoadedKept, AgreementKept DEF Agreed
<1>5. QED  BY <1>2, <1>3, <1>4 DEF IInv

LEMMA IInvIsEnough ==
    ASSUME IInv
    PROVE  EvaluationIsSound
<1>1. OneEvaluator  BY OneHasItsTurn DEF IInv, OneAtATime
<1>2. NoOldScores  BY DEF IInv, Agreed, Fresh, Clean, NoOldScores
<1>3. QED  BY <1>1, <1>2 DEF IInv, Agreed, Typed, ResultMatches, EvaluationIsSound

\* One execution at a time calls the model, no old result is to be seen while a new one is under way until a
\* lease is lost or two requests overlap, and an evaluated interview has its evaluation, as far as nothing
\* was broken off that the code does not provide for; for every number of executions, requests to reprocess, tries and waits.
THEOREM EvaluationStaysSound ==
    ASSUME ParametersOK
    PROVE  Spec => []EvaluationIsSound
<1>1. Init => IInv  BY StartIsSound
<1>2. IInv /\ [Next]_vars => IInv'  BY SoundnessIsKept
<1>3. IInv => EvaluationIsSound  BY IInvIsEnough
<1>4. QED  BY <1>1, <1>2, <1>3, PTL DEF Spec
-----------------------------------------------------------------------------
(* The questions of a vacancy: the part "vacancies" of MCInterview. *)

LEMMA VacancyConstants ==
    /\ \A S : V!Cardinality(S) = Cardinality(S)
    /\ MaxQuestions \in Nat /\ MaxQuestions >= 1 /\ prewarm_attempts \in Nat /\ prewarm_attempts >= 1
    /\ MaxEvents \in Nat /\ MaxTroubles \in Nat /\ LongTexts \subseteq Texts /\ nova \in Voices /\ \E t \in Texts : TRUE
<1>1. \A S : V!Cardinality(S) = Cardinality(S)  BY Zenon DEF V!Cardinality, Cardinality
<1>2. V!ParametersOK  BY SizesOK
<1>3. QED  BY <1>1, <1>2 DEF V!ParametersOK

\* An injection between finite sets of one size reaches everything.
LEMMA AllReached ==
    ASSUME NEW n \in Nat, NEW S, IsFiniteSet(S), Cardinality(S) = n, NEW f \in [1..n -> S],
           \A i \in 1..n : \A j \in 1..n : i # j => f[i] # f[j]
    PROVE  \A x \in S : \E i \in 1..n : f[i] = x
<1>1. f \in Injection(1..n, S)  BY DEF Injection, IsInjective
<1>2. IsFiniteSet(1..n) /\ Cardinality(1..n) = n  BY FS_Interval
<1>3. f \in Surjection(1..n, S)  BY <1>1, <1>2, FS_Injection
<1>4. QED  BY <1>3 DEF Surjection

\* Rows of different places.
Placed(rows) ==
    /\ IsFiniteSet(DOMAIN rows) /\ \A q \in DOMAIN rows : rows[q].position \in Nat
    /\ \A p, q \in DOMAIN rows : p # q => rows[p].position # rows[q].position

\* Where a row comes when they are put in order.
Before(rows, q) == {p \in DOMAIN rows : rows[p].position <= rows[q].position}

LEMMA RanksAre ==
    ASSUME NEW rows, Placed(rows)
    PROVE  /\ \A q \in DOMAIN rows : Cardinality(Before(rows, q)) \in 1 .. Cardinality(DOMAIN rows)
           /\ \A p, q \in DOMAIN rows : rows[p].position < rows[q].position =>
                Cardinality(Before(rows, p)) < Cardinality(Before(rows, q))
<1>1. IsFiniteSet(DOMAIN rows) /\ Cardinality(DOMAIN rows) \in Nat  BY FS_CardinalityType DEF Placed
<1>2. ASSUME NEW q \in DOMAIN rows
      PROVE  /\ Before(rows, q) \subseteq DOMAIN rows /\ q \in Before(rows, q) /\ IsFiniteSet(Before(rows, q))
             /\ Cardinality(Before(rows, q)) \in Nat
             /\ Cardinality(Before(rows, q)) \in 1 .. Cardinality(DOMAIN rows)
  <2>1. Before(rows, q) \subseteq DOMAIN rows /\ q \in Before(rows, q)  BY DEF Before, Placed
  <2>2. /\ IsFiniteSet(Before(rows, q)) /\ Cardinality(Before(rows, q)) \in Nat
        /\ Cardinality(Before(rows, q)) <= Cardinality(DOMAIN rows)
    BY <1>1, <2>1, FS_Subset, FS_CardinalityType
  <2>3. Cardinality(Before(rows, q)) # 0  BY <2>1, <2>2, FS_EmptySet
  <2>4. QED  BY <1>1, <2>1, <2>2, <2>3
<1>3. ASSUME NEW p \in DOMAIN rows, NEW q \in DOMAIN rows, rows[p].position < rows[q].position
      PROVE  Cardinality(Before(rows, p)) < Cardinality(Before(rows, q))
  <2>1. Before(rows, p) \subseteq Before(rows, q) /\ q \notin Before(rows, p)  BY <1>3 DEF Before, Placed
  <2>2. Cardinality(Before(rows, p)) <= Cardinality(Before(rows, q)) /\ Before(rows, p) # Before(rows, q)
    BY <1>2, <2>1, FS_Subset
  <2>3. Cardinality(Before(rows, p)) # Cardinality(Before(rows, q))  BY <1>2, <2>1, <2>2, FS_Subset
  <2>4. QED  BY <1>2, <2>2, <2>3
<1>4. QED  BY <1>2, <1>3

\* Every row is in the list once, in the order of the places.
LEMMA OrderedIs ==
    ASSUME NEW rows, Placed(rows)
    PROVE  LET n == Cardinality(DOMAIN rows)
               s == V!Ordered(rows)
           IN  /\ n \in Nat /\ s \in [1..n -> DOMAIN rows]
               /\ \A i, j \in 1..n : i # j => s[i] # s[j]
               /\ \A i, j \in 1..n : i < j => rows[s[i]].position < rows[s[j]].position
               /\ \A q \in DOMAIN rows : \E i \in 1..n : s[i] = q
<1> DEFINE S == DOMAIN rows
           n == Cardinality(S)
           rank(q) == Cardinality(Before(rows, q))
           Fits(s) == \A j, k \in DOMAIN s : j < k => rows[s[j]].position < rows[s[k]].position
<1>1. IsFiniteSet(S) /\ n \in Nat  BY FS_CardinalityType DEF Placed
<1>2. \A q \in S : rank(q) \in 1..n  BY RanksAre
<1>3. \A p, q \in S : rows[p].position < rows[q].position => rank(p) < rank(q)  BY RanksAre
<1>4. PICK b : b \in Bijection(1..n, S)  BY <1>1, FS_CardinalityType DEF ExistsBijection
<1>5. b \in [1..n -> S] /\ \A i, j \in 1..n : i # j => b[i] # b[j]
  BY <1>4 DEF Bijection, Injection, IsInjective
<1> DEFINE r == [i \in 1..n |-> rank(b[i])]
<1>6. \A p, q \in S : rank(p) \in Int /\ (rank(p) = rank(q) => p = q)
  <2> SUFFICES ASSUME NEW p \in S, NEW q \in S, p # q  PROVE rank(p) \in Int /\ rank(p) # rank(q)
    BY <1>2
  <2>1. rows[p].position \in Nat /\ rows[q].position \in Nat /\ rows[p].position # rows[q].position  BY DEF Placed
  <2>2. rank(p) \in Nat /\ rank(q) \in Nat  BY <1>2
  <2>3. rank(p) < rank(q) \/ rank(q) < rank(p)  BY <1>3, <2>1
  <2> HIDE DEF rank
  <2>4. QED  BY <2>2, <2>3
<1> HIDE DEF rank
<1>7. r \in [1..n -> 1..n] /\ \A i, j \in 1..n : i # j => r[i] # r[j]  BY <1>2, <1>5, <1>6
<1>8. IsFiniteSet(1..n) /\ Cardinality(1..n) = n  BY <1>1, FS_Interval
<1> HIDE DEF r
<1> HIDE DEF n
<1>9. \A k \in 1..n : \E i \in 1..n : r[i] = k
  <2> DEFINE T == 1..n
  <2>1. IsFiniteSet(T) /\ Cardinality(T) = n /\ r \in [1..n -> T]  BY <1>7, <1>8
  <2> HIDE DEF T
  <2>2. \A x \in T : \E i \in 1..n : r[i] = x  BY <1>1, <1>7, <2>1, AllReached
  <2>3. QED  BY <2>2 DEF T
<1> USE DEF n, r
<1>10. \A k \in 1..n : \E q \in S : rank(q) = k  BY <1>5, <1>9
<1> DEFINE g == [k \in 1..n |-> CHOOSE q \in S : rank(q) = k]
<1>11. \A k \in 1..n : g[k] \in S /\ rank(g[k]) = k  BY <1>10
<1> HIDE DEF g
<1>12. g \in [1..n -> S] /\ \A i, j \in 1..n : i # j => g[i] # g[j]
  <2>1. g = [k \in 1..n |-> g[k]]  BY DEF g
  <2>2. QED  BY <1>11, <2>1
<1>13. \A i, j \in 1..n : i < j => rows[g[i]].position < rows[g[j]].position
  <2> SUFFICES ASSUME NEW i \in 1..n, NEW j \in 1..n, i < j  PROVE rows[g[i]].position < rows[g[j]].position
    OBVIOUS
  <2>1. rows[g[i]].position \in Nat /\ rows[g[j]].position \in Nat  BY <1>11 DEF Placed
  <2>2. rows[g[i]].position # rows[g[j]].position  BY <1>11, <1>12 DEF Placed
  <2>3. ~(rows[g[j]].position < rows[g[i]].position)
    <3>1. rank(g[i]) = i /\ rank(g[j]) = j /\ g[i] \in S /\ g[j] \in S  BY <1>11
    <3>2. ~(j < i)  OBVIOUS
    <3>3. QED  BY <1>3, <3>1, <3>2
  <2>4. QED  BY <2>1, <2>2, <2>3
<1>14. V!SetToSeqs(S) = {f \in [1..n -> S] : \A i, j \in 1..n : i # j => f[i] # f[j]}
  BY VacancyConstants DEF V!SetToSeqs
<1>15. g \in V!SetToSeqs(S) /\ Fits(g)
  <2>1. DOMAIN g = 1..n  BY <1>12
  <2>2. QED  BY <1>12, <1>13, <1>14, <2>1
<1>16. V!Ordered(rows) = CHOOSE s \in V!SetToSeqs(S) : Fits(s)  BY Zenon DEF V!Ordered
<1>17. V!Ordered(rows) \in V!SetToSeqs(S) /\ Fits(V!Ordered(rows))
  <2> HIDE DEF Fits
  <2>1. QED  BY <1>15, <1>16, Zenon
<1> DEFINE s == V!Ordered(rows)
<1> HIDE DEF s
<1>18. s \in [1..n -> S] /\ \A i, j \in 1..n : i # j => s[i] # s[j]  BY <1>14, <1>17 DEF s
<1>19. \A i, j \in 1..n : i < j => rows[s[i]].position < rows[s[j]].position
  <2>1. DOMAIN s = 1..n  BY <1>18
  <2>2. Fits(s)  BY <1>17 DEF s
  <2>3. QED  BY <2>1, <2>2
<1>20. \A q \in S : \E i \in 1..n : s[i] = q  BY <1>1, <1>18, AllReached
<1>21. QED  BY <1>1, <1>18, <1>19, <1>20 DEF s

\* A list to save: an item that names a row names one that no other item names.
ListOK(list) ==
    /\ list \in Seq(V!Item)
    /\ \A j, k \in 1 .. Len(list) : j # k /\ list[j].id = list[k].id => list[j].id = 0

Rowed(rows, m) == rows \in [DOMAIN rows -> V!Question] /\ DOMAIN rows \subseteq 1..m
Apart(rows) == \A p, q \in DOMAIN rows : p # q => rows[p].position # rows[q].position

LEMMA RowedIsPlaced ==
    ASSUME NEW rows, Rowed(rows, MaxQuestions), Apart(rows)
    PROVE  Placed(rows)
<1>1. IsFiniteSet(1..MaxQuestions)  BY VacancyConstants, FS_Interval
<1>2. IsFiniteSet(DOMAIN rows)  BY <1>1, FS_Subset DEF Rowed
<1>3. \A q \in DOMAIN rows : rows[q] \in V!Question  BY DEF Rowed
<1>4. \A q \in DOMAIN rows : rows[q].position \in Nat  BY <1>3, VacancyConstants DEF V!Question
<1>5. QED  BY <1>2, <1>4 DEF Placed, Apart

\* What is read of the rows: each of them, in order.
LEMMA ItemsAre ==
    ASSUME NEW rows, Rowed(rows, MaxQuestions), Apart(rows)
    PROVE  LET l == V!Items(rows)
           IN  /\ ListOK(l)
               /\ \A i \in 1 .. Len(l) : /\ l[i].id \in DOMAIN rows /\ l[i].id # 0
                                         /\ l[i].text = rows[l[i].id].text
               /\ \A i, j \in 1 .. Len(l) : i < j => rows[l[i].id].position < rows[l[j].id].position
               /\ \A q \in DOMAIN rows : \E i \in 1 .. Len(l) : l[i].id = q
<1> DEFINE s == V!Ordered(rows)
           n == Cardinality(DOMAIN rows)
           l == V!Items(rows)
<1>1. /\ n \in Nat /\ s \in [1..n -> DOMAIN rows]
      /\ \A i, j \in 1..n : i # j => s[i] # s[j]
      /\ \A i, j \in 1..n : i < j => rows[s[i]].position < rows[s[j]].position
      /\ \A q \in DOMAIN rows : \E i \in 1..n : s[i] = q
  BY RowedIsPlaced, OrderedIs
<1>2. l = [k \in DOMAIN s |-> V!_question_in(s[k], rows[s[k]])]  BY Zenon DEF V!Items
<1> HIDE DEF s, n, l
<1>3. \A k \in 1..n : /\ s[k] \in DOMAIN rows /\ s[k] \in 1..MaxQuestions
                      /\ rows[s[k]] \in V!Question
  BY <1>1 DEF Rowed
<1>4. \A k \in 1..n : l[k] = [id |-> s[k], text |-> rows[s[k]].text, competency_ids |-> rows[s[k]].competency_ids]
  BY <1>1, <1>2 DEF V!_question_in
<1>5. \A k \in 1..n : l[k] \in V!Item /\ l[k].id = s[k] /\ l[k].text = rows[s[k]].text
  <2> SUFFICES ASSUME NEW k \in 1..n
               PROVE  l[k] \in V!Item /\ l[k].id = s[k] /\ l[k].text = rows[s[k]].text
    OBVIOUS
  <2> DEFINE x == rows[s[k]]
             i == s[k]
  <2>1. x \in V!Question /\ i \in 1..MaxQuestions  BY <1>3
  <2>2. l[k] = [id |-> i, text |-> x.text, competency_ids |-> x.competency_ids]  BY <1>4
  <2> HIDE DEF x, i
  <2>3. x.text \in Texts /\ x.competency_ids \in SUBSET Competencies /\ i \in 0..MaxQuestions
    BY <2>1, VacancyConstants DEF V!Question
  <2>4. l[k] \in V!Item /\ l[k].id = i /\ l[k].text = x.text  BY <2>2, <2>3 DEF V!Item
  <2>5. QED  BY <2>4 DEF x, i
<1>6. DOMAIN s = 1..n  BY <1>1
<1>7. l = [k \in 1..n |-> l[k]]  BY <1>2, <1>6
<1>8. l \in [1..n -> V!Item]  BY <1>5, <1>7
<1>9. l \in Seq(V!Item) /\ Len(l) = n  BY <1>1, <1>8
<1>10. ListOK(l)  BY <1>1, <1>5, <1>9 DEF ListOK
<1>11. \A i \in 1 .. Len(l) : /\ l[i].id \in DOMAIN rows /\ l[i].id # 0
                              /\ l[i].text = rows[l[i].id].text
  BY <1>3, <1>5, <1>9, VacancyConstants
<1>12. \A i, j \in 1 .. Len(l) : i < j => rows[l[i].id].position < rows[l[j].id].position
  BY <1>1, <1>5, <1>9
<1>13. \A q \in DOMAIN rows : \E i \in 1 .. Len(l) : l[i].id = q
  BY <1>1, <1>5, <1>9
<1>14. QED  BY <1>10, <1>11, <1>12, <1>13 DEF l

\* The lists that a page or a tool makes.
LEMMA ListGrows ==
    ASSUME NEW list, ListOK(list), NEW t \in Texts, NEW c \in SUBSET Competencies
    PROVE  ListOK(Append(list, [id |-> 0, text |-> t, competency_ids |-> c]))
<1> DEFINE x == [id |-> 0, text |-> t, competency_ids |-> c]
           new == Append(list, x)
<1>1. x \in V!Item /\ x.id = 0  BY VacancyConstants DEF V!Item
<1> HIDE DEF x
<1>2. list \in Seq(V!Item) /\ Len(list) \in Nat  BY DEF ListOK
<1>3. /\ new \in Seq(V!Item) /\ Len(new) = Len(list) + 1 /\ new[Len(list) + 1] = x
      /\ \A k \in 1 .. Len(list) : new[k] = list[k]
  BY <1>1, <1>2
<1> HIDE DEF new
<1>4. ASSUME NEW j \in 1 .. Len(new), NEW k \in 1 .. Len(new), j # k, new[j].id = new[k].id
      PROVE  new[j].id = 0
  <2>1. CASE j = Len(list) + 1  BY <1>1, <1>3, <2>1
  <2>2. CASE k = Len(list) + 1  BY <1>1, <1>3, <1>4, <2>2
  <2>3. CASE j # Len(list) + 1 /\ k # Len(list) + 1
    <3>1. j \in 1 .. Len(list) /\ k \in 1 .. Len(list)  BY <1>2, <1>3, <2>3
    <3>2. QED  BY <1>3, <1>4, <3>1 DEF ListOK
  <2>4. QED  BY <2>1, <2>2, <2>3
<1>5. ListOK(new)  BY <1>3, <1>4 DEF ListOK
<1>6. QED  BY <1>5 DEF new, x

\* A list of some items of another, each taken once.
LEMMA ListTaken ==
    ASSUME NEW list, ListOK(list), NEW new, new \in Seq(V!Item), NEW from \in [1 .. Len(new) -> 1 .. Len(list)],
           \A j, k \in 1 .. Len(new) : j # k => from[j] # from[k],
           \A k \in 1 .. Len(new) : new[k].id = list[from[k]].id
    PROVE  ListOK(new)
<1> SUFFICES ASSUME NEW j \in 1 .. Len(new), NEW k \in 1 .. Len(new), j # k, new[j].id = new[k].id
             PROVE  new[j].id = 0
  BY DEF ListOK
<1>1. from[j] \in 1 .. Len(list) /\ from[k] \in 1 .. Len(list) /\ from[j] # from[k]  OBVIOUS
<1>2. QED  BY <1>1 DEF ListOK

LEMMA ListsAreMade ==
    ASSUME NEW rows, Rowed(rows, MaxQuestions), Apart(rows), NEW list \in V!Edited(rows)
    PROVE  ListOK(list)
<1> DEFINE l == V!Items(rows)
           n == Len(l)
<1>1. ListOK(l)  BY ItemsAre
<1>2. list = V!Reverse(l) \/ (\E k \in DOMAIN l : list = V!RemoveAt(l, k))
      \/ (\E k \in DOMAIN l, t \in Texts : list = [l EXCEPT ![k].text = t])
  <2>1. list = V!Reverse(l) \/ list \in {V!RemoveAt(l, k) : k \in DOMAIN l} \/ list \in V!Retexted(rows)
    BY DEF V!Edited
  <2>2. list \in {V!RemoveAt(l, k) : k \in DOMAIN l} => \E k \in DOMAIN l : list = V!RemoveAt(l, k)
    BY Zenon
  <2>3. list \in V!Retexted(rows) => \E k \in DOMAIN l, t \in Texts : list = [l EXCEPT ![k].text = t]
    BY DEF V!Retexted
  <2>4. QED  BY <2>1, <2>2, <2>3
<1> HIDE DEF l
<1>3. l \in Seq(V!Item) /\ n \in Nat /\ DOMAIN l = 1..n /\ \A k \in 1..n : l[k] \in V!Item  BY <1>1 DEF ListOK
<1>4. CASE list = V!Reverse(l)
  <2>1. list = [i \in 1..n |-> l[(n - i) + 1]]  BY <1>4 DEF V!Reverse
  <2> HIDE DEF n
  <2>2. \A i \in 1..n : (n - i) + 1 \in 1..n  BY <1>3
  <2>3. list \in Seq(V!Item) /\ Len(list) = n  BY <1>3, <2>1, <2>2
  <2> DEFINE from == [i \in 1..n |-> (n - i) + 1]
  <2>4. from \in [1..n -> 1..n]  BY <2>2
  <2>5. \A j, k \in 1..n : j # k => from[j] # from[k]  BY <1>3
  <2>6. \A k \in 1..n : list[k].id = l[from[k]].id  BY <2>1, <2>2
  <2> HIDE DEF from
  <2>7. from \in [1 .. Len(list) -> 1 .. Len(l)]  BY <2>3, <2>4 DEF n
  <2>8. QED  BY <1>1, <2>3, <2>5, <2>6, <2>7, ListTaken
<1>5. ASSUME NEW h \in DOMAIN l, list = V!RemoveAt(l, h)  PROVE ListOK(list)
  <2> DEFINE a == SubSeq(l, 1, h - 1)
             b == SubSeq(l, h + 1, n)
  <2>1. list = a \o b  BY <1>5 DEF V!RemoveAt
  <2>2. h \in 1..n  BY <1>3
  <2> HIDE DEF n
  <2>3. a \in Seq(V!Item) /\ Len(a) = h - 1 /\ \A i \in 1..(h - 1) : a[i] = l[i]
    <3>1. h - 1 \in Int /\ h - 1 \in Nat /\ \A i \in 1..(h - 1) : l[i] \in V!Item  BY <1>3, <2>2
    <3>2. /\ a \in Seq(V!Item) /\ Len(a) = IF 1 <= h - 1 THEN (h - 1) - 1 + 1 ELSE 0
          /\ \A i \in 1 .. (h - 1) - 1 + 1 : a[i] = l[1 + i - 1]
      BY <3>1, SubSeqProperties
    <3>3. QED  BY <3>1, <3>2
  <2>4. b \in Seq(V!Item) /\ Len(b) = n - h /\ \A i \in 1..(n - h) : b[i] = l[h + i]
    <3>1. h + 1 \in Int /\ n \in Int /\ n - h \in Nat /\ \A i \in (h + 1)..n : l[i] \in V!Item  BY <1>3, <2>2
    <3>2. /\ b \in Seq(V!Item) /\ Len(b) = IF h + 1 <= n THEN n - (h + 1) + 1 ELSE 0
          /\ \A i \in 1 .. n - (h + 1) + 1 : b[i] = l[h + 1 + i - 1]
      BY <3>1, SubSeqProperties
    <3>3. QED  BY <1>3, <2>2, <3>1, <3>2
  <2> HIDE DEF a, b
  <2>5. list \in Seq(V!Item) /\ Len(list) = n - 1
    <3>1. list \in Seq(V!Item) /\ Len(list) = Len(a) + Len(b)  BY <2>1, <2>3, <2>4, ConcatProperties
    <3>2. QED  BY <1>3, <2>2, <2>3, <2>4, <3>1
  <2> DEFINE from == [i \in 1..(n - 1) |-> IF i < h THEN i ELSE i + 1]
  <2>6. from \in [1..(n - 1) -> 1..n]  BY <1>3, <2>2
  <2>7. \A j, k \in 1..(n - 1) : j # k => from[j] # from[k]  BY <1>3, <2>2
  <2>8. ASSUME NEW k \in 1..(n - 1)  PROVE list[k] = l[from[k]]
    <3>1. list[k] = IF k <= Len(a) THEN a[k] ELSE b[k - Len(a)]
      <4>1. k \in 1 .. Len(a) + Len(b)  BY <1>3, <2>2, <2>3, <2>4
      <4>2. QED  BY <2>1, <2>3, <2>4, <4>1, ConcatProperties
    <3>2. CASE k < h  BY <1>3, <2>2, <2>3, <3>1, <3>2
    <3>3. CASE ~(k < h)
      <4>1. k - (h - 1) \in 1..(n - h) /\ h + (k - (h - 1)) = k + 1  BY <1>3, <2>2, <3>3
      <4>2. list[k] = b[k - (h - 1)]  BY <1>3, <2>2, <2>3, <3>1, <3>3
      <4>3. list[k] = l[k + 1]  BY <2>4, <4>1, <4>2
      <4>4. QED  BY <3>3, <4>3
    <3>4. QED  BY <3>2, <3>3
  <2> HIDE DEF from
  <2>9. from \in [1 .. Len(list) -> 1 .. Len(l)]  BY <2>5, <2>6 DEF n
  <2>10. QED  BY <1>1, <2>5, <2>7, <2>8, <2>9, ListTaken
<1>6. ASSUME NEW h \in DOMAIN l, NEW t \in Texts, list = [l EXCEPT ![h].text = t]  PROVE ListOK(list)
  <2>1. [l[h] EXCEPT !.text = t] \in V!Item /\ [l[h] EXCEPT !.text = t].id = l[h].id  BY <1>3 DEF V!Item
  <2>2. list \in Seq(V!Item) /\ Len(list) = n /\ \A k \in 1..n : list[k].id = l[k].id  BY <1>3, <1>6, <2>1
  <2>3. QED  BY <1>1, <2>2 DEF ListOK
<1>7. QED  BY <1>2, <1>4, <1>5, <1>6

\* The rows a list names, the items that are new, and the number each item gets.
NamedIn(list, old) == {list[k].id : k \in DOMAIN list} \cap old
NewIn(list, old) == {k \in DOMAIN list : list[k].id \notin NamedIn(list, old)}
NumberOf(list, old, issued, k) ==
    IF k \in NewIn(list, old) THEN issued + Cardinality({j \in NewIn(list, old) : j <= k}) ELSE list[k].id
RowsOfList(list, old, issued) == {NumberOf(list, old, issued, k) : k \in DOMAIN list}
PlaceIn(list, old, issued, q) == CHOOSE k \in DOMAIN list : NumberOf(list, old, issued, k) = q

LEMMA NumbersAre ==
    ASSUME NEW list, ListOK(list), NEW issued \in Nat, NEW old, old \subseteq 1..issued
    PROVE  LET m == Cardinality(NewIn(list, old))
               N(k) == NumberOf(list, old, issued, k)
           IN  /\ m \in Nat /\ Len(list) \in Nat /\ DOMAIN list = 1 .. Len(list)
               /\ \A k \in 1 .. Len(list) :
                    /\ N(k) \in 1..(issued + m)
                    /\ k \in NewIn(list, old) => N(k) > issued
                    /\ k \notin NewIn(list, old) => N(k) = list[k].id /\ N(k) \in old
               /\ \A j, k \in 1 .. Len(list) : j # k => N(j) # N(k)
<1> DEFINE new == NewIn(list, old)
           m == Cardinality(new)
           N(k) == NumberOf(list, old, issued, k)
           upto(k) == {j \in new : j <= k}
<1>1. list \in Seq(V!Item) /\ Len(list) \in Nat /\ DOMAIN list = 1 .. Len(list)  BY DEF ListOK
<1>2. new \subseteq 1 .. Len(list)  BY <1>1 DEF NewIn
<1>3. IsFiniteSet(new) /\ m \in Nat
  <2>1. IsFiniteSet(1 .. Len(list))  BY <1>1, FS_Interval
  <2>2. QED  BY <1>2, <2>1, FS_Subset, FS_CardinalityType
<1>4. ASSUME NEW k \in new
      PROVE  IsFiniteSet(upto(k)) /\ Cardinality(upto(k)) \in 1..m
  <2>1. upto(k) \subseteq new /\ k \in upto(k)  BY <1>1, <1>2
  <2>2. /\ IsFiniteSet(upto(k)) /\ Cardinality(upto(k)) \in Nat
        /\ Cardinality(upto(k)) <= m
    BY <1>3, <2>1, FS_Subset, FS_CardinalityType
  <2>3. Cardinality(upto(k)) # 0  BY <2>1, <2>2, FS_EmptySet
  <2>4. QED  BY <1>3, <2>2, <2>3
<1>5. ASSUME NEW j \in new, NEW k \in new, j < k
      PROVE  Cardinality(upto(j)) # Cardinality(upto(k))
  <2>1. upto(j) \subseteq upto(k) /\ k \notin upto(j) /\ k \in upto(k)  BY <1>1, <1>2, <1>5
  <2>2. QED  BY <1>4, <2>1, FS_Subset
<1>6. ASSUME NEW k \in 1 .. Len(list)
      PROVE  /\ k \in new => N(k) = issued + Cardinality(upto(k)) /\ N(k) \in (issued + 1)..(issued + m)
             /\ k \notin new => N(k) = list[k].id /\ N(k) \in old /\ N(k) \in 1..issued
  <2>1. CASE k \in new
    <3>1. N(k) = issued + Cardinality(upto(k))  BY <2>1 DEF NumberOf
    <3> HIDE DEF N, upto, m
    <3>2. N(k) \in (issued + 1)..(issued + m)  BY <1>3, <1>4, <2>1, <3>1
    <3>3. QED  BY <2>1, <3>1, <3>2
  <2>2. CASE k \notin new
    <3>1. N(k) = list[k].id  BY <2>2 DEF NumberOf
    <3>2. list[k].id \in NamedIn(list, old)  BY <1>1, <2>2 DEF NewIn
    <3>3. list[k].id \in old  BY <3>2 DEF NamedIn
    <3>4. QED  BY <2>2, <3>1, <3>3
  <2>3. QED  BY <2>1, <2>2
<1>7. ASSUME NEW j \in 1 .. Len(list), NEW k \in 1 .. Len(list), j # k
      PROVE  N(j) # N(k)
  <2> HIDE DEF N
  <2>1. CASE j \in new /\ k \in new
    <3> DEFINE a == Cardinality(upto(j))
               b == Cardinality(upto(k))
    <3>1. a \in 1..m /\ b \in 1..m /\ a # b
      <4>1. j < k \/ k < j  BY <1>1, <1>7
      <4> HIDE DEF upto
      <4>2. QED  BY <1>4, <1>5, <2>1, <4>1
    <3>2. N(j) = issued + a /\ N(k) = issued + b  BY <1>6, <2>1
    <3> HIDE DEF a, b, m
    <3>3. QED  BY <1>3, <3>1, <3>2
  <2>2. CASE j \notin new /\ k \notin new
    <3>1. N(j) = list[j].id /\ N(k) = list[k].id /\ N(j) \in 1..issued  BY <1>6, <2>2
    <3>2. list[j].id = list[k].id => list[j].id = 0  BY <1>7 DEF ListOK
    <3>3. QED  BY <3>1, <3>2
  <2>3. CASE j \in new /\ k \notin new
    <3>1. N(j) \in (issued + 1)..(issued + m) /\ N(k) \in 1..issued  BY <1>6, <2>3
    <3>2. QED  BY <1>3, <3>1
  <2>4. CASE j \notin new /\ k \in new
    <3>1. N(k) \in (issued + 1)..(issued + m) /\ N(j) \in 1..issued  BY <1>6, <2>4
    <3>2. QED  BY <1>3, <3>1
  <2>5. QED  BY <2>1, <2>2, <2>3, <2>4
<1> HIDE DEF N, m
<1>8. \A k \in 1 .. Len(list) :
        /\ N(k) \in 1..(issued + m)
        /\ k \in new => N(k) > issued
        /\ k \notin new => N(k) = list[k].id /\ N(k) \in old
  <2> SUFFICES ASSUME NEW k \in 1 .. Len(list)
               PROVE  /\ N(k) \in 1..(issued + m)
                      /\ k \in new => N(k) > issued
                      /\ k \notin new => N(k) = list[k].id /\ N(k) \in old
    OBVIOUS
  <2> HIDE DEF new
  <2>1. CASE k \in new
    <3>1. N(k) \in (issued + 1)..(issued + m)  BY <1>6, <2>1
    <3>2. QED  BY <1>3, <2>1, <3>1
  <2>2. CASE k \notin new
    <3>1. N(k) = list[k].id /\ N(k) \in old /\ N(k) \in 1..issued  BY <1>6, <2>2
    <3>2. QED  BY <1>3, <2>2, <3>1
  <2>3. QED  BY <2>1, <2>2
<1>9. QED  BY <1>1, <1>3, <1>7, <1>8 DEF N, m

LEMMA PlacesAre ==
    ASSUME NEW list, ListOK(list), NEW issued \in Nat, NEW old, old \subseteq 1..issued
    PROVE  LET named == RowsOfList(list, old, issued)
               P(q) == PlaceIn(list, old, issued, q)
               N(k) == NumberOf(list, old, issued, k)
               top == issued + Cardinality(NewIn(list, old))
           IN  /\ \A q \in named : P(q) \in 1 .. Len(list) /\ N(P(q)) = q
               /\ \A k \in 1 .. Len(list) : N(k) \in named /\ P(N(k)) = k
               /\ named \subseteq 1..top /\ Cardinality(named) = Len(list) /\ Len(list) <= top
<1> DEFINE named == RowsOfList(list, old, issued)
           P(q) == PlaceIn(list, old, issued, q)
           N(k) == NumberOf(list, old, issued, k)
           top == issued + Cardinality(NewIn(list, old))
           L == Len(list)
<1>1. /\ L \in Nat /\ DOMAIN list = 1..L /\ top \in Nat
      /\ \A k \in 1..L : N(k) \in 1..top
      /\ \A j, k \in 1..L : j # k => N(j) # N(k)
  <2> DEFINE m == Cardinality(NewIn(list, old))
  <2>1. /\ m \in Nat /\ L \in Nat /\ DOMAIN list = 1..L
        /\ \A k \in 1..L : N(k) \in 1..(issued + m)
        /\ \A j, k \in 1..L : j # k => N(j) # N(k)
    BY NumbersAre, ZenonT(60)
  <2>2. top = issued + m  OBVIOUS
  <2> HIDE DEF m, top, N, L
  <2>3. top \in Nat  BY <2>1, <2>2
  <2>4. QED  BY <2>1, <2>2, <2>3
<1>2. named = {N(k) : k \in 1..L}  BY <1>1 DEF RowsOfList
<1>3. \A q : P(q) = CHOOSE k \in 1..L : N(k) = q  BY <1>1 DEF PlaceIn
<1> HIDE DEF named, P, N, top, L
<1>4. \A q \in named : P(q) \in 1..L /\ N(P(q)) = q  BY <1>2, <1>3
<1>5. \A k \in 1..L : N(k) \in named /\ P(N(k)) = k
  <2> SUFFICES ASSUME NEW k \in 1..L  PROVE N(k) \in named /\ P(N(k)) = k
    OBVIOUS
  <2>1. N(k) \in named  BY <1>2
  <2>2. P(N(k)) \in 1..L /\ N(P(N(k))) = N(k)  BY <1>4, <2>1
  <2>3. QED  BY <1>1, <2>1, <2>2
<1>6. named \subseteq 1..top  BY <1>1, <1>2
<1>7. IsFiniteSet(1..top) /\ Cardinality(1..top) = top /\ IsFiniteSet(1..L) /\ Cardinality(1..L) = L
  BY <1>1, FS_Interval
<1>8. IsFiniteSet(named) /\ Cardinality(named) <= top  BY <1>6, <1>7, FS_Subset
<1> DEFINE f == [k \in 1..L |-> N(k)]
<1>9. f \in Injection(1..L, named) /\ f \in Surjection(1..L, named)
  BY <1>1, <1>2, <1>5 DEF Injection, IsInjective, Surjection
<1>10. Cardinality(named) = L
  <2> HIDE DEF f
  <2>1. QED  BY <1>7, <1>8, <1>9, FS_Injection
<1>11. QED  BY <1>4, <1>5, <1>6, <1>8, <1>10 DEF named, P, N, top, L

\* What the assistant generated for a list, added to it; a row of the list that was deleted stays so.
GeneratedOK(r, issued, ids) ==
    r.op = "generate" =>
      /\ Rowed(r.of, issued) /\ Apart(r.of)
      /\ \E t \in Texts, c \in SUBSET Competencies :
           r.list = Append(V!Items(r.of), [id |-> 0, text |-> t, competency_ids |-> c])
      /\ r.pc = "loaded" => \A q \in DOMAIN r.of \cap ids : q \in DOMAIN r.rows

EditOK(r, issued, ids) ==
    /\ r.pc \in {"made", "loaded"} /\ r.op \in V!Ops /\ ListOK(r.list)
    /\ r.rubric \subseteq Competencies /\ r.voice \in Voices /\ r.avatar \in BOOLEAN
    /\ r.pc = "loaded" => r.seen \in V!Vacancy /\ Rowed(r.rows, issued)
    /\ GeneratedOK(r, issued, ids)

Rooms == [texts : SUBSET Texts, voice : Voices]
JobRows == [pc : {"queued"}, attempts : 0..(prewarm_attempts - 1), left : {{}}]
           \cup [pc : {"running"}, attempts : 1..prewarm_attempts, voice : Voices, left : SUBSET Texts,
                 got : BOOLEAN, failed : BOOLEAN]
History == [overlapped : BOOLEAN, emptied : BOOLEAN, issued : 0..MaxQuestions, edits : 0..MaxEvents,
            troubles : 0..MaxTroubles]

\* Of the clips nothing is needed but their types.
ClipsTyped ==
    /\ job \in JobRows \cup {V!NoJob} /\ clips \subseteq Texts \X Voices /\ room \in Rooms \cup {V!NoRoom}

\* As long as no requests overlapped one is open at a time and has read what is there.
OneReads ==
    ~past.overlapped =>
      \A e \in Editors : edit[e].pc = "loaded" =>
        /\ edit[e].seen = vacancy /\ edit[e].rows = questions
        /\ \A o \in Editors \ {e} : edit[o].pc # "loaded"

Edits == \A e \in Editors : edit[e] = V!NoEdit \/ EditOK(edit[e], past.issued, DOMAIN questions)

\* The part of the editing.
Kept ==
    /\ vacancy \in V!Vacancy /\ past \in History
    /\ Rowed(questions, past.issued) /\ Apart(questions)
    /\ edit = [e \in Editors |-> edit[e]] /\ Edits /\ OneReads
    /\ V!ListIsSound

Sound == Kept /\ ClipsTyped

LEMMA RowedMore ==
    ASSUME NEW rows, NEW m \in Nat, NEW n \in Nat, m <= n, Rowed(rows, m)
    PROVE  Rowed(rows, n)
BY DEF Rowed

LEMMA HistoryIs ==
    ASSUME past \in History
    PROVE  /\ past.issued \in Nat /\ past.issued <= MaxQuestions
           /\ past.edits \in Nat /\ past.troubles \in Nat /\ past.overlapped \in BOOLEAN /\ past.emptied \in BOOLEAN
BY VacancyConstants DEF History

\* What is there is among the ids that there can be.
LEMMA KeptRows ==
    ASSUME Kept
    PROVE  Rowed(questions, MaxQuestions) /\ Apart(questions) /\ Placed(questions)
<1>1. Rowed(questions, MaxQuestions)  BY HistoryIs, RowedMore, VacancyConstants DEF Kept
<1>2. QED  BY <1>1, RowedIsPlaced DEF Kept

LEMMA SoundHolds == ASSUME Sound  PROVE V!VacancyIsSound
<1>1. V!PlacesDiffer  BY DEF Sound, Kept, Apart, V!PlacesDiffer
<1>2. DOMAIN questions \subseteq V!Ids /\ \A q \in DOMAIN questions : questions[q] \in V!Question
  BY KeptRows DEF Sound, Rowed, V!Ids
<1>3. ASSUME NEW e \in Editors
      PROVE  \/ edit[e] = V!NoEdit
             \/ /\ edit[e].pc \in {"made", "loaded"} /\ edit[e].op \in V!Ops
                /\ \A k \in DOMAIN edit[e].list : edit[e].list[k] \in V!Item
                /\ edit[e].rubric \subseteq Competencies /\ edit[e].voice \in Voices /\ edit[e].avatar \in BOOLEAN
  <2>1. ASSUME EditOK(edit[e], past.issued, DOMAIN questions)  PROVE \A k \in DOMAIN edit[e].list : edit[e].list[k] \in V!Item
    BY <2>1 DEF EditOK, ListOK
  <2>2. QED  BY <2>1 DEF Sound, Kept, Edits, EditOK
<1>4. \/ job = V!NoJob
      \/ job.pc \in {"queued", "running"} /\ job.attempts \in 0..prewarm_attempts /\ job.left \subseteq Texts
  BY VacancyConstants DEF Sound, ClipsTyped, JobRows
<1>5. room.texts \subseteq Texts  BY DEF Sound, ClipsTyped, Rooms, V!NoRoom
<1>6. V!TypeOK  BY <1>2, <1>3, <1>4, <1>5 DEF V!TypeOK, Sound, Kept, ClipsTyped, History
<1>7. QED  BY <1>1, <1>6 DEF V!VacancyIsSound, Sound, Kept

LEMMA SoundInit == ASSUME V!Init  PROVE Sound
<1>1. PICK stage \in {"created", "rubric", "questions"} : V!MadeOf(stage)  BY DEF V!Init
<1> DEFINE text == CHOOSE t \in Texts : TRUE
           first == [position |-> 0, competency_ids |-> Competencies, text |-> text]
<1>2. /\ vacancy = [status |-> "draft", rubric |-> IF stage = "created" THEN {} ELSE Competencies,
                    avatar_enabled |-> TRUE, voice |-> nova]
      /\ questions = IF stage # "questions" THEN <<>> ELSE <<first>>
  BY <1>1, Zenon DEF V!MadeOf
<1>3. text \in Texts  BY VacancyConstants
<1> HIDE DEF text
<1>4. first \in V!Question /\ first.position = 0 /\ first.competency_ids = Competencies
  BY <1>3, VacancyConstants DEF V!Question
<1> HIDE DEF first
<1>5. vacancy \in V!Vacancy /\ vacancy.status = "draft"
      /\ (stage # "created" => vacancy.rubric = Competencies)
  BY <1>2, VacancyConstants DEF V!Vacancy
<1> DEFINE n == Cardinality(DOMAIN questions)
<1>6. \/ questions = <<>> /\ DOMAIN questions = {} /\ n = 0
      \/ stage = "questions" /\ questions = <<first>> /\ DOMAIN questions = {1} /\ questions[1] = first /\ n = 1
  <2>1. CASE stage # "questions"
    <3>1. questions = <<>>  BY <1>2, <2>1
    <3>2. DOMAIN questions = {}  BY <3>1
    <3>3. n = 0  BY <3>2, FS_EmptySet
    <3>4. QED  BY <3>1, <3>2, <3>3
  <2>2. CASE stage = "questions"
    <3>1. questions = <<first>>  BY <1>2, <2>2
    <3>2. DOMAIN questions = {1} /\ questions[1] = first  BY <3>1
    <3>3. n = 1  BY <3>2, FS_Singleton
    <3>4. QED  BY <2>2, <3>1, <3>2, <3>3
  <2>3. QED  BY <2>1, <2>2
<1>7. n \in 0..MaxQuestions  BY <1>6, VacancyConstants
<1>8. Rowed(questions, n) /\ Apart(questions)
  <2>1. questions \in [DOMAIN questions -> V!Question]
    <3>1. CASE questions = <<>>
      <4>1. <<>> \in [{} -> V!Question]  OBVIOUS
      <4>2. QED  BY <1>6, <3>1, <4>1
    <3>2. CASE questions = <<first>>
      <4>1. <<first>> \in [{1} -> V!Question]  BY <1>4
      <4>2. QED  BY <1>6, <3>2, <4>1
    <3>3. QED  BY <1>6, <3>1, <3>2
  <2>2. DOMAIN questions \subseteq 1..n  BY <1>6
  <2>3. Apart(questions)  BY <1>6 DEF Apart
  <2>4. QED  BY <2>1, <2>2, <2>3 DEF Rowed
<1>9. {questions[q].position : q \in DOMAIN questions} = 0..(n - 1)  BY <1>4, <1>6
<1>10. \A q \in DOMAIN questions : questions[q].competency_ids \subseteq vacancy.rubric  BY <1>4, <1>5, <1>6
<1>11. V!ListIsSound  BY <1>5, <1>9, <1>10, VacancyConstants DEF V!ListIsSound
<1>12. /\ edit = [e \in Editors |-> V!NoEdit] /\ job = V!NoJob /\ clips = {} /\ room = V!NoRoom
       /\ past = [overlapped |-> FALSE, emptied |-> FALSE, issued |-> V!Cardinality(DOMAIN questions), edits |-> 0,
                  troubles |-> 0]
  BY DEF V!Init
<1>13. past.issued = n /\ past \in History  BY <1>7, <1>12, VacancyConstants DEF History
<1>14. Edits /\ OneReads /\ edit = [e \in Editors |-> edit[e]]  BY <1>12 DEF Edits, OneReads, V!NoEdit
<1>15. QED  BY <1>5, <1>8, <1>11, <1>12, <1>13, <1>14 DEF Sound, Kept, ClipsTyped

\* What an editor holds stays as good when rows are deleted and new numbers are given.
LEMMA EditLasts ==
    ASSUME NEW m \in Nat, NEW n \in Nat, m <= n, NEW ids, NEW left, left \cap 1..m \subseteq ids,
           NEW r, EditOK(r, m, ids)
    PROVE  EditOK(r, n, left)
<1>1. r.pc = "loaded" => r.seen \in V!Vacancy /\ Rowed(r.rows, n)  BY RowedMore DEF EditOK
<1>2. ASSUME r.op = "generate"
      PROVE  /\ Rowed(r.of, n) /\ Apart(r.of)
             /\ \E t \in Texts, c \in SUBSET Competencies :
                  r.list = Append(V!Items(r.of), [id |-> 0, text |-> t, competency_ids |-> c])
             /\ r.pc = "loaded" => \A q \in DOMAIN r.of \cap left : q \in DOMAIN r.rows
  <2>1. /\ Rowed(r.of, m) /\ Apart(r.of)
        /\ \E t \in Texts, c \in SUBSET Competencies :
             r.list = Append(V!Items(r.of), [id |-> 0, text |-> t, competency_ids |-> c])
        /\ r.pc = "loaded" => \A q \in DOMAIN r.of \cap ids : q \in DOMAIN r.rows
    BY <1>2, Zenon DEF EditOK, GeneratedOK
  <2>2. DOMAIN r.of \cap left \subseteq ids  BY <2>1 DEF Rowed
  <2>3. Rowed(r.of, n)  BY <2>1, RowedMore
  <2>4. r.pc = "loaded" => \A q \in DOMAIN r.of \cap left : q \in DOMAIN r.rows  BY <2>1, <2>2
  <2>5. QED  BY <2>1, <2>3, <2>4, Zenon
<1>3. GeneratedOK(r, n, left)  BY <1>2, Zenon DEF GeneratedOK
<1>4. QED  BY <1>1, <1>3 DEF EditOK

\* One editor goes on to x.
LEMMA EditsStep ==
    ASSUME Kept, NEW e \in Editors, NEW x, edit' = [edit EXCEPT ![e] = x],
           past' \in History, past.issued <= past'.issued,
           DOMAIN questions' \cap 1..past.issued \subseteq DOMAIN questions,
           x = V!NoEdit \/ EditOK(x, past'.issued, DOMAIN questions')
    PROVE  Edits' /\ edit' = [o \in Editors |-> edit'[o]] /\ edit'[e] = x
           /\ \A o \in Editors \ {e} : edit'[o] = edit[o]
<1>1. edit = [o \in Editors |-> edit[o]] /\ DOMAIN edit = Editors  BY DEF Kept
<1>2. edit'[e] = x /\ \A o \in Editors \ {e} : edit'[o] = edit[o]  BY <1>1
<1>3. edit' = [o \in Editors |-> edit'[o]]  BY <1>1
<1>4. past.issued \in Nat /\ past'.issued \in Nat
  BY HistoryIs, VacancyConstants DEF Kept, History
<1>5. ASSUME NEW o \in Editors
      PROVE  edit'[o] = V!NoEdit \/ EditOK(edit'[o], past'.issued, DOMAIN questions')
  <2>1. CASE o = e  BY <1>2, <2>1
  <2>2. CASE o # e
    <3>1. edit'[o] = edit[o]  BY <1>2, <2>2
    <3>2. edit[o] = V!NoEdit \/ EditOK(edit[o], past.issued, DOMAIN questions)  BY DEF Kept, Edits
    <3>3. QED  BY <1>4, <3>1, <3>2, EditLasts
  <2>3. QED  BY <2>1, <2>2
<1>6. QED  BY <1>2, <1>3, <1>5 DEF Edits

\* A request or a button is left, or the request is refused.
LEMMA KeptLeft ==
    ASSUME Kept, NEW e \in Editors, V!Refused(e)
    PROVE  Kept'
<1>1. /\ edit' = [edit EXCEPT ![e] = V!NoEdit]
      /\ vacancy' = vacancy /\ questions' = questions /\ past' = past
  BY Zenon DEF V!Refused
<1>2. past' \in History /\ past.issued <= past'.issued  BY <1>1, HistoryIs DEF Kept
<1>3. /\ Edits' /\ edit' = [o \in Editors |-> edit'[o]] /\ edit'[e] = V!NoEdit
      /\ \A o \in Editors \ {e} : edit'[o] = edit[o]
  <2>1. DOMAIN questions' \cap 1..past.issued \subseteq DOMAIN questions  BY <1>1
  <2>2. QED  BY <1>1, <1>2, <2>1, EditsStep
<1>4. OneReads'
  <2> SUFFICES ASSUME ~past'.overlapped, NEW o \in Editors, edit'[o].pc = "loaded"
               PROVE  /\ edit'[o].seen = vacancy' /\ edit'[o].rows = questions'
                      /\ \A i \in Editors \ {o} : edit'[i].pc # "loaded"
    BY DEF OneReads
  <2>1. V!NoEdit.pc # "loaded"  BY DEF V!NoEdit
  <2>2. o # e /\ edit'[o] = edit[o]  BY <1>3, <2>1
  <2>3. /\ edit[o].seen = vacancy /\ edit[o].rows = questions
        /\ \A i \in Editors \ {o} : edit[i].pc # "loaded"
    BY <1>1, <2>2 DEF Kept, OneReads
  <2>4. QED  BY <1>1, <1>3, <2>1, <2>2, <2>3
<1>5. QED  BY <1>1, <1>3, <1>4 DEF Kept, V!ListIsSound

\* Nothing that is edited changes.
LEMMA KeptRests ==
    ASSUME Kept, vacancy' = vacancy, questions' = questions, edit' = edit, past' \in History,
           past'.overlapped = past.overlapped, past'.emptied = past.emptied, past'.issued = past.issued
    PROVE  Kept'
BY DEF Kept, Edits, OneReads, V!ListIsSound

LEMMA MoreEdits ==
    ASSUME past \in History, past.edits + past.troubles < MaxEvents
    PROVE  /\ [past EXCEPT !.edits = @ + 1] \in History
           /\ past.troubles < MaxTroubles => [past EXCEPT !.troubles = @ + 1] \in History
<1>1. past.edits \in Nat /\ past.troubles \in Nat /\ past.edits + 1 \in 0..MaxEvents  BY HistoryIs, VacancyConstants
<1>2. past.troubles < MaxTroubles => past.troubles + 1 \in 0..MaxTroubles  BY <1>1, VacancyConstants
<1>3. QED  BY <1>1, <1>2 DEF History

LEMMA KeptMade ==
    ASSUME Kept, NEW e \in Editors, NEW op \in V!Ops, NEW list, NEW rubric \in SUBSET Competencies,
           NEW avatar \in BOOLEAN, NEW voice \in Voices, V!Makes(e, op, list, rubric, avatar, voice),
           ListOK(list),
           op = "generate" => \E t \in Texts, c \in SUBSET Competencies :
             list = Append(V!Items(questions), [id |-> 0, text |-> t, competency_ids |-> c])
    PROVE  Kept'
<1> DEFINE x == [pc |-> "made", op |-> op, list |-> list, rubric |-> rubric, avatar |-> avatar, voice |-> voice,
                 of |-> IF op = "generate" THEN questions ELSE <<>>]
<1>1. /\ past.edits + past.troubles < MaxEvents
      /\ edit' = [edit EXCEPT ![e] = x] /\ past' = [past EXCEPT !.edits = @ + 1]
      /\ vacancy' = vacancy /\ questions' = questions
  BY Zenon DEF V!Makes
<1>2. /\ x.pc = "made" /\ x.op = op /\ x.list = list /\ x.rubric = rubric /\ x.avatar = avatar /\ x.voice = voice
      /\ op = "generate" => x.of = questions
  OBVIOUS
<1> HIDE DEF x
<1>3. past' \in History /\ past'.issued = past.issued /\ past'.overlapped = past.overlapped
      /\ past'.emptied = past.emptied /\ past.issued \in Nat
  BY <1>1, MoreEdits, HistoryIs DEF Kept, History
<1>4. GeneratedOK(x, past'.issued, DOMAIN questions')
  <2> SUFFICES ASSUME op = "generate"
               PROVE  /\ Rowed(x.of, past.issued) /\ Apart(x.of)
                      /\ \E t \in Texts, c \in SUBSET Competencies :
                           x.list = Append(V!Items(x.of), [id |-> 0, text |-> t, competency_ids |-> c])
    BY <1>2, <1>3, Zenon DEF GeneratedOK
  <2>1. x.of = questions  BY <1>2
  <2>2. QED  BY <1>2, <2>1 DEF Kept
<1>5. EditOK(x, past'.issued, DOMAIN questions')  BY <1>2, <1>4 DEF EditOK
<1>6. /\ Edits' /\ edit' = [o \in Editors |-> edit'[o]] /\ edit'[e] = x
      /\ \A o \in Editors \ {e} : edit'[o] = edit[o]
  <2>1. DOMAIN questions' \cap 1..past.issued \subseteq DOMAIN questions /\ past.issued <= past'.issued  BY <1>1, <1>3
  <2>2. QED  BY <1>1, <1>3, <1>5, <2>1, EditsStep
<1>7. OneReads'
  <2> SUFFICES ASSUME ~past'.overlapped, NEW o \in Editors, edit'[o].pc = "loaded"
               PROVE  /\ edit'[o].seen = vacancy' /\ edit'[o].rows = questions'
                      /\ \A i \in Editors \ {o} : edit'[i].pc # "loaded"
    BY DEF OneReads
  <2>1. o # e /\ edit'[o] = edit[o]  BY <1>2, <1>6
  <2>2. /\ edit[o].seen = vacancy /\ edit[o].rows = questions
        /\ \A i \in Editors \ {o} : edit[i].pc # "loaded"
    BY <1>3, <2>1 DEF Kept, OneReads
  <2>3. QED  BY <1>1, <1>2, <1>6, <2>1, <2>2
<1>8. QED  BY <1>1, <1>3, <1>6, <1>7 DEF Kept, V!ListIsSound

LEMMA KeptGet ==
    ASSUME Kept, NEW e \in Editors, V!get(e)
    PROVE  Kept'
<1> DEFINE r == edit[e]
           x == [pc |-> "loaded", op |-> r.op, list |-> r.list, rubric |-> r.rubric, avatar |-> r.avatar,
                 voice |-> r.voice, of |-> r.of, seen |-> vacancy, rows |-> questions]
<1>1. /\ r.pc = "made" /\ past' = [past EXCEPT !.overlapped = @ \/ ~V!Alone(e)]
      /\ vacancy' = vacancy /\ questions' = questions
  BY DEF V!get
<1>2. edit' = [edit EXCEPT ![e] = x]
  <2>1. DOMAIN edit = Editors  BY DEF Kept
  <2>2. QED  BY <2>1 DEF V!get
<1>3. /\ x.pc = "loaded" /\ x.op = r.op /\ x.list = r.list /\ x.rubric = r.rubric /\ x.avatar = r.avatar
      /\ x.voice = r.voice /\ x.of = r.of /\ x.seen = vacancy /\ x.rows = questions
  OBVIOUS
<1> HIDE DEF x
<1>4. /\ past' \in History /\ past'.issued = past.issued /\ past'.emptied = past.emptied /\ past.issued \in Nat
      /\ past'.overlapped = (past.overlapped \/ ~V!Alone(e))
  <2>1. (past.overlapped \/ ~V!Alone(e)) \in BOOLEAN  OBVIOUS
  <2>2. QED  BY <1>1, <2>1, HistoryIs DEF Kept, History
<1>5. EditOK(r, past.issued, DOMAIN questions)
  <2>1. r # V!NoEdit  BY <1>1 DEF V!NoEdit
  <2>2. QED  BY <2>1 DEF Kept, Edits
<1>6. GeneratedOK(x, past.issued, DOMAIN questions)
  <2> SUFFICES ASSUME r.op = "generate"
               PROVE  /\ Rowed(x.of, past.issued) /\ Apart(x.of)
                      /\ \E t \in Texts, c \in SUBSET Competencies :
                           x.list = Append(V!Items(x.of), [id |-> 0, text |-> t, competency_ids |-> c])
                      /\ \A q \in DOMAIN x.of \cap DOMAIN questions : q \in DOMAIN x.rows
    BY <1>3, Zenon DEF GeneratedOK
  <2>1. /\ Rowed(r.of, past.issued) /\ Apart(r.of)
        /\ \E t \in Texts, c \in SUBSET Competencies :
             r.list = Append(V!Items(r.of), [id |-> 0, text |-> t, competency_ids |-> c])
    BY <1>5, Zenon DEF EditOK, GeneratedOK
  <2>2. \A q \in DOMAIN x.of \cap DOMAIN questions : q \in DOMAIN x.rows  BY <1>3
  <2>3. x.of = r.of /\ x.list = r.list  BY <1>3
  <2> HIDE DEF r
  <2>4. QED  BY <2>1, <2>2, <2>3
<1>7. EditOK(x, past.issued, DOMAIN questions)  BY <1>3, <1>5, <1>6 DEF EditOK, Kept
<1>8. /\ Edits' /\ edit' = [o \in Editors |-> edit'[o]] /\ edit'[e] = x
      /\ \A o \in Editors \ {e} : edit'[o] = edit[o]
  <2>1. DOMAIN questions' \cap 1..past.issued \subseteq DOMAIN questions /\ past.issued <= past'.issued  BY <1>1, <1>4
  <2>2. EditOK(x, past'.issued, DOMAIN questions')  BY <1>1, <1>4, <1>7
  <2>3. QED  BY <1>2, <1>4, <2>1, <2>2, EditsStep
<1>9. OneReads'
  <2> SUFFICES ASSUME ~past'.overlapped, NEW o \in Editors, edit'[o].pc = "loaded"
               PROVE  /\ edit'[o].seen = vacancy' /\ edit'[o].rows = questions'
                      /\ \A i \in Editors \ {o} : edit'[i].pc # "loaded"
    BY DEF OneReads
  <2>1. ~past.overlapped /\ \A i \in Editors \ {e} : edit[i].pc # "loaded"  BY <1>4 DEF V!Alone
  <2>2. o = e  BY <1>8, <2>1
  <2>3. QED  BY <1>1, <1>3, <1>8, <2>1, <2>2
<1>10. V!ListIsSound'  BY <1>1, <1>4 DEF Kept, V!ListIsSound
<1>11. QED  BY <1>1, <1>4, <1>8, <1>9, <1>10 DEF Kept

\* A request that has loaded is saved: nothing is loaded any more unless requests overlapped.
LEMMA SavedOne ==
    ASSUME Kept, NEW e \in Editors, edit[e].pc = "loaded", V!Saved(e),
           past' \in History, past.issued <= past'.issued, past'.overlapped = past.overlapped,
           DOMAIN questions' \cap 1..past.issued \subseteq DOMAIN questions
    PROVE  Edits' /\ OneReads' /\ edit' = [o \in Editors |-> edit'[o]] /\ edit'[e] = V!NoEdit
<1>1. edit' = [edit EXCEPT ![e] = V!NoEdit]  BY DEF V!Saved
<1>2. /\ Edits' /\ edit' = [o \in Editors |-> edit'[o]] /\ edit'[e] = V!NoEdit
      /\ \A o \in Editors \ {e} : edit'[o] = edit[o]
  BY <1>1, EditsStep
<1>3. OneReads'
  <2> SUFFICES ASSUME ~past'.overlapped, NEW o \in Editors, edit'[o].pc = "loaded"  PROVE FALSE
    BY DEF OneReads
  <2>1. V!NoEdit.pc # "loaded"  BY DEF V!NoEdit
  <2>2. o # e /\ edit[o].pc = "loaded"  BY <1>2, <2>1
  <2>3. QED  BY <2>2 DEF Kept, OneReads
<1>4. QED  BY <1>2, <1>3

\* What a request has loaded.
LEMMA LoadedIs ==
    ASSUME Kept, NEW e \in Editors, edit[e].pc = "loaded"
    PROVE  /\ EditOK(edit[e], past.issued, DOMAIN questions)
           /\ edit[e].op \in V!Ops /\ ListOK(edit[e].list) /\ edit[e].rubric \subseteq Competencies
           /\ edit[e].voice \in Voices /\ edit[e].avatar \in BOOLEAN /\ edit[e].seen \in V!Vacancy
           /\ Rowed(edit[e].rows, past.issued)
           /\ ~past.overlapped => edit[e].seen = vacancy /\ edit[e].rows = questions
<1>1. edit[e] # V!NoEdit  BY DEF V!NoEdit
<1>2. EditOK(edit[e], past.issued, DOMAIN questions)  BY <1>1 DEF Kept, Edits
<1>3. QED  BY <1>2 DEF EditOK, Kept, OneReads

LEMMA TrimmedIs ==
    ASSUME NEW row \in V!Question, NEW seen \in V!Question, NEW rubric \in SUBSET Competencies
    PROVE  LET t == V!Trimmed(row, seen, rubric)
           IN  /\ t \in V!Question /\ t.position = row.position /\ t.text = row.text
               /\ row = seen => t.competency_ids \subseteq rubric
<1> DEFINE c == V!Differs(row.competency_ids, seen.competency_ids, seen.competency_ids \cap rubric)
<1>1. row.competency_ids \in SUBSET Competencies /\ seen.competency_ids \cap rubric \in SUBSET Competencies
  BY DEF V!Question
<1>2. c \in SUBSET Competencies
      /\ (row.competency_ids = seen.competency_ids => c = seen.competency_ids \cap rubric)
  BY <1>1 DEF V!Differs
<1>3. V!Trimmed(row, seen, rubric) = [row EXCEPT !.competency_ids = c]  BY Zenon DEF V!Trimmed
<1> HIDE DEF c
<1>4. QED  BY <1>2, <1>3 DEF V!Question

LEMMA KeptRubric ==
    ASSUME Kept, NEW e \in Editors, V!update_rubric(e)
    PROVE  Kept'
<1> DEFINE r == edit[e]
           Row(q) == IF q \in DOMAIN r.rows THEN V!Trimmed(questions[q], r.rows[q], r.rubric) ELSE questions[q]
<1>1. r.pc = "loaded"  BY DEF V!update_rubric
<1>2. CASE V!Refused(e)  BY <1>2, KeptLeft
<1>3. CASE ~V!Refused(e)
  <2>1. /\ vacancy' = [vacancy EXCEPT !.rubric = V!Differs(@, r.seen.rubric, r.rubric)]
        /\ questions' = [q \in DOMAIN questions |-> Row(q)]
        /\ V!Saved(e) /\ past' = past
    BY <1>3 DEF V!update_rubric
  <2>2. /\ r.rubric \subseteq Competencies /\ r.seen \in V!Vacancy /\ Rowed(r.rows, past.issued)
        /\ ~past.overlapped => r.seen = vacancy /\ r.rows = questions
    BY <1>1, LoadedIs
  <2>3. past' \in History /\ past.issued <= past'.issued  BY <2>1, HistoryIs DEF Kept
  <2>4. DOMAIN questions' = DOMAIN questions  BY <2>1
  <2>5. Edits' /\ OneReads' /\ edit' = [o \in Editors |-> edit'[o]]
    BY <1>1, <2>1, <2>3, <2>4, SavedOne
  <2> DEFINE rubric == V!Differs(vacancy.rubric, r.seen.rubric, r.rubric)
  <2>6. rubric \in SUBSET Competencies /\ (~past.overlapped => rubric = r.rubric)
    <3>1. vacancy.rubric \in SUBSET Competencies /\ r.rubric \in SUBSET Competencies  BY <2>2 DEF Kept, V!Vacancy
    <3>2. QED  BY <2>2, <3>1 DEF V!Differs
  <2>7. vacancy' \in V!Vacancy /\ vacancy'.rubric = rubric /\ vacancy'.status = vacancy.status
    <3>1. vacancy' = [vacancy EXCEPT !.rubric = rubric]  BY <2>1
    <3> HIDE DEF rubric
    <3>2. QED  BY <2>6, <3>1 DEF Kept, V!Vacancy
  <2> HIDE DEF rubric
  <2>8. ASSUME NEW q \in DOMAIN questions
        PROVE  /\ questions'[q] = Row(q) /\ Row(q) \in V!Question
               /\ Row(q).position = questions[q].position
               /\ ~past.overlapped => Row(q).competency_ids \subseteq r.rubric
    <3>1. questions[q] \in V!Question  BY DEF Kept, Rowed
    <3>2. CASE q \in DOMAIN r.rows
      <4>1. r.rows[q] \in V!Question  BY <2>2, <3>2 DEF Rowed
      <4>2. Row(q) = V!Trimmed(questions[q], r.rows[q], r.rubric)  BY <3>2
      <4>3. ~past.overlapped => questions[q] = r.rows[q]  BY <2>2
      <4>4. QED  BY <2>1, <2>2, <3>1, <4>1, <4>2, <4>3, TrimmedIs
    <3>3. CASE q \notin DOMAIN r.rows  BY <2>1, <2>2, <3>1, <3>3
    <3>4. QED  BY <3>2, <3>3
  <2> HIDE DEF Row
  <2>9. Rowed(questions', past.issued)  BY <2>1, <2>4, <2>8 DEF Kept, Rowed
  <2>10. Apart(questions')  BY <2>4, <2>8 DEF Kept, Apart
  <2>11. V!ListIsSound'
    <3> SUFFICES ASSUME ~past.overlapped
                 PROVE  /\ {questions'[q].position : q \in DOMAIN questions'} = 0..(Cardinality(DOMAIN questions') - 1)
                        /\ \A q \in DOMAIN questions' : questions'[q].competency_ids \subseteq vacancy'.rubric
                        /\ vacancy'.status = "published" /\ ~past.emptied => questions' # <<>>
      BY <2>1, VacancyConstants DEF V!ListIsSound
    <3>1. /\ {questions[q].position : q \in DOMAIN questions} = 0..(Cardinality(DOMAIN questions) - 1)
          /\ vacancy.status = "published" /\ ~past.emptied => questions # <<>>
      BY VacancyConstants DEF Kept, V!ListIsSound
    <3>2. {questions'[q].position : q \in DOMAIN questions'} = {questions[q].position : q \in DOMAIN questions}
      BY <2>4, <2>8
    <3>3. questions # <<>> => questions' # <<>>
      <4>1. questions = [q \in DOMAIN questions |-> questions[q]]  BY DEF Kept, Rowed
      <4>2. DOMAIN questions = {} => questions = <<>>  BY <4>1
      <4>3. questions' = <<>> => DOMAIN questions' = {}  OBVIOUS
      <4>4. QED  BY <2>4, <4>2, <4>3
    <3>4. QED  BY <2>4, <2>6, <2>7, <2>8, <3>1, <3>2, <3>3
  <2>12. QED  BY <2>1, <2>3, <2>5, <2>7, <2>9, <2>10, <2>11 DEF Kept
<1>4. QED  BY <1>2, <1>3

LEMMA KeptSettings ==
    ASSUME Kept, NEW e \in Editors, V!update_settings(e)
    PROVE  Kept'
<1> DEFINE r == edit[e]
<1>1. r.pc = "loaded"  BY DEF V!update_settings
<1>2. CASE V!Refused(e)  BY <1>2, KeptLeft
<1>3. CASE ~V!Refused(e)
  <2> DEFINE avatar == V!Differs(vacancy.avatar_enabled, r.seen.avatar_enabled, r.avatar)
             voice == V!Differs(vacancy.voice, r.seen.voice, r.voice)
  <2>1. /\ vacancy' = [vacancy EXCEPT !.avatar_enabled = avatar, !.voice = voice]
        /\ V!Saved(e) /\ past' = past /\ questions' = questions
    BY <1>3 DEF V!update_settings
  <2>2. avatar \in BOOLEAN /\ voice \in Voices
    <3>1. vacancy.avatar_enabled \in BOOLEAN /\ r.avatar \in BOOLEAN /\ vacancy.voice \in Voices /\ r.voice \in Voices
      BY <1>1, LoadedIs DEF Kept, V!Vacancy
    <3>2. QED  BY <3>1 DEF V!Differs
  <2> HIDE DEF avatar, voice
  <2>3. vacancy' \in V!Vacancy /\ vacancy'.rubric = vacancy.rubric /\ vacancy'.status = vacancy.status
    BY <2>1, <2>2 DEF Kept, V!Vacancy
  <2>4. past' \in History /\ past.issued <= past'.issued  BY <2>1, HistoryIs DEF Kept
  <2>5. Edits' /\ OneReads' /\ edit' = [o \in Editors |-> edit'[o]]
    BY <1>1, <2>1, <2>4, SavedOne
  <2>6. QED  BY <2>1, <2>3, <2>4, <2>5 DEF Kept, V!ListIsSound
<1>4. QED  BY <1>2, <1>3

LEMMA KeptTurn ==
    ASSUME Kept, NEW e \in Editors, V!turn(e)
    PROVE  Kept'
<1> DEFINE r == edit[e]
<1>1. r.pc = "loaded" /\ r.op \in {"publish", "unpublish", "archive", "restore"}  BY DEF V!turn
<1>2. CASE V!Refused(e)  BY <1>2, KeptLeft
<1>3. CASE ~V!Refused(e)
  <2> DEFINE turned == V!Differs(vacancy.status, r.seen.status, V!TurnedTo(r.op))
  <2>1. /\ ~(r.op = "publish" /\ r.rows = <<>>)
        /\ vacancy' = [vacancy EXCEPT !.status = turned]
        /\ V!Saved(e) /\ past' = past /\ questions' = questions
    BY <1>3 DEF V!turn
  <2>2. /\ V!TurnedTo(r.op) \in {"draft", "published", "archived"}
        /\ V!TurnedTo(r.op) = "published" => r.op = "publish"
    BY <1>1 DEF V!TurnedTo
  <2>3. /\ turned \in {"draft", "published", "archived"}
        /\ ~past.overlapped => turned = V!TurnedTo(r.op)
    <3>1. vacancy.status \in {"draft", "published", "archived"}  BY DEF Kept, V!Vacancy
    <3>2. QED  BY <1>1, <2>2, <3>1, LoadedIs DEF V!Differs
  <2> HIDE DEF turned
  <2>4. vacancy' \in V!Vacancy /\ vacancy'.rubric = vacancy.rubric /\ vacancy'.status = turned
    BY <2>1, <2>3 DEF Kept, V!Vacancy
  <2>5. past' \in History /\ past.issued <= past'.issued  BY <2>1, HistoryIs DEF Kept
  <2>6. Edits' /\ OneReads' /\ edit' = [o \in Editors |-> edit'[o]]
    BY <1>1, <2>1, <2>5, SavedOne
  <2>7. ~past.overlapped /\ vacancy'.status = "published" => questions # <<>>
    BY <1>1, <2>1, <2>2, <2>3, <2>4, LoadedIs
  <2>8. V!ListIsSound'  BY <2>1, <2>4, <2>7 DEF Kept, V!ListIsSound
  <2>9. QED  BY <2>1, <2>4, <2>5, <2>6, <2>8 DEF Kept
<1>4. QED  BY <1>2, <1>3

\* The rows that were added since the reading, and the row of an item.
OthersIn(r) == DOMAIN questions \ (RowsOfList(r.list, DOMAIN r.rows, past.issued) \cup DOMAIN r.rows)
RowIn(r, q) ==
    LET k == PlaceIn(r.list, DOMAIN r.rows, past.issued, q)
        item == r.list[k]
    IN  [position |-> k - 1,
         text |-> IF q \in NamedIn(r.list, DOMAIN r.rows) THEN V!Differs(questions[q].text, r.rows[q].text, item.text)
                  ELSE item.text,
         competency_ids |->
           IF q \in NamedIn(r.list, DOMAIN r.rows)
           THEN V!Differs(questions[q].competency_ids, r.rows[q].competency_ids, item.competency_ids)
           ELSE item.competency_ids]

LEMMA ReplaceIs ==
    ASSUME NEW e \in Editors, V!replace_questions(e)
    PROVE  LET r == edit[e]
               old == DOMAIN r.rows
               m == Cardinality(NewIn(r.list, old))
           IN  /\ r.pc = "loaded" /\ r.op \in {"replace", "generate"}
               /\ \/ V!Refused(e)
                  \/ /\ \A k \in DOMAIN r.list : r.list[k].competency_ids \subseteq r.seen.rubric
                     /\ NamedIn(r.list, old) \subseteq DOMAIN questions
                     /\ \A q \in OthersIn(r) : ~(questions[q].position < Len(r.list))
                     /\ past.issued + m <= MaxQuestions
                     /\ questions' = [q \in RowsOfList(r.list, old, past.issued) \cup OthersIn(r) |->
                                        IF q \in OthersIn(r) THEN questions[q] ELSE RowIn(r, q)]
                     /\ past' = [past EXCEPT !.issued = @ + m, !.emptied = @ \/ r.list = <<>>]
                     /\ V!Saved(e) /\ vacancy' = vacancy
                     /\ V!schedule_prewarm(r.seen.status = "published" /\ r.seen.avatar_enabled)
BY Zenon DEF V!replace_questions, NamedIn, NewIn, NumberOf, RowsOfList, PlaceIn, OthersIn, RowIn,
             V!Cardinality, Cardinality

\* The questions after a list is saved.
LEMMA ReplacedRows ==
    ASSUME Kept, NEW e \in Editors, V!replace_questions(e), ~V!Refused(e)
    PROVE  LET r == edit[e]
               old == DOMAIN r.rows
               named == RowsOfList(r.list, old, past.issued)
               others == OthersIn(r)
               P(q) == PlaceIn(r.list, old, past.issued, q)
           IN  /\ ListOK(r.list) /\ past' \in History /\ past.issued <= past'.issued
               /\ past'.overlapped = past.overlapped /\ past'.emptied = (past.emptied \/ r.list = <<>>)
               /\ DOMAIN questions' = named \cup others /\ DOMAIN questions' \subseteq 1..past'.issued
               /\ Cardinality(named) = Len(r.list)
               /\ \A k \in 1 .. Len(r.list) : \E q \in named : P(q) = k
               /\ \A q \in named :
                    /\ P(q) \in 1 .. Len(r.list) /\ q \notin others
                    /\ questions'[q] = RowIn(r, q) /\ questions'[q] \in V!Question
                    /\ questions'[q].position = P(q) - 1
                    /\ q <= past.issued => q \in DOMAIN questions
                    /\ ~past.overlapped => questions'[q].competency_ids \subseteq vacancy.rubric
               /\ \A p, q \in named : p # q => P(p) # P(q)
               /\ \A q \in others : /\ q \in DOMAIN questions /\ questions'[q] = questions[q]
                                    /\ questions[q] \in V!Question /\ questions[q].position >= Len(r.list)
<1> DEFINE r == edit[e]
           old == DOMAIN r.rows
           list == r.list
           L == Len(list)
           issued == past.issued
           new == NewIn(list, old)
           m == Cardinality(new)
           kept == NamedIn(list, old)
           named == RowsOfList(list, old, issued)
           others == OthersIn(r)
           P(q) == PlaceIn(list, old, issued, q)
           N(k) == NumberOf(list, old, issued, k)
<1>1. /\ r.pc = "loaded"
      /\ \A k \in DOMAIN list : list[k].competency_ids \subseteq r.seen.rubric
      /\ kept \subseteq DOMAIN questions
      /\ \A q \in others : ~(questions[q].position < L)
      /\ issued + m <= MaxQuestions
      /\ questions' = [q \in named \cup others |-> IF q \in others THEN questions[q] ELSE RowIn(r, q)]
      /\ past' = [past EXCEPT !.issued = @ + m, !.emptied = @ \/ list = <<>>]
  BY ReplaceIs, Zenon
<1>2. /\ ListOK(list) /\ r.seen \in V!Vacancy /\ Rowed(r.rows, issued)
      /\ ~past.overlapped => r.seen = vacancy /\ r.rows = questions
  BY <1>1, LoadedIs
<1>3. old \subseteq 1..issued /\ issued \in Nat /\ past \in History  BY <1>2, HistoryIs DEF Kept, Rowed
<1>4. /\ m \in Nat /\ L \in Nat /\ DOMAIN list = 1..L
      /\ \A k \in 1..L : /\ N(k) \in 1..(issued + m)
                         /\ k \in new => N(k) > issued
                         /\ k \notin new => N(k) = list[k].id /\ N(k) \in old
  BY <1>2, <1>3, NumbersAre, ZenonT(60)
<1>5. /\ \A q \in named : P(q) \in 1..L /\ N(P(q)) = q
      /\ \A k \in 1..L : N(k) \in named /\ P(N(k)) = k
      /\ named \subseteq 1..(issued + m) /\ Cardinality(named) = L /\ L <= issued + m
  BY <1>2, <1>3, PlacesAre, ZenonT(60)
<1>6. \A k \in 1..L : k \notin new => list[k].id \in kept  BY <1>4 DEF NewIn
<1>7. others \subseteq DOMAIN questions /\ \A q \in others : q \notin named  BY DEF OthersIn
<1>8. \A q : RowIn(r, q) = [position |-> P(q) - 1,
                 text |-> IF q \in kept THEN V!Differs(questions[q].text, r.rows[q].text, list[P(q)].text)
                          ELSE list[P(q)].text,
                 competency_ids |->
                   IF q \in kept
                   THEN V!Differs(questions[q].competency_ids, r.rows[q].competency_ids, list[P(q)].competency_ids)
                   ELSE list[P(q)].competency_ids]
  BY Zenon DEF RowIn
<1>9. list \in Seq(V!Item) /\ \A k \in 1..L : list[k] \in V!Item  BY <1>2 DEF ListOK
<1>10. kept \subseteq old  BY DEF NamedIn
<1> HIDE DEF list, L, issued, new, m, kept, named, others, P, N, old
<1>11. /\ past' \in History /\ past'.issued = issued + m /\ past'.overlapped = past.overlapped
       /\ past'.emptied = (past.emptied \/ list = <<>>)
  <2>1. issued + m \in 0..MaxQuestions  BY <1>1, <1>3, <1>4, VacancyConstants
  <2>2. past.emptied \in BOOLEAN /\ past.overlapped \in BOOLEAN  BY <1>3, HistoryIs
  <2>3. (past.emptied \/ list = <<>>) \in BOOLEAN  OBVIOUS
  <2>4. past' = [past EXCEPT !.issued = issued + m, !.emptied = (past.emptied \/ list = <<>>)]
    BY <1>1 DEF issued
  <2> HIDE DEF r
  <2>5. QED  BY <1>3, <2>1, <2>2, <2>3, <2>4 DEF History
<1>12. DOMAIN questions' = named \cup others  BY <1>1
<1>13. DOMAIN questions' \subseteq 1..(issued + m)
  <2>1. DOMAIN questions \subseteq 1..issued  BY DEF Kept, Rowed, issued
  <2>2. \A q \in 1..issued : q \in 1..(issued + m)  BY <1>3, <1>4
  <2>3. QED  BY <1>5, <1>7, <1>12, <2>1, <2>2
<1>14. ASSUME NEW q \in named
       PROVE  /\ P(q) \in 1..L /\ q \notin others
              /\ questions'[q] = RowIn(r, q) /\ questions'[q] \in V!Question
              /\ questions'[q].position = P(q) - 1
              /\ q <= issued => q \in DOMAIN questions
              /\ ~past.overlapped => questions'[q].competency_ids \subseteq vacancy.rubric
  <2> DEFINE item == list[P(q)]
             text == IF q \in kept THEN V!Differs(questions[q].text, r.rows[q].text, item.text) ELSE item.text
             ids == IF q \in kept
                    THEN V!Differs(questions[q].competency_ids, r.rows[q].competency_ids, item.competency_ids)
                    ELSE item.competency_ids
  <2>1. P(q) \in 1..L /\ N(P(q)) = q /\ q \in 1..(issued + m) /\ q \notin others  BY <1>5, <1>7
  <2>2. questions'[q] = [position |-> P(q) - 1, text |-> text, competency_ids |-> ids]
        /\ questions'[q] = RowIn(r, q)
    BY <1>1, <1>8, <2>1
  <2>3. item.text \in Texts /\ item.competency_ids \in SUBSET Competencies
    <3>1. item \in V!Item  BY <1>9, <2>1
    <3>2. QED  BY <3>1 DEF V!Item
  <2>4. q \in kept => questions[q].text \in Texts /\ questions[q].competency_ids \in SUBSET Competencies
    <3>1. q \in kept => questions[q] \in V!Question  BY <1>1 DEF Kept, Rowed
    <3>2. QED  BY <3>1 DEF V!Question
  <2>5. item.competency_ids \subseteq r.seen.rubric  BY <1>1, <1>4, <2>1
  <2> HIDE DEF item
  <2>6. text \in Texts /\ ids \in SUBSET Competencies  BY <2>3, <2>4 DEF V!Differs
  <2>7. ~past.overlapped => ids = item.competency_ids
    <3>1. ~past.overlapped /\ q \in kept => questions[q].competency_ids = r.rows[q].competency_ids  BY <1>2
    <3>2. QED  BY <3>1 DEF V!Differs
  <2>8. P(q) - 1 \in 0..(MaxQuestions - 1)  BY <1>1, <1>3, <1>4, <1>5, <2>1, VacancyConstants
  <2>9. q <= issued => q \in DOMAIN questions
    <3> SUFFICES ASSUME q <= issued  PROVE q \in DOMAIN questions
      OBVIOUS
    <3>1. ~(q > issued)  BY <1>3, <1>4, <2>1
    <3>2. P(q) \notin new  BY <1>4, <2>1, <3>1
    <3>3. list[P(q)].id \in kept /\ list[P(q)].id = q  BY <1>4, <1>6, <2>1, <3>2
    <3>4. QED  BY <1>1, <3>3
  <2> HIDE DEF text, ids
  <2>10. /\ questions'[q] \in V!Question /\ questions'[q].position = P(q) - 1
         /\ questions'[q].competency_ids = ids
    <3> DEFINE x == questions'[q]
               place == P(q) - 1
    <3>1. x = [position |-> place, text |-> text, competency_ids |-> ids]  BY <2>2
    <3>2. place \in 0..(MaxQuestions - 1)  BY <2>8
    <3> HIDE DEF x, place
    <3>3. x \in V!Question /\ x.position = place /\ x.competency_ids = ids  BY <2>6, <3>1, <3>2 DEF V!Question
    <3>4. QED  BY <3>3 DEF x, place
  <2>11. QED  BY <1>2, <2>1, <2>2, <2>5, <2>7, <2>9, <2>10
<1>15. \A p, q \in named : p # q => P(p) # P(q)  BY <1>5
<1>16. \A k \in 1..L : \E q \in named : P(q) = k  BY <1>5
<1>17. ASSUME NEW q \in others
       PROVE  /\ q \in DOMAIN questions /\ questions'[q] = questions[q]
              /\ questions[q] \in V!Question /\ questions[q].position >= L
  <2>1. q \in DOMAIN questions /\ questions'[q] = questions[q]  BY <1>1, <1>7
  <2>2. questions[q] \in V!Question  BY <2>1 DEF Kept, Rowed
  <2>3. questions[q].position \in Int  BY <2>2, VacancyConstants DEF V!Question
  <2>4. ~(questions[q].position < L)  BY <1>1
  <2>5. QED  BY <1>4, <2>1, <2>2, <2>3, <2>4
<1>18. issued <= past'.issued  BY <1>3, <1>4, <1>11
<1>19. QED  BY <1>2, <1>5, <1>11, <1>12, <1>13, <1>14, <1>15, <1>16, <1>17, <1>18, Zenon
              DEF list, L, issued, named, others, P, old

LEMMA KeptReplace ==
    ASSUME Kept, NEW e \in Editors, V!replace_questions(e)
    PROVE  Kept'
<1> DEFINE r == edit[e]
           L == Len(r.list)
           named == RowsOfList(r.list, DOMAIN r.rows, past.issued)
           others == OthersIn(r)
           P(q) == PlaceIn(r.list, DOMAIN r.rows, past.issued, q)
<1>1. CASE V!Refused(e)  BY <1>1, KeptLeft
<1>2. CASE ~V!Refused(e)
  <2>1. /\ r.pc = "loaded" /\ V!Saved(e) /\ vacancy' = vacancy
        /\ ~past.overlapped => r.seen = vacancy /\ r.rows = questions
    <3>1. r.pc = "loaded" /\ V!Saved(e) /\ vacancy' = vacancy  BY <1>2, ReplaceIs, Zenon
    <3>2. QED  BY <3>1, LoadedIs
  <2>2. /\ ListOK(r.list) /\ past' \in History /\ past.issued <= past'.issued
        /\ past'.overlapped = past.overlapped /\ past'.emptied = (past.emptied \/ r.list = <<>>)
        /\ DOMAIN questions' = named \cup others /\ DOMAIN questions' \subseteq 1..past'.issued
        /\ Cardinality(named) = L
        /\ \A k \in 1..L : \E q \in named : P(q) = k
        /\ \A q \in named :
             /\ P(q) \in 1..L /\ q \notin others
             /\ questions'[q] = RowIn(r, q) /\ questions'[q] \in V!Question
             /\ questions'[q].position = P(q) - 1
             /\ q <= past.issued => q \in DOMAIN questions
             /\ ~past.overlapped => questions'[q].competency_ids \subseteq vacancy.rubric
        /\ \A p, q \in named : p # q => P(p) # P(q)
        /\ \A q \in others : /\ q \in DOMAIN questions /\ questions'[q] = questions[q]
                             /\ questions[q] \in V!Question /\ questions[q].position >= L
    BY <1>2, ReplacedRows, ZenonT(60)
  <2>3. L \in Nat /\ (L = 0 => r.list = <<>>)  BY <2>2 DEF ListOK
  <2>4. others = DOMAIN questions \ (named \cup DOMAIN r.rows)  BY DEF OthersIn
  <2> HIDE DEF r, L, named, others, P
  <2>5. DOMAIN questions' \cap 1..past.issued \subseteq DOMAIN questions  BY <2>2
  <2>6. Edits' /\ OneReads' /\ edit' = [o \in Editors |-> edit'[o]]
    BY <2>1, <2>2, <2>5, SavedOne DEF r
  <2>7. Rowed(questions', past'.issued)
    <3>1. questions' = [q \in DOMAIN questions' |-> questions'[q]]
      <4>1. questions' = [q \in named \cup others |-> IF q \in others THEN questions[q] ELSE RowIn(r, q)]
        BY <1>2, ReplaceIs, Zenon DEF r, named, others
      <4>2. QED  BY <4>1
    <3>2. \A q \in DOMAIN questions' : questions'[q] \in V!Question  BY <2>2
    <3>3. questions' \in [DOMAIN questions' -> V!Question]  BY <3>1, <3>2
    <3>4. QED  BY <2>2, <3>3 DEF Rowed
  <2>8. Apart(questions')
    <3> SUFFICES ASSUME NEW p \in DOMAIN questions', NEW q \in DOMAIN questions', p # q
                 PROVE  questions'[p].position # questions'[q].position
      BY DEF Apart
    <3>1. CASE p \in named /\ q \in named
      <4>1. P(p) \in 1..L /\ P(q) \in 1..L /\ P(p) # P(q)  BY <2>2, <3>1
      <4>2. P(p) - 1 # P(q) - 1  BY <2>3, <4>1
      <4>3. QED  BY <2>2, <3>1, <4>2
    <3>2. CASE p \in others /\ q \in others
      <4>1. p \in DOMAIN questions /\ q \in DOMAIN questions  BY <2>2, <3>2
      <4>2. questions[p].position # questions[q].position  BY <4>1 DEF Kept, Apart
      <4>3. QED  BY <2>2, <3>2, <4>2
    <3>3. ASSUME NEW i \in named, NEW j \in others  PROVE questions'[i].position # questions'[j].position
      <4>1. questions'[i].position = P(i) - 1 /\ P(i) \in 1..L  BY <2>2
      <4>2. questions'[j].position >= L  BY <2>2
      <4>3. P(i) - 1 < L  BY <2>3, <4>1
      <4>4. ~(P(i) - 1 >= L)  BY <2>3, <4>1
      <4>5. QED  BY <4>1, <4>2, <4>4
    <3>4. p \in named \cup others /\ q \in named \cup others  BY <2>2
    <3>5. CASE p \in named /\ q \in others  BY <3>3, <3>5
    <3>6. CASE p \in others /\ q \in named  BY <3>3, <3>6
    <3>7. QED  BY <3>1, <3>2, <3>4, <3>5, <3>6
  <2>9. V!ListIsSound'
    <3> SUFFICES ASSUME ~past.overlapped
                 PROVE  /\ {questions'[q].position : q \in DOMAIN questions'} = 0..(Cardinality(DOMAIN questions') - 1)
                        /\ \A q \in DOMAIN questions' : questions'[q].competency_ids \subseteq vacancy'.rubric
                        /\ vacancy'.status = "published" /\ ~past'.emptied => questions' # <<>>
      BY <2>2, VacancyConstants DEF V!ListIsSound
    <3>1. others = {} /\ DOMAIN questions' = named
      <4>1. r.rows = questions  BY <2>1
      <4>2. QED  BY <2>2, <2>4, <4>1
    <3>2. Cardinality(DOMAIN questions') = L  BY <2>2, <3>1
    <3>3. {questions'[q].position : q \in DOMAIN questions'} = 0..(L - 1)
      <4>1. ASSUME NEW q \in DOMAIN questions'  PROVE questions'[q].position \in 0..(L - 1)
        <5>1. questions'[q].position = P(q) - 1 /\ P(q) \in 1..L  BY <2>2, <3>1
        <5>2. QED  BY <2>3, <5>1
      <4>2. ASSUME NEW i \in 0..(L - 1)  PROVE \E q \in DOMAIN questions' : questions'[q].position = i
        <5>1. i + 1 \in 1..L  BY <2>3
        <5>2. PICK q \in named : P(q) = i + 1  BY <2>2, <5>1
        <5>3. questions'[q].position = i + 1 - 1  BY <2>2, <5>2
        <5>4. QED  BY <2>3, <3>1, <5>3
      <4>3. QED  BY <4>1, <4>2
    <3>4. ~past'.emptied => questions' # <<>>
      <4> SUFFICES ASSUME ~past'.emptied  PROVE questions' # <<>>
        OBVIOUS
      <4>1. r.list # <<>>  BY <2>2
      <4>2. 1 \in 1..L  BY <2>3, <4>1
      <4>3. named # {}  BY <2>2, <4>2
      <4>4. DOMAIN questions' # {}  BY <3>1, <4>3
      <4>5. DOMAIN <<>> = {}  OBVIOUS
      <4>6. QED  BY <4>4, <4>5
    <3>5. QED  BY <2>1, <2>2, <3>1, <3>2, <3>3, <3>4
  <2>10. vacancy' \in V!Vacancy  BY <2>1 DEF Kept
  <2>11. QED  BY <2>2, <2>6, <2>7, <2>8, <2>9, <2>10 DEF Kept
<1>3. QED  BY <1>1, <1>2

\* The numbers and the places of the list a request has loaded.
LEMMA NumbersLoaded ==
    ASSUME Kept, NEW e \in Editors, edit[e].pc = "loaded"
    PROVE  LET r == edit[e]
               list == r.list
               old == DOMAIN r.rows
               new == NewIn(list, old)
               named == RowsOfList(list, old, past.issued)
               P(i) == PlaceIn(list, old, past.issued, i)
               N(k) == NumberOf(list, old, past.issued, k)
           IN  /\ Cardinality(new) \in Nat /\ DOMAIN list = 1..Len(list)
               /\ \A k \in 1..Len(list) : k \notin new => N(k) = list[k].id
               /\ \A i \in named : P(i) \in 1..Len(list) /\ N(P(i)) = i
               /\ \A k \in 1..Len(list) : N(k) \in named /\ P(N(k)) = k
<1> DEFINE r == edit[e]
           list == r.list
           old == DOMAIN r.rows
           issued == past.issued
           L == Len(list)
           new == NewIn(list, old)
           m == Cardinality(new)
           named == RowsOfList(list, old, issued)
           P(i) == PlaceIn(list, old, issued, i)
           N(k) == NumberOf(list, old, issued, k)
<1>1. ListOK(list) /\ old \subseteq 1..issued /\ issued \in Nat
  BY LoadedIs, HistoryIs DEF Kept, Rowed
<1>2. /\ m \in Nat /\ L \in Nat /\ DOMAIN list = 1..L
      /\ \A k \in 1..L : /\ N(k) \in 1..(issued + m)
                         /\ k \in new => N(k) > issued
                         /\ k \notin new => N(k) = list[k].id /\ N(k) \in old
  BY <1>1, NumbersAre, ZenonT(60)
<1>3. /\ \A i \in named : P(i) \in 1..L /\ N(P(i)) = i
      /\ \A k \in 1..L : N(k) \in named /\ P(N(k)) = k
      /\ named \subseteq 1..(issued + m) /\ Cardinality(named) = L /\ L <= issued + m
  BY <1>1, PlacesAre, ZenonT(60)
<1> HIDE DEF r, list, old, issued, L, new, m, named, P, N
<1>4. /\ m \in Nat /\ DOMAIN list = 1..L
      /\ \A k \in 1..L : k \notin new => N(k) = list[k].id
      /\ \A i \in named : P(i) \in 1..L /\ N(P(i)) = i
      /\ \A k \in 1..L : N(k) \in named /\ P(N(k)) = k
  BY <1>2, <1>3
<1>5. QED  BY <1>4, Zenon DEF r, list, old, issued, L, new, m, named, P, N

\* What was generated is added: the rows of the list it was generated for keep text and order, and the
\* new one comes last.
LEMMA GeneratedIsAdded ==
    ASSUME Kept, NEW e \in Editors, V!replace_questions(e), edit[e].op = "generate", questions = edit[e].of,
           questions' # questions, NEW q \in DOMAIN questions
    PROVE  /\ q \in DOMAIN questions' /\ questions'[q].text = questions[q].text
           /\ \A p \in DOMAIN questions' :
                p \notin DOMAIN questions \/ questions[p].position > questions[q].position
                => p = q \/ questions'[p].position > questions'[q].position
<1> DEFINE r == edit[e]
           old == DOMAIN r.rows
           list == r.list
           items == V!Items(questions)
           n == Len(items)
           new == NewIn(list, old)
           m == Cardinality(new)
           named == RowsOfList(list, old, past.issued)
           others == OthersIn(r)
           P(i) == PlaceIn(list, old, past.issued, i)
           N(k) == NumberOf(list, old, past.issued, k)
<1>1. ~V!Refused(e)
  <2>1. V!Refused(e) => questions' = questions  BY Zenon DEF V!Refused
  <2>2. QED  BY <2>1
<1>2. r.pc = "loaded" /\ NamedIn(list, old) \subseteq DOMAIN questions
  BY <1>1, ReplaceIs, Zenon
<1>3. /\ EditOK(r, past.issued, DOMAIN questions) /\ ListOK(list) /\ Rowed(r.rows, past.issued)
      /\ past.issued \in Nat /\ old \subseteq 1..past.issued
  BY <1>2, LoadedIs, HistoryIs DEF Kept, Rowed
<1>4. /\ DOMAIN questions \subseteq old
      /\ \E t \in Texts, c \in SUBSET Competencies :
           list = Append(items, [id |-> 0, text |-> t, competency_ids |-> c])
  <2>1. /\ \E t \in Texts, c \in SUBSET Competencies :
             r.list = Append(V!Items(r.of), [id |-> 0, text |-> t, competency_ids |-> c])
        /\ \A i \in DOMAIN r.of \cap DOMAIN questions : i \in DOMAIN r.rows
    BY <1>2, <1>3, Zenon DEF EditOK, GeneratedOK
  <2>2. r.of = questions  OBVIOUS
  <2> HIDE DEF r
  <2>3. QED  BY <2>1, <2>2
<1>5. /\ ListOK(items)
      /\ \A i \in 1..n : /\ items[i].id \in DOMAIN questions /\ items[i].id # 0
                         /\ items[i].text = questions[items[i].id].text
      /\ \A i, j \in 1..n : i < j => questions[items[i].id].position < questions[items[j].id].position
      /\ \A i \in DOMAIN questions : \E k \in 1..n : items[k].id = i
  BY KeptRows, ItemsAre, ZenonT(60)
<1>6. n \in Nat /\ Len(list) = n + 1 /\ \A k \in 1..n : list[k] = items[k]
  <2>1. items \in Seq(V!Item)  BY <1>5 DEF ListOK
  <2> HIDE DEF items
  <2>2. QED  BY <1>4, <2>1
<1>7. /\ m \in Nat /\ DOMAIN list = 1..Len(list)
      /\ \A k \in 1..Len(list) : k \notin new => N(k) = list[k].id
  BY <1>2, NumbersLoaded
<1>8. /\ \A i \in named : P(i) \in 1..Len(list) /\ N(P(i)) = i
      /\ \A k \in 1..Len(list) : N(k) \in named /\ P(N(k)) = k
  BY <1>2, NumbersLoaded
<1>9. /\ DOMAIN questions' = named \cup others
      /\ \A i \in named : questions'[i] = RowIn(r, i) /\ questions'[i].position = P(i) - 1
      /\ \A i, j \in named : i # j => P(i) # P(j)
      /\ \A i \in others : i \in DOMAIN questions
  BY <1>1, ReplacedRows, ZenonT(60)
<1>10. \A k \in DOMAIN list : k \in new => list[k].id \notin old  BY DEF NewIn, NamedIn
<1>11. \A i : RowIn(r, i).text = IF i \in NamedIn(list, old) THEN V!Differs(questions[i].text, r.rows[i].text, list[P(i)].text)
                               ELSE list[P(i)].text
  BY DEF RowIn
<1> HIDE DEF r, old, list, items, n, new, m, named, others, P, N
<1>12. ASSUME NEW k \in 1..n
       PROVE  /\ items[k].id \in DOMAIN questions /\ items[k].id \in named /\ P(items[k].id) = k
              /\ list[k].text = questions[items[k].id].text
  <2>1. k \in 1..Len(list) /\ list[k] = items[k]  BY <1>6
  <2>2. list[k].id \in old  BY <1>4, <1>5, <2>1
  <2>3. k \notin new  BY <1>7, <1>10, <2>1, <2>2
  <2>4. N(k) = items[k].id  BY <1>7, <2>1, <2>3
  <2>5. QED  BY <1>5, <1>8, <2>1, <2>4
<1>13. PICK k \in 1..n : items[k].id = q  BY <1>5
<1>14. q \in named /\ P(q) = k /\ list[k].text = questions[q].text  BY <1>12, <1>13
<1>15. questions'[q].text = questions[q].text
  <2>1. questions'[q].text = IF q \in NamedIn(list, old) THEN V!Differs(questions[q].text, r.rows[q].text, list[k].text)
                             ELSE list[k].text
    BY <1>9, <1>11, <1>14
  <2>2. QED  BY <1>14, <2>1 DEF V!Differs
<1>16. ASSUME NEW p \in DOMAIN questions', p # q,
              p \notin DOMAIN questions \/ questions[p].position > questions[q].position
       PROVE  questions'[p].position > questions'[q].position
  <2>1. p \in named
    <3>1. p \in DOMAIN questions => p \in named
      <4>1. ASSUME p \in DOMAIN questions  PROVE p \in named
        <5>1. PICK i \in 1..n : items[i].id = p  BY <1>5, <4>1
        <5>2. QED  BY <1>12, <5>1
      <4>2. QED  BY <4>1
    <3>2. QED  BY <1>9, <3>1
  <2>2. P(p) \in 1..Len(list) /\ P(p) > k
    <3>1. P(p) \in 1..Len(list) /\ P(p) # k  BY <1>8, <1>9, <1>14, <1>16, <2>1
    <3>2. CASE p \notin DOMAIN questions
      <4>1. P(p) \notin 1..n
        <5> SUFFICES ASSUME P(p) \in 1..n  PROVE FALSE
          OBVIOUS
        <5>1. items[P(p)].id \in DOMAIN questions /\ items[P(p)].id \in named /\ P(items[P(p)].id) = P(p)
          BY <1>12
        <5>2. items[P(p)].id = p  BY <1>9, <2>1, <5>1
        <5>3. QED  BY <3>2, <5>1, <5>2
      <4>2. QED  BY <1>6, <3>1, <4>1
    <3>3. CASE p \in DOMAIN questions
      <4>1. PICK i \in 1..n : items[i].id = p  BY <1>5, <3>3
      <4>2. P(p) = i  BY <1>12, <4>1
      <4>3. questions[p] \in V!Question /\ questions[q] \in V!Question  BY <3>3 DEF Kept, Rowed
      <4>4. questions[p].position \in Nat /\ questions[q].position \in Nat  BY <4>3, VacancyConstants DEF V!Question
      <4>5. questions[p].position > questions[q].position  BY <1>16, <3>3
      <4>6. ~(questions[p].position < questions[q].position)  BY <4>4, <4>5
      <4>7. ~(i < k)  BY <1>5, <1>13, <4>1, <4>6
      <4>8. QED  BY <1>6, <3>1, <4>2, <4>7
    <3>4. QED  BY <3>2, <3>3
  <2>3. questions'[p].position = P(p) - 1 /\ questions'[q].position = k - 1  BY <1>9, <1>14, <2>1
  <2>4. P(p) - 1 > k - 1  BY <1>6, <2>2
  <2>5. QED  BY <2>3, <2>4
<1>17. q \in DOMAIN questions'  BY <1>9, <1>14
<1>18. QED  BY <1>15, <1>16, <1>17

\* Another editor's request leaves what this one holds.
LEMMA OneEditor ==
    ASSUME Kept, NEW e \in Editors, NEW o \in Editors, o # e, edit[e].pc = "loaded",
           V!update_rubric(o) \/ V!replace_questions(o)
    PROVE  edit'[e] # V!NoEdit
<1>1. edit' = [edit EXCEPT ![o] = V!NoEdit]
  <2>1. V!Refused(o) => edit' = [edit EXCEPT ![o] = V!NoEdit]  BY Zenon DEF V!Refused
  <2>2. V!Saved(o) => edit' = [edit EXCEPT ![o] = V!NoEdit]  BY Zenon DEF V!Saved
  <2>3. V!update_rubric(o) => V!Refused(o) \/ V!Saved(o)  BY DEF V!update_rubric
  <2>4. V!replace_questions(o) => V!Refused(o) \/ V!Saved(o)  BY ReplaceIs, Zenon
  <2>5. QED  BY <2>1, <2>2, <2>3, <2>4
<1>2. edit = [i \in Editors |-> edit[i]]  BY DEF Kept
<1>3. edit'[e] = edit[e]  BY <1>1, <1>2
<1>4. V!NoEdit.pc # "loaded"  BY DEF V!NoEdit
<1>5. QED  BY <1>3, <1>4

LEMMA StepAdds ==
    ASSUME Kept, NEW e \in Editors,
           questions' = questions \/ \E o \in Editors : V!update_rubric(o) \/ V!replace_questions(o)
    PROVE  V!AddsTo(e)
<1> SUFFICES ASSUME edit[e].pc = "loaded", edit[e].op = "generate", edit'[e] = V!NoEdit,
                    questions = edit[e].of, questions' # questions
             PROVE  \A q \in DOMAIN questions :
                      /\ q \in DOMAIN questions' /\ questions'[q].text = questions[q].text
                      /\ \A p \in DOMAIN questions' :
                           p \notin DOMAIN questions \/ questions[p].position > questions[q].position
                           => p = q \/ questions'[p].position > questions'[q].position
  BY DEF V!AddsTo
<1>1. PICK o \in Editors : V!update_rubric(o) \/ V!replace_questions(o)  OBVIOUS
<1>2. o = e  BY <1>1, OneEditor
<1>3. ~V!update_rubric(e)  BY DEF V!update_rubric
<1>4. V!replace_questions(e)  BY <1>1, <1>2, <1>3
<1>5. QED  BY <1>4, GeneratedIsAdded

\* What an editor makes or saves.
Composes(e) ==
    \/ V!generate_questions(e) \/ V!review_questions(e) \/ V!generate_rubric(e) \/ V!ChangesSettings(e)
    \/ V!publish_vacancy(e) \/ V!archive_vacancy(e) \/ V!Turns(e)
Submits(e) == V!update_rubric(e) \/ V!update_settings(e) \/ V!replace_questions(e) \/ V!turn(e)

LEMMA EmptyList == ListOK(<<>>)
BY DEF ListOK

LEMMA SimplyMade ==
    ASSUME Kept, NEW e \in Editors, NEW op \in V!Ops \ {"generate"}, V!MakesOf(e, op)
    PROVE  Kept'
<1>1. V!Makes(e, op, <<>>, {}, FALSE, vacancy.voice)  BY Zenon DEF V!MakesOf
<1>2. {} \in SUBSET Competencies /\ FALSE \in BOOLEAN /\ vacancy.voice \in Voices  BY DEF Kept, V!Vacancy
<1>3. QED  BY <1>1, <1>2, EmptyList, KeptMade

LEMMA KeptMakes ==
    ASSUME Kept, NEW e \in Editors, Composes(e)
    PROVE  Kept'
<1>1. /\ vacancy.voice \in Voices /\ vacancy.avatar_enabled \in BOOLEAN
      /\ (~vacancy.avatar_enabled) \in BOOLEAN /\ vacancy.rubric \in SUBSET Competencies
      /\ {} \in SUBSET Competencies /\ FALSE \in BOOLEAN
  BY DEF Kept, V!Vacancy
<1>2. {"generate", "replace", "rubric", "settings", "publish", "unpublish", "archive", "restore"} \subseteq V!Ops
  BY DEF V!Ops
<1>3. CASE V!generate_questions(e)
  <2>1. PICK list \in V!Generated(questions, vacancy.rubric) :
               V!Makes(e, "generate", list, {}, FALSE, vacancy.voice)
    BY <1>3 DEF V!generate_questions
  <2>2. PICK t \in Texts : list = Append(V!Items(questions), [id |-> 0, text |-> t, competency_ids |-> vacancy.rubric])
    BY <2>1 DEF V!Generated
  <2>3. ListOK(V!Items(questions))  BY KeptRows, ItemsAre
  <2>4. ListOK(list)  BY <1>1, <2>2, <2>3, ListGrows
  <2>5. \E s \in Texts, c \in SUBSET Competencies :
          list = Append(V!Items(questions), [id |-> 0, text |-> s, competency_ids |-> c])
    BY <1>1, <2>2
  <2>6. QED  BY <1>1, <1>2, <2>1, <2>4, <2>5, KeptMade
<1>4. CASE V!review_questions(e)
  <2>1. PICK list \in V!Edited(questions) : V!Makes(e, "replace", list, {}, FALSE, vacancy.voice)
    BY <1>4 DEF V!review_questions
  <2>2. ListOK(list)  BY <2>1, KeptRows, ListsAreMade
  <2>3. QED  BY <1>1, <1>2, <2>1, <2>2, KeptMade
<1>5. CASE V!generate_rubric(e)
  <2>1. PICK rubric \in SUBSET Competencies : V!Makes(e, "rubric", <<>>, rubric, FALSE, vacancy.voice)
    BY <1>5 DEF V!generate_rubric
  <2>2. QED  BY <1>1, <1>2, <2>1, EmptyList, KeptMade
<1>6. CASE V!ChangesSettings(e)
  <2>1. CASE V!Makes(e, "settings", <<>>, {}, ~vacancy.avatar_enabled, vacancy.voice)
    BY <1>1, <1>2, <2>1, EmptyList, KeptMade
  <2>2. CASE \E voice \in Voices : V!Makes(e, "settings", <<>>, {}, vacancy.avatar_enabled, voice)
    <3>1. PICK voice \in Voices : V!Makes(e, "settings", <<>>, {}, vacancy.avatar_enabled, voice)  BY <2>2
    <3>2. QED  BY <1>1, <1>2, <3>1, EmptyList, KeptMade
  <2>3. QED  BY <1>6, <2>1, <2>2 DEF V!ChangesSettings
<1>7. CASE V!publish_vacancy(e)  BY <1>2, <1>7, SimplyMade DEF V!publish_vacancy
<1>8. CASE V!archive_vacancy(e)  BY <1>2, <1>8, SimplyMade DEF V!archive_vacancy
<1>9. CASE V!Turns(e)
  <2>1. PICK op \in {"publish", "unpublish", "restore"} : V!MakesOf(e, op)  BY <1>9 DEF V!Turns
  <2>2. op \in V!Ops \ {"generate"}  BY <1>2, <2>1
  <2>3. QED  BY <2>1, <2>2, SimplyMade
<1>10. QED  BY <1>3, <1>4, <1>5, <1>6, <1>7, <1>8, <1>9 DEF Composes

\* What is made changes nothing but the editor and the history.
LEMMA MakesLeave ==
    ASSUME NEW e \in Editors, Composes(e)
    PROVE  questions' = questions /\ job' = job /\ clips' = clips /\ room' = room
<1>1. ASSUME NEW op, NEW list, NEW rubric, NEW avatar, NEW voice, V!Makes(e, op, list, rubric, avatar, voice)
      PROVE  questions' = questions /\ job' = job /\ clips' = clips /\ room' = room
  BY <1>1, Zenon DEF V!Makes
<1>2. ASSUME NEW op, V!MakesOf(e, op)
      PROVE  questions' = questions /\ job' = job /\ clips' = clips /\ room' = room
  BY <1>1, <1>2, Zenon DEF V!MakesOf
<1>3. QED
  BY <1>1, <1>2, Zenon DEF Composes, V!generate_questions, V!review_questions, V!generate_rubric, V!ChangesSettings,
     V!publish_vacancy, V!archive_vacancy, V!Turns

LEMMA SavesLeave ==
    ASSUME NEW e \in Editors, Submits(e)
    PROVE  /\ job' = job \/ job' = [pc |-> "queued", attempts |-> 0, left |-> {}]
           /\ clips' = clips /\ room' = room
<1>1. V!Refused(e) => job' = job /\ clips' = clips /\ room' = room  BY Zenon DEF V!Refused
<1>2. V!Saved(e) => clips' = clips /\ room' = room  BY Zenon DEF V!Saved
<1>3. ASSUME NEW wanted, V!schedule_prewarm(wanted)
      PROVE  job' = job \/ job' = [pc |-> "queued", attempts |-> 0, left |-> {}]
  BY <1>3, Zenon DEF V!schedule_prewarm
<1>4. V!update_rubric(e) => V!Refused(e) \/ (V!Saved(e) /\ job' = job)  BY Zenon DEF V!update_rubric
<1>5. V!update_settings(e) => V!Refused(e) \/ (V!Saved(e) /\ \E wanted : V!schedule_prewarm(wanted))
  BY Zenon DEF V!update_settings
<1>6. V!replace_questions(e) => V!Refused(e) \/ (V!Saved(e) /\ \E wanted : V!schedule_prewarm(wanted))
  BY ReplaceIs, Zenon
<1>7. V!turn(e) => V!Refused(e) \/ (V!Saved(e) /\ \E wanted : V!schedule_prewarm(wanted))
  BY Zenon DEF V!turn
<1>8. QED  BY <1>1, <1>2, <1>3, <1>4, <1>5, <1>6, <1>7, Zenon DEF Submits

LEMMA TypesRest ==
    ASSUME ClipsTyped, clips' = clips, room' = room,
           job' = job \/ job' = [pc |-> "queued", attempts |-> 0, left |-> {}]
    PROVE  ClipsTyped'
<1>1. [pc |-> "queued", attempts |-> 0, left |-> {}] \in JobRows  BY VacancyConstants DEF JobRows
<1>2. QED  BY <1>1 DEF ClipsTyped

LEMMA EditorStep ==
    ASSUME Sound, NEW e \in Editors, Composes(e) \/ V!get(e) \/ Submits(e) \/ V!Leaves(e)
    PROVE  Sound' /\ (questions' = questions \/ V!update_rubric(e) \/ V!replace_questions(e))
<1>1. CASE Composes(e)  BY <1>1, KeptMakes, MakesLeave, TypesRest DEF Sound
<1>2. CASE V!get(e)
  <2>1. questions' = questions /\ job' = job /\ clips' = clips /\ room' = room  BY <1>2, Zenon DEF V!get
  <2>2. QED  BY <1>2, <2>1, KeptGet, TypesRest DEF Sound
<1>3. CASE Submits(e)
  <2>1. Kept'  BY <1>3, KeptRubric, KeptSettings, KeptReplace, KeptTurn DEF Sound, Submits
  <2>2. ClipsTyped'  BY <1>3, SavesLeave, TypesRest DEF Sound
  <2>3. V!Refused(e) => questions' = questions  BY Zenon DEF V!Refused
  <2>4. V!update_settings(e) => questions' = questions  BY <2>3, Zenon DEF V!update_settings
  <2>5. V!turn(e) => questions' = questions  BY <2>3, Zenon DEF V!turn
  <2>6. QED  BY <1>3, <2>1, <2>2, <2>4, <2>5 DEF Sound, Submits
<1>4. CASE V!Leaves(e)
  <2>1. V!Refused(e)  BY <1>4 DEF V!Leaves
  <2>2. questions' = questions /\ job' = job /\ clips' = clips /\ room' = room  BY <2>1, Zenon DEF V!Refused
  <2>3. QED  BY <2>1, <2>2, KeptLeft, TypesRest DEF Sound
<1>5. QED  BY <1>1, <1>2, <1>3, <1>4

\* The job and the rooms.
LEMMA AgainIs == ASSUME job \in JobRows, job.pc = "running"  PROVE V!Again \in JobRows \cup {V!NoJob}
<1>1. job.attempts \in 1..prewarm_attempts  BY DEF JobRows
<1>2. job.attempts < prewarm_attempts => job.attempts \in 0..(prewarm_attempts - 1)  BY <1>1, VacancyConstants
<1>3. job.attempts < prewarm_attempts => [pc |-> "queued", attempts |-> job.attempts, left |-> {}] \in JobRows
  BY <1>2 DEF JobRows
<1>4. QED  BY <1>3 DEF V!Again

LEMMA JobIs ==
    ASSUME ClipsTyped, job.pc \in {"queued", "running"}
    PROVE  job \in JobRows
<1>1. V!NoJob.pc \notin {"queued", "running"}  BY DEF V!NoJob
<1>2. QED  BY <1>1 DEF ClipsTyped

LEMMA TextsOf == ASSUME Kept  PROVE {questions[q].text : q \in DOMAIN questions} \in SUBSET Texts
<1>1. \A q \in DOMAIN questions : questions[q] \in V!Question  BY DEF Kept, Rowed
<1>2. \A q \in DOMAIN questions : questions[q].text \in Texts  BY <1>1 DEF V!Question
<1>3. QED  BY <1>2

LEMMA ClaimTyped == ASSUME Sound, V!Claim  PROVE ClipsTyped'
<1> DEFINE texts == {questions[q].text : q \in DOMAIN questions}
           new == [pc |-> "running", attempts |-> job.attempts + 1, voice |-> vacancy.voice,
                   left |-> texts, got |-> FALSE, failed |-> FALSE]
<1>1. /\ job.pc = "queued" /\ (job' = new \/ job' = V!NoJob)
      /\ clips' = clips /\ room' = room
  BY Zenon DEF V!Claim
<1>2. job \in JobRows  BY <1>1, JobIs DEF Sound
<1>3. job.attempts \in 0..(prewarm_attempts - 1)  BY <1>1, <1>2 DEF JobRows
<1>4. job.attempts + 1 \in 1..prewarm_attempts  BY <1>3, VacancyConstants
<1>5. texts \in SUBSET Texts /\ vacancy.voice \in Voices  BY TextsOf DEF Sound, Kept, V!Vacancy
<1> HIDE DEF texts
<1>6. new \in JobRows  BY <1>4, <1>5 DEF JobRows
<1>7. QED  BY <1>1, <1>6 DEF Sound, ClipsTyped

LEMMA ClipTyped ==
    ASSUME ClipsTyped, NEW t \in Texts, V!Rendered(t) \/ V!NotRendered(t)
    PROVE  ClipsTyped'
<1>1. /\ job.pc = "running" /\ room' = room
      /\ \/ job' = [job EXCEPT !.left = @ \ {t}, !.got = TRUE] /\ clips' = clips \cup {<<t, job.voice>>}
         \/ job' = [job EXCEPT !.left = @ \ {t}, !.failed = TRUE] /\ clips' = clips
  BY Zenon DEF V!Rendered, V!NotRendered, V!Prewarms
<1>2. job \in JobRows  BY <1>1, JobIs
<1>3. job \in [pc : {"running"}, attempts : 1..prewarm_attempts, voice : Voices, left : SUBSET Texts,
               got : BOOLEAN, failed : BOOLEAN]
  BY <1>1, <1>2 DEF JobRows
<1>4. job' \in JobRows /\ job.voice \in Voices
  <2>1. TRUE \in BOOLEAN /\ job.left \ {t} \in SUBSET Texts  BY <1>3
  <2>2. QED  BY <1>1, <1>3, <2>1 DEF JobRows
<1>5. clips' \subseteq Texts \X Voices  BY <1>1, <1>4 DEF ClipsTyped
<1>6. QED  BY <1>1, <1>4, <1>5 DEF ClipsTyped

LEMMA RoomTyped ==
    ASSUME Sound, V!Begins \/ V!Reveals
    PROVE  ClipsTyped'
<1>1. CASE V!Begins
  <2> DEFINE texts == {questions[q].text : q \in DOMAIN questions}
  <2>1. room' = [texts |-> texts, voice |-> vacancy.voice] /\ job' = job /\ clips' = clips  BY <1>1, Zenon DEF V!Begins
  <2>2. texts \in SUBSET Texts /\ vacancy.voice \in Voices  BY TextsOf DEF Sound, Kept, V!Vacancy
  <2> HIDE DEF texts
  <2>3. room' \in Rooms  BY <2>1, <2>2 DEF Rooms
  <2>4. QED  BY <2>1, <2>3 DEF Sound, ClipsTyped
<1>2. CASE V!Reveals
  <2>1. PICK t \in Texts : V!_avatar(t)  BY <1>2 DEF V!Reveals
  <2>2. /\ t \in room.texts /\ V!schedule_prewarm(V!Missing(t)) /\ clips' = clips
        /\ room' = IF room.texts = {t} THEN V!NoRoom ELSE [room EXCEPT !.texts = @ \ {t}]
    BY <2>1, Zenon DEF V!_avatar
  <2>3. room' \in Rooms \cup {V!NoRoom}
    <3>1. room \in Rooms  BY <2>2 DEF Sound, ClipsTyped, V!NoRoom
    <3>2. [room EXCEPT !.texts = @ \ {t}] \in Rooms  BY <3>1 DEF Rooms
    <3>3. QED  BY <2>2, <3>2
  <2>4. job' = job \/ job' = [pc |-> "queued", attempts |-> 0, left |-> {}]  BY <2>2, Zenon DEF V!schedule_prewarm
  <2>5. [pc |-> "queued", attempts |-> 0, left |-> {}] \in JobRows  BY VacancyConstants DEF JobRows
  <2>6. QED  BY <2>2, <2>3, <2>4, <2>5 DEF Sound, ClipsTyped
<1>3. QED  BY <1>1, <1>2

\* Of a step of the job or of a room the editing sees nothing but a trouble that is counted.
LEMMA EditingSees ==
    ASSUME past \in History, V!Works \/ V!Dies \/ V!Begins \/ V!Reveals
    PROVE  /\ vacancy' = vacancy /\ questions' = questions /\ edit' = edit
           /\ past' \in History /\ past'.overlapped = past.overlapped /\ past'.emptied = past.emptied
           /\ past'.issued = past.issued
<1>1. ASSUME NEW t \in Texts, V!Rendered(t) \/ V!NotRendered(t)
      PROVE  /\ vacancy' = vacancy /\ questions' = questions /\ edit' = edit
             /\ \/ past' = past
                \/ /\ past.troubles < MaxTroubles /\ past.edits + past.troubles < MaxEvents
                   /\ past' = [past EXCEPT !.troubles = @ + 1]
  BY <1>1, Zenon DEF V!Rendered, V!NotRendered
<1>2. ASSUME NEW t \in Texts, V!_avatar(t)
      PROVE  vacancy' = vacancy /\ questions' = questions /\ edit' = edit /\ past' = past
  BY <1>2, Zenon DEF V!_avatar
<1>3. V!Claim \/ V!Finish \/ V!Begins => vacancy' = vacancy /\ questions' = questions /\ edit' = edit /\ past' = past
  BY Zenon DEF V!Claim, V!Finish, V!Begins
<1>4. V!Dies => /\ vacancy' = vacancy /\ questions' = questions /\ edit' = edit
                /\ past.troubles < MaxTroubles /\ past.edits + past.troubles < MaxEvents
                /\ past' = [past EXCEPT !.troubles = @ + 1]
  BY Zenon DEF V!Dies
<1>5. /\ vacancy' = vacancy /\ questions' = questions /\ edit' = edit
      /\ \/ past' = past
         \/ /\ past.troubles < MaxTroubles /\ past.edits + past.troubles < MaxEvents
            /\ past' = [past EXCEPT !.troubles = @ + 1]
  BY <1>1, <1>2, <1>3, <1>4, Zenon DEF V!Works, V!Reveals
<1>6. past' \in History  BY <1>5, MoreEdits
<1>7. past'.overlapped = past.overlapped /\ past'.emptied = past.emptied /\ past'.issued = past.issued
  BY <1>5 DEF History
<1>8. QED  BY <1>5, <1>6, <1>7

LEMMA WorkStep ==
    ASSUME Sound, V!Works \/ V!Dies \/ V!Begins \/ V!Reveals
    PROVE  Sound' /\ questions' = questions
<1>1. Kept' /\ questions' = questions
  <2>1. Kept /\ past \in History  BY DEF Sound, Kept
  <2>2. QED  BY <2>1, EditingSees, KeptRests
<1>2. ClipsTyped'
  <2>1. CASE V!Claim  BY <2>1, ClaimTyped
  <2>2. CASE V!Finish \/ V!Dies
    <3>1. /\ job.pc = "running" /\ (job' = V!Again \/ job' = V!NoJob)
          /\ clips' = clips /\ room' = room
      BY <2>2, Zenon DEF V!Finish, V!Dies, V!Prewarms
    <3>2. V!Again \in JobRows \cup {V!NoJob}  BY <3>1, JobIs, AgainIs DEF Sound
    <3>3. QED  BY <3>1, <3>2 DEF Sound, ClipsTyped
  <2>3. CASE \E t \in Texts : V!Rendered(t) \/ V!NotRendered(t)  BY <2>3, ClipTyped DEF Sound
  <2>4. CASE V!Begins \/ V!Reveals  BY <2>4, RoomTyped
  <2>5. QED  BY <2>1, <2>2, <2>3, <2>4 DEF V!Works
<1>3. QED  BY <1>1, <1>2 DEF Sound

LEMMA SoundNext ==
    ASSUME Sound, V!Next
    PROVE  Sound' /\ \A e \in Editors : V!AddsTo(e)
<1>1. \/ \E e \in Editors : Composes(e) \/ V!get(e) \/ Submits(e) \/ V!Leaves(e)
      \/ V!Works \/ V!Dies \/ V!Begins \/ V!Reveals
  BY Zenon DEF V!Next, Composes, Submits
<1>2. Sound' /\ (questions' = questions \/ \E o \in Editors : V!update_rubric(o) \/ V!replace_questions(o))
  BY <1>1, EditorStep, WorkStep
<1>3. QED  BY <1>2, StepAdds DEF Sound

\* The evaluation goes on, or nothing does.
LEMMA SoundRests ==
    ASSUME Sound, UNCHANGED OfVacancies
    PROVE  Sound'
<1>1. /\ vacancy' = vacancy /\ questions' = questions /\ edit' = edit /\ job' = job /\ clips' = clips
      /\ room' = room /\ past' = past
  BY DEF OfVacancies
<1>2. QED  BY <1>1, KeptRests DEF Sound, ClipsTyped, Kept

VacanciesInv == part = "vacancies" => Sound

LEMMA SoundAlways == MCSpec => []VacanciesInv
<1>1. MCInit => VacanciesInv  BY SoundInit DEF MCInit, VacanciesInv
<1>2. VacanciesInv /\ [MCNext]_all_vars => VacanciesInv'
  <2> SUFFICES ASSUME VacanciesInv, [MCNext]_all_vars, part' = "vacancies"  PROVE Sound'
    BY DEF VacanciesInv
  <2>1. CASE NextVacancies
    <3>1. part = "vacancies" /\ V!Next  BY <2>1 DEF NextVacancies
    <3>2. QED  BY <3>1, SoundNext DEF VacanciesInv
  <2>2. CASE NextEvaluation
    <3>1. part' = part /\ UNCHANGED OfVacancies  BY <2>2, Zenon DEF NextEvaluation
    <3>2. QED  BY <3>1, SoundRests DEF VacanciesInv
  <2>3. CASE UNCHANGED all_vars
    <3>1. part' = part /\ UNCHANGED OfVacancies  BY <2>3, Zenon DEF all_vars
    <3>2. QED  BY <3>1, SoundRests DEF VacanciesInv
  <2>4. QED  BY <2>1, <2>2, <2>3 DEF MCNext
<1>3. QED  BY <1>1, <1>2, PTL DEF MCSpec

\* However the requests of editors interleave, questions keep distinct places; as long as no two requests
\* overlap, the list has no gaps and refers to competencies of the rubric, and what is published has
\* questions (vacancies/service: update, replace_questions, publish).
THEOREM VacancyStaysSound == MCSpec => []VacancyIsSound
<1>1. VacanciesInv => VacancyIsSound  BY SoundHolds DEF VacanciesInv, VacancyIsSound
<1>2. QED  BY <1>1, SoundAlways, PTL

\* When a generated list is saved and the questions are still those it was generated for, each of them
\* keeps its row, its text and its order, and the new question comes last (assistant/toolbox and
\* vacancies/service, replace_questions).
THEOREM NothingGeneratedIsLost == MCSpec => NothingLost
<1> DEFINE Added == part = "vacancies" => \A e \in Editors : V!AddsTo(e)
<1>1. VacanciesInv /\ [MCNext]_all_vars => [Added]_all_vars
  <2> SUFFICES ASSUME VacanciesInv, MCNext, part = "vacancies"  PROVE \A e \in Editors : V!AddsTo(e)
    BY Zenon
  <2>1. NextVacancies  BY DEF MCNext, NextEvaluation
  <2>2. V!Next  BY <2>1 DEF NextVacancies
  <2>3. QED  BY <2>2, SoundNext DEF VacanciesInv
<1>2. QED  BY <1>1, SoundAlways, PTL DEF MCSpec, NothingLost
=============================================================================
