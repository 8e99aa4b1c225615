---------------------------- MODULE JobLifecycle ----------------------------
(***************************************************************************)
(* What the job queue promises whoever enqueues a job: a job is started at *)
(* most MaxAttempts times, its attempts are forgotten only by retry or by  *)
(* one graceful stop at a time, and a finished job stays finished unless   *)
(* somebody retries a failed or cancelled one.  Several jobs may take a    *)
(* step at once, as one poll of a worker buries all zombies.               *)
(***************************************************************************)
EXTENDS Integers

CONSTANTS Jobs, MaxAttempts

VARIABLE row    \* row[j]: the status and the attempts of a job

Init == row = [j \in Jobs |-> [status |-> "absent", attempts |-> 0]]

Becomes(j, status, attempts) == row'[j] = [status |-> status, attempts |-> attempts]

Submit(j) == row[j].status = "absent" /\ Becomes(j, "queued", 0)

Start(j) ==
    /\ row[j].status \in {"queued", "running"} /\ row[j].attempts < MaxAttempts
    /\ Becomes(j, "running", row[j].attempts + 1)

Succeed(j) == row[j].status = "running" /\ Becomes(j, "succeeded", row[j].attempts)
GiveUp(j) == row[j].status = "running" /\ Becomes(j, "failed", row[j].attempts)

\* After a failure with attempts left, and after a stop that spends no attempt.
GiveBack(j) ==
    /\ row[j].status = "running"
    /\ \/ row[j].attempts < MaxAttempts /\ Becomes(j, "queued", row[j].attempts)
       \/ Becomes(j, "queued", row[j].attempts - 1)

Cancel(j) == row[j].status = "queued" /\ Becomes(j, "cancelled", row[j].attempts)
Retry(j) == row[j].status \in {"failed", "cancelled"} /\ Becomes(j, "queued", 0)

Step(j) ==
    \/ Submit(j) \/ Start(j) \/ Succeed(j) \/ GiveUp(j) \/ GiveBack(j) \/ Cancel(j) \/ Retry(j)

Next ==
    /\ DOMAIN row' = Jobs
    /\ \A j \in Jobs : Step(j) \/ row'[j] = row[j]

Spec == Init /\ [][Next]_row
=============================================================================
