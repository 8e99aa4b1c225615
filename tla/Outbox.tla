------------------------------- MODULE Outbox -------------------------------
(***************************************************************************)
(* One letter of the outbox (notifications/service.py) and the job that    *)
(* delivers it.                                                            *)
(*                                                                         *)
(* An execution loads the letter, gives it to the mail server, and records *)
(* what came of it; then the job ends.  A worker may die anywhere, and the *)
(* job is then executed again; an execution may lose its lease, and the    *)
(* job is executed twice at once.                                          *)
(***************************************************************************)
EXTENDS Integers, FiniteSets

CONSTANTS Executions,    \* the executions that may go on at once
          max_attempts,  \* of the job
          MaxDeaths      \* bound on how often the worker dies

VARIABLES message,    \* status: EmailMessage.status
          delivered,  \* how often the mail server has taken it
          job,        \* the row of the job email.send
          exec        \* exec[e]: an execution

vars == <<message, delivered, job, exec>>

EmailStatus == {"queued", "sent", "failed"}
Outcomes == {"sent", "failed"}
\* owner: who holds the lease, 0 nobody.  History: how often a worker died, and whether a lease was
\* lost, so that two executions went on at once.
Job == [status: {"queued", "running", "succeeded", "failed"}, attempts: 0..max_attempts,
        owner: Executions \cup {0}, deaths: 0..MaxDeaths, lost: BOOLEAN]
Exec == [pc: {"idle", "claimed", "send", "record", "end"}, outcome: Outcomes]

TypeOK ==
    /\ message \in EmailStatus
    /\ delivered \in 0..max_attempts
    /\ job \in Job
    /\ exec \in [Executions -> Exec]

Idle == [pc |-> "idle", outcome |-> "failed"]

Init ==
    /\ message = "queued" /\ delivered = 0
    /\ job = [status |-> "queued", attempts |-> 0, owner |-> 0, deaths |-> 0, lost |-> FALSE]
    /\ exec = [e \in Executions |-> Idle]
-----------------------------------------------------------------------------
Running == {e \in Executions : exec[e].pc # "idle"}

\* The lease of an execution that is gone has expired, or that of a slow one was lost.
Claimable == job.status \in {"queued", "running"}

AttemptsLeft == job.attempts < max_attempts

Attempt == job.attempts + 1

\* send_email_job begins; a job whose attempts are used up is failed instead.
Claim(e) ==
    /\ exec[e].pc = "idle" /\ Claimable
    /\ IF AttemptsLeft
       THEN /\ job' = [job EXCEPT !.status = "running", !.attempts = Attempt, !.owner = e,
                                !.lost = @ \/ Running # {}]
            /\ exec' = [exec EXCEPT ![e].pc = "claimed"]
       ELSE /\ job' = [job EXCEPT !.status = "failed", !.owner = 0]
            /\ UNCHANGED exec
    /\ UNCHANGED <<message, delivered>>

\* Variant: what was tried is done.
TriedIsDone(status) == status # "queued"
Done(status) == status = "sent"

Load(e) ==
    /\ exec[e].pc = "claimed"
    /\ exec' = [exec EXCEPT ![e] = IF Done(message) THEN [pc |-> "end", outcome |-> "sent"]
                                   ELSE [pc |-> "send", outcome |-> "failed"]]
    /\ UNCHANGED <<message, delivered, job>>

Accepted(e) ==
    /\ exec[e].pc = "send"
    /\ delivered' = delivered + 1
    /\ exec' = [exec EXCEPT ![e] = [pc |-> "record", outcome |-> "sent"]]
    /\ UNCHANGED <<message, job>>

\* The mail server may have taken a letter whose sending fails.
Refused(e) ==
    /\ exec[e].pc = "send"
    /\ delivered' \in {delivered, delivered + 1}
    /\ exec' = [exec EXCEPT ![e] = [pc |-> "record", outcome |-> "failed"]]
    /\ UNCHANGED <<message, job>>

Recorded(status, outcome) == outcome

Record(e) ==
    /\ exec[e].pc = "record"
    /\ message' = Recorded(message, exec[e].outcome)
    /\ exec' = [exec EXCEPT ![e].pc = "end"]
    /\ UNCHANGED <<delivered, job>>

\* The job is completed, or put back until its attempts are used up; only by who holds the lease.
End(e) ==
    LET ended == IF exec[e].outcome = "sent" THEN "succeeded"
                 ELSE IF AttemptsLeft THEN "queued" ELSE "failed"
    IN /\ exec[e].pc = "end"
       /\ job' = IF job.status = "running" /\ job.owner = e
                 THEN [job EXCEPT !.status = ended, !.owner = 0]
                 ELSE job
       /\ exec' = [exec EXCEPT ![e] = Idle]
       /\ UNCHANGED <<message, delivered>>

\* The worker dies.
Die ==
    /\ job.deaths < MaxDeaths
    /\ job' = [job EXCEPT !.deaths = @ + 1]
    /\ exec' = [e \in Executions |-> Idle]
    /\ exec # exec'
    /\ UNCHANGED <<message, delivered>>
-----------------------------------------------------------------------------
Next ==
    \/ \E e \in Executions :
         Claim(e) \/ Load(e) \/ Accepted(e) \/ Refused(e) \/ Record(e) \/ End(e)
    \/ Die

Spec == Init /\ [][Next]_vars

\* The worker goes on, and the mail server does not refuse for ever.
Goes(e) == Load(e) \/ Accepted(e) \/ Refused(e) \/ Record(e) \/ End(e)
FairSpec == Spec /\ \A e \in Executions : WF_vars(Claim(e)) /\ WF_vars(Goes(e))
-----------------------------------------------------------------------------
(* Correctness. *)

\* What is recorded as sent has been taken by the mail server.
SentIsDelivered == message = "sent" => delivered > 0

\* As long as no lease is lost a letter that is recorded as sent is not sent again (deliver_email),
\* and a job that has succeeded leaves a letter that is recorded as sent, whenever the worker dies.
NotSentAgain == delivered' > delivered /\ ~job.lost => message # "sent"
SucceededIsSent == job.status = "succeeded" /\ ~job.lost => message = "sent"

\* Each attempt of the job sends the letter once at most, whichever executions overlap.
OncePerAttempt == delivered <= job.attempts

\* The types, and all that the rows and the mail server have to agree on.
StatusIsTrue == TypeOK /\ SentIsDelivered /\ SucceededIsSent /\ OncePerAttempt

\* The job ends, whatever the mail server answers and however often the worker dies.
Over == job.status \in {"succeeded", "failed"}
Ends == <>Over

(* Properties the repository states and the code does not have. *)

\* The letter is sent once (docs/ARCHITECTURE.md: the steps of the handlers are idempotent): not if
\* the worker dies between the sending and the record.
Once == delivered <= 1
=============================================================================
