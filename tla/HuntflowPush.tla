----------------------------- MODULE HuntflowPush -----------------------------
(***************************************************************************)
(* The hand-over of one candidate to Huntflow (huntflow/service.py): the   *)
(* connection, the link of the vacancy, the row of the candidate, the job  *)
(* huntflow.push that does it, and the applicants in Huntflow.             *)
(*                                                                         *)
(* A call to Huntflow succeeds, is refused, is refused for the token, or   *)
(* gets no answer.  The client sends a request that got none once more     *)
(* (client.py:264); Huntflow may have done what it did not answer.  A      *)
(* worker may die anywhere, and a slow execution may lose its job.         *)
(* Connecting, and the calls that only read, are one step with their call. *)
(***************************************************************************)
EXTENDS Integers, FiniteSets

CONSTANTS Executions,    \* the executions that may go on at once
          max_attempts,  \* of the job
          MaxApplicants, \* bound on the applicants made in Huntflow
          MaxPushes,     \* bound on the clicks on the button
          MaxBreaks      \* bound on what is taken away (connection, link, share) and on workers that die

VARIABLES connection,  \* status of the row huntflow_connections, "none" without one
          linked,      \* is there a HuntflowVacancyLink
          row,         \* the row huntflow_applicants
          share,       \* ReportShare: none yet, active, or revoked or expired
          external_ref,\* Candidate.external_ref: an applicant, 0 none
          job,         \* the last job of the row
          exec,        \* exec[e]: an execution of perform_push
          huntflow,    \* the applicants made for the candidate, and which of them are attached to the vacancy
          past         \* history

vars == <<connection, linked, row, share, external_ref, job, exec, huntflow, past>>

HuntflowConnectionStatus == {"none", "active", "needs_account", "error"}
HuntflowPushStatus == {"none", "linked", "queued", "pushing", "pushed", "error"}
Applicants == 1..MaxApplicants
\* made counts the rows: disconnecting deletes the row, and the next push makes another one.
Row == [status: HuntflowPushStatus, applicant: 0..MaxApplicants, share: BOOLEAN, made: Nat]
NoRow(n) == [status |-> "none", applicant |-> 0, share |-> FALSE, made |-> n]
Job == [status: {"none", "queued", "running", "succeeded", "failed"}, attempts: 0..max_attempts,
        owner: Executions \cup {0}, of: Nat]
\* applicant and shared are local; of: the row loaded; known: the ids loaded of row and candidate.
Exec == [pc: {"idle", "loaded", "search", "create", "share", "attach", "record", "return", "raise"},
         applicant: 0..MaxApplicants, of: Nat, known: SUBSET Applicants, shared: BOOLEAN]
Idle == [pc |-> "idle", applicant |-> 0, of |-> 0, known |-> {}, shared |-> FALSE]

\* lost: two executions have gone on at once; unanswered: Huntflow has made an applicant and not said
\* so; died: the worker died in the latest execution.
Past == [lost: BOOLEAN, unanswered: BOOLEAN, died: BOOLEAN, breaks: 0..MaxBreaks, pushes: 0..MaxPushes]

TypeOK ==
    /\ connection \in HuntflowConnectionStatus
    /\ linked \in BOOLEAN
    /\ row \in Row /\ share \in {"none", "active", "gone"} /\ external_ref \in 0..MaxApplicants
    /\ job \in Job /\ exec \in [Executions -> Exec] /\ past \in Past
    /\ huntflow \in [made: 0..MaxApplicants, attached: SUBSET Applicants]

Init ==
    /\ connection \in {"none", "active"} /\ linked = (connection = "active")
    /\ row = NoRow(0) /\ share = "none" /\ external_ref = 0
    /\ job = [status |-> "none", attempts |-> 0, owner |-> 0, of |-> 0]
    /\ exec = [e \in Executions |-> Idle]
    /\ \E n \in 0..1 : huntflow = [made |-> n, attached |-> {}]
    /\ past = [lost |-> FALSE, unanswered |-> FALSE, died |-> FALSE, breaks |-> 0, pushes |-> 0]
-----------------------------------------------------------------------------
(* The cabinet. *)

\* Something that works is taken away.
Switch == past.breaks < MaxBreaks /\ past' = [past EXCEPT !.breaks = @ + 1]

\* connect and select_account: the token is good for one account, for several, or for nothing.  The
\* links and the rows of the connection before are kept.
connect ==
    /\ connection' \in {"active", "needs_account", "error"} \ {connection}
    /\ IF connection = "active" THEN Switch ELSE UNCHANGED past
    /\ UNCHANGED <<linked, row, share, external_ref, job, exec, huntflow>>

select_account ==
    /\ connection = "needs_account" /\ connection' = "active"
    /\ UNCHANGED <<linked, row, share, external_ref, job, exec, huntflow, past>>

\* The links and the rows go with the connection; the candidate keeps external_ref.
disconnect ==
    /\ Switch /\ connection # "none" /\ connection' = "none"
    /\ linked' = FALSE /\ row' = NoRow(row.made)
    /\ UNCHANGED <<share, external_ref, job, exec, huntflow>>

link_vacancy ==
    /\ connection = "active" /\ ~linked /\ linked' = TRUE
    /\ UNCHANGED <<connection, row, share, external_ref, job, exec, huntflow, past>>

unlink_vacancy ==
    /\ Switch /\ linked /\ linked' = FALSE
    /\ UNCHANGED <<connection, row, share, external_ref, job, exec, huntflow>>

\* revoke_share, extend_share and time.
ShareChanges ==
    /\ Switch /\ share # "none" /\ share' = IF share = "active" THEN "gone" ELSE "active"
    /\ UNCHANGED <<connection, linked, row, external_ref, job, exec, huntflow>>

Ref(now, a) == IF now = 0 THEN a ELSE now

\* The applicant whose vacancy is linked becomes the candidate's.
import_applicants ==
    /\ connection = "active" /\ linked
    /\ \E a \in huntflow.attached \cup (IF huntflow.made = 0 THEN {} ELSE {1}) :
         /\ external_ref' = Ref(external_ref, a)
         /\ row' = IF row.status = "none" THEN [NoRow(row.made + 1) EXCEPT !.status = "linked", !.applicant = a]
                   ELSE [row EXCEPT !.applicant = Ref(@, a)]
    /\ <<external_ref, row>> # <<external_ref', row'>>
    /\ UNCHANGED <<connection, linked, share, job, exec, huntflow, past>>

Active(j) == j.status \in {"queued", "running"}

\* The row is queued, and so is a job unless the row has an active one.
push_candidate ==
    /\ past.pushes < MaxPushes /\ past' = [past EXCEPT !.pushes = @ + 1]
    /\ connection = "active" /\ linked /\ row.status # "pushing"
    /\ LET now == IF row.status = "none" THEN NoRow(row.made + 1) ELSE row
       IN /\ row' = [now EXCEPT !.status = "queued"]
          /\ job' = IF Active(job) /\ job.of = now.made THEN job
                    ELSE [status |-> "queued", attempts |-> 0, owner |-> 0, of |-> now.made]
    /\ UNCHANGED <<connection, linked, share, external_ref, exec, huntflow>>
-----------------------------------------------------------------------------
(* The job. *)

Running == {e \in Executions : exec[e].pc # "idle"}
AttemptsLeft == job.attempts < max_attempts
Go(e, now) == exec' = [exec EXCEPT ![e] = now]
At(e, pc) == exec[e].pc = pc
\* The row loaded is the one there is.
Mine(e) == row.status # "none" /\ row.made = exec[e].of

Claim(e) ==
    /\ At(e, "idle") /\ Active(job)
    /\ IF AttemptsLeft
       THEN /\ job' = [job EXCEPT !.status = "running", !.attempts = @ + 1, !.owner = e]
            /\ Go(e, [Idle EXCEPT !.pc = "loaded", !.of = job.of])
            /\ past' = [past EXCEPT !.lost = @ \/ Running # {}, !.died = FALSE]
       ELSE /\ job' = [job EXCEPT !.status = "failed", !.owner = 0]
            /\ past' = [past EXCEPT !.lost = @ \/ Running # {}]
            /\ UNCHANGED exec
    /\ UNCHANGED <<connection, linked, row, share, external_ref, huntflow>>

\* _fail_row; an execution whose row has been deleted cannot write it and raises.
Failed(e, pc) ==
    /\ row' = IF Mine(e) THEN [row EXCEPT !.status = "error"] ELSE row
    /\ Go(e, [exec[e] EXCEPT !.pc = IF Mine(e) THEN pc ELSE "raise"])

\* What perform_push looks at before it begins.
Pushable == connection = "active" /\ linked

Start(e) ==
    /\ At(e, "loaded")
    /\ IF ~Mine(e) THEN Go(e, [exec[e] EXCEPT !.pc = "return"]) /\ UNCHANGED row
       ELSE IF ~Pushable THEN Failed(e, "return")
       ELSE /\ row' = [row EXCEPT !.status = "pushing"]
            /\ Go(e, [exec[e] EXCEPT !.pc = "search", !.shared = row.share,
                                     !.known = {row.applicant, external_ref} \ {0}])
    /\ UNCHANGED <<connection, linked, share, external_ref, job, huntflow, past>>

\* A call that is refused (401, 4xx) ends the job with an error in the row; one without an answer is
\* left to the queue.
CallFails(e) ==
    /\ exec[e].pc \in {"search", "create", "attach"}
    /\ \/ connection' = (IF Mine(e) THEN "error" ELSE connection) /\ Failed(e, "return")
       \/ UNCHANGED connection /\ Failed(e, "return")
       \/ UNCHANGED connection /\ Failed(e, "raise")
    /\ UNCHANGED <<linked, share, external_ref, job, huntflow, past>>

\* Variant: without a known id nobody is looked for.
FoundById(known) == known
\* The applicants of the known ids, then those of the candidate's e-mail or name.
Found(known) == IF known # {} THEN known ELSE 1..huntflow.made

_ensure_applicant(e) ==
    /\ At(e, "search")
    /\ IF Found(exec[e].known) = {} THEN Go(e, [exec[e] EXCEPT !.pc = "create"])
       ELSE \E a \in Found(exec[e].known) : Go(e, [exec[e] EXCEPT !.pc = "share", !.applicant = a])
    /\ UNCHANGED <<connection, linked, row, share, external_ref, job, huntflow, past>>

create_applicant(e) ==
    /\ At(e, "create") /\ huntflow.made < MaxApplicants
    /\ huntflow' = [huntflow EXCEPT !.made = @ + 1]
    /\ Go(e, [exec[e] EXCEPT !.pc = "share", !.applicant = huntflow.made + 1])
    /\ UNCHANGED <<connection, linked, row, share, external_ref, job, past>>

\* Huntflow makes the applicant and the answer is lost: the client is about to send it again.
CreatedUnanswered(e) ==
    /\ At(e, "create") /\ huntflow.made < MaxApplicants
    /\ huntflow' = [huntflow EXCEPT !.made = @ + 1]
    /\ past' = [past EXCEPT !.unanswered = TRUE]
    /\ UNCHANGED <<connection, linked, row, share, external_ref, job, exec>>

\* The share of the row is used again while it is active.
Reusable(e) == exec[e].shared /\ share = "active"
_ensure_share(e) ==
    /\ At(e, "share")
    /\ IF Reusable(e) THEN UNCHANGED <<share, row>> /\ Go(e, [exec[e] EXCEPT !.pc = "attach"])
       ELSE /\ share' = "active"
            /\ row' = IF Mine(e) THEN [row EXCEPT !.share = TRUE] ELSE row
            /\ Go(e, [exec[e] EXCEPT !.pc = IF Mine(e) THEN "attach" ELSE "raise"])
    /\ UNCHANGED <<connection, linked, external_ref, job, huntflow, past>>

\* With it goes _target_status: the status of the link, or the first one there is.  Huntflow may attach the applicant without saying so: then CallFails comes next.
attach_vacancy(e) ==
    /\ At(e, "attach")
    /\ huntflow' = [huntflow EXCEPT !.attached = @ \cup {exec[e].applicant}]
    /\ exec' \in {exec, [exec EXCEPT ![e].pc = "record"]}
    /\ <<huntflow, exec>> # <<huntflow', exec'>>
    /\ UNCHANGED <<connection, linked, row, share, external_ref, job, past>>

Pushed(a) == [row EXCEPT !.status = "pushed", !.applicant = a]

Record(e) ==
    /\ At(e, "record")
    /\ IF Mine(e)
       THEN /\ row' = Pushed(exec[e].applicant)
            /\ external_ref' = IF exec[e].known = {} THEN exec[e].applicant ELSE Ref(external_ref, exec[e].applicant)
            /\ Go(e, [exec[e] EXCEPT !.pc = "return"])
       ELSE Go(e, [exec[e] EXCEPT !.pc = "raise"]) /\ UNCHANGED <<row, external_ref>>
    /\ UNCHANGED <<connection, linked, share, job, huntflow, past>>

End(e) ==
    LET ended == IF At(e, "return") THEN "succeeded" ELSE IF AttemptsLeft THEN "queued" ELSE "failed"
    IN /\ exec[e].pc \in {"return", "raise"}
       /\ job' = IF job.status = "running" /\ job.owner = e /\ job.of = exec[e].of
                 THEN [job EXCEPT !.status = ended, !.owner = 0] ELSE job
       /\ Go(e, Idle)
       /\ UNCHANGED <<connection, linked, row, share, external_ref, huntflow, past>>

\* The worker dies, or gives up an execution that has lost its job.
Die ==
    /\ past.breaks < MaxBreaks /\ Running # {}
    /\ exec' = [e \in Executions |-> Idle]
    /\ past' = [past EXCEPT !.breaks = @ + 1, !.died = TRUE]
    /\ UNCHANGED <<connection, linked, row, share, external_ref, job, huntflow>>

Next ==
    \/ connect \/ select_account \/ disconnect \/ link_vacancy \/ unlink_vacancy \/ ShareChanges
    \/ import_applicants \/ push_candidate \/ Die
    \/ \E e \in Executions :
         \/ Claim(e) \/ Start(e) \/ CallFails(e) \/ _ensure_applicant(e) \/ create_applicant(e)
         \/ CreatedUnanswered(e) \/ _ensure_share(e) \/ attach_vacancy(e)
         \/ Record(e) \/ End(e)

Spec == Init /\ [][Next]_vars
-----------------------------------------------------------------------------
(* Correctness. *)

\* What is shown as handed over is: the applicant of the row is attached to the vacancy.
PushedIsAttached == row.status = "pushed" => row.applicant \in huntflow.attached

\* The candidate is one applicant in Huntflow, however often the job is repeated and the worker dies,
\* unless the answer to its creation is lost or two executions overlap.
OneApplicant == ~past.lost /\ ~past.unanswered => huntflow.made <= 1

\* A row that is being handed over has a job: otherwise push_candidate would refuse for ever.
PushingHasJob == row.status = "pushing" /\ ~past.lost /\ ~past.died => Active(job) /\ job.of = row.made

\* The types, and all that the row, its job and Huntflow have to agree on.
HandOverIsTrue == TypeOK /\ PushedIsAttached /\ OneApplicant /\ PushingHasJob

(* Properties the repository states and the code does not have. *)

\* A second hand-over of a candidate can be asked for in the end: not if the worker dies in the last
\* attempt of the first.
CanBePushedAgain == row.status = "pushing" => Active(job)
=============================================================================
