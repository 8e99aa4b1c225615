----------------------------- MODULE Reminders ------------------------------
(***************************************************************************)
(* The reminder of an interview that is about to run out                   *)
(* (notifications/outreach.py), and a recruiter who sends the link again   *)
(* (candidates/service.py).                                                *)
(*                                                                         *)
(* Both load the interview, compose a letter with a link, and commit the   *)
(* columns they have changed together with the letter.                     *)
(***************************************************************************)
EXTENDS Integers, Sequences, FiniteSets

CONSTANTS Executions,   \* the executions of the reminder that may go on at once
          max_attempts, \* of the job
          MaxLetters    \* bound on the letters of the recruiter

VARIABLES interview,  \* the row of the interview
          left,       \* how long the link is good: over, an hour, the window, more
          job,        \* the row of the job interview.reminder
          exec,       \* exec[e]: an execution of send_reminder
          recruiter,  \* the request of the recruiter
          outbox,     \* the letters to the candidate, in order
          past        \* history: a lease was lost and the reminder executed twice at once; the recruiter
                      \* sent the link again while a reminder was composed

vars == <<interview, left, job, exec, recruiter, outbox, past>>

Tokens == 1..(MaxLetters + Cardinality(Executions) + 1)     \* 0: no link in the letter
Times == {"over", "hour", "window", "more"}
\* stored: token_secret is there; hh: external_ref says that the link is in the chat of hh.
Interview == [status: {"unfinished", "expired", "finished"}, token: Tokens, stored: BOOLEAN,
              hh: BOOLEAN, reminded: BOOLEAN]
Letter == [kind: {"reminder", "invitation"}, link: Tokens \cup {0}]
Job == [status: {"none", "queued", "running", "ended"}, attempts: 0..max_attempts, owner: Executions \cup {0}]
Exec == [pc: {"idle", "claimed", "compose", "end"}, seen: Interview]

TypeOK ==
    /\ interview \in Interview /\ left \in Times /\ job \in Job
    /\ exec \in [Executions -> Exec]
    /\ recruiter \in [pc: {"idle", "resend"}, seen: Interview]
    /\ past \in [twice: BOOLEAN, raced: BOOLEAN]
    /\ outbox \in Seq(Letter) /\ Len(outbox) <= MaxLetters + Cardinality(Executions)

Unknown == [status |-> "unfinished", token |-> 1, stored |-> FALSE, hh |-> FALSE, reminded |-> FALSE]
Idle == [pc |-> "idle", seen |-> Unknown]

\* An interview from before token_secret has none; one from hh has its link in the chat.
Init ==
    /\ \E s, h \in BOOLEAN : interview = [Unknown EXCEPT !.stored = s, !.hh = h]
    /\ left = "more"
    /\ job = [status |-> "none", attempts |-> 0, owner |-> 0]
    /\ exec = [e \in Executions |-> Idle]
    /\ recruiter = [pc |-> "idle", seen |-> Unknown]
    /\ outbox = <<>> /\ past = [twice |-> FALSE, raced |-> FALSE]
-----------------------------------------------------------------------------
(* Time, and the candidate. *)

Tick ==
    /\ left # "over"
    /\ left' = CASE left = "more" -> "window" [] left = "window" -> "hour" [] left = "hour" -> "over"
    /\ UNCHANGED <<interview, job, exec, recruiter, outbox, past>>

Expire ==
    /\ interview.status = "unfinished" /\ left = "over"
    /\ interview' = [interview EXCEPT !.status = "expired"]
    /\ UNCHANGED <<left, job, exec, recruiter, outbox, past>>

Finish ==
    /\ interview.status = "unfinished" /\ left # "over"
    /\ interview' = [interview EXCEPT !.status = "finished"]
    /\ UNCHANGED <<left, job, exec, recruiter, outbox, past>>
-----------------------------------------------------------------------------
(* The job of the reminder. *)

schedule_reminders ==
    /\ interview.status = "unfinished" /\ ~interview.reminded /\ left = "window"
    /\ job.status \in {"none", "ended"}
    /\ job' = [status |-> "queued", attempts |-> 0, owner |-> 0]
    /\ UNCHANGED <<interview, left, exec, recruiter, outbox, past>>

Composing == {e \in Executions : exec[e].pc = "compose"}
Running == {e \in Executions : exec[e].pc # "idle"}

\* Queued, or its lease has expired or was lost.
Claimable == job.status \in {"queued", "running"}

AttemptsLeft == job.attempts < max_attempts

Claim(e) ==
    /\ exec[e].pc = "idle" /\ Claimable
    /\ IF AttemptsLeft
       THEN /\ job' = [status |-> "running", attempts |-> job.attempts + 1, owner |-> e]
            /\ exec' = [exec EXCEPT ![e].pc = "claimed"]
            /\ past' = [past EXCEPT !.twice = @ \/ Running # {}]
       ELSE job' = [job EXCEPT !.status = "ended", !.owner = 0] /\ UNCHANGED <<exec, past>>
    /\ UNCHANGED <<interview, left, recruiter, outbox>>

\* Variant: it is not looked at whether a reminder has gone.
EvenReminded(iv) == iv.status = "unfinished" /\ left # "over"
Wanted(iv) == ~iv.reminded /\ iv.status = "unfinished" /\ left # "over"

\* send_reminder loads the interview, and decides.
Load(e) ==
    /\ exec[e].pc = "claimed"
    /\ exec' = [exec EXCEPT ![e] = IF Wanted(interview) THEN [pc |-> "compose", seen |-> interview]
                                                        ELSE [Idle EXCEPT !.pc = "end"]]
    /\ past' = [past EXCEPT !.raced = @ \/ recruiter.pc = "resend"]
    /\ UNCHANGED <<interview, left, job, recruiter, outbox>>

LinksInUse == {outbox[k].link : k \in 1..Len(outbox)} \cup {interview.token}
NewLink == CHOOSE n \in Tokens : n \notin LinksInUse

NeedsLink(iv) == ~iv.stored /\ ~iv.hh

\* Variant: the new link is only in the letter.
OnlyMark(iv, seen) == [iv EXCEPT !.reminded = TRUE]
Reminded(iv, seen) ==
    IF NeedsLink(seen) THEN [iv EXCEPT !.reminded = TRUE, !.token = NewLink, !.stored = TRUE]
                       ELSE [iv EXCEPT !.reminded = TRUE]

\* The letter and the mark that it was written are one transaction; of the row only what has been
\* changed is written.
Compose(e) ==
    LET seen == exec[e].seen
        link == IF seen.stored THEN seen.token ELSE IF NeedsLink(seen) THEN NewLink ELSE 0
    IN /\ exec[e].pc = "compose"
       /\ interview' = Reminded(interview, seen)
       /\ outbox' = Append(outbox, [kind |-> "reminder", link |-> link])
       /\ exec' = [exec EXCEPT ![e] = [Idle EXCEPT !.pc = "end"]]
       /\ UNCHANGED <<left, job, recruiter, past>>

End(e) ==
    /\ exec[e].pc = "end"
    /\ job' = IF job.status = "running" /\ job.owner = e
              THEN [job EXCEPT !.status = "ended", !.owner = 0] ELSE job
    /\ exec' = [exec EXCEPT ![e] = Idle]
    /\ UNCHANGED <<interview, left, recruiter, outbox, past>>

\* The worker dies: what it had not committed is gone.
Die(e) ==
    /\ exec[e].pc # "idle"
    /\ exec' = [exec EXCEPT ![e] = Idle]
    /\ UNCHANGED <<interview, left, job, recruiter, outbox, past>>
-----------------------------------------------------------------------------
(* The recruiter sends the link again. *)

Letters(kind) == {k \in 1..Len(outbox) : outbox[k].kind = kind}

BeginResend ==
    /\ recruiter.pc = "idle" /\ interview.status \in {"unfinished", "expired"}
    /\ Cardinality(Letters("invitation")) < MaxLetters
    /\ recruiter' = [pc |-> "resend", seen |-> interview]
    /\ past' = [past EXCEPT !.raced = @ \/ Composing # {}]
    /\ UNCHANGED <<interview, left, job, exec, outbox>>

Relinked(iv, token) == [iv EXCEPT !.token = token, !.stored = TRUE]

resend ==
    /\ recruiter.pc = "resend"
    /\ interview' = LET now == Relinked(interview, NewLink)
                    IN IF recruiter.seen.status = "expired" THEN [now EXCEPT !.status = "unfinished"] ELSE now
    /\ left' \in {"window", "more"}
    /\ outbox' = Append(outbox, [kind |-> "invitation", link |-> NewLink])
    /\ recruiter' = Idle
    /\ UNCHANGED <<job, exec, past>>
-----------------------------------------------------------------------------
Next ==
    \/ Tick \/ Expire \/ Finish \/ schedule_reminders \/ BeginResend \/ resend
    \/ \E e \in Executions : Claim(e) \/ Load(e) \/ Compose(e) \/ End(e) \/ Die(e)

Spec == Init /\ [][Next]_vars
-----------------------------------------------------------------------------
(* Correctness. *)

\* One reminder per interview, whenever the worker dies and whatever the recruiter does, unless the job
\* was executed twice at once (outreach.py: sent once, by reminder_sent_at); a mark without a letter
\* is never seen.
RemindedOnce == ~past.twice => Cardinality(Letters("reminder")) = IF interview.reminded THEN 1 ELSE 0

\* Unless the recruiter acted while a reminder was composed, the link of the newest letter opens the
\* interview (outreach.py: the reminder repeats the link that works).
NewestLinkWorks ==
    ~past.raced /\ outbox # <<>> => LET link == outbox[Len(outbox)].link IN link \in {0, interview.token}

\* The link in the chat of hh is not changed by a reminder: it works until the recruiter sends another.
ChatLinkKept ==
    interview.hh /\ (\A k \in 1..Len(outbox) : outbox[k].kind = "reminder") => interview.token = 1

\* A reminder tells the candidate of a link: only for an interview of hh whose link is not known it
\* has none.
ReminderHasLink ==
    ~past.raced =>
        \A k \in 1..Len(outbox) : outbox[k].kind = "reminder" /\ outbox[k].link = 0 =>
            interview.hh /\ \A n \in 1..(k - 1) : outbox[n].kind = "reminder"

\* The types, and the links: the newest one, the one in the chat, and that there is one.
LinksWork == TypeOK /\ NewestLinkWorks /\ ChatLinkKept /\ ReminderHasLink

(* Properties the repository states and the code does not have. *)

\* The link of before stops working when a reminder is sent (backend/README.md).
ReminderRelinks ==
    [][\A e \in Executions : exec[e].pc = "compose" /\ Len(outbox') > Len(outbox) =>
            interview'.token # interview.token]_vars
=============================================================================
