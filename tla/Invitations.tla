---------------------------- MODULE Invitations ----------------------------
(***************************************************************************)
(* The interviews of one candidate for one vacancy, from the invitation to *)
(* the decision (candidates/service.py, reports/service.py, hh/dialog.py): *)
(* the recruiter, the candidate's link, the hh dialog and the processing   *)
(* change the status of the same rows.                                     *)
(*                                                                         *)
(* A request loads rows (Begin...) and writes, by id, the columns it has   *)
(* changed in what it loaded; a request that is refused is left out.       *)
(* The recording between the start and the completion is InterviewRoom's,  *)
(* the processing InterviewEvaluation's.                                   *)
(***************************************************************************)
EXTENDS Integers, FiniteSets

CONSTANTS Interviews,  \* the rows there can be
          Requests,    \* requests that can be under way at once
          MaxOverlaps, \* bound on the requests that begin during another
          None         \* no interview, no status, no decision

VARIABLES row,  \* row[i]: an interview
          req,  \* req[r]: a request under way
          overlaps, \* times a request began while another was under way
          revived   \* history: an interview that had ended is active again

vars == <<row, req, overlaps, revived>>

OPEN_STATUSES == {"invited", "opened", "consented", "in_progress"}
DECIDABLE == {"completed", "processing", "evaluated", "reviewed", "advanced", "rejected"}
Statuses == OPEN_STATUSES \cup DECIDABLE \cup {"expired", "cancelled"}
Decisions == {"advance", "reject", "hold"}

\* What the values of the constants have to satisfy.
ParametersOK ==
    /\ None \notin Interviews \cup Statuses \cup Decisions
    /\ IsFiniteSet(Interviews) /\ MaxOverlaps \in Nat

TRANSITIONS ==
    [s \in Statuses |->
        CASE s = "invited" -> {"opened", "expired", "cancelled"}
          [] s = "opened" -> {"consented", "expired", "cancelled"}
          [] s = "consented" -> {"in_progress", "expired", "cancelled"}
          [] s = "in_progress" -> {"completed", "expired", "cancelled"}
          [] s = "completed" -> {"processing", "cancelled"}
          [] s = "processing" -> {"evaluated", "completed", "cancelled"}
          [] s = "evaluated" -> {"reviewed", "advanced", "rejected", "processing"}
          [] s = "reviewed" -> {"advanced", "rejected"}
          [] s = "advanced" -> {"rejected"}
          [] s = "rejected" -> {"advanced"}
          [] s = "expired" -> {"invited"}
          [] s = "cancelled" -> {}]

\* status None: no such row.  overdue: expires_at is past.  consents: the journal of consents.
Row == [status: Statuses \cup {None}, overdue: BOOLEAN, decision: Decisions \cup {None},
        consents: BOOLEAN]
NoRow == [status |-> None, overdue |-> FALSE, decision |-> None, consents |-> FALSE]
Invited == [NoRow EXCEPT !.status = "invited"]

Operations == {"invite", "resend", "cancel", "expire", "open", "consent", "start", "work"}
               \cup Decisions

\* i: the row it works on, loaded: that row as it was; i None: a new row.
Request == [op: Operations \cup {"idle"}, i: Interviews \cup {None}, loaded: Row]
Idle == [op |-> "idle", i |-> None, loaded |-> NoRow]

TypeOK ==
    row \in [Interviews -> Row] /\ req \in [Requests -> Request] /\ overlaps \in 0 .. MaxOverlaps /\ revived \in BOOLEAN

Init ==
    row = [i \in Interviews |-> NoRow] /\ req = [r \in Requests |-> Idle] /\ overlaps = 0 /\ revived = FALSE
-----------------------------------------------------------------------------
Begin(r, op, i) ==
    /\ req[r].op = "idle"
    /\ req' = [req EXCEPT ![r] = [op |-> op, i |-> i,
                                  loaded |-> IF i = None THEN NoRow ELSE row[i]]]
    /\ \/ /\ \A o \in Requests : req[o].op = "idle"
          /\ UNCHANGED overlaps
       \/ /\ \E o \in Requests : req[o].op # "idle"
          /\ overlaps < MaxOverlaps /\ overlaps' = overlaps + 1
    /\ UNCHANGED <<row, revived>>

Exists(i) == row[i].status # None
Ended(rw) == rw.status \in {"cancelled", "expired", "rejected"}
Active(i) == Exists(i) /\ ~Ended(row[i])

Commit(r, op, changed) ==
    /\ req[r].op = op
    /\ row' = [row EXCEPT ![req[r].i] = changed]
    /\ revived' = (revived \/ (Ended(row[req[r].i]) /\ ~Ended(changed)))
    /\ req' = [req EXCEPT ![r] = Idle]
    /\ UNCHANGED overlaps

\* transition(): the new status is written when it differs from the loaded one.
Moved(rw, loaded, status) == IF loaded.status = status THEN rw ELSE [rw EXCEPT !.status = status]
\* Variant: whatever may be expired or decided may be cancelled.
MayAlways(i, status) == row[i].status # status
May(i, status) == status \in TRANSITIONS[row[i].status]
-----------------------------------------------------------------------------
(* The recruiter, and the dialog on hh that invites. *)

\* invite() refuses a candidate with an active interview; hh gives it a new link instead.
BeginInvite(r) == (\A i \in Interviews : ~Active(i)) /\ Begin(r, "invite", None)

invite(r) ==
    /\ req[r].op = "invite"
    /\ \E i \in Interviews : ~Exists(i) /\ row' = [row EXCEPT ![i] = Invited]
    /\ req' = [req EXCEPT ![r] = Idle]
    /\ UNCHANGED <<overlaps, revived>>

BeginResend(r, i) ==
    /\ row[i].status \in OPEN_STATUSES \cup {"expired"}
    /\ Begin(r, "resend", i)
_ensure_interview(r, i) == Active(i) /\ Begin(r, "resend", i)

NewExpiry(rw) == [rw EXCEPT !.overdue = FALSE]

\* A new link with a new expiry; an expired interview is invited again.
resend(r) ==
    LET loaded == req[r].loaded
        rw == NewExpiry(row[req[r].i])
    IN Commit(r, "resend", IF loaded.status = "expired" THEN Moved(rw, loaded, "invited") ELSE rw)

BeginCancel(r, i) == Exists(i) /\ May(i, "cancelled") /\ Begin(r, "cancel", i)
cancel(r) == Commit(r, "cancel", Moved(row[req[r].i], req[r].loaded, "cancelled"))

BeginDecide(r, i, d) == row[i].status \in DECIDABLE /\ Begin(r, d, i)

Target(d) == CASE d = "advance" -> "advanced" [] d = "reject" -> "rejected" [] d = "hold" -> "reviewed"

\* Before the evaluation, and for a `hold' of what is decided, the status stays.
\* Variant: the status follows the first decision only.
FirstOnly(loaded, d) == loaded.status \in {"evaluated", "reviewed"}
Follows(loaded, d) ==
    /\ loaded.status \notin {"completed", "processing"}
    /\ d = "hold" => loaded.status = "evaluated"

\* The columns decision and status, each written when it differs.
decide(r) ==
    LET loaded == req[r].loaded
        d == req[r].op
        rw == row[req[r].i]
        noted == IF loaded.decision = d THEN rw ELSE [rw EXCEPT !.decision = d]
    IN /\ d \in Decisions
       /\ Commit(r, d, IF Follows(loaded, d) THEN Moved(noted, loaded, Target(d)) ELSE noted)
-----------------------------------------------------------------------------
(* The candidate's link. *)

\* by_token: the link of an interview that has not begun may be found expired.
Before(i) == row[i].status \in {"invited", "opened", "consented"}
BeginExpire(r, i) == Before(i) /\ row[i].overdue /\ Begin(r, "expire", i)
expire(r) == Commit(r, "expire", Moved(row[req[r].i], req[r].loaded, "expired"))

BeginOpen(r, i) == row[i].status = "invited" /\ ~row[i].overdue /\ Begin(r, "open", i)
open(r) == Commit(r, "open", Moved(row[req[r].i], req[r].loaded, "opened"))

BeginConsent(r, i) ==
    row[i].status \in {"invited", "opened"} /\ ~row[i].overdue /\ Begin(r, "consent", i)
submit_consent(r) ==
    Commit(r, "consent", [Moved(row[req[r].i], req[r].loaded, "consented") EXCEPT !.consents = TRUE])

\* Variant: an opened link is enough.
OpenedIsEnough(i) == row[i].status \in {"opened", "consented"}
Consented(i) == row[i].status = "consented"

BeginStart(r, i) == Consented(i) /\ ~row[i].overdue /\ Begin(r, "start", i)
start(r) == Commit(r, "start", Moved(row[req[r].i], req[r].loaded, "in_progress"))

Overdue(i) ==
    /\ row[i].status \in OPEN_STATUSES /\ ~row[i].overdue
    /\ row' = [row EXCEPT ![i].overdue = TRUE]
    /\ UNCHANGED <<req, overlaps, revived>>
-----------------------------------------------------------------------------
(* The interview is completed, processed and evaluated. *)

\* reprocess() puts what was evaluated back into processing.
Following(s) == CASE s = "in_progress" -> "completed" [] s = "completed" -> "processing"
                  [] s = "processing" -> "evaluated" [] s = "evaluated" -> "processing"
BeginWork(r, i) ==
    /\ row[i].status \in {"in_progress", "completed", "processing", "evaluated"}
    /\ Begin(r, "work", i)
work(r) ==
    Commit(r, "work", Moved(row[req[r].i], req[r].loaded, Following(req[r].loaded.status)))
-----------------------------------------------------------------------------
Next ==
    \/ \E r \in Requests :
         \/ BeginInvite(r) \/ invite(r) \/ resend(r) \/ cancel(r) \/ decide(r)
         \/ expire(r) \/ open(r) \/ submit_consent(r) \/ start(r) \/ work(r)
         \/ \E i \in Interviews :
              \/ BeginResend(r, i) \/ _ensure_interview(r, i) \/ BeginCancel(r, i)
              \/ BeginExpire(r, i) \/ BeginOpen(r, i) \/ BeginConsent(r, i)
              \/ BeginStart(r, i) \/ BeginWork(r, i)
              \/ \E d \in Decisions : BeginDecide(r, i, d)
    \/ \E i \in Interviews : Overdue(i)

Spec == Init /\ [][Next]_vars
-----------------------------------------------------------------------------
(* Correctness. *)

\* An interview that was recorded has the candidate's consents in the journal, whatever overlaps
\* (interviews/service.py start: the consents come first).
RecordedWithConsent ==
    \A i \in Interviews : row[i].status \in DECIDABLE \cup {"in_progress"} => row[i].consents

\* As long as no two requests overlap, the status changes along TRANSITIONS; consenting from the
\* first page is two of them (candidates/models.py: there is no way back, and nothing follows
\* `cancelled').
AlongTransitions(i) ==
    overlaps = 0 /\ Exists(i) /\ row'[i].status # row[i].status =>
      \/ row'[i].status \in TRANSITIONS[row[i].status]
      \/ row[i].status = "invited" /\ row'[i].status = "consented"

NeverBack == [][\A i \in Interviews : AlongTransitions(i)]_vars

\* Until then the status of a decided interview does not contradict the decision recorded.
DecisionMatches ==
    overlaps = 0 => \A i \in Interviews : /\ row[i].status = "advanced" => row[i].decision # "reject"
                                      /\ row[i].status = "rejected" => row[i].decision # "advance"

\* Until then an interview expires only when its time is over
\* (notifications/templates.py: the link in the letter is valid until its date).
ExpiredIsOverdue == overlaps = 0 => \A i \in Interviews : row[i].status = "expired" => row[i].overdue

\* Until then, and until an interview that had ended is sent again or decided on again, a candidate has
\* one active interview per vacancy.
OneActiveUnlessRevived ==
    overlaps = 0 /\ ~revived => \A i, j \in Interviews : Active(i) /\ Active(j) => i = j

\* The rows keep their types; status, decision and expiry of each agree, and they agree among each other.
ColumnsAgree == TypeOK /\ DecisionMatches /\ ExpiredIsOverdue /\ OneActiveUnlessRevived

(* A property the repository states and the code does not have. *)

\* A candidate has one active interview per vacancy
\* (candidates/service.py invite: "the candidate already has an active interview").
OneActive == \A i, j \in Interviews : Active(i) /\ Active(j) => i = j
=============================================================================
