------------------------------ MODULE MCOutside ------------------------------
(***************************************************************************)
(* Small instances for TLC of what goes over a network that may fail: the  *)
(* recording from the page of the candidate, letters, reminders and        *)
(* feedback to the mail server, the connection to hh.ru and what is found  *)
(* there.  The first state chooses the part.  While it is another, the     *)
(* upload rests in its first state; the variables of the other parts are   *)
(* null.                                                                   *)
(***************************************************************************)
EXTENDS ChunkUpload, FiniteSets

CONSTANTS Executions, email_attempts, MaxDeaths,                                     \* Outbox
          reminder_attempts, MaxLetters,                                             \* Reminders
          Modes, AfterDays, MaxDecisions, MaxReprocess, feedback_attempts, Horizon,  \* Feedback
          Callers, MaxPairs, MaxConnects, MaxRequests,                               \* HhConnection
          HhVacancies, Applications, VacancyOf, EmailOf, Hidden, Pages,
          sync_attempts, MaxJobs,                                                    \* HhDiscovery
          MaxTroubles,                                                               \* of both
          s1, s2, s3, null

VARIABLES part, job, exec, interview, past,                                 \* of more than one part
          message, delivered,                                               \* Outbox
          left, recruiter, outbox,                                          \* Reminders
          today, mode, evaluation, evaluator, decider, letters, ready, unsubscribed, counts,  \* Feedback
          hh, connection, caller,                                           \* HhConnection
          links, drafts, arrived, negotiations, candidates, page, periodic,
          requested, pass, troubles                                         \* HhDiscovery

O == INSTANCE Outbox WITH max_attempts <- email_attempts
R == INSTANCE Reminders WITH max_attempts <- reminder_attempts
F == INSTANCE Feedback WITH max_attempts <- feedback_attempts
C == INSTANCE HhConnection
D == INSTANCE HhDiscovery WITH max_attempts <- sync_attempts

ASSUME SizesOK ==
    /\ ParametersOK
    /\ {email_attempts, MaxDeaths, reminder_attempts, MaxLetters, feedback_attempts} \subseteq Nat
    /\ {AfterDays, MaxDecisions, MaxReprocess, Horizon} \subseteq Nat /\ AfterDays <= Horizon
    /\ IsFiniteSet(Executions)
    /\ {MaxPairs, MaxConnects, MaxRequests, MaxTroubles} \subseteq Nat
    /\ {sync_attempts, MaxJobs} \subseteq Nat \ {0}

OfOutbox == <<message, delivered>>
OfReminders == <<left, recruiter, outbox>>
OfFeedback == <<today, mode, evaluation, evaluator, decider, letters, ready, unsubscribed, counts>>
OfConnection == <<hh, connection, caller>>
OfDiscovery == <<links, drafts, arrived, negotiations, candidates, page, periodic, requested, pass, troubles>>
OfOthers == <<job, exec, interview, past, OfOutbox, OfReminders, OfFeedback, OfConnection, OfDiscovery>>
all_vars == <<part, vars, OfOthers>>

NoOutbox == message = null /\ delivered = null
NoReminders == left = null /\ recruiter = null /\ outbox = null
NoFeedback ==
    /\ today = null /\ mode = null /\ evaluation = null /\ evaluator = null /\ decider = null
    /\ letters = null /\ ready = null /\ unsubscribed = null /\ counts = null
NoConnection == hh = null /\ connection = null /\ caller = null
NoDiscovery ==
    /\ links = null /\ drafts = null /\ arrived = null /\ negotiations = null /\ candidates = null
    /\ page = null /\ periodic = null /\ requested = null /\ pass = null /\ troubles = null
NoLetters == NoOutbox /\ NoReminders /\ NoFeedback /\ job = null /\ exec = null /\ interview = null

MCInit ==
    /\ Init
    /\ \/ part = "upload" /\ past = null /\ NoLetters /\ NoConnection /\ NoDiscovery
       \/ part = "outbox" /\ O!Init /\ interview = null /\ past = null
                          /\ NoReminders /\ NoFeedback /\ NoConnection /\ NoDiscovery
       \/ part = "reminders" /\ R!Init /\ NoOutbox /\ NoFeedback /\ NoConnection /\ NoDiscovery
       \/ part = "feedback" /\ F!Init /\ exec = null /\ NoOutbox /\ NoReminders /\ NoConnection /\ NoDiscovery
       \/ part = "connection" /\ C!Init /\ NoLetters /\ NoDiscovery
       \/ part = "discovery" /\ D!Init /\ past = null /\ NoLetters /\ NoConnection

KeptByOutbox == UNCHANGED <<part, vars, interview, past, OfReminders, OfFeedback, OfConnection, OfDiscovery>>
KeptByReminders == UNCHANGED <<part, vars, OfOutbox, OfFeedback, OfConnection, OfDiscovery>>
KeptByFeedback == UNCHANGED <<part, vars, exec, OfOutbox, OfReminders, OfConnection, OfDiscovery>>
KeptByConnection == UNCHANGED <<part, vars, job, exec, interview, OfOutbox, OfReminders, OfFeedback, OfDiscovery>>
KeptByDiscovery == UNCHANGED <<part, vars, job, exec, interview, past, OfOutbox, OfReminders, OfFeedback, OfConnection>>

NextUpload == part = "upload" /\ Next /\ UNCHANGED <<part, OfOthers>>
NextOutbox == part = "outbox" /\ O!Next /\ KeptByOutbox
NextReminders == part = "reminders" /\ R!Next /\ KeptByReminders
NextFeedback == part = "feedback" /\ F!Next /\ KeptByFeedback
NextConnection == part = "connection" /\ C!Next /\ KeptByConnection
NextDiscovery == part = "discovery" /\ D!Next /\ KeptByDiscovery
MCNext == NextUpload \/ NextOutbox \/ NextReminders \/ NextFeedback \/ NextConnection \/ NextDiscovery

\* A step of a part, taken by the part alone.
InUpload(step) == part = "upload" /\ step /\ UNCHANGED <<part, OfOthers>>
InOutbox(step) == part = "outbox" /\ step /\ KeptByOutbox
InFeedback(step) == part = "feedback" /\ step /\ KeptByFeedback
InConnection(step) == part = "connection" /\ step /\ KeptByConnection
InDiscovery(step) == part = "discovery" /\ step /\ KeptByDiscovery

\* The fairness of the parts that have one.  The part never changes, so a disjunction of one step of each
\* is fair when the step of the part is.
MCSpec ==
    /\ MCInit /\ [][MCNext]_all_vars
    /\ WF_all_vars(InOutbox(O!Claim(1)) \/ InFeedback(F!Evaluates) \/ InConnection(C!Call("sync"))
               \/ InDiscovery(D!ensure_periodic_sync) \/ InUpload(Paged))
    /\ WF_all_vars(InOutbox(O!Goes(1)) \/ InFeedback(F!Works) \/ InConnection(C!Call("page"))
               \/ InDiscovery(D!hh_sync_job) \/ InUpload(Handled(s1)))
    /\ WF_all_vars(InOutbox(O!Claim(2)) \/ InFeedback(F!Tick) \/ InConnection(C!build_client("sync"))
               \/ InDiscovery(D!sync_connection) \/ InUpload(Handled(s2)))
    /\ WF_all_vars(InOutbox(O!Goes(2)) \/ InUpload(Handled(s3)))
-----------------------------------------------------------------------------
\* What is recorded of a letter is true of the mail server, and each attempt sends it once at most; one reminder
\* per interview, with a link that works; no feedback before its day; and each conclusion and
\* each decision has its letter, once.
NoticesAreTrue ==
    /\ part = "outbox" => O!StatusIsTrue
    /\ part = "reminders" => R!RemindedOnce /\ R!LinksWork
    /\ part = "feedback" => F!FeedbackInTime /\ F!EachEventTold

\* The chain of refresh tokens of hh does not break; and what was found at hh has a candidate and belongs
\* to a vacancy that was imported once.
HhIsKept ==
    /\ part = "connection" => C!TokensAreKept
    /\ part = "discovery" => D!DiscoveryIsSound

\* No letter goes out that ought not to: none that is recorded as sent, and no feedback while the
\* conclusion it is about is made again.
NoWrongLetter ==
    [][(part = "outbox" => O!NotSentAgain) /\ (part = "feedback" => F!AboutConclusion)]_all_vars

\* A recorder that has to finish, a letter to be sent, feedback that was announced, a connection that could work, an application at hh.
Waits ==
    CASE part = "upload" -> client.finish = "drain" /\ ~client.failed
      [] part = "outbox" -> ~O!Over
      [] part = "feedback" -> F!Announced
      [] part = "connection" -> C!Usable
      [] part = "discovery" -> ~D!AllFound
      [] OTHER -> FALSE
Settled ==
    CASE part = "upload" -> FinishEnded /\ Arrived
      [] part = "outbox" -> O!Over
      [] part = "feedback" -> F!Written
      [] part = "connection" -> C!Healed
      [] part = "discovery" -> D!AllFound
      [] OTHER -> TRUE

\* finish() ends, and what it has waited for is there; what is to be sent is sent in the end, or given up; a connection that old tokens have marked as broken
\* is taken back; and every application to a linked vacancy becomes a candidate's.
DoneInTheEnd == Waits ~> Settled
-----------------------------------------------------------------------------
(* Two applications for two vacancies, of one person. *)

TwoVacancies == [a1 |-> "h1", a2 |-> "h2"]
OnePerson == [a1 |-> "x", a2 |-> "x"]
=============================================================================
