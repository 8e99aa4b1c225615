---------------------------- MODULE HhDiscovery ----------------------------
(***************************************************************************)
(* How an application at hh.ru becomes a candidate (hh/service, hh/jobs):  *)
(* pages link a vacancy of hh to one of ours, jobs hh.sync follow each     *)
(* other, and a pass asks hh for the applications to every linked vacancy  *)
(* and for the resume of each one it does not know.  The dialog that       *)
(* follows is HhDialog, the tokens of the calls are HhConnection.          *)
(***************************************************************************)
EXTENDS Integers, FiniteSets

CONSTANTS HhVacancies,     \* the vacancies of the employer at hh
          Applications,    \* the applications there can be
          VacancyOf,       \* VacancyOf[a]: the vacancy of hh it is for
          EmailOf,         \* EmailOf[a]: the address in the resume, or the one made of the resume's number
          Hidden,          \* the resumes hh never shows
          Pages,           \* requests of recruiters
          max_attempts,    \* of a job
          MaxJobs,         \* bound on the periodic jobs at once
          MaxTroubles      \* bound on failing calls and dead workers

VARIABLES links,        \* links[h]: HhVacancyLink: the local vacancy, or none
          drafts,       \* drafts[h]: local vacancies made from h
          arrived,      \* the applications at hh
          negotiations, \* HhNegotiation: the applications that were found
          candidates,   \* the addresses of the candidates
          page,         \* page[p]: a request on its way to hh and back
          periodic,     \* the periodic jobs that wait: by attempts already made
          requested,    \* the job of the organization: attempts made, or none waiting
          pass,         \* the pass that holds _SYNC_LOCK
          troubles

vars == <<links, drafts, arrived, negotiations, candidates, page, periodic, requested, pass, troubles>>

Emails == {EmailOf[a] : a \in Applications}
Own == "own"           \* a vacancy a recruiter wrote
Imported == "imported" \* a draft made of the vacancy of hh
Page == HhVacancies \cup {"idle"}   \* the vacancy it has asked hh for
\* todo: the links loaded and not visited; infos: the applications hh listed and the pass does not know;
\* found, people: what the transaction has written and not committed.
Pass == [job : {"none", "periodic", "org"}, attempt : 0..max_attempts, pc : {"waits", "next", "resume"},
         todo : SUBSET HhVacancies, known : SUBSET Applications, infos : SUBSET Applications,
         found : SUBSET Applications, people : SUBSET Emails]

TypeOK ==
    /\ links \in [HhVacancies -> {"none", Own, Imported}] /\ drafts \in [HhVacancies -> Nat]
    /\ arrived \subseteq Applications /\ negotiations \subseteq Applications
    /\ candidates \subseteq Emails /\ page \in [Pages -> Page]
    /\ periodic \in [0..(max_attempts - 1) -> 0..MaxJobs] /\ requested \in 0..max_attempts
    /\ pass \in Pass /\ troubles \in 0..MaxTroubles

NoPass == [job |-> "none", attempt |-> 0, pc |-> "waits", todo |-> {}, known |-> {}, infos |-> {},
           found |-> {}, people |-> {}]
NoRequest == max_attempts

Init ==
    /\ links = [h \in HhVacancies |-> "none"] /\ drafts = [h \in HhVacancies |-> 0]
    /\ arrived = {} /\ negotiations = {} /\ candidates = {}
    /\ page = [p \in Pages |-> "idle"]
    /\ periodic = [n \in 0..(max_attempts - 1) |-> 0] /\ requested = NoRequest
    /\ pass = NoPass /\ troubles = 0

Trouble == troubles < MaxTroubles /\ troubles' = troubles + 1
-----------------------------------------------------------------------------
(* People. *)

Arrive(a) ==
    /\ a \notin arrived /\ arrived' = arrived \cup {a}
    /\ UNCHANGED <<links, drafts, negotiations, candidates, page, periodic, requested, pass, troubles>>

\* A recruiter invites the person; an address that a pass has written waits for it.
RecruiterWrites(e) ==
    /\ e \notin candidates \cup pass.people /\ candidates' = candidates \cup {e}
    /\ UNCHANGED <<links, drafts, arrived, negotiations, page, periodic, requested, pass, troubles>>

\* import_vacancy looks for a link, then asks hh for the vacancy.
Ask(p, h) ==
    /\ page[p] = "idle" /\ links[h] = "none" /\ page' = [page EXCEPT ![p] = h]
    /\ UNCHANGED <<links, drafts, arrived, negotiations, candidates, periodic, requested, pass, troubles>>

\* uq_hh_vacancy_link: who comes second fails and leaves nothing.
Free(h) == links[h] = "none"
\* Variant: the check before the question to hh is relied on.
FreeThen(h) == TRUE

import_vacancy(p) ==
    LET h == page[p] IN
    /\ h # "idle" /\ page' = [page EXCEPT ![p] = "idle"]
    /\ \/ /\ Free(h)
          /\ links' = [links EXCEPT ![h] = Imported] /\ drafts' = [drafts EXCEPT ![h] = @ + 1]
       \/ UNCHANGED <<links, drafts>>    \* not free, or hh does not answer
    /\ UNCHANGED <<arrived, negotiations, candidates, periodic, requested, pass, troubles>>

\* link_vacancy asks hh first; a link that is there is pointed to the other vacancy.
link_vacancy(h) ==
    /\ links[h] # Own /\ links' = [links EXCEPT ![h] = Own]
    /\ UNCHANGED <<drafts, arrived, negotiations, candidates, page, periodic, requested, pass, troubles>>

\* request_sync, and handle_webhook, which says only that something is new: one job that is not finished.
enqueue_org_sync ==
    /\ requested = NoRequest /\ pass.job # "org" /\ requested' = 0
    /\ UNCHANGED <<links, drafts, arrived, negotiations, candidates, page, periodic, pass, troubles>>
-----------------------------------------------------------------------------
(* The jobs. *)

Waiting == \E n \in DOMAIN periodic : periodic[n] > 0
\* A job that runs and is tried for the first time; the key of a job is the minute it is due.
ensure_periodic_sync ==
    /\ ~Waiting /\ pass.job # "periodic"
    /\ periodic' = [periodic EXCEPT ![0] = 1]
    /\ UNCHANGED <<links, drafts, arrived, negotiations, candidates, page, requested, pass, troubles>>

\* Every run of a periodic job puts the next one, due after the interval; bound: no more than MaxJobs.
Scheduled(waiting) == [waiting EXCEPT ![0] = IF @ < MaxJobs THEN @ + 1 ELSE @]

\* The job waits for the lock; then the links are read, with what was found before.
Begin(job, attempt) ==
    pass' = [NoPass EXCEPT !.job = job, !.attempt = attempt + 1, !.pc = "next",
                           !.todo = {h \in HhVacancies : links[h] # "none"}, !.known = negotiations]

hh_sync_job ==
    /\ pass.job = "none"
    /\ \/ \E n \in DOMAIN periodic :
            /\ periodic[n] > 0 /\ Begin("periodic", n)
            /\ periodic' = Scheduled([periodic EXCEPT ![n] = @ - 1]) /\ UNCHANGED requested
       \/ /\ requested # NoRequest /\ Begin("org", requested)
          /\ requested' = NoRequest /\ UNCHANGED periodic
    /\ UNCHANGED <<links, drafts, arrived, negotiations, candidates, page, troubles>>

\* A job that did not end is tried again, until its attempts are used up.
Retried ==
    /\ pass' = NoPass
    /\ IF pass.attempt = max_attempts THEN UNCHANGED <<periodic, requested>>
       ELSE IF pass.job = "org" THEN requested' = pass.attempt /\ UNCHANGED periodic
       ELSE /\ periodic' = [periodic EXCEPT ![pass.attempt] = IF @ < MaxJobs THEN @ + 1 ELSE @]
            /\ UNCHANGED requested

Die ==
    /\ pass.job # "none" /\ Trouble /\ Retried
    /\ UNCHANGED <<links, drafts, arrived, negotiations, candidates, page>>
-----------------------------------------------------------------------------
(* The pass. *)

\* get_or_create_candidate: one candidate for an address.
Commit == negotiations' = negotiations \cup pass.found /\ candidates' = candidates \cup pass.people

\* Variant: who is known already is not looked at again.
NewPeople(h) == {a \in arrived \ pass.known : VacancyOf[a] = h /\ \A k \in pass.known : EmailOf[k] # EmailOf[a]}
Unknown(h) == {a \in arrived \ pass.known : VacancyOf[a] = h}

\* The applications to a linked vacancy.
List(h) ==
    /\ pass.pc = "next" /\ h \in pass.todo
    /\ pass' = [pass EXCEPT !.pc = "resume", !.todo = @ \ {h},
                            !.infos = Unknown(h)]
    /\ UNCHANGED <<links, drafts, arrived, negotiations, candidates, page, periodic, requested, troubles>>

Resume(a) ==
    /\ pass.pc = "resume" /\ a \in pass.infos \ Hidden
    /\ pass' = [pass EXCEPT !.infos = @ \ {a}, !.found = @ \cup {a}, !.people = @ \cup {EmailOf[a]},
                            !.known = @ \cup {a}]
    /\ UNCHANGED <<links, drafts, arrived, negotiations, candidates, page, periodic, requested, troubles>>

\* All the applications to the vacancy are there: commit, and their dialogs (HhDialog).
LinkIsDone ==
    /\ pass.pc = "resume" /\ pass.infos = {} /\ Commit
    /\ pass' = [pass EXCEPT !.pc = "next", !.found = {}, !.people = {}]
    /\ UNCHANGED <<links, drafts, arrived, page, periodic, requested, troubles>>

PassIsDone ==
    /\ pass.pc = "next" /\ pass.todo = {} /\ pass' = NoPass
    /\ UNCHANGED <<links, drafts, arrived, negotiations, candidates, page, periodic, requested, troubles>>

\* hh refuses or is not reached: the error is written to the connection, with what was found till then,
\* and the job is done.
HhFails ==
    /\ pass.pc \in {"next", "resume"} /\ pass.job # "none"
    /\ \/ pass.infos \cap Hidden # {} /\ UNCHANGED troubles
       \/ (pass.infos \cup pass.todo) # {} /\ Trouble
    /\ Commit /\ pass' = NoPass
    /\ UNCHANGED <<links, drafts, arrived, page, periodic, requested>>

sync_connection ==
    \/ \E h \in HhVacancies : List(h)
    \/ \E a \in Applications : Resume(a)
    \/ LinkIsDone \/ PassIsDone
    \/ pass.infos # {} /\ pass.infos \subseteq Hidden /\ HhFails

Next ==
    \/ \E a \in Applications : Arrive(a)
    \/ \E e \in Emails : RecruiterWrites(e)
    \/ \E h \in HhVacancies : link_vacancy(h) \/ \E p \in Pages : Ask(p, h)
    \/ \E p \in Pages : import_vacancy(p)
    \/ enqueue_org_sync \/ ensure_periodic_sync \/ hh_sync_job \/ Die
    \/ sync_connection \/ HhFails

Spec == Init /\ [][Next]_vars

\* The worker looks after the chain every hour, takes a job that is due, and a pass goes on.
FairSpec == Spec /\ WF_vars(ensure_periodic_sync) /\ WF_vars(hh_sync_job) /\ WF_vars(sync_connection)
-----------------------------------------------------------------------------
\* A vacancy of hh is imported once, however many recruiters do it at once, and what was found has a
\* candidate and belongs to a link, wherever a pass broke off.
DiscoveryIsSound ==
    /\ TypeOK
    /\ \A h \in HhVacancies : drafts[h] <= 1
    /\ \A a \in negotiations : EmailOf[a] \in candidates /\ links[VacancyOf[a]] # "none"

\* Every application to a linked vacancy becomes a candidate's in the end, though calls of hh fail,
\* workers die and links come while a pass is at work.
AllFound == \A a \in arrived : links[VacancyOf[a]] # "none" => a \in negotiations
FoundInTheEnd == ~AllFound ~> AllFound
-----------------------------------------------------------------------------
(* Properties the repository states and the code does not have. *)

\* One periodic job at a time (ensure_periodic_sync); a second attempt starts another chain.
OnePeriodicJob == (\A n \in DOMAIN periodic : periodic[n] <= 1) /\ Cardinality({n \in DOMAIN periodic : periodic[n] > 0}) <= 1

\* One application does not bring the others down (sync_connection).
OneFailsAlone ==
    \A a \in Applications \ Hidden : (a \in arrived /\ links[VacancyOf[a]] # "none") ~> a \in negotiations
=============================================================================
