------------------------------ MODULE DemoSeed ------------------------------
(***************************************************************************)
(* The command that fills an organization with demo data (demo/seed.py),   *)
(* run again and again, and dying anywhere.                                *)
(*                                                                         *)
(* A run walks a fixed list of things to ensure.  What a service it calls  *)
(* changes is committed by that call; what the command changes itself is   *)
(* committed by the next commit of its session, whoever asks for it.  The  *)
(* contents of the rows, and the letter a decision schedules (Feedback),   *)
(* are left out.  One run is under way at a time.                        *)
(***************************************************************************)
EXTENDS Integers, Sequences, FiniteSets, SequencesExt

CONSTANTS Vacancies, Members, Cases, Extras, Topics, \* what is ensured, in the order it is
          CaseVacancy,                               \* the vacancy of each case
          Decisions,                                 \* the cases with a decision
          Modes,                                     \* --evaluate of a run: dataset, real, none
          MaxRuns,                                   \* bound on the runs
          null

VARIABLES owner,      \* the owner is registered
          vacancies,  \* vacancies[v]: how far it has come
          invites,    \* invites[m]: the invites made out to m
          joined,     \* the members that are registered
          candidates, \* the candidates, cases and extras
          interviews, \* interviews[p]: the interview of the candidate p, null if there is none
          documents,  \* documents[k]: the documents with the title k
          run,        \* the run under way, null if there is none
          past        \* history

vars == <<owner, vacancies, invites, joined, candidates, interviews, documents, run, past>>

People == ToSet(Cases) \cup ToSet(Extras)
ParametersOK ==
    /\ CaseVacancy \in [ToSet(Cases) -> ToSet(Vacancies)] /\ Decisions \subseteq ToSet(Cases)
    /\ Modes \subseteq {"dataset", "real", "none"} /\ MaxRuns \in Nat /\ Vacancies # <<>>
    /\ \A names \in {Vacancies, Members, Cases, Extras, Topics} : names \in Seq(ToSet(names))

\* create, update, replace_questions, publish.
Following == [none |-> "created", created |-> "described", described |-> "asked", asked |-> "published"]
InterviewStatus == {"invited", "staged", "completed", "processing", "evaluated", "decided"}
\* stamped: its dates are those of the story; dated: so is that of its decision.
Interview == [status: InterviewStatus, stamped: BOOLEAN, evaluation: BOOLEAN, job: BOOLEAN,
              notes: Nat, dated: BOOLEAN]
\* unsaved: the extra whose changes no commit has taken along yet.
Run == [at: Nat, step: {"look", "register", "invite", "stage", "note", "decide", "date"},
        mode: Modes, unsaved: ToSet(Extras) \cup {null}]
Past == [runs: 0..MaxRuns, finished: BOOLEAN, died: BOOLEAN, failed: BOOLEAN]
\* null is none of these.
NullOK == null \notin ToSet(Extras) \cup Interview \cup Run

TypeOK ==
    /\ owner \in BOOLEAN
    /\ vacancies \in [ToSet(Vacancies) -> DOMAIN Following \cup {"published"}]
    /\ invites \in [ToSet(Members) -> Nat] /\ joined \subseteq ToSet(Members)
    /\ candidates \subseteq People /\ interviews \in [People -> Interview \cup {null}]
    /\ documents \in [ToSet(Topics) -> Nat]
    /\ run \in Run \cup {null}
    /\ past \in Past

Init ==
    /\ owner = FALSE
    /\ vacancies = [v \in ToSet(Vacancies) |-> "none"]
    /\ invites = [m \in ToSet(Members) |-> 0] /\ joined = {}
    /\ candidates = {} /\ interviews = [p \in People |-> null]
    /\ documents = [k \in ToSet(Topics) |-> 0]
    /\ run = null
    /\ past = [runs |-> 0, finished |-> FALSE, died |-> FALSE, failed |-> FALSE]
-----------------------------------------------------------------------------
\* The list of a run.
Things(what, names) == [k \in DOMAIN names |-> [what |-> what, name |-> names[k]]]
Agenda == <<[what |-> "owner", name |-> null]>> \o Things("vacancy", Vacancies) \o Things("member", Members)
          \o Things("case", Cases) \o Things("extra", Extras) \o <<[what |-> "commit", name |-> null]>>
          \o Things("text", Topics)

Under(what, step) == run # null /\ Agenda[run.at].what = what /\ run.step = step
Name == Agenda[run.at].name

\* The next thing, or the end.
Proceed(unsaved) ==
    IF run.at = Len(Agenda) THEN run' = null /\ past' = [past EXCEPT !.finished = TRUE]
    ELSE run' = [run EXCEPT !.at = @ + 1, !.step = "look", !.unsaved = unsaved] /\ UNCHANGED past
Stay(step) == run' = [run EXCEPT !.step = step, !.unsaved = null] /\ UNCHANGED past

\* The interviews after a commit, which takes along what was unsaved.
Saved == IF run.unsaved = null THEN interviews
         ELSE [interviews EXCEPT ![run.unsaved].status = "staged", ![run.unsaved].stamped = TRUE]

main ==
    /\ run = null /\ past.runs < MaxRuns
    /\ \E mode \in Modes : run' = [at |-> 1, step |-> "look", mode |-> mode, unsaved |-> null]
    /\ past' = [past EXCEPT !.runs = @ + 1]
    /\ UNCHANGED <<owner, vacancies, invites, joined, candidates, interviews, documents>>

ensure_owner ==
    /\ Under("owner", "look") /\ owner' = TRUE /\ Proceed(null)
    /\ UNCHANGED <<vacancies, invites, joined, candidates, interviews, documents>>

\* A vacancy that is there is taken as it is; a new one is created, described, given its questions and
\* published, each with a commit.  The steps after the first do not look.
ensure_vacancy ==
    /\ \/ Under("vacancy", "look") /\ vacancies[Name] # "none" /\ Proceed(null) /\ UNCHANGED vacancies
       \/ /\ Under("vacancy", "look") /\ vacancies[Name] = "none"
          /\ vacancies' = [vacancies EXCEPT ![Name] = Following[@]] /\ Stay("stage")
       \/ /\ Under("vacancy", "stage")
          /\ LET next == Following[vacancies[Name]] IN
             /\ vacancies' = [vacancies EXCEPT ![Name] = next]
             /\ IF next = "published" THEN Proceed(null) ELSE Stay("stage")
    /\ UNCHANGED <<owner, invites, joined, candidates, interviews, documents>>

ensure_member ==
    /\ \/ Under("member", "look") /\ Name \in joined /\ Proceed(null) /\ UNCHANGED <<invites, joined>>
       \/ /\ Under("member", "look") /\ Name \notin joined
          /\ invites' = [invites EXCEPT ![Name] = @ + 1] /\ Stay("register") /\ UNCHANGED joined
       \/ Under("member", "register") /\ joined' = joined \cup {Name} /\ Proceed(null) /\ UNCHANGED invites
    /\ UNCHANGED <<owner, vacancies, candidates, interviews, documents>>

\* Variant: a candidate that is there is invited again.
ExistsNever(p) == FALSE
Exists(p) == interviews[p] # null
Vacancy == IF Agenda[run.at].what = "case" THEN CaseVacancy[Name] ELSE Vacancies[1]
Invitation == [status |-> "invited", stamped |-> FALSE, evaluation |-> FALSE, job |-> FALSE, notes |-> 0, dated |-> FALSE]
OfPerson(step) == Under("case", step) \/ Under("extra", step)

\* The candidate and the invitation, each with a commit; who is there is left alone.  A vacancy that is
\* not published, or a candidate that has an interview, ends the run.
_interview_for ==
    /\ \/ OfPerson("look") /\ Exists(Name) /\ Proceed(run.unsaved) /\ UNCHANGED <<candidates, interviews>>
       \/ /\ OfPerson("look") /\ ~Exists(Name) /\ candidates' = candidates \cup {Name}
          /\ IF Name \in candidates THEN run' = [run EXCEPT !.step = "invite"] /\ UNCHANGED <<interviews, past>>
             ELSE interviews' = Saved /\ Stay("invite")
       \/ /\ OfPerson("invite") /\ vacancies[Vacancy] = "published" /\ interviews[Name] = null
          /\ interviews' = [Saved EXCEPT ![Name] = Invitation]
          /\ IF Agenda[run.at].what = "case" THEN Stay("stage") ELSE Proceed(Name)
          /\ UNCHANGED candidates
       \/ /\ OfPerson("invite") /\ (vacancies[Vacancy] # "published" \/ interviews[Name] # null)
          /\ run' = null /\ past' = [past EXCEPT !.failed = TRUE] /\ UNCHANGED <<candidates, interviews>>
    /\ UNCHANGED <<owner, vacancies, invites, joined, documents>>

\* The interview as it ends, with its evaluation or the job that makes it; then the note, the decision
\* and its date.
seed_case ==
    /\ \/ /\ Under("case", "stage")
          /\ interviews' = [interviews EXCEPT ![Name] =
                [@ EXCEPT !.stamped = TRUE, !.evaluation = run.mode = "dataset", !.job = run.mode = "real",
                          !.status = CASE run.mode = "dataset" -> "evaluated" [] run.mode = "real" -> "processing"
                                       [] run.mode = "none" -> "completed"]]
          /\ IF Name \in Decisions /\ run.mode = "dataset" THEN Stay("note") ELSE Proceed(null)
       \/ Under("case", "note") /\ interviews' = [interviews EXCEPT ![Name].notes = @ + 1] /\ Stay("decide")
       \/ Under("case", "decide") /\ interviews' = [interviews EXCEPT ![Name].status = "decided"] /\ Stay("date")
       \/ Under("case", "date") /\ interviews' = [interviews EXCEPT ![Name].dated = TRUE] /\ Proceed(null)
    /\ UNCHANGED <<owner, vacancies, invites, joined, candidates, documents>>

\* The commit after the last extra.
\* Variant: without it.
seed_funnel_extrasUncommitted ==
    /\ Under("commit", "look") /\ Proceed(null)
    /\ UNCHANGED <<owner, vacancies, invites, joined, candidates, interviews, documents>>
seed_funnel_extras ==
    /\ Under("commit", "look") /\ interviews' = Saved /\ Proceed(null)
    /\ UNCHANGED <<owner, vacancies, invites, joined, candidates, documents>>

Known(k) == documents[k] > 0
ensure_knowledge ==
    /\ Under("text", "look")
    /\ documents' = IF Known(Name) THEN documents ELSE [documents EXCEPT ![Name] = @ + 1]
    /\ Proceed(null)
    /\ UNCHANGED <<owner, vacancies, invites, joined, candidates, interviews>>

\* The process dies; what it has not committed is gone.
Die ==
    /\ run # null /\ run' = null /\ past' = [past EXCEPT !.died = TRUE]
    /\ UNCHANGED <<owner, vacancies, invites, joined, candidates, interviews, documents>>

Next ==
    \/ main \/ ensure_owner \/ ensure_vacancy \/ ensure_member \/ _interview_for \/ seed_case
    \/ seed_funnel_extras \/ ensure_knowledge \/ Die
Spec == Init /\ [][Next]_vars
-----------------------------------------------------------------------------
(* Properties. *)

\* An interview of a case that came to its end, whatever the mode.
Told(p) ==
    LET i == interviews[p] IN
    /\ i # null /\ i.stamped
    /\ p \in ToSet(Cases) => i.status \in {"completed", "processing", "evaluated", "decided"}
    /\ p \in Decisions => i.status # "evaluated" /\ (i.status = "decided" => i.dated)
Complete ==
    /\ owner /\ joined = ToSet(Members) /\ \A p \in People : Told(p)
    /\ \A v \in ToSet(Vacancies) : vacancies[v] = "published"
    /\ \A k \in ToSet(Topics) : documents[k] = 1

\* However often the command is run and wherever a run has died: nothing is there twice but an invite
\* whose run has died; the evaluation and the job are those of the status, committed with it, and a
\* decision has its one note; and as long as no run has died none is refused, and everything is there
\* after the first.
SeedIsOnce ==
    /\ TypeOK
    /\ \A k \in ToSet(Topics) : documents[k] <= 1
    /\ \A m \in ToSet(Members) : past.died \/ invites[m] <= 1
    /\ \A p \in People : interviews[p] # null =>
         LET i == interviews[p] IN
         /\ i.evaluation <=> i.status \in {"evaluated", "decided"}
         /\ i.job <=> i.status = "processing"
         /\ i.notes <= 1 /\ (i.status = "decided" => i.notes = 1) /\ (i.dated => i.status = "decided")
         /\ i.status # "invited" => i.stamped
    /\ past.failed => past.died
    /\ past.finished /\ ~past.died => Complete
-----------------------------------------------------------------------------
(* Properties the repository states and the code does not have. *)

\* The command may be run again (demo/seed): what it finds unfinished, after a run that died, it
\* completes.
Resumes == past.finished => Complete
=============================================================================
