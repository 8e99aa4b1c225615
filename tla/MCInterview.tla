----------------------------- MODULE MCInterview -----------------------------
(***************************************************************************)
(* Small instances for TLC of the evaluation of an interview and of the    *)
(* questions of a vacancy with their clips: the first state chooses the    *)
(* part.  The evaluation rests in its first state while the other goes on; *)
(* the variables of the vacancies are null when it does not.               *)
(***************************************************************************)
EXTENDS InterviewEvaluation

CONSTANTS Editors, Texts, LongTexts, Competencies, Voices, nova, prewarm_attempts, MaxQuestions,
          MaxTroubles, MaxEvents,                                                            \* Vacancies
          null, e1, e2, c1

VARIABLES part,
          vacancy, questions, edit, job, clips, room, past                                   \* Vacancies

V == INSTANCE Vacancies

ASSUME SizesOK == ParametersOK /\ V!ParametersOK

OfVacancies == <<vacancy, questions, edit, job, clips, room, past>>
all_vars == <<part, vars, OfVacancies>>

MCInit ==
    /\ Init
    /\ \/ /\ part = "evaluation"
          /\ vacancy = null /\ questions = null /\ edit = null /\ job = null /\ clips = null
          /\ room = null /\ past = null
       \/ part = "vacancies" /\ V!Init /\ ~pending

\* A step of a part, taken by the part alone.
InVacancies(step) == part = "vacancies" /\ step /\ UNCHANGED <<part, vars>>
InEvaluation(step) == part = "evaluation" /\ step /\ UNCHANGED <<part, OfVacancies>>

NextVacancies == part = "vacancies" /\ V!Next /\ UNCHANGED <<part, vars>>
NextEvaluation == part = "evaluation" /\ Next /\ UNCHANGED <<part, OfVacancies>>
MCNext == NextVacancies \/ NextEvaluation

\* The fairness of the parts.  The part never changes, so a disjunction of one step of each is fair
\* when the step of the part is.
MCSpec ==
    /\ MCInit /\ [][MCNext]_all_vars
    /\ WF_all_vars(InVacancies(V!Works) \/ InEvaluation(\E j \in DOMAIN jobs, e \in Execs : Take(e, j)))
    /\ WF_all_vars(InVacancies(V!Begins) \/ InEvaluation(Advances(e1)))
    /\ WF_all_vars(InVacancies(V!Reveals) \/ InEvaluation(Advances(e2)))
    /\ WF_all_vars(InEvaluation(\E j \in DOMAIN jobs : Bury(j)))
    /\ WF_all_vars(InEvaluation(ReprocessCommits(c1)))
-----------------------------------------------------------------------------
\* Questions keep distinct places; and as long as requests do not overlap, the list has no gaps and refers
\* to competencies of the rubric, and what is published has questions.
VacancyIsSound == part = "vacancies" => V!VacancyIsSound

\* Questions that the assistant generates are added to those they were generated for.
NothingLost == [][part = "vacancies" => \A e \in Editors : V!AddsTo(e)]_all_vars

\* An interview that has to be judged, clips that are missing.
Waits ==
    IF part = "vacancies" THEN ~V!ClipsReady ELSE Unbroken /\ status \in {"completed", "processing"}
Settled == IF part = "vacancies" THEN V!ClipsReady ELSE JudgedNow

\* Every finished interview is evaluated, or shows an error that can be reprocessed, unless an execution was
\* broken off; and every question of a published vacancy gets its clip.
InTheEnd == Waits ~> Settled
=============================================================================
