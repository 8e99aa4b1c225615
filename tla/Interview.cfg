\* Two requests that overlap over the questions and the job of their clips; an evaluation with the wait,
\* a reprocessing, decisions, cancellation and one kill, stop or lost lease.
CONSTANTS
    e1 = e1  e2 = e2  c1 = c1  None = None  null = null
    Editors = {1, 2}
    Texts = {"a", "b"}
    LongTexts = {}
    Competencies = {"c"}
    Voices = {"v"}
    nova = "v"
    prewarm_attempts = 2
    MaxQuestions = 3
    MaxEvents = 3
    MaxTroubles = 1
    Execs = {e1, e2}
    Calls = {c1}
    MaxTries = 2
    WAIT_MAX_RETRIES = 1
    Recruiter = TRUE
    MaxReprocess = 1
    MaxBreaks = 1
SPECIFICATION MCSpec
INVARIANTS VacancyIsSound EvaluationIsSound
PROPERTIES NothingLost InTheEnd
CHECK_DEADLOCK FALSE
