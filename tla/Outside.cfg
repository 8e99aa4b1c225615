\* An upload with requests that fail for the page and arrive late, a short write, a stream that ends by
\* itself and a page that is closed.  One letter, one reminder, one feedback; executions overlap, workers
\* die, decisions come early.  A pass and a page with one pair of tokens; two applications of one person
\* for two vacancies of hh.
CONSTANTS
    s1 = s1  s2 = s2  s3 = s3  None = None
    Chunks = 3
    ChunkSize = 2
    MaxTries = 2
    MaxLosses = 2
    Requests = {s1, s2, s3}
    EmptyTail = TRUE
    StreamMayEnd = TRUE
    ShortWrites = TRUE
    Reloads = TRUE
    Executions = {1, 2}
    email_attempts = 3
    MaxDeaths = 3
    reminder_attempts = 2
    MaxLetters = 2
    Modes = {"off", "auto_after_days", "after_decision"}
    AfterDays = 2
    MaxDecisions = 1
    MaxReprocess = 1
    feedback_attempts = 3
    Horizon = 4
    Callers = {"sync", "page"}
    MaxPairs = 3
    MaxConnects = 2
    MaxRequests = 1
    HhVacancies = {"h1", "h2"}
    Applications = {"a1", "a2"}
    VacancyOf <- TwoVacancies
    EmailOf <- OnePerson
    Hidden = {}
    Pages = {"p", "q"}
    sync_attempts = 2
    MaxJobs = 1
    MaxTroubles = 1
    null = null
SPECIFICATION MCSpec
INVARIANTS RecordingIsKept NoticesAreTrue HhIsKept
PROPERTIES UploadedIsFrozen NoWrongLetter DoneInTheEnd
\* Everything that is to be sent has been sent.
CHECK_DEADLOCK FALSE
