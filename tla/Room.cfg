\* Two requests that overlap once, with a video question, a code question and follow-ups; two questions with
\* one kind of sign each; two questions with three attempts; one interview over four units of time.
CONSTANTS
    r1 = r1  r2 = r2  null = null
    Total = 2
    Code = {1}
    RetakesAllowed = 1
    FollowupsEnabled = TRUE
    Requests = {r1, r2}
    MaxAnswers = 4
    MaxEdits = 1
    MaxOverlaps = 1
    Signals = {"away", "paste", "faces", "heartbeat"}
    LastQuestion = 1
    AWAY_MIN = 1
    AWAY_TOTAL = 2
    AWAY_MIN_COUNT = 2
    HEARTBEAT_GAP = 2
    FACES_MANY_MIN_SAMPLES = 2
    MaxRecordings = 2
    MaxSignals <- SignalsOf
    MaxTroubles = 1
    Vacancies <- SomeVacancies
    Named = {"a", "b", "c"}
    fit = 700
    no_fit = 450
    MaxAttempts <- TwoAndOne
    MaxScores = 3
    Interviews = {"i"}
    Zones <- AroundUTC
    DayLength = 2
    DEFAULT_PERIOD = 2
    MAX_TIMESERIES_DAYS = 1
    MaxTime = 3
SPECIFICATION MCSpec
SYMMETRY RequestSymmetry
INVARIANTS RoomIsFair ScoreIsSound ReportsAreTrue
CHECK_DEADLOCK FALSE
