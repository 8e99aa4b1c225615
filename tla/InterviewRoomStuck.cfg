\* The page is closed during the last attempt.
CONSTANTS
    r1 = r1  r2 = r2
    Total = 1
    Code = {}
    RetakesAllowed = 0
    FollowupsEnabled = FALSE
    Requests = {r1}
    MaxAnswers = 2
    MaxEdits = 0
    MaxOverlaps = 0
SPECIFICATION Spec
INVARIANT CandidateCanProceed
CHECK_DEADLOCK FALSE
