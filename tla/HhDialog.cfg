\* The worker and a recruiter at once, calls of hh fail, the tokens are renewed, the
\* vacancy is paused, under fairness.
CONSTANTS
    Actors = {"sync", "take_over"}
    Disturbances = {{"failed", "taken"}, {"failed", "refreshed"}, {"refreshed", "taken"},
                    {"failed", "paused"}, {"refreshed", "paused"}}
    MaxWritten = 2
    MaxLinks = 6
    MaxInterviews = 2
SPECIFICATION FairSpec
INVARIANTS ChatIsRight
PROPERTIES Forward FirstReplyAnswered
CHECK_DEADLOCK FALSE
