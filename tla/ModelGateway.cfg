\* Two callers; the provider comes and goes, and calls are cancelled, under fairness.
CONSTANTS
    c1 = c1
    c2 = c2
    Callers <- TwoCallers
    Kinds = {"structured", "stream"}
    Cancels = TRUE
    failure_threshold = 2
    recovery_timeout_s = 1
    half_open_max_calls = 1
    max_attempts = 2
    max_repairs = 1
SPECIFICATION FairSpec
INVARIANTS NotJammed RequestsBounded
PROPERTY FollowsProvider
CHECK_DEADLOCK FALSE
