\* Kills, stops, lost leases, the tick and the purge, under fairness.
CONSTANTS
    a1 = a1  a2 = a2  r1 = r1  r2 = r2  None = None
    Answers = {a1}
    Runs = {r1, r2}
    MaxTries = 2
    LeaseLoss = TRUE
    SlowSteps = FALSE
    Retention = TRUE
    MaxBreaks = 1
SPECIFICATION FairSpec
INVARIANT SafeRuns
PROPERTIES DoneIsFinal NeverStuck MediaGone
CHECK_DEADLOCK FALSE
