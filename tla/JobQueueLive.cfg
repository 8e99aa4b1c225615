\* Every interleaving of records, calls by hand, stops and crashes on one row, under fairness.
CONSTANTS
    w1 = w1  w2 = w2  None = None
    Workers = {w1, w2}
    Slots = {1}
    Resources = {"llm"}
    Capacity <- TwoPermits
    Kinds = {"eval"}
    Registered = {"eval"}
    ResourceOf <- OneResource
    Entities = {}
    MaxJobs = 1
    MaxAttempts = 2
    LeaseTicks = 1
    Backoff <- NoBackoff
    Delays = {0}
    AgeCap = 0
    DbFails = TRUE
    MaxStops = 1
    MaxEdits = 1
SPECIFICATION FairSpec
INVARIANT LeaseHeld
PROPERTY EventuallyFinished
