\* Recording is prompt: two rows that may share a key, two semaphores, backoff, calls, stops.
CONSTANTS
    w1 = w1  w2 = w2  None = None
    Workers = {w1, w2}
    Slots = {1, 2}
    Resources = {"ffmpeg", "default"}
    Capacity <- OnePermit
    Kinds = {"media", "unknown"}
    Registered = {"media"}
    ResourceOf <- TwoResources
    Entities = {"a"}
    MaxJobs = 2
    MaxAttempts = 2
    LeaseTicks = 1
    Backoff <- MCBackoff
    Delays = {0,1}
    AgeCap = 1
    DbFails = TRUE
    MaxStops = 0
    MaxEdits = 1
SYMMETRY WorkerSymmetry
SPECIFICATION PromptSpec
INVARIANTS CapacityRespected OneActivePerEntity
PROPERTIES OnlyOwnerRecords ImplementsLifecycle
