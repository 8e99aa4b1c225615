\* Three users and two invites; three keys for a table of two; two turns of the assistant;
\* a link and a token with two requests about it at once; a document that is written three times; three
\* runs of the command for demo data, of two things of each kind.
CONSTANTS
    u1 = u1  u2 = u2  u3 = u3  k1 = k1  k2 = k2  k3 = k3  p1 = p1  p2 = p2  null = null
    Users = {u1, u2, u3}
    founder = u1
    MaxUses = 1
    MaxVersion = 2
    MaxInvites = 1
    MaxAtOnce = 2
    Keys = {k1, k2, k3}
    budget = 2
    window_s = 2
    max_keys = 2
    MaxTime = 3
    MaxInFlight = 1
    Proposals = {p1, p2}
    MaxTurns = 2
    max_steps = 1
    MaxCalls = 2
    MaxPresses = 2
    MaxTroubles = 1
    MaxEvents = 2
    Requests = {"p", "q"}
    TTL = 1
    Days = {1}
    LAST_USED_RESOLUTION = 2
    MaxViews = 2
    MaxSize = 2
    Documents = {1}
    Samples <- ManyTexts
    Texts <- ShortTexts
    CHUNK_CHARS = 5
    CONTEXT_CHARS = 13
    TitleChars = 1
    MaxHits = 3
    MaxChanges = 3
    Vacancies <- TwoVacancies
    Members <- TwoMembers
    Cases <- TwoCases
    Extras <- TwoExtras
    Topics <- TwoTopics
    CaseVacancy <- VacancyOfCase
    Decisions = {"01"}
    Modes = {"dataset", "real", "none"}
    MaxRuns = 3
SYMMETRY Symmetry
SPECIFICATION MCSpec
INVARIANTS OrganizationIsKept LimitsHold ThreadIsKept ContentIsKept TextsFit
PROPERTIES MarksStay
\* The bounds have been reached.
CHECK_DEADLOCK FALSE
