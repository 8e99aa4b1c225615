\* Two interviews of one candidate, requests that overlap once; two overlapping hand-overs; two vacancies
\* and one of another organization, two people and three interviews.
CONSTANTS
    i1 = i1  i2 = i2  r1 = r1  r2 = r2  e1 = e1  e2 = e2  None = None  null = null
    Interviews = {i1, i2}
    Requests = {r1, r2}
    MaxOverlaps = 1
    Executions = {e1, e2}
    max_attempts = 2
    MaxApplicants = 2
    MaxPushes = 2
    MaxBreaks = 1
    Own = {"v", "w"}
    Other = {"x"}
    Emails = {"a", "b"}
    Members <- SomeMembers
    Tokens <- SomeTokens
    MaxInterviews = 2
    MaxListed = 1
SPECIFICATION MCSpec
SYMMETRY Symmetry
INVARIANTS ColumnsAgree RecordedWithConsent HandOverIsTrue 
PROPERTY NeverBack
CHECK_DEADLOCK FALSE
