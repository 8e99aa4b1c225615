------------------------------ MODULE MCCabinet ------------------------------
(***************************************************************************)
(* Small instances for TLC of the modules about the cabinet: the members,  *)
(* the limits, the assistant, the links and tokens handed out, the         *)
(* knowledge base, and the demo data.  The first state chooses the part,   *)
(* and the variables of the other parts are null.                          *)
(***************************************************************************)
EXTENDS Integers, Sequences, FiniteSets, TLC

CONSTANTS Users, founder, MaxUses, MaxVersion, MaxInvites, MaxAtOnce,               \* Organization
          Keys, budget, window_s, max_keys, MaxTime, MaxInFlight,                   \* RateLimiter
          Proposals, MaxTurns, max_steps, MaxCalls, MaxPresses, MaxTroubles, MaxEvents, \* AssistantThread
          Requests, TTL, Days, LAST_USED_RESOLUTION, MaxViews, MaxSize,                     \* Grants
          Documents, Samples, Texts, CHUNK_CHARS, CONTEXT_CHARS, TitleChars, MaxHits, MaxChanges, \* Knowledge
          Vacancies, Members, Cases, Extras, Topics, CaseVacancy, Decisions, Modes, MaxRuns, \* DemoSeed
          null, u1, u2, u3, k1, k2, k3, p1, p2

VARIABLES part, past, request, documents,                                           \* of more than one part
          member, invite, session,                                                  \* Organization
          clock, attempts, asking, told,                                            \* RateLimiter
          archived, messages, turn, page, marking,                                  \* AssistantThread
          now, share, views, url, token, served,                                    \* Grants
          chunks, files,                                                            \* Knowledge
          owner, vacancies, invites, joined, candidates, interviews, run            \* DemoSeed

A == INSTANCE Organization
L == INSTANCE RateLimiter WITH max_attempts <- budget
T == INSTANCE AssistantThread
G == INSTANCE Grants
K == INSTANCE Knowledge
D == INSTANCE DemoSeed

ASSUME SizesOK ==
    /\ G!ParametersOK /\ K!ParametersOK /\ K!SamplesOK /\ D!ParametersOK /\ D!NullOK
    /\ IsFiniteSet(Users) /\ founder \in Users
    /\ {MaxVersion, MaxInvites, MaxAtOnce, MaxTime, MaxInFlight, MaxTurns, MaxPresses, MaxTroubles} \subseteq Nat
    /\ {MaxUses, budget, window_s, max_keys, max_steps, MaxCalls} \subseteq Nat \ {0}

OfOrganization == <<member, invite, session>>
OfLimiter == <<clock, attempts, asking, told>>
OfThread == <<archived, messages, turn, page, marking>>
OfGrants == <<now, share, views, url, token, served>>
OfKnowledge == <<chunks, files>>
OfSeed == <<owner, vacancies, invites, joined, candidates, interviews, run>>
all_vars == <<part, past, request, documents, OfOrganization, OfLimiter, OfThread, OfGrants, OfKnowledge, OfSeed>>

NoOrganization == member = null /\ invite = null /\ session = null
NoLimiter == clock = null /\ attempts = null /\ asking = null /\ told = null
NoThread == archived = null /\ messages = null /\ turn = null /\ page = null /\ marking = null
NoGrants == now = null /\ share = null /\ views = null /\ url = null /\ token = null /\ served = null
NoKnowledge == chunks = null /\ files = null
NoSeed == /\ owner = null /\ vacancies = null /\ invites = null /\ joined = null
          /\ candidates = null /\ interviews = null /\ run = null
NoContent == documents = null /\ NoKnowledge /\ NoSeed

MCInit ==
    \/ part = "organization" /\ A!Init /\ NoLimiter /\ NoThread /\ NoGrants /\ NoContent
    \/ part = "limiter" /\ L!Init /\ request = null /\ NoOrganization /\ NoThread /\ NoGrants /\ NoContent
    \/ part = "thread" /\ T!Init /\ request = null /\ NoOrganization /\ NoLimiter /\ NoGrants /\ NoContent
    \/ part = "grants" /\ G!Init /\ NoOrganization /\ NoLimiter /\ NoThread /\ NoContent
    \/ part = "knowledge" /\ K!Init /\ NoOrganization /\ NoLimiter /\ NoThread /\ NoGrants /\ NoSeed
    \/ part = "seed" /\ D!Init /\ request = null /\ NoOrganization /\ NoLimiter /\ NoThread /\ NoGrants /\ NoKnowledge

OfContent == <<documents, OfKnowledge, OfSeed>>
NextOrganization == part = "organization" /\ A!Next /\ UNCHANGED <<part, OfLimiter, OfThread, OfGrants, OfContent>>
NextLimiter == part = "limiter" /\ L!Next /\ UNCHANGED <<part, request, OfOrganization, OfThread, OfGrants, OfContent>>
NextThread == part = "thread" /\ T!Next /\ UNCHANGED <<part, request, OfOrganization, OfLimiter, OfGrants, OfContent>>
NextGrants == part = "grants" /\ G!Next /\ UNCHANGED <<part, OfOrganization, OfLimiter, OfThread, OfContent>>
NextKnowledge ==
    part = "knowledge" /\ K!Next /\ UNCHANGED <<part, OfOrganization, OfLimiter, OfThread, OfGrants, OfSeed>>
NextSeed ==
    part = "seed" /\ D!Next /\ UNCHANGED <<part, request, OfOrganization, OfLimiter, OfThread, OfGrants, OfKnowledge>>

MCNext == NextOrganization \/ NextLimiter \/ NextThread \/ NextGrants \/ NextKnowledge \/ NextSeed
MCSpec == MCInit /\ [][MCNext]_all_vars

Symmetry == Permutations(Proposals)

\* Texts of no, one, two and three chunks, with sentences and paragraphs on either side of the limit.
ShortTexts == {<<>>, <<<<2>>>>, <<<<3>>, <<4, 3>>>>}
ManyTexts == ShortTexts \cup {<<<<2>>, <<1>>, <<2>>, <<9>>>>, <<<<2, 2>>, <<3, 2>>>>, <<<<5, 1, 9>>, <<2, 3>>>>}

\* Two of each; one case is decided.
TwoVacancies == <<"backend", "data">>
TwoMembers == <<"recruiter", "manager">>
TwoCases == <<"01", "02">>
VacancyOfCase == [c \in {"01", "02"} |-> IF c = "01" THEN "backend" ELSE "data"]
TwoExtras == <<"sergey", "olga">>
TwoTopics == <<"about", "offices">>
-----------------------------------------------------------------------------
\* Withdrawn access stays withdrawn; and as long as requests do not overlap an owner remains, invites
\* are limited, and who has a session has the rights it was begun with.
OrganizationIsKept == part = "organization" => A!OrganizationIsKept

\* No key is admitted beyond its budget unless its entry was thrown away, and who comes again when it
\* was told to is admitted.  A revoked link stays revoked, its media end with it, every view of it is
\* counted and every part of a recording that is served is the one asked for.
LimitsHold ==
    /\ part = "limiter" => L!LimiterIsFair
    /\ part = "grants" => G!GrantsEnd

\* The messages of the assistant come back in their order, each turn has one whole answer, and what is
\* marked as done was done.
ThreadIsKept == part = "thread" => T!ThreadIsKept

\* What is searched of a document is what it shows, though two requests replace it at once, and its file is
\* there as long as it is; and the demo data are there once, however often the command that makes them
\* dies and is run again.
ContentIsKept ==
    /\ part = "knowledge" => K!KnowledgeIsKept
    /\ part = "seed" => D!SeedIsOnce

\* No part of a text is lost or repeated when it is cut, and a prompt gets as much of the hits as fits.
TextsFit == part = "knowledge" => K!TextsFit

\* What the recruiter has confirmed stays confirmed, unless two marks of one message are made at once.
MarksStay ==
    [][ part = "thread" =>
          \A i \in DOMAIN messages : T!Confirmed(messages[i]) \subseteq T!Confirmed(messages'[i]) \/ past.overlapped ]_all_vars
=============================================================================
