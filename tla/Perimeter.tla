------------------------------ MODULE Perimeter ------------------------------
(***************************************************************************)
(* What an actor is shown and what it may start: the rights of a member    *)
(* (core/authz.py) and of an API token (api_tokens/scopes.py), the pages   *)
(* and the public API that read and invite (vacancies/service.py,          *)
(* candidates/service.py, candidates/router.py, evaluation/service.py,     *)
(* public_api/), and the tools of the assistant that do the same with code *)
(* of their own (assistant/toolbox.py).                                    *)
(*                                                                         *)
(* Reading is an operator from the rights and the database to the rows     *)
(* shown; a refusal shows nothing.  What a tool reads with two statements, *)
(* vacancy_summary, is two steps.  The statuses of an interview are the    *)
(* classes that the reading code tells apart, one member of each; two      *)
(* requests that invite at once are in Invitations.                        *)
(***************************************************************************)
EXTENDS Integers, Sequences, FiniteSets

CONSTANTS Own,            \* the vacancies of the organization
          Other,          \* those of another one
          Emails,
          Members,        \* the members looked at: [role, scope], scope a set of vacancies or null
          Tokens,         \* the tokens looked at, each the set of its scopes
          MaxInterviews,
          MaxListed,      \* how many candidates the tool of the assistant shows at most, 100 in the code
          null

VARIABLES vacancy,     \* vacancy[v]: Vacancy.status of a vacancy of the organization
          people,      \* the candidates of both organizations, unique by organization and e-mail
          interviews,  \* the interviews with their evaluations, of both organizations
          reading,     \* a vacancy_summary between its two statements
          answer       \* the outcome of the latest request

vars == <<vacancy, people, interviews, reading, answer>>

OrganizationOf(v) == IF v \in Own THEN "own" ELSE "other"
Candidates == {"own", "other"} \X Emails

\* What the values of the constants have to satisfy.
ParametersOK ==
    /\ Own \cap Other = {} /\ null \notin Own \cup Other \cup Candidates
    /\ Emails # {} /\ MaxInterviews \in Nat /\ MaxListed \in Nat \ {0}
    /\ \A m \in Members : /\ m.role \in {"owner", "recruiter", "hiring_manager"}
                          /\ m.scope # null => m.role = "hiring_manager" /\ m.scope \subseteq Own

Interview == [vacancy: Own \cup Other, candidate: Candidates,
              status: {"invited", "completed", "evaluated", "rejected", "expired"}]

\* finished, total: what the first statement has counted; the counts are given up when there was a
\* commit since.
Reading == [vacancy: Own, finished: Nat, total: Nat, stale: {FALSE}] \cup [vacancy: Own, stale: {TRUE}]
\* true: nothing was answered that is not so; refused: an error, after a commit; partial: an error,
\* and someone without an interview was not invited; unequal: the numbers of a summary disagree.
Answers == {"true", "refused", "partial", "unequal"}

TypeOK ==
    /\ vacancy \in [Own -> {"published", "archived"}]
    /\ people \subseteq Candidates
    /\ interviews \in Seq(Interview) /\ Len(interviews) <= MaxInterviews + 1
    /\ reading \in Reading \cup {null}
    /\ answer \in Answers

Init ==
    /\ vacancy = [v \in Own |-> "published"]
    /\ \E e \in {CHOOSE x \in Emails : TRUE}, v \in Other :
          /\ people = {<<"other", e>>}
          /\ interviews = <<[vacancy |-> v, candidate |-> <<"other", e>>, status |-> "evaluated"]>>
    /\ reading = null
    /\ answer = "true"
-----------------------------------------------------------------------------
(* Rights. *)

_HIRING_MANAGER_ACTIONS ==
    {"vacancy.read", "candidate.read", "interview.read", "report.read", "report.decide",
     "dashboard.read", "assistant.use", "knowledge.read"}
_RECRUITER_ACTIONS ==
    _HIRING_MANAGER_ACTIONS \cup
    {"vacancy.write", "candidate.write", "report.share", "integrations.read", "integrations.operate", "knowledge.write"}
_OWNER_ACTIONS ==
    _RECRUITER_ACTIONS \cup
    {"org.read", "org.write", "org.members", "org.invites", "org.audit", "integrations.manage",
     "api_tokens.manage", "models.manage", "data.delete"}
_ROLE_ACTIONS(role) ==
    CASE role = "owner" -> _OWNER_ACTIONS
      [] role = "recruiter" -> _RECRUITER_ACTIONS
      [] role = "hiring_manager" -> _HIRING_MANAGER_ACTIONS

\* Variant: the scope that writes candidates does not read interviews.
SCOPE_ACTIONSOfResource(scope) ==
    CASE scope = "vacancies:read" -> {"vacancy.read"}
      [] scope = "vacancies:write" -> {"vacancy.read", "vacancy.write"}
      [] scope = "candidates:read" -> {"candidate.read"}
      [] scope = "candidates:write" -> {"candidate.read", "candidate.write"}
      [] scope = "interviews:read" -> {"interview.read"}
      [] scope = "reports:read" -> {"interview.read", "report.read"}
      [] scope = "media:read" -> {}
      [] scope = "knowledge:read" -> {"knowledge.read"}
      [] scope = "knowledge:write" -> {"knowledge.read", "knowledge.write"}

SCOPE_ACTIONS(scope) ==
    CASE scope = "vacancies:read" -> {"vacancy.read"}
      [] scope = "vacancies:write" -> {"vacancy.read", "vacancy.write"}
      [] scope = "candidates:read" -> {"candidate.read"}
      [] scope = "candidates:write" -> {"candidate.read", "candidate.write", "interview.read"}
      [] scope = "interviews:read" -> {"interview.read"}
      [] scope = "reports:read" -> {"interview.read", "report.read"}
      [] scope = "media:read" -> {}
      [] scope = "knowledge:read" -> {"knowledge.read"}
      [] scope = "knowledge:write" -> {"knowledge.read", "knowledge.write"}

MemberRights(m) == [actions |-> _ROLE_ACTIONS(m.role), scope |-> m.scope, scopes |-> {}]
\* A token sees every vacancy of its organization.
build_api_actor(scopes) == [actions |-> UNION {SCOPE_ACTIONS(s) : s \in scopes}, scope |-> null, scopes |-> scopes]

StaffRights == {MemberRights(m) : m \in Members}
ApiRights == {build_api_actor(t) : t \in Tokens}
AllRights == StaffRights \cup ApiRights

can(r, action) == action \in r.actions
canFor(r, action, v) == can(r, action) /\ (r.scope # null => v \in r.scope)
visible_vacancy_ids(r, v) == r.scope # null => v \in r.scope
-----------------------------------------------------------------------------
(* The services. *)

Mine(v) == OrganizationOf(v) = "own"
Numbers == 1..Len(interviews)
InterviewsOf(c) == {i \in Numbers : interviews[i].candidate = c}

VacancyService_list(r) == {v \in Own \cup Other : can(r, "vacancy.read") /\ Mine(v) /\ visible_vacancy_ids(r, v)}
VacancyService_get(r, v, action) == Mine(v) /\ canFor(r, action, v)

\* A scope shows the candidates that have an interview inside it.
CandidateService_list(r) ==
    {c \in people : /\ can(r, "candidate.read") /\ c[1] = "own"
                    /\ r.scope # null => \E i \in InterviewsOf(c) : interviews[i].vacancy \in r.scope}
CandidateService_get(r, c) ==
    /\ c \in people /\ c[1] = "own"
    /\ r.scope # null => \E i \in InterviewsOf(c) : interviews[i].vacancy \in r.scope
    /\ can(r, "candidate.read")

InterviewService_get(r, i) == Mine(interviews[i].vacancy) /\ canFor(r, "interview.read", interviews[i].vacancy)
\* v, c: the filters, null for none.
InterviewService_list(r, v, c) ==
    {i \in Numbers : /\ can(r, "interview.read") /\ (v # null => canFor(r, "interview.read", v))
                     /\ Mine(interviews[i].vacancy)
                     /\ v # null => interviews[i].vacancy = v
                     /\ c # null => interviews[i].candidate = c
                     /\ visible_vacancy_ids(r, interviews[i].vacancy)}
\* The answers, the events and the notes of an interview.
answers_for_staff(r, i) == InterviewService_get(r, i) /\ canFor(r, "interview.read", interviews[i].vacancy)
list_notes(r, i) == InterviewService_get(r, i) /\ canFor(r, "report.read", interviews[i].vacancy)

\* Variant: a rejected candidate is left out as well.
rankingOfActive(r, v) ==
    {i \in Numbers : /\ Mine(v) /\ canFor(r, "report.read", v) /\ interviews[i].vacancy = v
                     /\ interviews[i].status \notin {"expired", "rejected"}}
ranking(r, v) ==
    {i \in Numbers : /\ Mine(v) /\ canFor(r, "report.read", v) /\ interviews[i].vacancy = v
                     /\ interviews[i].status # "expired"}

ENDED == {"expired", "rejected"}
Active(v, c) == \E i \in InterviewsOf(c) : interviews[i].vacancy = v /\ interviews[i].status \notin ENDED
DECIDABLE == {"completed", "evaluated", "rejected"}

\* What POST /interviews checks before it commits, and the read that follows the commit.
InviteAccepted(r, v, e) ==
    /\ Mine(v) /\ canFor(r, "candidate.write", v) /\ vacancy[v] = "published"
    /\ can(r, "candidate.write")
    /\ ~Active(v, <<"own", e>>)
DecideAccepted(r, i) ==
    /\ InterviewService_get(r, i) /\ canFor(r, "report.decide", interviews[i].vacancy)
    /\ interviews[i].status \in DECIDABLE

\* The scope that each endpoint of the public API asks for.
EndpointScope ==
    [list_vacancies |-> "vacancies:read", create_vacancy |-> "vacancies:write", get_vacancy |-> "vacancies:read",
     vacancy_ranking |-> "reports:read", list_candidates |-> "candidates:read",
     create_candidate |-> "candidates:write", invite |-> "candidates:write",
     list_interviews |-> "interviews:read", get_interview |-> "interviews:read",
     interview_report |-> "reports:read"]

\* The actions that the services behind it authorize, after their commit as well.
PublicApiService ==
    [list_vacancies |-> {"vacancy.read"}, create_vacancy |-> {"vacancy.write"}, get_vacancy |-> {"vacancy.read"},
     vacancy_ranking |-> {"report.read"}, list_candidates |-> {"candidate.read"},
     create_candidate |-> {"candidate.write", "candidate.read"},
     invite |-> {"candidate.write", "interview.read"},
     list_interviews |-> {"interview.read"}, get_interview |-> {"interview.read"},
     interview_report |-> {"interview.read", "report.read"}]
require_scope(r, scope) == scope \in r.scopes
-----------------------------------------------------------------------------
(* The tools of the assistant. *)

\* The action each tool asks for.
_build_tools ==
    [list_vacancies |-> "vacancy.read", get_vacancy |-> "vacancy.read", create_vacancy |-> "vacancy.write",
     search_knowledge |-> "knowledge.read", list_candidates |-> "candidate.read", get_candidate |-> "candidate.read",
     get_interview |-> "report.read", vacancy_summary |-> "report.read", ranking |-> "report.read",
     invite_candidate |-> "candidate.write", decide_candidate |-> "report.decide",
     list_members |-> "org.members", check_models |-> "models.manage"]
_available(r) == {t \in DOMAIN _build_tools : can(r, _build_tools[t])}

list_vacancies(r) == {v \in VacancyService_list(r) : "list_vacancies" \in _available(r)}
get_vacancy(r, v) == "get_vacancy" \in _available(r) /\ VacancyService_get(r, v, "vacancy.read")

\* The interviews counted for each candidate.
\* Variant: all of them.
CountedAll(r, c) == InterviewsOf(c)
Counted(r, c) == {i \in InterviewsOf(c) : r.scope # null => interviews[i].vacancy \in r.scope}

\* The newest of those found, which may be any, up to the limit.
Newest(found) ==
    {S \in SUBSET found : \/ S = found /\ Cardinality(found) <= MaxListed
                         \/ Cardinality(S) = MaxListed}
\* The answers there can be: the lines shown, and how many candidates were found.
\* Variant: the limit comes before the scope.
list_candidatesOfNewest(r) ==
    {[lines |-> {[candidate |-> c, interviews |-> Counted(r, c)] : c \in shown \cap CandidateService_list(r)},
      found |-> Cardinality(CandidateService_list(r))] :
        shown \in Newest({c \in people : c[1] = "own" /\ "list_candidates" \in _available(r)})}
list_candidates(r) ==
    {[lines |-> {[candidate |-> c, interviews |-> Counted(r, c)] : c \in shown},
      found |-> Cardinality(CandidateService_list(r))] :
        shown \in Newest({c \in CandidateService_list(r) : "list_candidates" \in _available(r)})}
\* The interviews shown in the candidate's card, with their evaluations.
get_candidate(r, c) == IF "get_candidate" \in _available(r) /\ CandidateService_get(r, c)
                       THEN InterviewService_list(r, null, c) ELSE {}
get_interview(r, i) == /\ "get_interview" \in _available(r)
                       /\ answers_for_staff(r, i) /\ canFor(r, "report.read", interviews[i].vacancy) /\ list_notes(r, i)

\* A proposal: the button does what the page does.
invite_candidate(r, v, e) ==
    /\ "invite_candidate" \in _available(r)
    /\ VacancyService_get(r, v, "candidate.write") /\ vacancy[v] = "published"
    /\ <<"own", e>> \in people => ~Active(v, <<"own", e>>)
decide_candidate(r, i) ==
    /\ "decide_candidate" \in _available(r)
    /\ InterviewService_get(r, i) /\ canFor(r, "report.decide", interviews[i].vacancy)
    /\ interviews[i].status \in DECIDABLE
create_vacancy(r) == "create_vacancy" \in _available(r) /\ can(r, "vacancy.write")
list_members(r) == "list_members" \in _available(r) /\ can(r, "org.members")
-----------------------------------------------------------------------------
(* The requests. *)

Commits == reading' = IF reading = null THEN null ELSE [vacancy |-> reading.vacancy, stale |-> TRUE]

NewInterview(v, e) == [vacancy |-> v, candidate |-> <<"own", e>>, status |-> "invited"]

\* POST /interviews of the pages or of the public API: the interview is read again after the commit,
\* and that asks for another action.
invite(r, v, e) ==
    /\ r.scopes # {} => require_scope(r, "candidates:write")
    /\ Len(interviews) < MaxInterviews + 1
    /\ InviteAccepted(r, v, e)
    /\ people' = people \cup {<<"own", e>>}
    /\ interviews' = Append(interviews, NewInterview(v, e))
    /\ answer' = IF canFor(r, "interview.read", v) THEN "true" ELSE "refused"
    /\ Commits
    /\ UNCHANGED vacancy

\* POST /candidates.
create_candidate(r, e) ==
    /\ can(r, "candidate.write") /\ <<"own", e>> \notin people
    /\ people' = people \cup {<<"own", e>>}
    /\ Commits
    /\ UNCHANGED <<vacancy, interviews, answer>>

\* POST /candidates/bulk: the candidates are committed first, then each is invited in turn.  One that
\* has an active interview is refused, and the rollback expires every object of the session: the
\* candidates after it are refused too, and so is the list that the answer is made of.
bulk_create_candidates(r, v, line) ==
    LET free == {k \in DOMAIN line : InviteAccepted(r, v, line[k])}
        first == IF free = DOMAIN line THEN Len(line) + 1
                 ELSE CHOOSE k \in DOMAIN line \ free : \A j \in DOMAIN line \ free : k <= j
        invited == [k \in 1..(first - 1) |-> NewInterview(v, line[k])]
    IN  /\ can(r, "candidate.write")
        /\ Len(interviews) + first - 1 <= MaxInterviews + 1
        /\ people' = people \cup {<<"own", line[k]>> : k \in DOMAIN line}
        /\ interviews' = interviews \o invited
        /\ answer' = IF \A k \in DOMAIN line : k < first \/ Active(v, <<"own", line[k]>>)
                     THEN "true" ELSE "partial"
        /\ Commits
        /\ UNCHANGED vacancy

\* The interview goes on, ends, is evaluated, evaluated anew, or decided on.
Move(i, status) ==
    /\ Mine(interviews[i].vacancy)
    /\ status \in CASE interviews[i].status = "invited" -> {"completed", "expired"}
                   [] interviews[i].status = "completed" -> {"evaluated"}
                   [] interviews[i].status = "evaluated" -> {"completed", "rejected"}
                   [] OTHER -> {}
    /\ interviews' = [interviews EXCEPT ![i].status = status]
    /\ Commits
    /\ UNCHANGED <<vacancy, people, answer>>

archive(v) ==
    /\ vacancy[v] = "published"
    /\ vacancy' = [vacancy EXCEPT ![v] = "archived"]
    /\ Commits
    /\ UNCHANGED <<people, interviews, answer>>

FINISHED_STATUSES == {"completed", "evaluated", "rejected"}

\* vacancy_summary: the interviews are read, and afterwards the ranking.
BeginSummary(r, v) ==
    LET shown == InterviewService_list(r, v, null)
    IN  /\ reading = null
        /\ "vacancy_summary" \in _available(r) /\ get_vacancy(r, v) /\ canFor(r, "report.read", v)
        /\ reading' = [vacancy |-> v, total |-> Cardinality(shown), stale |-> FALSE,
                       finished |-> Cardinality({i \in shown : interviews[i].status \in FINISHED_STATUSES})]
        /\ UNCHANGED <<vacancy, people, interviews, answer>>

\* finished, evaluated and top are of the second statement, invited_total and funnel of the first.
vacancy_summary(r) ==
    LET finished == {i \in ranking(r, reading.vacancy) : interviews[i].status \in FINISHED_STATUSES}
    IN  /\ reading # null /\ canFor(r, "report.read", reading.vacancy)
        /\ answer' = IF reading.stale \/ (Cardinality(finished) = reading.finished /\ reading.finished <= reading.total)
                     THEN "true" ELSE "unequal"
        /\ reading' = null
        /\ UNCHANGED <<vacancy, people, interviews>>

Next ==
    \/ \E r \in AllRights, v \in Own, e \in Emails : invite(r, v, e)
    \/ \E r \in AllRights, e \in Emails : create_candidate(r, e)
    \/ \E r \in StaffRights, v \in Own, e, f \in Emails : e # f /\ bulk_create_candidates(r, v, <<e, f>>)
    \/ \E i \in Numbers, status \in {"completed", "evaluated", "rejected", "expired"} : Move(i, status)
    \/ \E v \in Own : archive(v)
    \/ \E r \in StaffRights, v \in Own : BeginSummary(r, v)
    \/ \E r \in StaffRights : vacancy_summary(r)

Spec == Init /\ [][Next]_vars
-----------------------------------------------------------------------------
(* Properties. *)

Within(r, v) == v \in Own /\ (r.scope # null => v \in r.scope)

\* Nothing that the pages, the public API or the tools show an actor is outside its organization or,
\* for a hiring manager, outside the vacancies it has been admitted to: neither a vacancy nor an
\* interview nor a count of interviews nor a candidate known from elsewhere only.
ShownIsWithin ==
    \A r \in AllRights :
        /\ \A v \in VacancyService_list(r) \cup list_vacancies(r) : Within(r, v)
        /\ \A c \in CandidateService_list(r) : \/ r.scope = null /\ c[1] = "own"
                                               \/ \E i \in InterviewsOf(c) : Within(r, interviews[i].vacancy)
        /\ \A list \in list_candidates(r), i \in Numbers :
              (\E row \in list.lines : i \in row.interviews) => Within(r, interviews[i].vacancy)
        /\ \A c \in people : \A i \in get_candidate(r, c) : Within(r, interviews[i].vacancy)
        /\ \A i \in Numbers : InterviewService_get(r, i) \/ get_interview(r, i) => Within(r, interviews[i].vacancy)
        /\ \A v \in Own \cup Other : ranking(r, v) # {} => Within(r, v)

\* The assistant shows a member what the pages show the same member, no more and no less: the same
\* vacancies, the same candidates, of each the same interviews, and an interview whenever the page of
\* its report opens.  Of the candidates someone may be missing only when the list is full, and their
\* number is that of the page all the same.
ToolsAreThePages ==
    \A r \in StaffRights :
        /\ list_vacancies(r) = {v \in Own \cup Other : VacancyService_get(r, v, "vacancy.read")}
        /\ \A list \in list_candidates(r) :
              LET listed == {row.candidate : row \in list.lines}
                  page == {c \in people : CandidateService_get(r, c)}
              IN  /\ listed \subseteq page /\ Cardinality(listed) <= MaxListed
                  /\ listed # page => Cardinality(listed) = MaxListed
                  /\ list.found = Cardinality(page)
                  /\ \A row \in list.lines : row.interviews = InterviewService_list(r, null, row.candidate)
        /\ \A c \in people : CandidateService_get(r, c) => get_candidate(r, c) = {i \in InterviewsOf(c) : InterviewService_get(r, i)}
        /\ \A i \in Numbers : get_interview(r, i) <=> InterviewService_get(r, i)

\* What the assistant proposes, the button can do while nothing else has happened: the invitation and
\* the decision are accepted by the API.
ProposalsWork ==
    \A r \in StaffRights :
        /\ \A v \in Own \cup Other, e \in Emails : invite_candidate(r, v, e) => InviteAccepted(r, v, e)
        /\ \A i \in Numbers : decide_candidate(r, i) => DecideAccepted(r, i)

\* The scope of an API token suffices for what it opens: no service behind an endpoint refuses a token
\* that the endpoint has let in, and above all none that has committed already (the invitation is
\* read again after its commit, with another action).
ScopesSuffice ==
    /\ \A r \in ApiRights, e \in DOMAIN EndpointScope :
          require_scope(r, EndpointScope[e]) => PublicApiService[e] \subseteq r.actions
    /\ answer # "refused"

\* The summary of a vacancy agrees with itself: as many have finished by its ranking as by its funnel,
\* unless something was committed between its statements.
SummaryAgrees == answer # "unequal"

\* What an actor is shown, may start, and is told of it, all together.
PerimeterIsKept ==
    TypeOK /\ ShownIsWithin /\ ToolsAreThePages /\ ProposalsWork /\ ScopesSuffice /\ SummaryAgrees
-----------------------------------------------------------------------------
(* Properties the repository states and the code does not have. *)

\* candidates/router.py of the list of candidates: who has an active interview is passed over, the
\* others are invited.
OthersAreInvited == answer # "partial"
=============================================================================
