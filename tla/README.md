# Leon, modelled and verified

Leon is a service for interviews on video without an interviewer: a recruiter
publishes a vacancy with questions, candidates answer them in the browser, a
worker transcribes the recordings, a language model evaluates them, and the
recruiter decides. This directory holds TLA+ specifications of the parts of it
whose correctness depends on the order of events, the TLC configurations that
check them on small instances, and TLAPS proofs of some of them for every
instance.

1. [The system](#1-the-system)
2. [How the code is modelled](#2-how-the-code-is-modelled)
3. [Modules](#3-modules)
4. [Runs](#4-runs)
5. [Fairness](#5-fairness)
6. [Proofs](#6-proofs)
7. [What the repository states and the code does not do](#7-what-the-repository-states-and-the-code-does-not-do)
8. [What is not modelled](#8-what-is-not-modelled)
9. [Plan](#9-plan)

Paths are below `src/backend/leonit/`, unless they begin with `frontend/`,
`backend/` or `docs/`.

To check: `tlc -config JobQueueLive.cfg MCJobQueue` (and the other rows of
section 4), `tlapm JobQueue_proofs.tla` (and the seven other modules `*_proofs.tla`).

## 1. The system

Two kinds of processes share one PostgreSQL database and one storage of files:
the API (FastAPI, one process) and the worker (`jobs/worker.py`, one or more
processes, started again by the container when they end). The candidate's page
and the cabinet of the recruiter are a Next.js application. Outside are a
language model and a speech recognizer behind an OpenAI-compatible interface,
hh.ru (vacancies, applicants, chats), Huntflow (a recruiting database), and a
mail server.

The processes talk through the database. A request of the API is one
transaction; what takes long is a row of the table `jobs`, written in the same
transaction as the data it is about, claimed later by a worker. Nothing else
is shared, except the storage of files, and the circuit breaker and the rate
limiter in the memory of each process.

| Part | State it keeps | Operations | Talks to | Hard because | Correct when |
|---|---|---|---|---|---|
| Job queue (`jobs/`, 0.9k lines) | `jobs`: status, attempts, run_after, lease, owner, dedupe key | enqueue, cancel, retry; poll, heartbeat, complete, fail, release; drain | every part with slow work | workers die, stall, stop; check and write are two statements | a job ends; only its owner records; attempts are bounded; one active job per key |
| Answer pipeline (`pipeline/`, 1.0k; `media/`) | answer: status, media_key, audio_key, media_meta; files | process_answer in eight steps, the hourly tick, the purge at the end of the retention period | queue, storage, ffmpeg, recognizer | two runs of one answer; death between steps; purge beside a run | one run at a time; done is final; nothing hangs; media are gone in the end |
| Evaluation (`evaluation/`, 2.0k) | interview.status, evaluation, scores | process_interview with its waiting jobs, evaluate, reprocess | queue, model gateway, decisions | successors of jobs, reprocess and cancellation in the middle of a call | one evaluator; status and evaluation agree; each interview is judged |
| Interview room (`interviews/`, 1.7k; the page) | interview.current, questions, answers, code | create, append, complete, code, next, follow-ups | pipeline, model gateway, page | repeated and overlapping calls, two tabs, lost answers | none skipped; one final answer; attempts limited; one can always go on |
| Recorder and upload (`frontend/src/lib/media/recorder.ts`, `core/storage.py`) | the queue of chunks in the page, the file | chunk with offset, 409 with the right offset, complete | room | lost, late and repeated requests; short writes; closed pages | the file is the recording |
| Candidates and invitations (`candidates/`, 1.2k; decisions in `reports/`) | candidate, interview: status, token, expiry, decision, consents | invite, resend, cancel, open, consent, start, expire, decide | hh dialog, mail, evaluation | four writers of one status column | the status moves along its table; consent before recording |
| hh.ru dialog (`hh/`, 3.0k) | negotiation: state, last message, history, interview | synchronise: pull, greet, clarify, link; take over | hh.ru, invitations | messages cannot be rolled back; retries; a person beside the robot | nothing twice; never back; the link works; a reply is answered |
| Model gateway (`ai/`, 1.8k) | circuit breaker of a role, learned format | chat, stream, structured completion with repairs; transcription | providers | concurrent calls, cancellation, probes | never jammed; requests bounded; follows the provider |
| Notifications (`notifications/`, 0.9k) | email messages, marks on the interview, scheduled jobs | send, remind, tell, schedule and send feedback | queue, mail server, decisions | death between sending and record; overlapping executions; order of decision and conclusion | sent once per attempt; one reminder; working links; feedback on its day |
| Accounts (`accounts/`, 1.1k) | users, memberships, invites, token versions | register, login, invite, change role and scope, deactivate, reactivate | every request | sequences of changes; overlapping requests | withdrawn access stays withdrawn; an owner remains; sessions are current |
| Huntflow (`huntflow/`, 1.9k) | connection, link, row of the candidate, job | connect, link, import, push | Huntflow, queue, report shares | calls without an answer, retries, a connection that goes away | shown as handed over = handed over; one applicant |
| Rate limiter (`core/rate_limit.py`) | times by key | check, peek, reset, eviction | login, API tokens | full table, windows, calls that wait for the database | budget kept, honest retry time |
| Assistant (`assistant/`, 2.3k; its panel in the page) | threads, messages with positions, proposals and their marks | turn with tool calls, stop, confirm, archive, load | model gateway, services of the pages | two turns of one thread, a button pressed while the answer streams, two marks at once | messages in order; each turn answered once; marked = done; tools show what the pages show |
| Vacancies and avatar (`vacancies/`, 0.9k; `avatar/`, 0.6k) | vacancy, rubric, questions, settings; the clips | update, replace_questions, publish, archive; avatar.prewarm | assistant, room, queue | replacement in two passes, saves of what was read long ago, one key for many jobs | places distinct, no gaps, known competencies; a missing clip is made |
| hh.ru connection and discovery (`hh/`) | pairs of tokens, links of vacancies, applications found | connect, disconnect, refresh; import, link, periodic pass | hh.ru, candidates, queue | refresh tokens work once; many clients per row; passes that fail in the middle | the chain of tokens is kept; each application becomes a candidate's once |
| Knowledge base (`knowledge/`, 1.0k) | documents, chunks, files | create, upload, replace, delete, search, context of a prompt | storage, assistant | chunks are replaced by what was loaded; file and row are not one transaction | chunks = text; a file as long as its row; limits kept |
| Report shares, media, API tokens (`reports/`, 0.7k; `media/`; `api_tokens/`, 0.5k) | shares, views, signed links, tokens | share, extend, revoke, view; sign, verify, serve a range; call | decisions, rate limiter | a revoke and an extend at once; ends of files | what was withdrawn stays so; media end with the link; views counted |
| Rights, public API (`core/authz.py`, `public_api/`, 0.8k) | none | who sees and may start what, on three surfaces | everything that reads | three sets of queries for one rule | nothing outside the perimeter; the surfaces agree |
| Integrity (`integrity/`, 0.8k; the page's telemetry) | events of the page, reviews | collect, batch, stamp, derive observations, review | room | batches late, lost or twice; stamps of arrival | nobody is accused of what did not happen |
| Scores (`evaluation/scoring.py`) | none | pick answers, transcripts, fit score, recommendation, quotes | evaluation | output of a model is anything its schema admits | the recommendation is earned; silence is not bad |
| Dashboard (`dashboard/`, 0.5k) | none | funnel, durations, breakdown, series | interviews | several statements, days in the user's zone | figures agree; every event on one day |
| Demo data (`demo/seed.py`, 0.8k) | what it has made | one command, run again and again | the services | some thirty commits, the process may die between any two | nothing twice |
| Legal, health, code runner, configuration | none or static | read | – | – | not modelled (section 8) |
| Other pages (`frontend/`, 15.5k) | what the API returned | – | API | – | room, recorder, telemetry and assistant panel are modelled |

`PROJECT.json` lists these parts with their files, and under "hazards" the 41
places in the code where an order of events, a failure or a boundary matters,
each with the properties that cover it or the reason none does.

## 2. How the code is modelled

**A transaction is its reads and its writes.** The database runs at READ
COMMITTED, the ORM loads rows, the code looks at what it has loaded, and the
commit sends `UPDATE ... WHERE id = ...` with the columns whose value differs
from the one loaded. No SELECT but the queue's claim locks a row. So a
transaction is two steps in the modules: one that
loads (`Begin...`, `Load`) and one that commits, which writes the columns it
changed over whatever is there by then. Where the code has a conditional UPDATE
(`claim_answer`, `_claim_interview`), the check is in the step that writes.

**External calls end a step.** What is sent to hh.ru, Huntflow or a mail server
is not taken back by a rollback; the step that sends is separate from the
one that records.

**Processes die anywhere.** A killed worker's executions disappear, and their
transactions with them; rows and files stay. A graceful stop runs the code's
cancellation handlers instead.

**History variables** (`past`, `counts`, `overlaps`, `breaks`, `torn`,
`.fresh`) are read by no action, except to keep a bound; they let a property say "as
long as nothing of this kind has happened". A property is conditional
like this only where the code does not have it otherwise, and the disturbance itself
is in the run, so that the other properties meet it. What such a property
still covers differs. Many conditions leave the hazard in: `SafeRuns` holds beside other
workers and lost leases until a process is killed or stopped, `RecordingIsKept` with lost, late and
repeated chunks until a write ends inside one. Others
exclude the very race one would first think of, and then say what the
sequential code keeps and no more:

| Property | The race its condition leaves out | What is left |
|---|---|---|
| `OneActivePerEntity` (JobQueue) | a job retried by hand whose key a newer job has taken (`jobs/service.py:276`) | `enqueue` against running, failing and buried jobs |
| `OnlyOwnerRecords` (JobQueue) | the lease runs out between the SELECT and the UPDATE of a record (line 209) | a lease in time is enough, whatever others do |
| `NeverBack` (Invitations) | a stale page of the candidate written over a cancellation (`candidates/service.py:79`) | the transition table along sequences of requests |
| `ColumnsAgree` (Invitations) | requests that overlap; the revival of an interview beside a new one (`candidates/service.py:380`) | status, decision and expiry along sequences of requests |
| `Forward` (HhDialog) | a take-over beside the worker (`hh/service.py:660`) | the dialog, with lost answers, failures and renewed tokens |
| `HistoryInOrder` and `MarksStay` (AssistantThread) | two turns from one history (`assistant/runner.py:139`), two marks from one reading | turns that follow each other beside stream, page and confirmation; one mark at a time |
| `OwnerRemains`, `InviteIsLimited` (Organization) | two requests that count the same owners or uses (`accounts/service.py:340`) | sequences of requests; withdrawn access is unconditional |
| `FinalAnswers` (InterviewRoom) | a recording completed while `create_answer` abandons it (`interviews/service.py:491`); a second block of follow-ups (line 679) | repeated calls of the page; `NoneSkipped` and `RetakeLimit` are unconditional |

Section 7 names the unconditional form of these, which is defined in the module or is the
property without its condition, and the behaviour that violates it.

**Bounds** are constants named `Max...`, and the cfg files set them.

## 3. Modules

### JobQueue, JobLifecycle, JobQueue_proofs

`jobs/service.py`, `jobs/worker.py`. `job[j]` is the row with id j; `exec[w][s]`
is what asyncio task s of worker w does; `mode[w]` is the process; `api[j]` is a
`cancel` or `retry` call between its SELECT and its UPDATE. Time is relative:
`due` and `lease` count ticks down.

| Action | Code |
|---|---|
| `Enqueue` | `service.enqueue`: an active row with the key is returned, a finished one gives the key up |
| `BeginCall`, `cancel`, `retry` | the two calls by hand: SELECT and status check; UPDATE of the columns that differ from what was read |
| `claim_next`, `BuryZombies` | one transaction: zombies without attempts become failed, then one job is claimed `FOR UPDATE SKIP LOCKED`, ordered by run_after and created_at, among the kinds `claimable_kinds` has permits for |
| `heartbeat`, `LeaseLost` | the heartbeat task: renews the lease, or cancels the handler |
| `BeginRecord`, `Record`, `RecordFails` | `complete`, `fail`, `release`: SELECT with the check of the owner; UPDATE by id; or an error of the database |
| `request_stop`, `Exit`, `Crash`, `Restart`, `Tick` | SIGTERM and drain, death, the container, time |

*JobLifecycle* is what callers may rely on: a job is started at most MaxAttempts
times, attempts are forgotten only by retry or one stop at a time, and a finished
job stays finished unless somebody retries a failed or cancelled one. JobQueue
implements it (`ImplementsLifecycle`, with `row` mapped to status and attempts).

*Assumption of some properties.* `complete`, `fail` and `release` check
the owner in a SELECT that locks nothing. If the lease expires between it and the
UPDATE, the outcome of an overtaken worker lands on a row that somebody else
has claimed, buried or finished. `PromptSpec` does not assume that the row stays as
it was read. It assumes three things of the timing: no worker polls while a recording
transaction has outlived its lease (`LeaseInTime`; the two statements are
microseconds apart and the lease is 60 s), a worker that has claimed its own
zombie again does not record both tasks at the same time (`OneRecordOfAJob`), and no claim falls
between the two statements of a `cancel` (`ClaimsNoCancelled`). That the row
is unchanged then follows, and the proof says why: a claim or a burial needs a lease that
has run out, a call by hand another status, another record the same owner. A claim
that does not respect the lease violates `OnlyOwnerRecords` under this
specification (mutant `ReadyLeased`). The three are timing the code relies on and
does not enforce. `OnlyOwnerRecords`, `OneActivePerEntity`, `AttemptsBounded` and the
refinement hold under `PromptSpec` and not without it (section 7); `LeaseHeld` and `EventuallyFinished` hold in every interleaving.

### AnswerPipeline, AnswerPipeline_proofs

`pipeline/service.py`, `pipeline/jobs.py`, `interviews/service.py:complete_answer`.
`row[a]` is the answer (status, which keys it has, whether `updated_at` is old),
`files` the storage, `run[r]` an execution of `process_answer` with the ORM object
it holds (`mem`), `job[a]` the job of the answer reduced to what JobQueue says of it,
`tick` what the hourly tick has selected, `purge` the retention job.
`Load`, `claim_answer`, `OpenSource`, `extract_audio`, `remux`, `NoRemux`,
`SaveMedia`, `ReadAudio`, `transcribe`, `Finish`, `StepFails`, `Cancelled`
(`_mark_interrupted`) and `Killed` are the steps of a run; `SelectStale` and
`requeue_stale_answers` the tick; `PurgeBegins`, `PurgeFiles`, `delete_prefix`,
`PurgeCommits`, `PurgeDies` the purge. The command lines of ffmpeg and the text are left
out, and so is the status `abandoned`, which never reaches the pipeline. `SlowSteps` says whether a live run
may stand still for `PIPELINE_STALE_PROCESSING_S` (half an hour) while it extracts the sound; the run and the theorems exclude it.

### InterviewEvaluation, InterviewEvaluation_proofs

`evaluation/jobs.py`, `evaluation/service.py:evaluate_interview`. `jobs` is the
sequence of rows `interview.process` of one interview, in the order of
creation; `exec[e]` is an execution with the status it has loaded; `call[c]` a
request to reprocess with the status and the evaluation it has loaded: what was pending then is not written, and a
second row of the evaluation is refused (`RowExists`). Two loads of one request are one where nothing is awaited
between them. A successor of a waiting job is assumed not to be claimed before its
predecessor is recorded, or dead: it is due 15 s later (`Due`).

### InterviewRoom, InterviewRoom_proofs

`interviews/service.py`, `interviews/followups.py`. `req[r]` is a request with the interview and
the answers it has loaded; the actions are `create_answer`, `append_chunk`,
`complete_answer`, `save_code`, `next_question` with `_finish` and the follow-up
block, `Processed` (the pipeline), `PageLost`. `overlaps` counts how often a request began
during another. `run_code` stores the draft like `save_code`. A block of
follow-ups is one question; SELECTs of interview and answers are one step, but
`complete_answer` reads the other attempts when it writes, as the code does.

### ChunkUpload, ChunkUpload_proofs

`frontend/src/lib/media/recorder.ts`, `frontend/src/lib/api/room.ts`,
`core/storage.py`, and two handlers of `interviews/service.py`. `client` is
AnswerRecorder (queue, offset, tries, finish), `net[s]` a request in flight, `file` the bytes in
the storage. Chunk k is `ChunkSize` distinct bytes, so that the file can be compared with the recording
byte for byte. A request that fails for the page may have been handled, may be handled later (a
*stray*), or never (`Vanish`). `append` takes the storage lock and checks the offset again.

### Invitations, Invitations_proofs

`candidates/service.py`, `reports/service.py`, `hh/dialog.py:_ensure_interview`,
`interviews/service.py:start`. The interviews of one candidate for one vacancy and
the requests that change their status, each a `Begin...` and a commit. `work` is the
processing, reduced to the transitions it makes.

### HhDialog, HhDialog_proofs

`hh/dialog.py`, `hh/service.py`. `chat` is the chat at hh.ru; `row` the negotiation;
`iv` the interviews; `work[a]` the transaction of the worker's synchronisation (`sync`) or of a recruiter
(`take_over`). Steps of a transaction: `pull` (new messages, with
`last_hh_message_id`), `advance` (which step follows), `_ensure_interview`, `_send` (hh
refuses a second message with the same key: 409 is a success), `Commit`; or `AnswerLost`
(hh did it, the answer did not come) and `Rollback`. An UPDATE that was sent before
the commit holds the row until it (`locked`). One worker process;
switched off and unpublished are one variable. A new token is random in the code, so `NewLink` is a link nobody
uses; `ParametersOK` asks for enough of them. Two commits come in the middle of the transaction, as the client works in
the same session: `persist` (the tokens of hh have run out when the message is to be sent, or are refused in the POST; what
the step has read and changed is saved with the new ones) and `_mark_auth_error` (a take-over whose authorization is
refused). While the chat is read nothing has changed yet, so a renewal there saves nothing of the dialog. Discovery of applicants and
the pairs of tokens themselves are HhDiscovery and HhConnection.

### ModelGateway, ModelGateway_proofs, CabinetInvariants

`ai/circuit_breaker.py`, `ai/providers/openai_compatible.py`, `ai/structured.py`.
The callers of one role share `breaker` and `json_schema_unsupported`. They are
coroutines of one process, so a step runs from one await to the next. `Begin`, `Unavailable`,
`Retry`, `Refused`, `chat_fallback`, `Answered`, `Invalid` (a repair), `StreamEnds`
and `Cancel` are the ways a call goes on; `Change` and `Tick` the provider
and time. Failures are counted up to the threshold, the age of an open breaker up to the timeout.
ModelGateway_proofs holds the proofs about the parts of MCCabinet as well; their inductive invariants are the
definitions of CabinetInvariants.

### Composition

The modules below and some of those above have little or no state in common. A *composed* module (`MCInterview`,
`MCOutside`, `MCCandidates`, `MCCabinet`, `MCRoom`) puts several of them into one run: its first state chooses one
(`part`), `part` never changes, and the variables of the others are `null`. A property says which part it is about,
and a fairness condition is the disjunction of one step of each part. Where a part has theorems, the composed module
extends it (bold below): its variables rest in their first state while another part goes on, so that the
run checks the very definitions the theorems are about. A theorem about one of the other parts is in the
proof module that extends the composed module, and is about its specification `MCSpec`. Parts that do share state are one module
(HhDialog has the interviews and the negotiation, AnswerPipeline the storage and the job).

| Composed module | Parts |
|---|---|
| MCInterview | **InterviewEvaluation**, Vacancies |
| MCRoom | **InterviewRoom**, Integrity, Scoring, Dashboard |
| MCCandidates | **Invitations**, HuntflowPush, Perimeter |
| MCOutside | **ChunkUpload**, Outbox, Reminders, Feedback, HhConnection, HhDiscovery |
| MCCabinet | Organization, RateLimiter, AssistantThread, Grants, Knowledge, DemoSeed |

### Vacancies (theorems in InterviewEvaluation_proofs)

`vacancies/service.py`, `vacancies/schemas.py`, `avatar/service.py`, `avatar/jobs.py`, the proposals of
`assistant/toolbox.py` that change a vacancy. `questions` are the rows by id with their position; `edit[e]` is a
request with the vacancy it has read, or a proposal with what it was made of. `replace_questions` keeps the rows whose
id it is given, deletes the others and numbers what remains; a position that is taken refuses the commit. `job` is
`avatar.prewarm` under its one key, `clips` the cache by text and voice, `room` a candidate who is shown one question after another and
orders what is missing.

### HhConnection, HhDiscovery (theorem in ChunkUpload_proofs)

*HhConnection* (`hh/service.py`, `hh/client.py`, `hh/jobs.py`): pairs of tokens are numbered as hh issues them; a refresh
token works once. `caller[c]` is a client with the tokens it was built with: `_access_token`, `refresh` (hh issues a pair), `persist`
(the pair is committed), `request`, `_mark_auth_error`; the worker's pass may roll back in the middle. Revocation,
expiry, lost answers, another account and `disconnect` happen in between.
*HhDiscovery* (`hh/service.py`, `hh/jobs.py`): `links` and `drafts` of vacancies, the chain of jobs `hh.sync`
(`periodic`, the number of jobs per attempt, and `requested`), and one pass that lists the applications to each
link and asks for the resumes it does not know; it commits per link, and what hh refuses ends it.

### Outbox, Reminders, Feedback (theorems in ChunkUpload_proofs)

`notifications/`. *Outbox*: one letter, its job, executions that overlap when a lease
is lost, death between sending and recording. *Reminders*: `schedule_reminders`, the
reminder that composes a letter with the stored link or a new one, against a recruiter
who sends the link again. *Feedback*: the evaluator and the decision commit first and schedule the
feedback in a second transaction under one dedupe key; `mode` is chosen in the first
state. `send_candidate_feedback` is one step.

### Organization, RateLimiter (theorems in ModelGateway_proofs), HuntflowPush (theorem in Invitations_proofs)

*Organization* (`accounts/`): the members with role, access, scope and token version, the
latest invite, one session followed from its beginning. `Load(u)` picks what u asks for and
runs the checks on what is there; `Commit(u)` writes the columns that differ.
*HuntflowPush* (`huntflow/`): `push_candidate` creates the row and the job; an execution goes through
`Start` (what must be there still), `_ensure_applicant` (the applicant of the row, or of external_ref, or found by e-mail or
name), `create_applicant`, `_ensure_share`, `attach_vacancy`, `Record`, `End`; every call may
fail (`CallFails`) or be done and not answered (`CreatedUnanswered`).
*RateLimiter* (`core/rate_limit.py`, `api_tokens/deps.py`): the window of each key on an integer clock, with the
eviction of the older half, `check`, `reset`, and the `peek` ... `fail` of an API token with the database between.

### AssistantThread (theorems in ModelGateway_proofs)

`assistant/runner.py`, `assistant/service.py`, `assistant/toolbox.py` and the panel of the page. `turn[t]` is a run of
the agent with the history it has read; its messages are committed one by one with positions computed from that history.
`page` is the panel: the draft that streams, the buttons, what it remembers of buttons pressed in the draft; `marking` a
`confirm_action` between its load and its commit. A turn that the page has left goes on until the server notices it.

### Perimeter (theorem in Invitations_proofs)

`core/authz.py`, `api_tokens/scopes.py`, `public_api/`, `candidates/router.py`, the reading half of the services and of
`assistant/toolbox.py`. Reading is an operator from rights and database to rows, one for each query of the code,
named after it; the properties compare them. The tool `list_candidates` shows the newest `MaxListed` of those it has found (100 in
the code) and says how many they are; as the order of creation is left out, the newest may be any. The cut of a result that
is too long as text (`MODEL_RESULT_LIMIT`) is left out. The database changes step by step, and what needs two
statements (`vacancy_summary`, the list of candidates to invite, the second reading of an invitation) is two steps.

### Grants (theorem in ModelGateway_proofs)

`reports/service.py`, `media/service.py`, `media/router.py`, `api_tokens/service.py`. A share or a token (a behaviour is about
one of them), requests about it that load and commit, the signed link to its media, and `parse_range` with
`get_media` over every header up to `MaxSize`.

### Knowledge (theorems in ModelGateway_proofs)

`knowledge/service.py`, `knowledge/parsing.py`. `chunks[d]` are rows with the change that wrote them, their position and
the piece of text; a request replaces the chunks it has loaded. `chunk_text` and `context_for` are folds over the
lengths of sentences and hits.

### DemoSeed (theorem in ModelGateway_proofs)

`demo/seed.py`. A run walks `Agenda`; every step ends with one commit of a service it calls, and what the command
changes itself waits in the session for the next one (`unsaved`, `Saved`). `Die` may come anywhere.

### Integrity

`frontend/src/hooks/use-interview-telemetry.ts`, `interviews/service.py:record_events`, `integrity/`. The page collects
events, sends a batch every heartbeat, keeps what was not answered and sends it again; the server stamps events as they come; the
rules are operators over the log. `past` holds what really happened.

### Scoring

`evaluation/scoring.py` and the pure parts of `evaluation/service.py`. The attempts of each question come about in every
order; then the evaluator is shown the final answers, and the model's output is any sequence of scores up to
`MaxScores` with any evidence.

### Dashboard

`dashboard/service.py`. Every figure is an operator from the stamps of the interviews, the zone and the period; the
interviews go on meanwhile, and the two statements that count the evaluated are two steps.

## 4. Runs

| Run (cfg) | Question | Instance | States |
|---|---|---|---|
| queue_live (JobQueueLive) | Do jobs end in every interleaving of records, calls by hand, stops and crashes? Is a running row always held? | 2 workers, 1 slot, 1 row, 2 attempts, a call by hand, a stop, any number of crashes, refused records | 18 k |
| queue_prompt (JobQueuePrompt) | Does the queue implement JobLifecycle, respect semaphores and keys, and let only the owner record? | 2 workers, 2 slots, 2 rows that may share a key, 2 semaphores of one permit, a kind without a handler, back-off, delays; PromptSpec | 186 k |
| pipeline (AnswerPipeline) | Are runs of one answer kept apart, does every answer get out of `processing`, do the media go? | 1 answer, 2 runs, 2 tries, lease loss, one kill or stop, the tick, the purge | 110 k |
| interview (Interview) | The questions of a vacancy and their clips; is each interview judged by one evaluator? | 2 editors, 3 rows of questions, 3 edits or troubles; 2 executions, 2 tries, 1 wait, 1 reprocess, decisions, cancellation, one break | 281 k |
| room (Room) | The room with overlapping requests; the report of what the page noticed; the recommendation; the figures of the dashboard | a code and a video question, follow-ups, 1 retake, 2 requests, 1 overlap, 4 answers; 4 kinds of signal, 2 questions, 3 heartbeats, 1 trouble; 2 questions with 2 and 1 attempts, rubrics of up to 2 competencies, 3 scores; 1 interview, 3 zones, 3 units of time | 954 k |
| room_stuck (InterviewRoomStuck) | Can a candidate always go on? **No**: first finding of section 7 | 1 video question, no retakes, no overlap | violation |
| candidates (Candidates) | Status, decision, expiry and consent; a hand-over to Huntflow; who is shown and may start what | 2 interviews, 2 requests, 1 overlap; 2 executions, 2 attempts, 2 clicks, 1 break; 2 own vacancies and 1 other, 2 people, 2 interviews, a list of 1, 4 kinds of members, 4 of tokens | 1.4 M |
| hh (HhDialog) | The dialog with one applicant, with failing calls, new tokens in the middle of a step, a pause, and a recruiter beside the worker | 2 actors, any two of 4 kinds of disturbance but a pause with a take-over, 2 messages of people, 6 links, 2 interviews | 546 k |
| outside (Outside) | Is the stored file the recording, byte for byte? One letter, one reminder, one feedback; the tokens of hh; the applications found there | 3 chunks of 2 bytes, 2 tries, 2 lost requests, 3 in flight, a short write, reload; 2 executions, 2 or 3 attempts, 3 deaths, 2 letters of the recruiter, 3 modes, 1 decision, 1 reprocess, 4 days; a pass and a page, 3 pairs, 2 connections, 1 trouble; 2 vacancies of hh, 2 applications of one person, 2 recruiters | 535 k |
| gateway (ModelGateway) | Is the breaker never jammed, what may a completion cost, does it follow the provider? | 2 callers, threshold 2, 1 probe, 2 attempts, 1 repair, cancellation | 15 k |
| cabinet (Cabinet) | Members and sessions; limits; the assistant; links and tokens; knowledge; demo data | 3 users, 2 requests at once, 2 invites; 3 keys for a table of 2, window 2, budget 2; 2 turns, 2 proposals, 2 events; 2 requests about one share or token; 1 document written 3 times by 2 requests, 6 texts; 3 runs of the command over 2 of each kind | 762 k |
| confirmed_unmarked (AssistantThreadMark) | Is what was confirmed in the draft marked in the message that replaces it? **No**: second finding | 1 or 2 turns, 2 proposals, no trouble | violation |

The properties of each run, in the words of the modules:

- **queue_live**: `LeaseHeld` (a running row has an owner and a spent attempt, a
  finished one is held by nobody, whatever stale UPDATE lands when),
  `EventuallyFinished`.
- **queue_prompt**: `CapacityRespected` (also when a worker claims its own zombie
  again), `OneActivePerEntity` (until somebody retries by hand), `OnlyOwnerRecords`,
  `ImplementsLifecycle`.
- **pipeline**: `SafeRuns` (types; two runs never work on one answer, also after a lost lease),
  `DoneIsFinal`, `NeverStuck`, `MediaGone` (also what a run wrote during the purge).
- **interview**: `VacancyIsSound` (places distinct always; without gaps and with competencies of the rubric until
  requests overlap), `EvaluationIsSound` (one evaluator until a job comes back, a lease is lost or
  requests to reprocess overlap; no old scores while a new evaluation is under way until a lease is lost or requests
  overlap; evaluated means done until an execution
  is broken off), `NothingLost` (generated questions are added to the list they were generated for), `InTheEnd` (an
  ordered clip is made or given up; each interview is judged).
- **room**: `RoomIsFair` (a passed question has one final answer the evaluation can use, until requests overlap; none is skipped
  and attempts are limited, always), `ScoreIsSound` (the recommendation is earned; what was not answered lowers
  nothing; a found quote is where it says), `ReportsAreTrue` (nobody is accused of what did not happen, however late,
  lost or repeated the events; a long absence is noticed; the steps of the funnel nest, every event is counted on one
  day, the breakdown is of the funnel).
- **candidates**: `ColumnsAgree`, `RecordedWithConsent` (always), `NeverBack` (until requests overlap) of the interviews;
  `HandOverIsTrue`; `PerimeterIsKept` (nothing outside the organization or the scope; tools, pages and public API agree, but for a list of
  candidates that is full; what a
  tool proposes its button can do; a scope suffices for what it opens).
- **hh**: `ChatIsRight` (nothing twice, whatever fails; one interview, which the link in the chat opens), `Forward` (until
  somebody takes over), `FirstReplyAnswered` (though calls fail, or though tokens are renewed in the middle of a step).
- **outside**: `RecordingIsKept` (the file is a prefix of the recording, an uploaded one the whole; chunks stay in memory
  until the file has them), `UploadedIsFrozen` (no byte joins the file of a complete answer); `NoticesAreTrue` (what is recorded of a letter is true of the mail server; one reminder with a link that works; feedback on its day; each
  event told); `HhIsKept` (the chain of tokens does not break; a vacancy is imported once; what was found has a
  candidate); `NoWrongLetter`; `DoneInTheEnd` (`finish` delivers; letters are sent; a working connection is shown as working again; each application
  is found).
- **gateway**: `NotJammed`, `RequestsBounded`, `FollowsProvider`.
- **cabinet**: `OrganizationIsKept`; `LimitsHold` (budgets and honest retry times; a revoked link stays revoked, its media end,
  views are counted, the right part of a file is served); `ThreadIsKept` (messages in order, each turn
  answered once, marked means done), `MarksStay`; `ContentIsKept` (chunks and files are those of the document;
  the demo data are there once, and whole unless a run died), `TextsFit` (nothing of a text is lost when it is cut,
  a prompt is filled and not overfilled).

Each property of a passing run has a mutant in `PROJECT.json`: a variant of one
definition of the code (a dropped guard, a missing reset, an off-by-one), defined
next to the original and commented `Variant`, with which TLC finds the property violated.

**Why the bounds are enough to be interesting.** In each module the hazards need two
actors on one row: two workers, two runs, two requests, two turns, the worker and a
recruiter. Two attempts are the smallest number with a first, a last and a retry that
differ; a third changes only how often. The numbers of deaths, stops and
overlaps bound how often a disturbance happens, not where. Where the clock
is modelled, a day, a window or a gap is two of its units, so that a boundary lies inside. Three chunks are a first, a middle and a
last, two bytes let a short write end inside a chunk, and two lost requests are both fewer and as
many as a page with two tries survives. The lease is one tick
long: heartbeats may be late or lost, so it may end at any tick. The instances are small
all the same: what only shows with three workers, or three overlapping requests, is not found
by them; for the eight modules of section 6 the proofs cover every number.

`CHECK_DEADLOCK FALSE` is set where the modelled part really ends: all answers done and purged,
the interview over, all letters sent, all bounded requests used. The queue and its
workers never end, so deadlock is checked there.

## 5. Fairness

No run assumes that something outside answers, except where a line below says so.

- **JobQueue**: time passes; containers are restarted (deployment: `restart: unless-stopped`);
  a draining worker exits; a handler ends or is given up, as each external call has a timeout. A worker
  that comes up again and again reaches its poll at last: strong fairness on `Poll` of *some* worker,
  because a crash may disable it again and again. Nothing is assumed of heartbeats, of recording (it
  may fail each time) or of crashes.
- **AnswerPipeline, InterviewEvaluation**: a run goes on (timeouts of ffmpeg, recognizer and
  model); the queue starts what it holds, which is `EventuallyFinished` of JobQueue; the tick and
  the daily purge come round. Nothing makes transcripts arrive or prevents a run from failing.
- **Vacancies**: the worker claims and goes on; candidates keep coming and are shown their questions. A clip may fail
  each time; then its job is given up after its attempts.
- **ChunkUpload**: the page runs and the server handles what has reached it. Requests may fail as often as
  `MaxLosses` says.
- **HhDialog**: the periodic job runs again and again, and calls of hh do not fail for ever: strong fairness on the steps
  of the worker's transaction, which a failure disables by rolling back.
- **HhConnection**: a call ends, by its timeout at the latest, and the worker begins a pass every few minutes.
- **HhDiscovery**: the worker looks after the chain of jobs every hour (`ensure_periodic_sync`), takes what is due, and a pass goes on.
- **ModelGateway**: the role is called again and again, every request ends by an answer or a timeout, and
  not every call is cancelled (strong fairness on calls that end by themselves: a recovery cannot be
  noticed if each probe is cancelled).
- **Outbox, Feedback**: workers and server go on, days pass.

In MCInterview and MCOutside one weak fairness condition holds a step of each part, joined by disjunction. As `part` never
changes, it is the condition of that part alone.

The other modules have no liveness property and no fairness.

## 6. Proofs

`tlapm` checks every leaf; the constants are arbitrary values that satisfy the
module's `ConstantsOK` or `ParametersOK` (where the module is a part of a composed one, the assumption is an operator
and each theorem names it; the theorems about `MCSpec` have `SizesOK` of the composed module). No theorem has another assumption, except where the tables say so.

Each proof has the same shape. The property is not inductive, so an invariant is stated that is; a lemma for
each kind of step (*a request begins*, *a row is written*, *the page moves*) says what it can change; the step
lemma of the invariant goes through the actions by these kinds; the theorem combines it with the initial states.

*JobQueue_proofs*

| Theorem | Argument |
|---|---|
| `TypeCorrect == Spec => []TypeOK` | `TypeOK` is not inductive: a step of a busy task indexes the table with `exec[w][s].j`, so the invariant is `Typed == TypeOK /\ BusyNamesJob`. |
| `LeasesHeld == Spec => []LeaseHeld` | Inductive with `Typed`. `RowsHeld` shows for each operation on a row that it preserves the fact about that row, whatever the row is when a stale UPDATE lands; so no assumption about interleavings is needed. |
| `AttemptsAreBounded == PromptSpec => []AttemptsBounded` | A bound on attempts needs that a queued row has an attempt left, which needs that what a failing record has read is still so. `PromptInv` joins `Typed`, `LeaseHeld`, `Present`, `OneRecordOfAJob`, `AttemptsLeft`, and `RecordsCurrent`, `CallsCurrent`, `CallsFit` (what a recording task and a call by hand have read still holds). `RecordingTasks` says that a recording task was recording before the step or has just read the row. |
| `OwnersRecord == PromptSpec => OnlyOwnerRecords` | `RecordsUndisturbed`: from the three conditions on the timing, no step of anybody else changes the row of a task that is recording. One case per change of a row (`RowChanges`): claim and burial need a lease of 0, `cancel` and `retry` a status that `CallsFit` excludes, another record the same owner, hence a second record of the same worker. `CallsUndisturbed` is the same for a call by hand; the parts are inductive only together. |
| `CapacityIsRespected == Spec => []CapacityRespected` | A worker counts its tasks by the kind of their rows. `Present`: rows are used in order and no task names an unused one, so the kind of a row is fixed while a task is counted, also when the task has lost the job. Then only a claim adds a task, and `claimable_kinds` has a permit for it. Cardinalities by FiniteSetTheorems. |
| `OneActiveJobPerEntity == PromptSpec => []OneActivePerEntity` | `KeysUnique`, and `KeysKept` (an active row has the key of its entity until somebody retries by hand), with `PromptInv`. |
| `LifecycleIsImplemented == PromptSpec => ImplementsLifecycle` | The initial states map; `RecordedSteps` and one step for each other action show that a step of the queue is a step of JobLifecycle on one row or leaves all alone. It needs all of `PromptInv`; `CallsFit` is the part about the calls by hand. |

*AnswerPipeline_proofs*. `RunsAreSafe` and `DoneStaysDone` assume `~SlowSteps`: no live run stands still for half an hour
between its claim and its next commit. Without it the tick gives the answer of a live run to another, as the code means it to.

| Theorem | Argument |
|---|---|
| `TypeCorrect == Spec => []TypeOK` | With `RunsHaveAnswers` (a busy run has an answer) and `JobsAreSpent` (a job that somebody runs is running and has spent a try). |
| `RunsAreSafe == Spec => []SafeRuns` | `WorkIsMarked`: as long as nothing was killed or stopped, the tick has selected nothing, no row is stale, at most one run works on an answer, and its row is `processing` exactly while one does. A second run of the same job finds the row claimed. |
| `DoneStaysDone == Spec => DoneIsFinal` | The same invariant: who writes a status is the run that works on the answer, so its row is `processing` and not done. |

*ChunkUpload_proofs*

| Theorem | Argument |
|---|---|
| `RecordingStaysKept == Spec => []RecordingIsKept` | `IInv` relates the page, each request in flight and the file: the queue is the tail of what was recorded (`Sensible`), the offset of the page is not beyond the file and at most a chunk behind it (`OffsetOK`), a request carries a chunk to the offset where it belongs or one that the file has already (`CarriesOK`), an answered one says what the file had (`RepliesOK`), the end is only asked for when every chunk is there (`CompletesOK`), and the file is as long as whole chunks, or longer by less than one after a torn write (`FileOK`, `Slack`). Byte lemmas say what a prefix and a whole chunk are at an offset. |
| `HhStaysKept == MCSpec => []HhIsKept` | (HhConnection and HhDiscovery, parts of MCOutside.) *Tokens*: that the stored refresh token still works says nothing of a client that has used it up and not saved the pair. `OneChain`: of the tokens that work, a client has the row's, or it alone has one and is about to save it. It rests on `RowPaired` and `ClientPaired` (the two tokens of a row or a client are of one pair, and a client goes to hh for a pair that is over) and on `Numbered` (pairs are numbered as they are issued, and there are pairs left for those that are over: by counting, with FiniteSetTheorems). `Later` is all that a client at rest needs to know of what hh does meanwhile. *Discovery*: a pass commits what it has listed before, so `PassFollows` says of the pass what the property says of the rows; a link, once made, stays (`LinkStep`). |
| `NoticesStayTrue == MCSpec => []NoticesAreTrue` | (Outbox, Reminders, Feedback, parts of MCOutside.) *Outbox*: that a delivery has an attempt of its own must count the attempts that may still deliver (`Posted`); until a lease is lost one execution is at work and what it is about to do fits the row (`OnePostman`). *Reminders*: `Written` bounds the letters by the executions that wrote one or will, `OneComposer` holds until two overlap, `LinksSeen` until the recruiter acts meanwhile: the link that an execution has loaded is the one of the row. *Feedback*: the property compares letters with events, the invariant `OncePerEvent` also counts what is on its way to be one, in the job, in the request of the decision and in the evaluation; `DecisionFirst` says of the row of the job what the property says of the letters, and `ConclusionFirst` that nothing is scheduled before the first conclusion until a decision comes before it. `Notices` is the conjunction; the part never changes. |
| `OnlyRightLetters == MCSpec => NoWrongLetter` | `Notices` again: `OnePostman` at the step of the mail server, and `Planned` (a conclusion that is done is not being made again) at the letter of feedback. |
| `UploadedStaysFrozen == Spec => UploadedIsFrozen` | The offset of any request that was still on its way is behind the end of the file, so `append` refuses it; it holds also after a torn write. |

*InterviewEvaluation_proofs*

| Theorem | Argument |
|---|---|
| `EvaluationStaysSound == Spec => []EvaluationIsSound` | One evaluator follows from the order of the jobs: before a request to reprocess commits nothing is unfinished (`Clear`), of two unfinished jobs the later is the successor that the earlier has queued (`Succession`), and an execution that has its turn has no unfinished job before it (`Turns`, `Begun`). That the result agrees with the status needs that nobody is at work on an evaluated interview (`NotEvaluated`), that a second unfinished job waits for the first to be recorded (`HandedOver`), and that an old result is gone before a new evaluation begins (`Fresh`): a request that found the evaluation pending does not write it, so what it has loaded must be what is there when it commits (`Loaded`). |
| `VacancyStaysSound == MCSpec => []VacancyIsSound` | (Vacancies, the part `vacancies` of MCInterview.) `Sound == Kept /\ ClipsTyped`. A save numbers the items of its list by their place (`NumbersAre`, `PlacesAre`: the row of an item is its own and nobody else's, by counting the new items before it), and the places of rows that were added since the reading come after them, or the commit is refused; so places differ in every interleaving. The rest holds until requests overlap: then one is loaded at a time and has read what is there (`OneReads`). `OrderedIs` says that rows of distinct places can be put in order and that the list has each of them once: the rank of a row is the number of rows that are not behind it, and an injection between finite sets of one size reaches everything (`AllReached`). |
| `NothingGeneratedIsLost == MCSpec => NothingLost` | `GeneratedOK`: what was generated is the ordered list it was made of with one item more, and its rows that exist still are among those the request has read, so each item keeps its row (`GeneratedIsAdded`). |

*Invitations_proofs*

| Theorem | Argument |
|---|---|
| `NothingWithoutConsent == Spec => []RecordedWithConsent` | A request writes over whatever is there, so what it has read must be in the invariant: `Permitted` (what was read allows what will be done) and `ConsentKept` (so does the journal, which only grows). No assumption about overlapping. |
| `ColumnsAlwaysAgree == Spec => []ColumnsAgree` | Until requests overlap one is open at a time and has read what is there (`Sequential`); `Agreement` says of each row, and of the rows together, what the columns say of each other. |
| `StatusGoesAlongTransitions == Spec => NeverBack` | `Permitted` and `Sequential` at each commit. |
| `HandOverStaysTrue == MCSpec => []HandOverIsTrue` | (HuntflowPush, the part `huntflow` of MCCandidates.) `HandOver == Prepared /\ PushedIsAttached /\ (~past.lost => Undisputed)`. In every interleaving what an execution is about to record was attached before (`Prepared`, `Claimed`), so a row says `pushed` only of what Huntflow has. That one applicant is made needs more: until two executions overlap there is one at work (`Single`), the row it works on is the one its job is of (`Owned`), a row in `pushing` has a job and, unless the worker died, somebody who carries it on (`Carried`), and who is about to create has found none (`Created`). `CabinetStep` is what the recruiter may do meanwhile: disconnect, link, import, push again. |
| `PerimeterStaysKept == MCSpec => []PerimeterIsKept` | (Perimeter, the part `perimeter`.) The queries of the pages and of the tools are equal only over a database that is sound: a candidate with an interview is a person of the organization whose vacancy it is for (`Enclosed`), whatever invitations, lists and moves have led there; `RowsJoin` carries it over what a request inserts. On it `ShownWithin`, `ToolsShowThePages` and `ProposalsAreAccepted` compare one query with the other for any rights (`StaffIs`, `ApiIs`; `ListsAre`: who is missing in a list is beyond its limit), `ScopesOpen` goes through the endpoints, and `Enclosed` also has what a summary has counted, which is there still until something is committed. |

*HhDialog_proofs*

| Theorem | Argument |
|---|---|
| `ChatStaysRight == Spec => []ChatIsRight` | Messages of the bot are in the chat once because hh refuses a key it has (`ChatOK`; the number of steps sent bounds the length of the chat). Until the application is taken over one transaction is at work, it has read the row as it is and only goes forward from it, and there is one interview (`Alone`, `AtWork`). What new tokens commit in the middle of a step (`Saves`) keeps the state, and leaves the transaction with the row as it has just written it. Until a call has failed either, the link in the chat is the one the row knows or the transaction is about to write (`Quiet`, `Linked`). `NewLinkIsFree`: there is always a link nobody uses, by counting. |
| `DialogGoesForward == Spec => Forward` | `Alone`: the one transaction has read the row it writes. |

*InterviewRoom_proofs*. The code promises some things whatever requests overlap and others only until they do; the invariant
has the same two halves, `IInv == Base /\ Sequential`.

| Theorem | Argument |
|---|---|
| `AttemptsAreLimited == Spec => []RetakeLimit` | `Base`, in every interleaving. A request gives its attempt the number after those it has loaded, and a number given twice is refused. So the attempts at a question are numbered without a gap (`Numbered`), and a request that is not refused has loaded all of them (`FreeNumber`); then what it was permitted on loading is still permitted. An explanation on video is no attempt of its own: it takes the row of the code, and a row without a video is the only attempt at its question (`RowOK`). Cardinalities by FiniteSetTheorems. |
| `NothingIsSkipped == Spec => []NoneSkipped` | `Base`: what a request has loaded of the interview may be old, but the completed recordings it saw are there still (`Known`), and `next` goes from the question it has loaded, not from the one in the database. `PlansFit` counts who may still make a block of follow-ups. |
| `TypeCorrect == Spec => []TypeOK` | With `Base`, which has the shape of the interview and of the rows. |
| `RoomStaysFair == Spec => []RoomIsFair` | The rest of it holds until requests overlap: `Sequential == overlaps = 0 => Tidy`. One request is under way and has loaded what is there, but for bytes that arrive and answers that are processed (`Alone`, `Aged`); of the attempts at a question only the last is open, it is final, it has the code of those before it, and of the completed ones at most one is final (`Orderly`); what is passed was answered (`PassedAnswered`). The request that begins second ends it, and `Base` is all that remains. |

The latest attempt is a CHOOSE of a maximum; that one exists is proved from the well-foundedness of the natural numbers
(`SomeGreatest`).

*ModelGateway_proofs*

| Theorem | Argument |
|---|---|
| `TypeCorrect == Spec => []TypeOK` | Inductive as it stands. |
| `NeverJammed == Spec => []NotJammed` | `NotJammed` says nothing of two callers in one half-open period. `SlotsTaken`: there are at most as many slots taken as callers that have been let through and have not reported, and outside the half-open period none. A call that was admitted in an earlier period may give back a slot it never took, so it is an inequality. Cardinalities by FiniteSetTheorems. |
| `TripsInTime == Spec => []ClosedBelowThreshold` | The other part of `BreakerInv`. |
| `CompletionsAreBounded == Spec => []RequestsBounded` | `Priced`: what a call has sent is at most a full round per repair, one more once the simpler format has been learned, and the attempts of this round. That the format is learned once is what keeps the bound from being a product. |
| `OrganizationStaysKept == MCSpec => []OrganizationIsKept` | (Organization, a part of MCCabinet.) In every interleaving a request holds what its checks have left to be asked for (`Asked`, `Fits`), and a column is written only where the value differs from the one that was read: so access that was withdrawn comes back only by a request that gives it back. Until two requests overlap one is under way, it has read what is there and its check of the last owner still holds (`Current`, `Reads`, `Guarded`); an owner who remains after one has gone is found by counting. `Counted1` relates the uses of the invite to the people who came by it, `Fresh1` the session to the last change of its member. |
| `ThreadStaysKept == MCSpec => []ThreadIsKept` | (AssistantThread, a part of MCCabinet.) *Places*: a turn that goes on is behind every message but those of the turns it met (`Behind`), and two that go on have met (`Met`); that there is a next place at all is proved from the well-foundedness of the natural numbers (`NextPlace`). *Answers*: what a turn has done is held by its tool messages one by one (`Tools`, by their rank) and then by its answer (`Answers`), of which there is one (`OneAnswer`). *Marks*: every place where the page or a request remembers a proposal is of one that was done (`Remembered`, `Pressed`, `ToMark`, `MarkedTrue`); that none is done twice needs that its button waits or the page remembers it as done as long as nothing goes wrong (`Once`). |
| `MarksAreKept == MCSpec => MarksStay` | `Seen`: until two marks of a message overlap one is being made at a time and has seen the marks there are, so it writes them and one more (`MarksGrow`). |
| `LimitsStayHeld == MCSpec => []LimitsHold` | (RateLimiter and Grants, parts of MCCabinet.) *Limiter*: the entry of a key is the end of the history of its admissions, and what comes before has left the window (`Traced`): `_decide` drops only the oldest that have, and time brings none of them back. A call is admitted when fewer than the budget are left, so of any budget + 1 admissions the last is out of the window of the first (`Spread`), which bounds every window by counting. Who was refused was told when the first of a full entry leaves (`KeyOK`). *Grants*: in every interleaving a request has read a row that is there still, with no more views than there are (`RowOK`), an extend clears `revoked_at` only if it read it set, and an open link has not ended (`LinkOK`). That media end with the link, and that views and uses are counted exactly, holds until requests meet or the clock goes on during one: then the only one has read what there is (`AloneOK`). `RangeRight`: for any header and any size, `parse_range` gives what the header asks for and the file has. |
| `ContentStaysKept == MCSpec => []ContentIsKept` | (Knowledge and DemoSeed, parts of MCCabinet; from `ChunksStayOfText`, `FilesStayThere` and `SeedStaysOnce`.) *Chunks*: that they are of one text is not inductive. `CutOf`: the chunks of a document are those that one change has cut of its text (`Cut`); `AsRead`: a request that has loaded all chunks there are has read the text there is, so what it does not write needs no writing. One that has not loaded them finds the first place taken (`ChunkPlace`), if both texts have a word, and until a text without one met another change they have (`WithWords`). That what is cut are pieces, and of a text with a word at least one, is the assumption `SamplesOK`, which TLC evaluates: what a fold returns cannot be proved here by induction. *Files*: while an upload is on its way its file is stored, its row is not there and no other request has its document; who removes a file has deleted the row (`FileAsked`). *Demo data*: wherever runs have died, a row is sound (`SeedSound`) and a run is at a step that fits its row (`RunOK`). As long as none has died, what is begun is finished but for the one thing at work and the candidate that no commit has taken along yet (`Settled`), and what the run has left behind is there (`LeftBehind`); so nothing is refused and the end has everything (`AllThere`). |

**Only model-checked.** Liveness (`EventuallyFinished`, `NeverStuck`, `MediaGone`, `InTheEnd`, `DoneInTheEnd`,
`FirstReplyAnswered`, `FollowsProvider`) and ENABLED are beyond the proof system used here, and so is induction over
data, hence what a recursive function or a fold (`chunk_text`, `fit_score`) computes for every input: that is why
`ScoreIsSound`, `ReportsAreTrue` (the time away is a sum over the events, a figure one over the interviews) and
`TextsFit` stay with TLC. No module uses RECURSIVE.

## 7. What the repository states and the code does not do

**First finding** (run room_stuck, `CandidateCanProceed`). `create_answer` counts every
attempt, also one that was cut off (`attempts_used`, `interviews/service.py:399`), while
the comment at line 382 says that an unfinished recording is abandoned and the new one is the next
attempt, and `frontend/src/components/interview/room.tsx:70` does not count abandoned ones. With
`retakes_allowed` 0, which every follow-up question has, a page that is closed during the
recording leaves the candidate unable to record, to complete or to pass on.

**Second finding** (run confirmed_unmarked, `ConfirmedIsMarked`). The comment at
`frontend/src/components/assistant/assistant-panel.tsx:474` says that a proposal may be confirmed while
it is still in the draft of the stream, and that the mark is then made by the saved message. But `send`
is the closure of the render in which the message was typed, and its `confirmed` (line 307, a React state
that is replaced at every confirmation) is the map of that moment. What is confirmed while the answer
streams is therefore never found at line 477 and gets no mark; after a reload the button is there again,
against `assistant/service.py:77`, where the marks are what keeps an action from being offered twice.

The following are defined at the end of each module. TLC refutes each of them with constants like those of
the module's run, unless a remark says otherwise; none but the two findings is in a run.

| Module | Property | Behaviour that violates it |
|---|---|---|
| JobQueue | `OnlyOwnerRecords`, `ImplementsLifecycle`, `OneActivePerEntity`, under `Spec` | The lease runs out between the SELECT and the UPDATE of a record, and the stale UPDATE lands on a row that has been claimed, buried or given back: an outcome of another run, a finished job that is queued again. |
| JobQueue | `OneActivePerEntity`, also after edits by hand | A failed job has given its key to a newer one and is retried (`jobs/service.py:276`). |
| JobQueue | `DrainedHoldsNothing` | The end of the drain cancels a task that is recording (`jobs/worker.py:301`): its job is neither recorded nor released, and its lease has to run out. |
| JobQueue | `HeartbeatOfLatestClaim` | (JobQueueLive.cfg with two slots) A worker claims its own zombie; the heartbeats of both executions see its name in the row, so both run on. |
| AnswerPipeline | `UploadedHasWork` | The last try of the job meets a live run and fails as busy; the live run is cancelled and returns the answer to `uploaded` (`pipeline/service.py:190, 234`). It has no job, and the tick looks at `processing` only. |
| AnswerPipeline | `PurgeSparesProcessing` | A run claims the answer between the purge's SELECT and its deletion of files (`pipeline/service.py:453`). `MediaGone` holds: the run sees `purged_at` and removes what it wrote. |
| InterviewEvaluation | `TransitionsRespected` | The recruiter cancels while the model is asked; the evaluation is written by id over the cancellation (`evaluation/service.py:507`; `candidates/models.py:55` has nothing after `cancelled`). |
| InterviewEvaluation | `NotAbandoned` | The worker dies in the last try: the job is buried, the evaluation stays `pending`, and reprocess answers 409 for ever (`evaluation/jobs.py:176`). |
| InterviewEvaluation | `OneEvaluator`, `EvaluatedIsDone`, unconditionally | An earlier job that waits for its retry is not running, so a later one does not see it (`evaluation/jobs.py:90`); both then call the model. Two overlapping requests to reprocess do the same, and the later one may take an evaluated interview's evaluation away. |
| InterviewEvaluation | `NoOldScores`, unconditionally | A request to reprocess that has loaded the evaluation as pending does not write it (the ORM writes the columns that differ, `evaluation/jobs.py:138`). When a run whose lease was lost, or the job of another request, finishes before the commit, the interview goes back to `processing` beside the old result; with one request at a time a lost lease is enough. |
| InterviewEvaluation | `ReprocessedAlone` | The docstring of `reprocess` (`evaluation/jobs.py:158`) says that a request is refused while a job is unfinished. The unfinished jobs are looked up at line 162, before the evaluation is reset, without a lock, and not again: of two overlapping requests both find none. The UPDATE of the evaluation row makes the second wait for the commit of the first; it then counts one earlier key (line 190), takes the next one, and queues a second job. (Calls of two, MaxTries 1, MaxReprocess 2. The invariant of `EvaluationStaysSound` is not inductive without `~counts.overlapped`, which is how this was found.) |
| ChunkUpload | `SizeIsRecorded` | A late request of a chunk writes `media_size` after the completion, by id (`interviews/service.py:455`; `backend/tests/test_interview_room.py` expects the sum of the chunks). |
| ChunkUpload | `FileIsPrefix`, unconditionally | After a write that ended inside a chunk the 409 names an offset inside it, and the recorder sends the whole chunk from there (`recorder.ts:166`). |
| ChunkUpload | `FinishAlwaysEnds` | The upload has given up, then the candidate stops and the last event is empty: nothing starts the drain that `waitForDrain` waits for (`recorder.ts:122`). |
| ChunkUpload | `ReturnKeepsChunks` | Chunks live in the memory of the page; a reload loses them (`docs/RUNBOOK.md` says that the upload goes on). |
| InterviewRoom | `CompletedIsKept` | `create_answer` loads an unfinished attempt, another request completes it, and the commit abandons it: `answer.process` finds nothing to do (`interviews/service.py:491`). |
| InterviewRoom | `SubmittedStays` | (MaxEdits 2) An autosave that was loaded before the submission commits after it: the code is a draft again, with the older text. |
| InterviewRoom | `FollowupsOnce` | Two overlapping `next` both see the mark unset, both ask the model, and the second block replaces the first, which the candidate may be answering (line 679). |
| InterviewRoom | `PassedIsReady` | Code was submitted and an explanation on video is begun and not completed: the question can be passed with a final attempt that is still `recording`, for which the evaluation waits. |
| Invitations | `OneActive` | An interview that has ended is revived (sent again after it expired, advanced after a rejection) beside a new one; only `invite` checks (`candidates/service.py:380`). No overlap is needed. |
| Invitations | `DecisionMatches`, `ExpiredIsOverdue`, unconditionally | Two requests that overlap each write the columns that differ from what they have loaded: a status of one beside a decision or a new expiry of the other. |
| Invitations | `NeverBack`, unconditionally | The page of the candidate was loaded before a cancellation and writes `opened`, `consented` or `in_progress` over it (line 79). |
| HhDialog | `RepliesRead` | `_send` moves `last_hh_message_id` to the bot's message; a reply that came between pull and sending is before it (`hh/dialog.py:224`). |
| HhDialog | `FirstReplyAnswered`, also when tokens are renewed and a call fails | `persist` (`hh/service.py:113`) commits the session of the dialog: the reply to the greeting is saved as read, and `last_hh_message_id` moved, before the POST. The POST fails; the state is `greeting_sent` still, the next pass finds nothing fresh, and `advance` returns (`hh/dialog.py:259`). |
| HhDialog | `Forward`, also beside a take-over | The worker and the recruiter write the state of the row from what each has loaded (`hh/service.py:660`). |
| HhDialog | `ReadIsAnswered` | The answer to the greeting is lost, the applicant replies, the retry reads the reply in the state `new`, is told 409 for the greeting and goes on to `greeting_sent`: the reply has been read and nobody reacts. |
| HhDialog | `ChatLinkWorks`, `OneInterview`, unconditionally | After a lost answer the retry issues another token, hh keeps the first message, and the row keeps the second token; with a take-over beside the worker there are two interviews (`hh/service.py:660`). |
| ModelGateway | `OneProbe` | Calls admitted before the breaker opened report in its half-open period; a probe's slot is given back by a call that never took one (`circuit_breaker.py:5`). |
| ModelGateway | `DyingOpens` | A stream is recorded as a success when its headers come (`openai_compatible.py:193`): a provider that sends headers and no bodies never opens the breaker. |
| Outbox | `Once` | The worker dies after the mail server took the letter and before the record (`docs/ARCHITECTURE.md:85` says that handlers are idempotent). |
| Reminders | `ReminderRelinks` | `backend/README.md:604` says that a reminder makes a new link and the old one stops; the code repeats the stored link. (The code's behaviour is the better one.) |
| HuntflowPush | `CanBePushedAgain` | The worker dies in the last attempt: the row stays `pushing`, and `push_candidate` refuses ever after (`huntflow/service.py:490`). |
| HuntflowPush | `OneApplicant`, unconditionally | The client sends an unanswered POST once more (`huntflow/client.py:264`): two applicants. |
| Organization | `OwnerRemains`, `InviteIsLimited`, `ScopeFits`, `SessionsAreCurrent`, unconditionally | Nothing locks what the guards count: two owners demote each other, two registrations take the last use of an invite, a scope meets a change of role, two changes raise `token_version` once. |
| RateLimiter | `BudgetKept`, unconditionally | A blocked key is thrown away when the table is full and begins anew. |
| Vacancies | `GeneratedAlwaysAdds` | The proposal holds the whole list it was generated for; when the list has changed meanwhile, the button replaces it (`assistant/toolbox.py` says that the questions are added to those there are). |
| Vacancies | `ListIsSound`, unconditionally | Two overlapping saves each number what they have loaded; the rubric is trimmed beside a save of questions that refer to it. |
| HhConnection | `DisconnectedStays` | A client that was built before the disconnection saves its refreshed pair, or the pass its status, over it (`hh/service.py:112`). |
| HhConnection | `TokensOfTheAccount` | The owner connects another account while a client refreshes the pair of the first: it is saved over the new one. |
| HhDiscovery | `OnePeriodicJob` | A job that begins its second attempt enqueues its successor once more. |
| HhDiscovery | `OneFailsAlone` | (Hidden {"a1"}) A resume that hh never shows ends the pass; the links after it are never reached. |
| AssistantThread | `HistoryInOrder`, `MarksStay`, `NotRepeated`, unconditionally | Two turns of a thread compute equal positions from one history (`assistant/runner.py:139`); two marks are made from one reading; a page that is loaded again shows a button whose action was done. |
| Perimeter | `OthersAreInvited` | Of a list of candidates, a conflict with another request rolls back more than its own invitation (`candidates/router.py:146`). |
| Grants | `EveryViewCounted` | Two reports opened at once count one view; both rows are there. |
| Knowledge | `AlwaysOfText` | A text without a word has no chunks, so nothing collides with those another request has written: they stay (`knowledge/service.py:255`). |
| Knowledge | `NoStrayFiles` | A file is stored before its row is committed and removed after it (lines 161, 188): a death between leaves it. |
| DemoSeed | `Resumes` | A run that died leaves an interview as invited, or a vacancy as a draft; the next one finds it by its title or address and passes it over, and no run gets past the draft (`demo/seed.py:463, 416`). Also an invite is made twice, where line 8 says that nothing is. |
| Integrity | `OneShortAbsence` | One switch of the tab is a `window_blur` and a `visibility_hidden`: two absences (`integrity/rules.py:137` against `backend/README.md:563`). |
| Integrity | `LastQuestionSeen` | The page sends the last batch after the interview is completed, and the server takes nothing then. |
| Scoring | `MissingIsNotFit` | The model scores no competency of the rubric: the simple mean of what it named is used, and nothing forbids `fit`. |
| Dashboard | `OneMoment` | The figures of an answer are read statement by statement. |
| Feedback | `FeedbackOnce`, `FeedbackComes`, unconditionally | A process that dies between conclusion and schedule loses the letter; a decision by the link of a report schedules none; a decision before the conclusion may give two. |

Seen while reading and not modelled: the threshold of `no_face` differs from `backend/README.md:569`.

## 8. What is not modelled

- *Pure computations*: prompts, the parsing of model answers, of days and of
  documents (docx, html), the ranking of passages, rendering of letters and reports, hashing and signing.
- *Read only or stateless*: legal texts, health, exports, the code runner, the other pages of the frontend.
- *External*: ffmpeg, MediaRecorder, the model, the recognizer, hh.ru, Huntflow and the mail server are modelled by
  what the code can observe of them: done or not, answered or not.
- *Once only*: migrations, deployment, the evaluation of the evaluator (an offline script).

Abstractions inside the modelled parts, beside those named in section 3:

- `enqueue` is one step: between its SELECT and its INSERT the unique constraint of the key makes the loser fail.
- An execution's `_lost_leases` mark is per job id and shared by two executions of one worker; JobQueue cancels the one that
  notices.
- Jobs in the modules other than JobQueue are a status, an owner and the number of tries; their claims and
  records are atomic.
- ChunkUpload: chunks have equal sizes, `complete` is sent once, one short write per behaviour.
- ModelGateway: one provider per role; the fake provider, parsing of the event stream and the fallback of the transcription
  (the same code path as the chat's) are left out.
- Feedback: a failed evaluation may begin again days later.
- Vacancies: settings are the avatar and its voice; a text is a model value that is too long for a clip or not.
- HhConnection, HhDiscovery: one organization; a candidate is its address.
- Integrity: the clock ticks in heartbeats; the baseline of typing, the containers of videos and the snapshots are left out.
- Scoring: scores in tenths; a quote is a whole transcript. Dashboard: the averages of retakes and scores are left out.
- Perimeter: statuses are the classes that the reading code tells apart. Grants: one share or one token.
- DemoSeed: one run at a time; the letter that a decision schedules is left out.
- Organization: an expired invite is a revoked one; a user who is logged in only gets refusals from `accept_invite`.
- HuntflowPush: one account; connecting to another one keeps links and rows as the code does.

## 9. Plan

Done: every part of section 1 that has a state whose correctness depends on an order of events has a module. The main
safety properties of most of them are proved (section 6), and so is the refinement of JobLifecycle.

What may still be modelled: the refresh of the Huntflow tokens (as HhConnection), the notes of a report, the merging of two
candidates of hh with one address beside an import from Huntflow, and two commands of DemoSeed at once.

Every invariant that a run checks and that is not about sums, folds or liveness is proved; the next proof would be that
of `SamplesOK` and `TextsFit` from the definition of `chunk_text`, with a prover that has induction over data.
