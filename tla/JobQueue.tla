------------------------------ MODULE JobQueue ------------------------------
(***************************************************************************)
(* The background job queue: the table jobs (jobs/service.py) and the      *)
(* worker processes that drain it (jobs/worker.py).                        *)
(*                                                                         *)
(* A worker claims a job with one UPDATE, keeps its lease alive from a     *)
(* heartbeat task while the handler runs, and records the outcome in a     *)
(* transaction that first SELECTs the row and checks the owner, and then   *)
(* UPDATEs the row by its id.  No row lock is taken by that SELECT, so the *)
(* two statements are two steps here: BeginXxx and Record.  Workers stop   *)
(* gracefully, are killed, are restarted; the database may refuse the      *)
(* recording transaction.                                                  *)
(*                                                                         *)
(* Time is relative.  due is the number of ticks until run_after, lease    *)
(* the number of ticks until lease_until; Tick counts both down.           *)
(***************************************************************************)
EXTENDS Integers, FiniteSets

CONSTANTS Workers,      \* worker processes
          Slots,        \* asyncio tasks a worker can run at a time
          Resources,    \* semaphores of a worker
          Capacity,     \* permits of each semaphore
          Kinds,        \* job kinds that are enqueued
          Registered,   \* those of them that have a handler
          ResourceOf,   \* the semaphore of a kind ("default" when unregistered)
          Entities,     \* what jobs are about; a dedupe key names one
          None,         \* no key, no owner, no kind
          MaxJobs,      \* rows the table can hold
          MaxAttempts,  \* Job.max_attempts
          LeaseTicks,   \* DEFAULT_LEASE_S
          Backoff,      \* backoff_delay_s in ticks, by attempts
          Delays,       \* the delays enqueue is called with
          AgeCap,       \* how long ago run_after may lie before its order is lost
          DbFails,      \* may the database refuse a recording transaction
          MaxStops,     \* bound on graceful stops
          MaxEdits      \* bound on cancel and retry calls

Jobs == 1 .. MaxJobs
Status == {"absent", "queued", "running", "succeeded", "failed", "cancelled"}
TERMINAL_STATUSES == {"succeeded", "failed", "cancelled"}
Active == {"queued", "running"}

ASSUME ConstantsOK ==
    /\ None \notin Workers \cup Entities \cup Kinds
    /\ MaxJobs \in Nat /\ MaxAttempts \in Nat \ {0} /\ LeaseTicks \in Nat \ {0}
    /\ AgeCap \in Nat /\ MaxStops \in Nat /\ MaxEdits \in Nat
    /\ Registered \subseteq Kinds
    /\ ResourceOf \in [Kinds -> Resources]
    /\ Capacity \in [Resources -> Nat \ {0}]
    /\ Backoff \in [0 .. MaxAttempts -> Nat]
    /\ Delays \subseteq Nat
    /\ Slots \subseteq Nat /\ IsFiniteSet(Slots) /\ DbFails \in BOOLEAN

VARIABLES job,    \* the table: one row per job id, ids in order of created_at
          exec,   \* exec[w][s]: what task s of worker w is doing
          mode,   \* mode[w]: the worker process
          api,    \* api[j]: a cancel or retry call between its SELECT and UPDATE
          stops,  \* graceful stops so far
          edits   \* cancel and retry calls so far

vars == <<job, exec, mode, api, stops, edits>>

\* entity is what the job was enqueued about; key is that too until it is given up.
Row == [status: Status, attempts: Nat, due: Int, lease: Nat,
        owner: Workers \cup {None}, key: Entities \cup {None},
        entity: Entities \cup {None}, kind: Kinds \cup {None}]

\* handler: the coroutine and its heartbeat run; the others are a recording
\* transaction between its SELECT and its UPDATE.
RecordPhases == {"completing", "failing", "rejecting", "releasing"}
Phases == {"idle", "handler"} \cup RecordPhases

\* seen is attempts as that SELECT read it, where the UPDATE depends on it; fresh is history: nobody has claimed
\* the job since this task did.
Exec == [phase: Phases, j: Jobs \cup {0}, seen: Nat, fresh: BOOLEAN]
Idle == [phase |-> "idle", j |-> 0, seen |-> 0, fresh |-> FALSE]

Call == [op: {"none", "cancel", "retry"}, attempts: Nat, owner: Workers \cup {None}]
NoCall == [op |-> "none", attempts |-> 0, owner |-> None]

TypeOK ==
    /\ job \in [Jobs -> Row]
    /\ exec \in [Workers -> [Slots -> Exec]]
    /\ mode \in [Workers -> {"up", "stopping", "down"}]
    /\ api \in [Jobs -> Call]
    /\ stops \in Nat /\ edits \in Nat

Init ==
    /\ job = [j \in Jobs |-> [status |-> "absent", attempts |-> 0, due |-> 0, lease |-> 0,
                              owner |-> None, key |-> None, entity |-> None, kind |-> None]]
    /\ exec = [w \in Workers |-> [s \in Slots |-> Idle]]
    /\ mode = [w \in Workers |-> "up"]
    /\ api = [j \in Jobs |-> NoCall]
    /\ stops = 0 /\ edits = 0
-----------------------------------------------------------------------------
(* The service: what callers of jobs/service.py do to the table. *)

NextId == 1 + Cardinality({j \in Jobs : job[j].status # "absent"})

Inserted(key, kind, delay) ==
    [status |-> "queued", attempts |-> 0, due |-> delay, lease |-> 0,
     owner |-> None, key |-> key, entity |-> key, kind |-> kind]

\* Variant: only a queued row keeps its key.
enqueueBesideRunning(key, kind, delay) ==
    /\ NextId \in Jobs
    /\ \A j \in Jobs : job[j].key = key /\ key # None => job[j].status # "queued"
    /\ job' = [j \in Jobs |->
                 IF j = NextId THEN Inserted(key, kind, delay)
                 ELSE IF job[j].key = key THEN [job[j] EXCEPT !.key = None] ELSE job[j]]
    /\ UNCHANGED <<exec, mode, api, stops, edits>>

\* An active row with the key is returned as it is: nothing changes.  A terminal
\* one gives its key up to the new row.
enqueue(key, kind, delay) ==
    /\ NextId \in Jobs
    /\ \A j \in Jobs : job[j].key = key /\ key # None => job[j].status \in TERMINAL_STATUSES
    /\ job' = [j \in Jobs |->
                 IF j = NextId THEN Inserted(key, kind, delay)
                 ELSE IF job[j].key = key THEN [job[j] EXCEPT !.key = None] ELSE job[j]]
    /\ UNCHANGED <<exec, mode, api, stops, edits>>

Enqueue == \E key \in Entities \cup {None}, kind \in Kinds, delay \in Delays : enqueue(key, kind, delay)

\* Variant: the status is not checked.
BeginCallOnAny(j, op) ==
    /\ edits < MaxEdits /\ api[j].op = "none" /\ job[j].status # "absent"
    /\ api' = [api EXCEPT ![j] = [op |-> op, attempts |-> job[j].attempts, owner |-> job[j].owner]]
    /\ edits' = edits + 1
    /\ UNCHANGED <<job, exec, mode, stops>>

\* cancel and retry: the SELECT and the check of the status ...
BeginCall(j, op) ==
    /\ edits < MaxEdits /\ api[j].op = "none"
    /\ job[j].status \in IF op = "cancel" THEN {"queued"} ELSE {"failed", "cancelled"}
    /\ api' = [api EXCEPT ![j] = [op |-> op, attempts |-> job[j].attempts, owner |-> job[j].owner]]
    /\ edits' = edits + 1
    /\ UNCHANGED <<job, exec, mode, stops>>

\* ... and the UPDATE, which sets the columns whose value differs from the row read.
cancel(j) ==
    /\ api[j].op = "cancel"
    /\ job' = [job EXCEPT ![j].status = "cancelled"]
    /\ api' = [api EXCEPT ![j] = NoCall]
    /\ UNCHANGED <<exec, mode, stops, edits>>

Retried(row, read) ==
    [row EXCEPT !.status = "queued",
                !.attempts = IF read.attempts = 0 THEN @ ELSE 0,
                !.due = 0,
                !.lease = IF read.owner = None THEN @ ELSE 0,
                !.owner = IF read.owner = None THEN @ ELSE None]

retry(j) ==
    /\ api[j].op = "retry"
    /\ job' = [job EXCEPT ![j] = Retried(@, api[j])]
    /\ api' = [api EXCEPT ![j] = NoCall]
    /\ UNCHANGED <<exec, mode, stops, edits>>
-----------------------------------------------------------------------------
(* The worker: polling and claiming. *)

IdleSlots(w) == {s \in Slots : exec[w][s].phase = "idle"}
NextSlot(w, s) == s \in IdleSlots(w) /\ \A t \in IdleSlots(w) : s <= t

Inflight(w, r) ==
    Cardinality({s \in Slots : exec[w][s].phase # "idle" /\ ResourceOf[job[exec[w][s].j].kind] = r})

\* Variant: one task more than the semaphore admits.
claimable_kindsOneMore(w) ==
    LET free == {r \in Resources : Inflight(w, r) <= Capacity[r]}
    IN IF free = Resources THEN Kinds ELSE {k \in Registered : ResourceOf[k] \in free}

\* With every semaphore free the claim names no kinds and takes unknown ones too.
claimable_kinds(w) ==
    LET free == {r \in Resources : Inflight(w, r) < Capacity[r]}
    IN IF free = Resources THEN Kinds ELSE {k \in Registered : ResourceOf[k] \in free}

Expired(j) == job[j].status = "running" /\ job[j].lease = 0
OutOfAttempts(j) == Expired(j) /\ job[j].attempts >= MaxAttempts

\* Variant: a zombie is not picked up.
ReadyQueuedOnly(j) == job[j].status = "queued" /\ job[j].due <= 0

\* Variant: a running job is claimed while its lease still counts.
ReadyLeased(j) ==
    \/ job[j].status = "queued" /\ job[j].due <= 0
    \/ job[j].status = "running" /\ job[j].attempts < MaxAttempts

Ready(j) ==
    \/ job[j].status = "queued" /\ job[j].due <= 0
    \/ Expired(j) /\ ~OutOfAttempts(j)

\* ORDER BY run_after, created_at; below -AgeCap the order of run_after is lost.
Before(i, j) ==
    \/ job[i].due < job[j].due
    \/ job[i].due = job[j].due /\ job[i].due > -AgeCap /\ i < j

Candidates(w) ==
    LET ready == {j \in Jobs : Ready(j) /\ job[j].kind \in claimable_kinds(w)}
    IN {j \in ready : \A i \in ready : ~Before(i, j)}

Buried(row) == [row EXCEPT !.status = "failed", !.lease = 0, !.owner = None]

Claimed(row, w) ==
    [row EXCEPT !.status = "running", !.attempts = @ + 1, !.lease = LeaseTicks, !.owner = w]

\* One transaction: zombies without attempts become failed, then one job is claimed.
claim_next(w, s, j) ==
    /\ mode[w] = "up" /\ NextSlot(w, s) /\ j \in Candidates(w)
    /\ job' = [i \in Jobs |-> IF i = j THEN Claimed(job[i], w)
                              ELSE IF OutOfAttempts(i) THEN Buried(job[i]) ELSE job[i]]
    /\ exec' = [v \in Workers |-> [t \in Slots |->
                  IF v = w /\ t = s
                  THEN [phase |-> "handler", j |-> j, seen |-> 0, fresh |-> TRUE]
                  ELSE [exec[v][t] EXCEPT !.fresh = @ /\ exec[v][t].j # j]]]
    /\ UNCHANGED <<mode, api, stops, edits>>

\* The same transaction when no job is ready for this worker.
BuryZombies(w) ==
    /\ mode[w] = "up" /\ claimable_kinds(w) # {} /\ Candidates(w) = {}
    /\ job' = [i \in Jobs |-> IF OutOfAttempts(i) THEN Buried(job[i]) ELSE job[i]]
    /\ UNCHANGED <<exec, mode, api, stops, edits>>

Poll(w) == (\E s \in Slots, j \in Jobs : claim_next(w, s, j)) \/ BuryZombies(w)
-----------------------------------------------------------------------------
(* The worker: running a handler and recording its outcome. *)

InPhase(w, s, p) == exec[w][s].phase = p
HeldByAnyone(w, s) == job[exec[w][s].j].status = "running"
Held(w, s) == job[exec[w][s].j].status = "running" /\ job[exec[w][s].j].owner = w
HasHandler(w, s) == InPhase(w, s, "handler") /\ job[exec[w][s].j].kind \in Registered
Free(w, s) == exec' = [exec EXCEPT ![w][s] = Idle]

\* A heartbeat that finds the job its own renews the lease; one that does not
\* cancels the handler, and nothing is recorded.  A heartbeat the database refuses
\* changes nothing and is no step here.
heartbeat(w, s) ==
    /\ HasHandler(w, s) /\ Held(w, s)
    /\ job' = [job EXCEPT ![exec[w][s].j].lease = LeaseTicks]
    /\ UNCHANGED <<exec, mode, api, stops, edits>>

LeaseLost(w, s) ==
    /\ HasHandler(w, s) /\ ~Held(w, s)
    /\ Free(w, s)
    /\ UNCHANGED <<job, mode, api, stops, edits>>

\* The outcomes a task can have; each names the transaction that records it.
\* Rejecting, a failure without retry, is that of a kind without a handler and of a
\* handler that cannot start; releasing is that of a task the end of the drain cancels.
Outcomes(w, s) ==
    {p \in RecordPhases :
        /\ p # "rejecting" => job[exec[w][s].j].kind \in Registered
        /\ p = "releasing" => mode[w] = "stopping"}

\* The SELECT of complete, fail or release: status and owner are checked here.
\* The heartbeat has been stopped before it; a refused check is only logged.
BeginRecord(w, s, p) ==
    /\ InPhase(w, s, "handler") /\ p \in Outcomes(w, s)
    /\ IF Held(w, s)
       THEN exec' = [exec EXCEPT ![w][s].phase = p,
                                 ![w][s].seen = IF p \in {"failing", "releasing"}
                                                THEN job[exec[w][s].j].attempts ELSE 0]
       ELSE Free(w, s)
    /\ UNCHANGED <<job, mode, api, stops, edits>>

\* Variant: success keeps the owner.
RecordedKeepsOwner(row, p, seen) ==
    [row EXCEPT !.status = IF p = "completing" THEN "succeeded" ELSE "failed", !.lease = 0]

\* The row after the UPDATE, from the row as it is now and attempts as read before.
\* complete and fail leave the column attempts alone.
Recorded(row, p, seen) ==
    LET open == [row EXCEPT !.lease = 0, !.owner = None]
    IN CASE p = "completing" -> [open EXCEPT !.status = "succeeded"]
         [] p = "failing" /\ seen < MaxAttempts ->
              [open EXCEPT !.status = "queued", !.due = Backoff[seen]]
         [] p = "releasing" ->
              [open EXCEPT !.status = "queued", !.due = 0,
                           !.attempts = IF seen > 0 THEN seen - 1 ELSE 0]
         [] OTHER -> [open EXCEPT !.status = "failed"]

Record(w, s) ==
    /\ exec[w][s].phase \in RecordPhases
    /\ job' = [job EXCEPT ![exec[w][s].j] = Recorded(@, exec[w][s].phase, exec[w][s].seen)]
    /\ Free(w, s)
    /\ UNCHANGED <<mode, api, stops, edits>>

\* The recording transaction raises, or the end of the drain cancels it: the task
\* ends and the row stays as it is.
RecordFails(w, s) ==
    /\ \/ DbFails /\ ~InPhase(w, s, "idle")
       \/ mode[w] = "stopping" /\ exec[w][s].phase \in RecordPhases \ {"releasing"}
    /\ Free(w, s)
    /\ UNCHANGED <<job, mode, api, stops, edits>>
-----------------------------------------------------------------------------
(* The worker process and time. *)

request_stop(w) ==
    /\ mode[w] = "up" /\ stops < MaxStops
    /\ mode' = [mode EXCEPT ![w] = "stopping"]
    /\ stops' = stops + 1
    /\ UNCHANGED <<job, exec, api, edits>>

Exit(w) ==
    /\ mode[w] = "stopping" /\ IdleSlots(w) = Slots
    /\ mode' = [mode EXCEPT ![w] = "down"]
    /\ UNCHANGED <<job, exec, api, stops, edits>>

Crash(w) ==
    /\ mode[w] # "down"
    /\ mode' = [mode EXCEPT ![w] = "down"]
    /\ exec' = [exec EXCEPT ![w] = [s \in Slots |-> Idle]]
    /\ UNCHANGED <<job, api, stops, edits>>

Restart(w) ==
    /\ mode[w] = "down"
    /\ mode' = [mode EXCEPT ![w] = "up"]
    /\ UNCHANGED <<job, exec, api, stops, edits>>

Aged(row) ==
    IF row.status \in Active
    THEN [row EXCEPT !.due = IF @ > -AgeCap THEN @ - 1 ELSE @,
                     !.lease = IF @ > 0 THEN @ - 1 ELSE 0]
    ELSE row

Tick ==
    /\ job' = [j \in Jobs |-> Aged(job[j])]
    /\ UNCHANGED <<exec, mode, api, stops, edits>>

Step(w, s) ==
    \/ heartbeat(w, s) \/ LeaseLost(w, s)
    \/ \E p \in RecordPhases : BeginRecord(w, s, p)
    \/ Record(w, s) \/ RecordFails(w, s)

Next ==
    \/ Enqueue \/ Tick
    \/ \E j \in Jobs : cancel(j) \/ retry(j) \/ \E op \in {"cancel", "retry"} : BeginCall(j, op)
    \/ \E w \in Workers :
         Poll(w) \/ request_stop(w) \/ Exit(w) \/ Crash(w) \/ Restart(w) \/ \E s \in Slots : Step(w, s)

Spec == Init /\ [][Next]_vars

(***************************************************************************)
(* Fairness.  Time passes; containers restart; a worker that comes up      *)
(* again and again reaches its poll at last; and every handler ends, as    *)
(* each external call it makes has a timeout.  Nothing else is fair: no    *)
(* heartbeat has to arrive, and workers may crash for ever.                *)
(***************************************************************************)
Advances(w, s) == LeaseLost(w, s) \/ Record(w, s) \/ \E p \in RecordPhases : BeginRecord(w, s, p)

FairSpec ==
    /\ Spec
    /\ WF_vars(Tick)
    /\ SF_vars(\E w \in Workers : Poll(w))
    /\ \A w \in Workers : WF_vars(Exit(w)) /\ WF_vars(Restart(w))
    /\ \A w \in Workers, s \in Slots : WF_vars(Advances(w, s))

(***************************************************************************)
(* What the code relies on where it takes no lock.  Nothing is assumed of  *)
(* the row itself: that it stays as it was read follows from these three.  *)
(***************************************************************************)
\* The lease outlives the recording transaction: no worker polls when a job whose
\* outcome is being recorded has lost it.
LeaseInTime == \A w \in Workers, s \in Slots : exec[w][s].phase \in RecordPhases => job[exec[w][s].j].lease > 0

\* A worker that claimed its own zombie again does not record its two tasks at once.
OneRecordOfAJob ==
    \A w \in Workers : \A s, t \in Slots :
        /\ s # t /\ {exec[w][s].phase, exec[w][t].phase} \subseteq RecordPhases
        => exec[w][s].j # exec[w][t].j

\* No worker claims a job between the two statements of a call that cancels it.
ClaimsNoCancelled == \A w \in Workers, s \in Slots, j \in Jobs : claim_next(w, s, j) => api[j].op # "cancel"

Prompt ==
    /\ (\E w \in Workers : Poll(w)) => LeaseInTime
    /\ OneRecordOfAJob'
    /\ ClaimsNoCancelled

PromptNext == Next /\ Prompt
PromptSpec == Init /\ [][PromptNext]_vars
-----------------------------------------------------------------------------
(* Properties that hold of every interleaving. *)

\* A running job always has an owner and has spent an attempt, and a finished one is
\* held by nobody, whatever stale UPDATE of an overtaken worker lands when.
LeaseHeld ==
    \A j \in Jobs :
        /\ job[j].status = "running" => job[j].owner \in Workers /\ job[j].attempts >= 1
        /\ job[j].status \in {"absent", "succeeded", "failed"} => job[j].owner = None /\ job[j].lease = 0

\* A worker never runs more tasks of a resource than its semaphore has permits, also
\* when it claims its own zombie a second time.
CapacityRespected == \A w \in Workers, r \in Resources : Inflight(w, r) <= Capacity[r]

\* Every job that is queued or claimed ends, though workers crash for ever, heartbeats
\* are lost and outcomes are not recorded: a zombie is picked up or buried.
EventuallyFinished ==
    \A j \in Jobs : job[j].status \in Active ~> job[j].status \in TERMINAL_STATUSES

(* Properties that hold when recording is prompt. *)

\* No job is started more often than max_attempts allows.
AttemptsBounded == \A j \in Jobs : job[j].attempts <= MaxAttempts

\* The outcome of a job is written by the worker that holds it at that moment.
OnlyOwnerRecords ==
    [][\A w \in Workers, s \in Slots :
         Record(w, s) => LET row == job[exec[w][s].j] IN row.status = "running" /\ row.owner = w]_vars

\* While nobody retries a job by hand, at most one active job was enqueued under the dedupe
\* key of an entity.
OneActivePerEntity ==
    edits = 0 =>
        \A i, j \in Jobs :
            /\ i # j /\ job[i].entity = job[j].entity /\ job[i].entity # None
            => {job[i].status, job[j].status} \cap TERMINAL_STATUSES # {}
                    \/ "absent" \in {job[i].status, job[j].status}

\* What callers of the queue may rely on: the life cycle of a job (see JobLifecycle).
progress == [j \in Jobs |-> [status |-> job[j].status, attempts |-> job[j].attempts]]
Lifecycle == INSTANCE JobLifecycle WITH row <- progress
ImplementsLifecycle == Lifecycle!Spec

(* Properties the repository states and the code does not have. *)

\* A worker that stopped gracefully holds no job: what it did not finish was given back.
DrainedHoldsNothing ==
    [][\A w \in Workers : Exit(w) => \A j \in Jobs : job[j].owner # w]_vars

\* A heartbeat that answers True belongs to the latest claim of the job.
HeartbeatOfLatestClaim ==
    [][\A w \in Workers, s \in Slots : heartbeat(w, s) => exec[w][s].fresh]_vars
=============================================================================
