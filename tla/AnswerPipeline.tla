--------------------------- MODULE AnswerPipeline ---------------------------
(***************************************************************************)
(* The media pipeline (pipeline/service.py, pipeline/jobs.py): the answers *)
(* of one interview are processed by jobs, brought back by the hourly tick *)
(* of the workers when their worker died, and lose their media when the    *)
(* retention period of the organization ends.                              *)
(*                                                                         *)
(* A run is one execution of process_answer.  It holds the ORM object of   *)
(* the answer (mem) as it was loaded, and a commit writes the columns that *)
(* differ from it, by id.  The queue that starts runs is reduced to what   *)
(* JobQueue says of a job with the key answer:<id>: one active job, tried  *)
(* MaxTries times, taken over when its worker is dead or its lease lost.   *)
(***************************************************************************)
EXTENDS Integers, FiniteSets

CONSTANTS Answers,    \* answers of the interview
          Runs,       \* executions that can be under way at once
          None,       \* no run
          MaxTries,   \* Job.max_attempts
          LeaseLoss,  \* may the job of a live run be given to another worker
          SlowSteps,  \* may a live run stand still for PIPELINE_STALE_PROCESSING_S
          Retention,  \* may the retention period end
          MaxBreaks   \* bound on kills and stops

ASSUME ParametersOK ==
    /\ None \notin Runs /\ MaxTries \in Nat \ {0} /\ MaxBreaks \in Nat
    /\ LeaseLoss \in BOOLEAN /\ SlowSteps \in BOOLEAN /\ Retention \in BOOLEAN

VARIABLES row,      \* row[a]: the answer in the database
          files,    \* the files in the storage, each an answer and a role
          job,      \* job[a]: the job of the answer
          run,      \* run[r]: an execution of process_answer
          tick,     \* answers the tick selected and has not yet returned to the queue
          purge,    \* the retention job
          expired,  \* the retention period is over
          breaks    \* kills and stops so far

vars == <<row, files, job, run, tick, purge, expired, breaks>>

Statuses == {"recording", "uploaded", "processing", "done", "failed"}
PROCESSABLE_STATUSES == {"uploaded", "failed"}

\* The keys of media_meta that matter here.
MetaKeys == {"probed", "playback_key", "purged_at", "stt_model"}
_REBUILT_META_KEYS == {"playback_key", "stt_model"}

\* media and audio: is media_key, audio_key set.  stale: updated_at is old.
Columns == [media: BOOLEAN, audio: BOOLEAN, meta: SUBSET MetaKeys]
Row == [status: Statuses, stale: BOOLEAN, cols: Columns]

File(a, role) == <<a, role>>

\* Encoding: an ffmpeg process has its source open; torn: the directory was removed under it.
Encoding == {"extracting", "remuxing"}
Working == Encoding \cup {"claimed", "extracted", "remuxed", "saved", "hearing", "heard"}
Run == [pc: Working \cup {"idle", "loaded"}, a: Answers \cup {None}, mem: Columns,
        meta: SUBSET MetaKeys, torn: BOOLEAN]
NoColumns == [media |-> FALSE, audio |-> FALSE, meta |-> {}]
Idle == [pc |-> "idle", a |-> None, mem |-> NoColumns, meta |-> {}, torn |-> FALSE]

Job == [st: {"none", "queued", "running"}, by: Runs \cup {None}, tries: 0 .. MaxTries]
Purge == [pc: {"idle", "files", "commit"}, snap: [Answers -> Columns],
          todo: SUBSET Answers, touched: SUBSET Answers, busy: SUBSET Answers]
NoPurge == [pc |-> "idle", snap |-> [a \in Answers |-> NoColumns],
            todo |-> {}, touched |-> {}, busy |-> {}]

TypeOK ==
    /\ row \in [Answers -> Row]
    /\ files \subseteq Answers \X {"source", "audio", "playback"}
    /\ job \in [Answers -> Job]
    /\ run \in [Runs -> Run]
    /\ tick \subseteq Answers /\ purge \in Purge
    /\ expired \in BOOLEAN /\ breaks \in Nat

Init ==
    /\ row = [a \in Answers |-> [status |-> "recording", stale |-> FALSE,
                                 cols |-> [NoColumns EXCEPT !.media = TRUE]]]
    /\ files = Answers \X {"source"}
    /\ job = [a \in Answers |-> [st |-> "none", by |-> None, tries |-> 0]]
    /\ run = [r \in Runs |-> Idle]
    /\ tick = {} /\ purge = NoPurge /\ expired = FALSE /\ breaks = 0
-----------------------------------------------------------------------------
(* The queue, as process_answer sees it. *)

Active(a) == job[a].st \in {"queued", "running"}
enqueued(j) == IF j.st = "none" THEN [j EXCEPT !.st = "queued", !.tries = 0] ELSE j

\* What happens to the job when run r ends; the outcome of an overtaken run is refused.
Settled(j, r, st) == IF j.by = r THEN [j EXCEPT !.st = st, !.by = None] ELSE j
Succeeded(j, r) == Settled(j, r, "none")
Failed(j, r) == Settled(j, r, IF j.tries < MaxTries THEN "queued" ELSE "none")
Released(j, r) == IF j.by = r THEN [Settled(j, r, "queued") EXCEPT !.tries = @ - 1] ELSE j

\* A job in the queue, of a dead worker, or whose lease was lost.
Claimable(a) ==
    \/ job[a].st = "queued"
    \/ job[a].st = "running" /\ (job[a].by = None \/ LeaseLoss)

complete_answer(a) ==
    /\ row[a].status = "recording" /\ ~expired
    /\ row' = [row EXCEPT ![a].status = "uploaded"]
    /\ job' = [job EXCEPT ![a] = enqueued(@)]
    /\ UNCHANGED <<files, run, tick, purge, expired, breaks>>

OutOfTries(a) == job[a].tries >= MaxTries

\* The job is claimed and the answer loaded; what needs no work ends at once.
Load(r, a) ==
    /\ run[r].pc = "idle" /\ Claimable(a) /\ ~OutOfTries(a)
    /\ LET taken == [job[a] EXCEPT !.st = "running", !.by = r, !.tries = @ + 1]
           wanted == /\ row[a].status \in PROCESSABLE_STATUSES \cup {"processing"}
                     /\ row[a].cols.media /\ "purged_at" \notin row[a].cols.meta
       IN IF wanted
          THEN /\ job' = [job EXCEPT ![a] = taken]
               /\ run' = [run EXCEPT ![r] = [Idle EXCEPT !.pc = "loaded", !.a = a]]
          ELSE /\ job' = [job EXCEPT ![a] = Succeeded(taken, r)]
               /\ UNCHANGED run
    /\ UNCHANGED <<row, files, tick, purge, expired, breaks>>

\* The queue buries a zombie that has no tries left.
Bury(a) ==
    /\ job[a].st = "running" /\ Claimable(a) /\ OutOfTries(a)
    /\ job' = [job EXCEPT ![a].st = "none", ![a].by = None]
    /\ UNCHANGED <<row, files, run, tick, purge, expired, breaks>>
-----------------------------------------------------------------------------
(* One run. *)

Abandoned(a) == row[a].status = "processing" /\ row[a].stale

\* Variants: any answer in processing may be taken; any answer that is not.
FreeWhenProcessing(a) == row[a].status \in PROCESSABLE_STATUSES \cup {"processing"}
FreeUnlessProcessing(a) == row[a].status # "processing" \/ Abandoned(a)
FreeToClaim(a) == row[a].status \in PROCESSABLE_STATUSES \/ Abandoned(a)

\* The conditional UPDATE, and the refresh of the ORM object after it.
claim_answer(r) ==
    LET a == run[r].a IN
    /\ run[r].pc = "loaded"
    /\ IF FreeToClaim(a)
       THEN /\ row' = [row EXCEPT ![a].status = "processing", ![a].stale = FALSE]
            /\ run' = [run EXCEPT ![r].pc = "claimed", ![r].mem = row[a].cols]
            /\ UNCHANGED job
       ELSE /\ job' = [job EXCEPT ![a] = IF row[a].status = "processing"
                                         THEN Failed(@, r) ELSE Succeeded(@, r)]
            /\ run' = [run EXCEPT ![r] = Idle]
            /\ UNCHANGED row
    /\ UNCHANGED <<files, tick, purge, expired, breaks>>

\* ffmpeg opens the recording: to extract the audio, later to remux it.
OpenSource(r) ==
    /\ File(run[r].a, "source") \in files
    /\ \/ /\ run[r].pc = "claimed" /\ run[r].mem.media
          /\ run' = [run EXCEPT ![r].pc = "extracting", ![r].torn = FALSE,
                       ![r].meta = (run[r].mem.meta \ _REBUILT_META_KEYS) \cup {"probed"}]
       \/ /\ run[r].pc = "extracted"
          /\ run' = [run EXCEPT ![r].pc = "remuxing", ![r].torn = FALSE]
    /\ UNCHANGED <<row, files, job, tick, purge, expired, breaks>>

\* The audio is in place; _touch moves updated_at.
extract_audio(r) ==
    LET a == run[r].a IN
    /\ run[r].pc = "extracting" /\ ~run[r].torn
    /\ files' = files \cup {File(a, "audio")}
    /\ row' = [row EXCEPT ![a].stale = FALSE]
    /\ run' = [run EXCEPT ![r].pc = "extracted"]
    /\ UNCHANGED <<job, tick, purge, expired, breaks>>

remux(r) ==
    /\ run[r].pc = "remuxing" /\ ~run[r].torn
    /\ files' = files \cup {File(run[r].a, "playback")}
    /\ run' = [run EXCEPT ![r].pc = "remuxed", ![r].meta = @ \cup {"playback_key"}]
    /\ UNCHANGED <<row, job, tick, purge, expired, breaks>>

\* Not a WebM, or ffmpeg refuses: the answer goes on without a remux.
NoRemux(r) ==
    /\ run[r].pc \in {"extracted", "remuxing"}
    /\ run' = [run EXCEPT ![r].pc = "remuxed"]
    /\ UNCHANGED <<row, files, job, tick, purge, expired, breaks>>

\* The commit before the transcription: audio_key and media_meta where they differ.
SaveMedia(r) ==
    LET a == run[r].a
        new == [run[r].mem EXCEPT !.audio = TRUE, !.meta = run[r].meta]
    IN /\ run[r].pc = "remuxed"
       /\ row' = [row EXCEPT
                    ![a].cols.audio = @ \/ ~run[r].mem.audio,
                    ![a].cols.meta = IF new.meta = run[r].mem.meta THEN @ ELSE new.meta,
                    ![a].stale = @ /\ new = run[r].mem]
       /\ run' = [run EXCEPT ![r].pc = "saved", ![r].mem = new]
       /\ UNCHANGED <<files, job, tick, purge, expired, breaks>>

\* The audio is read and sent to the recognizer ...
ReadAudio(r) ==
    /\ run[r].pc = "saved" /\ File(run[r].a, "audio") \in files
    /\ run' = [run EXCEPT ![r].pc = "hearing"]
    /\ UNCHANGED <<row, files, job, tick, purge, expired, breaks>>

\* ... which answers.  media_meta is read again, and after a purge the new files are dropped.
transcribe(r) ==
    LET a == run[r].a
        purged == "purged_at" \in row[a].cols.meta
        own == {File(a, "audio")}
                 \cup IF "playback_key" \in run[r].meta THEN {File(a, "playback")} ELSE {}
        meta == run[r].meta \cup {"stt_model"}
    IN /\ run[r].pc = "hearing"
       /\ files' = IF purged THEN files \ own ELSE files
       /\ run' = [run EXCEPT ![r].pc = "heard",
                    ![r].meta = IF purged THEN (meta \ {"playback_key"}) \cup {"purged_at"} ELSE meta]
       /\ UNCHANGED <<row, job, tick, purge, expired, breaks>>

Finish(r) ==
    LET a == run[r].a
        purged == "purged_at" \in run[r].meta
    IN /\ run[r].pc = "heard"
       /\ row' = [row EXCEPT
                    ![a].status = "done", ![a].stale = FALSE, ![a].cols.meta = run[r].meta,
                    ![a].cols.media = @ /\ ~(purged /\ run[r].mem.media),
                    ![a].cols.audio = @ /\ ~purged]
       /\ job' = [job EXCEPT ![a] = Succeeded(@, r)]
       /\ run' = [run EXCEPT ![r] = Idle]
       /\ UNCHANGED <<files, tick, purge, expired, breaks>>

\* Any step may raise: the answer becomes failed, whatever it is by now.
StepFails(r) ==
    LET a == run[r].a IN
    /\ run[r].pc \in Working
    /\ row' = [row EXCEPT ![a].status = "failed", ![a].stale = FALSE]
    /\ job' = [job EXCEPT ![a] = Failed(@, r)]
    /\ run' = [run EXCEPT ![r] = Idle]
    /\ UNCHANGED <<files, tick, purge, expired, breaks>>

_mark_interrupted(a, r) ==
    IF run[r].pc \in Working /\ row[a].status = "processing"
    THEN [row EXCEPT ![a].status = "uploaded", ![a].stale = FALSE] ELSE row

\* Cancelled by the worker: it stops, or the heartbeat finds the job taken over.
Cancelled(r) ==
    LET a == run[r].a IN
    /\ run[r].pc # "idle"
    /\ job[a].by # r \/ breaks < MaxBreaks
    /\ row' = _mark_interrupted(a, r)
    /\ job' = [job EXCEPT ![a] = Released(@, r)]
    /\ run' = [run EXCEPT ![r] = Idle]
    /\ breaks' = IF job[a].by = r THEN breaks + 1 ELSE breaks
    /\ UNCHANGED <<files, tick, purge, expired>>

Killed(r) ==
    LET a == run[r].a IN
    /\ run[r].pc # "idle" /\ breaks < MaxBreaks
    /\ run' = [run EXCEPT ![r] = Idle]
    /\ job' = [job EXCEPT ![a].by = IF @ = r THEN None ELSE @]
    /\ breaks' = breaks + 1
    /\ UNCHANGED <<row, files, tick, purge, expired>>
-----------------------------------------------------------------------------
(* The tick of the workers. *)

\* An answer in processing is not touched for half an hour: nobody works on it, or a
\* live run is in the steps before _touch, four ffmpeg calls of ten minutes.
GoesStale(a) ==
    /\ row[a].status = "processing" /\ ~row[a].stale
    /\ \A r \in Runs : run[r].a = a /\ run[r].pc \in Working =>
                          SlowSteps /\ run[r].pc \in {"claimed", "extracting"}
    /\ row' = [row EXCEPT ![a].stale = TRUE]
    /\ UNCHANGED <<files, job, run, tick, purge, expired, breaks>>

\* Variant: the tick leaves answers without an active job alone.
SelectedWithJob == {a \in Answers : Abandoned(a) /\ Active(a)}
Selected == {a \in Answers : Abandoned(a)}

SelectStale ==
    /\ tick = {}
    /\ tick' = Selected
    /\ tick' # {}
    /\ UNCHANGED <<row, files, job, run, purge, expired, breaks>>

requeue_stale_answers ==
    /\ tick # {}
    /\ row' = [a \in Answers |-> IF a \in tick
                                 THEN [row[a] EXCEPT !.status = "uploaded", !.stale = FALSE]
                                 ELSE row[a]]
    /\ job' = [a \in Answers |-> IF a \in tick THEN enqueued(job[a]) ELSE job[a]]
    /\ tick' = {}
    /\ UNCHANGED <<files, run, purge, expired, breaks>>
-----------------------------------------------------------------------------
(* Retention. *)

RetentionEnds ==
    /\ Retention /\ ~expired
    /\ expired' = TRUE
    /\ UNCHANGED <<row, files, job, run, tick, purge, breaks>>

HasKeys(c) == c.media \/ c.audio \/ "playback_key" \in c.meta
_media_keys(a, c) ==
    {File(a, role) : role \in {k \in {"source", "audio", "playback"} :
                                 \/ k = "source" /\ c.media
                                 \/ k = "audio" /\ c.audio
                                 \/ k = "playback" /\ "playback_key" \in c.meta}}

\* Variant: answers without keys are touched only when they are done.
PurgedWhenDone(a) == HasKeys(row[a].cols) /\ row[a].status = "done"
ToPurge(a) == HasKeys(row[a].cols) /\ row[a].status # "processing"

\* The answers are selected once; those in processing are skipped.
PurgeBegins ==
    /\ expired /\ purge.pc = "idle"
    /\ \E a \in Answers : ToPurge(a)
    /\ purge' = [pc |-> "files", snap |-> [a \in Answers |-> row[a].cols],
                 todo |-> {a \in Answers : ToPurge(a)}, touched |-> {a \in Answers : ToPurge(a)},
                 busy |-> {a \in Answers : HasKeys(row[a].cols) /\ row[a].status = "processing"}]
    /\ UNCHANGED <<row, files, job, run, tick, expired, breaks>>

PurgeFiles(a) ==
    /\ purge.pc = "files" /\ a \in purge.todo
    /\ files' = files \ _media_keys(a, purge.snap[a])
    /\ purge' = [purge EXCEPT !.todo = @ \ {a}]
    /\ UNCHANGED <<row, job, run, tick, expired, breaks>>

\* With nothing busy the whole directory goes, and what ffmpeg is writing there.
delete_prefix ==
    /\ purge.pc = "files" /\ purge.todo = {}
    /\ purge' = [purge EXCEPT !.pc = "commit"]
    /\ IF purge.busy = {}
       THEN /\ files' = {}
            /\ run' = [r \in Runs |-> [run[r] EXCEPT !.torn = run[r].pc \in Encoding]]
       ELSE UNCHANGED <<files, run>>
    /\ UNCHANGED <<row, job, tick, expired, breaks>>

\* Only what differs from the snapshot is written.
PurgeCommits ==
    /\ purge.pc = "commit"
    /\ row' = [a \in Answers |->
                 IF a \in purge.touched
                 THEN [row[a] EXCEPT
                         !.cols.media = @ /\ ~purge.snap[a].media,
                         !.cols.audio = @ /\ ~purge.snap[a].audio,
                         !.cols.meta = (purge.snap[a].meta \ {"playback_key"}) \cup {"purged_at"},
                         !.stale = FALSE]
                 ELSE row[a]]
    /\ purge' = NoPurge
    /\ UNCHANGED <<files, job, run, tick, expired, breaks>>

PurgeDies ==
    /\ purge.pc # "idle" /\ breaks < MaxBreaks
    /\ purge' = NoPurge /\ breaks' = breaks + 1
    /\ UNCHANGED <<row, files, job, run, tick, expired>>

Advances(r) ==
    \/ claim_answer(r) \/ OpenSource(r) \/ extract_audio(r) \/ remux(r) \/ NoRemux(r)
    \/ SaveMedia(r) \/ ReadAudio(r) \/ transcribe(r) \/ Finish(r) \/ StepFails(r)

PurgeStep == PurgeBegins \/ (\E a \in Answers : PurgeFiles(a)) \/ delete_prefix \/ PurgeCommits

Next ==
    \/ \E a \in Answers : complete_answer(a) \/ Bury(a) \/ GoesStale(a)
    \/ \E r \in Runs : Advances(r) \/ Cancelled(r) \/ Killed(r) \/ \E a \in Answers : Load(r, a)
    \/ SelectStale \/ requeue_stale_answers
    \/ RetentionEnds \/ PurgeStep \/ PurgeDies

Spec == Init /\ [][Next]_vars

(***************************************************************************)
(* Fairness.  Every step of a run ends, as ffmpeg and the recognizer have  *)
(* timeouts; the queue starts what it holds (JobQueue, FairSpec); the tick *)
(* and the daily purge come round; an untouched answer grows stale.        *)
(***************************************************************************)
FairSpec ==
    /\ Spec
    /\ \A r \in Runs : WF_vars(Advances(r))
    /\ \A a \in Answers : /\ WF_vars(\E r \in Runs : Load(r, a))
                          /\ WF_vars(Bury(a)) /\ WF_vars(GoesStale(a))
    /\ WF_vars(SelectStale) /\ WF_vars(requeue_stale_answers)
    /\ WF_vars(PurgeStep)
-----------------------------------------------------------------------------
(* Properties. *)

\* As long as no worker was killed or stopped, two runs never work on one answer, also when
\* the queue hands its job to a second worker.
OneRunAtATime ==
    breaks = 0 =>
        \A q, r \in Runs :
            q # r /\ {run[q].pc, run[r].pc} \subseteq Working => run[q].a # run[r].a

\* The rows keep their types, and the runs are kept apart.
SafeRuns == TypeOK /\ OneRunAtATime

\* Until then a transcribed answer is not failed or taken up again by a run that was overtaken.
DoneIsFinal ==
    [][\A a \in Answers : breaks = 0 /\ row[a].status = "done" => row'[a].status = "done"]_vars

\* No answer hangs in processing: a killed worker's answer is taken up again.
NeverStuck == \A a \in Answers : row[a].status = "processing" ~> row[a].status # "processing"

\* Once the retention period is over the media are gone for good, also the files that a
\* run wrote while the purge was under way.
MediaGone == expired ~> [](files = {})

(* Properties the docstrings state and the code does not have. *)

\* An answer that waits for processing has a job that will process it or a run at work.
UploadedHasWork ==
    \A a \in Answers :
        row[a].status = "uploaded" => Active(a) \/ \E r \in Runs : run[r].a = a

\* The purge leaves the files of an answer in processing alone.
PurgeSparesProcessing ==
    [][\A a \in Answers : PurgeFiles(a) => row[a].status # "processing"]_vars
=============================================================================
