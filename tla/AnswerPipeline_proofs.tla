------------------------ MODULE AnswerPipeline_proofs ------------------------
(***************************************************************************)
(* Theorems about AnswerPipeline for every number of answers, runs and     *)
(* tries, lost leases and purges included.                                 *)
(***************************************************************************)
EXTENDS AnswerPipeline, TLAPS

\* Stated for the provers, which do not find it inside a record.
LEMMA ZeroIsNumber == 0 \in 0 .. MaxTries /\ 0 \in Nat  BY ParametersOK

\* A busy run has an answer; a job that somebody runs is running and has spent a try.
RunsHaveAnswers == \A r \in Runs : run[r].pc # "idle" => run[r].a \in Answers
JobsAreSpent == \A a \in Answers : job[a].by # None => job[a].st = "running" /\ job[a].tries >= 1

Typed == TypeOK /\ RunsHaveAnswers /\ JobsAreSpent

\* What the queue does to a job keeps it a job.
JobOK(j) == j \in Job /\ (j.by # None => j.st = "running" /\ j.tries >= 1)

LEMMA JobChanges ==
    ASSUME NEW j, JobOK(j)
    PROVE  JobOK(enqueued(j)) /\ JobOK([j EXCEPT !.st = "none", !.by = None])
BY ZeroIsNumber DEF JobOK, enqueued, Job

LEMMA RunsOfJob ==
    ASSUME NEW j, JobOK(j), NEW r \in Runs
    PROVE  /\ JobOK(Succeeded(j, r)) /\ JobOK(Failed(j, r)) /\ JobOK(Released(j, r))
           /\ j.tries < MaxTries => JobOK([j EXCEPT !.st = "running", !.by = r, !.tries = @ + 1])
           /\ JobOK([j EXCEPT !.by = IF @ = r THEN None ELSE @])
<1>0. j \in Job /\ j.tries \in 0 .. MaxTries /\ MaxTries \in Nat
  BY ParametersOK DEF JobOK, Job
<1>1. ASSUME NEW st \in {"none", "queued"} PROVE JobOK(Settled(j, r, st))
  BY <1>0, ParametersOK DEF JobOK, Settled, Job
<1>2. JobOK(Succeeded(j, r)) /\ JobOK(Failed(j, r))
  BY <1>1 DEF Succeeded, Failed
<1>3. JobOK(Released(j, r))
  <2>1. CASE j.by = r
    <3>1. j.tries - 1 \in 0 .. MaxTries
      BY <1>0, <2>1, ParametersOK DEF JobOK
    <3>2. Released(j, r) = [j EXCEPT !.st = "queued", !.by = None, !.tries = j.tries - 1]
      BY <1>0, <2>1 DEF Released, Settled, Job
    <3>3. QED  BY <1>0, <3>1, <3>2 DEF JobOK, Job
  <2>2. CASE j.by # r  BY <2>2 DEF Released
  <2>3. QED  BY <2>1, <2>2
<1>4. ASSUME j.tries < MaxTries
      PROVE  JobOK([j EXCEPT !.st = "running", !.by = r, !.tries = @ + 1])
  <2>1. j.tries + 1 \in 0 .. MaxTries /\ j.tries + 1 >= 1  BY <1>0, <1>4
  <2>2. QED  BY <1>0, <2>1 DEF JobOK, Job
<1>5. JobOK([j EXCEPT !.by = IF @ = r THEN None ELSE @])
  BY <1>0 DEF JobOK, Job
<1>6. QED  BY <1>2, <1>3, <1>4, <1>5

\* A run stays a run.
RunOK(e) == e \in Run /\ (e.pc # "idle" => e.a \in Answers)

LEMMA IdleIsRun == RunOK(Idle)
BY DEF RunOK, Run, Idle, NoColumns, Columns, Working, Encoding

\* Replacing one run, one row or one job keeps the types.
LEMMA OneRun ==
    ASSUME Typed, NEW r \in Runs, NEW e, RunOK(e), run' = [run EXCEPT ![r] = e]
    PROVE  run' \in [Runs -> Run] /\ RunsHaveAnswers'
BY DEF Typed, TypeOK, RunsHaveAnswers, RunOK

LEMMA OneJob ==
    ASSUME Typed, NEW a \in Answers, NEW j, JobOK(j), job' = [job EXCEPT ![a] = j]
    PROVE  job' \in [Answers -> Job] /\ JobsAreSpent'
BY DEF Typed, TypeOK, JobsAreSpent, JobOK

\* Writing one column of one answer.
LEMMA OneColumn ==
    ASSUME NEW table \in [Answers -> Row], NEW a \in Answers, NEW s \in Statuses,
           NEW b \in BOOLEAN, NEW m \in SUBSET MetaKeys
    PROVE  /\ [table EXCEPT ![a].status = s] \in [Answers -> Row]
           /\ [table EXCEPT ![a].stale = b] \in [Answers -> Row]
           /\ [table EXCEPT ![a].cols.media = b] \in [Answers -> Row]
           /\ [table EXCEPT ![a].cols.audio = b] \in [Answers -> Row]
           /\ [table EXCEPT ![a].cols.meta = m] \in [Answers -> Row]
           /\ table[a].stale \in BOOLEAN /\ table[a].cols.media \in BOOLEAN
           /\ table[a].cols.audio \in BOOLEAN /\ table[a].cols.meta \in SUBSET MetaKeys
<1>1. table[a] \in Row /\ table[a].cols \in Columns  BY DEF Row
<1>2. \A q \in Row : [table EXCEPT ![a] = q] \in [Answers -> Row]  OBVIOUS
<1>3. \A c \in Columns : /\ [c EXCEPT !.media = b] \in Columns
                         /\ [c EXCEPT !.audio = b] \in Columns
                         /\ [c EXCEPT !.meta = m] \in Columns
  BY DEF Columns
<1>4. \A q \in Row : /\ [q EXCEPT !.status = s] \in Row /\ [q EXCEPT !.stale = b] \in Row
                     /\ \A c \in Columns : [q EXCEPT !.cols = c] \in Row
  BY DEF Row
<1>5. table[a].stale \in BOOLEAN /\ table[a].cols.media \in BOOLEAN
      /\ table[a].cols.audio \in BOOLEAN /\ table[a].cols.meta \in SUBSET MetaKeys
  BY <1>1 DEF Row, Columns
<1>6. QED  BY <1>1, <1>2, <1>3, <1>4, <1>5

LEMMA TypedParts ==
    ASSUME Typed
    PROVE  /\ \A r \in Runs : RunOK(run[r])
           /\ \A a \in Answers : JobOK(job[a]) /\ row[a] \in Row
           /\ \A a \in Answers : /\ row[a].status \in Statuses /\ row[a].stale \in BOOLEAN
                                 /\ row[a].cols \in Columns
                                 /\ row[a] = [status |-> row[a].status, stale |-> row[a].stale,
                                              cols |-> row[a].cols]
BY DEF Typed, TypeOK, RunsHaveAnswers, JobsAreSpent, RunOK, JobOK, Row
-----------------------------------------------------------------------------
(* The type invariant is inductive: the actions of the queue, of a run, of *)
(* the tick and of the purge in turn.                                      *)

Files == Answers \X {"source", "audio", "playback"}

LEMMA QueueKeepsTypes ==
    ASSUME Typed, NEW a \in Answers,
           complete_answer(a) \/ (\E r \in Runs : Load(r, a)) \/ Bury(a)
    PROVE  Typed'
<1> USE TypedParts
<1>1. CASE complete_answer(a)
  <2>1. row' \in [Answers -> Row]
    BY <1>1 DEF complete_answer, Typed, TypeOK, Row, Statuses
  <2>2. JobOK(enqueued(job[a]))  BY JobChanges
  <2>3. job' \in [Answers -> Job] /\ JobsAreSpent'
    BY <1>1, <2>2, OneJob DEF complete_answer, Typed, TypeOK
  <2>4. QED  BY <1>1, <2>1, <2>3 DEF complete_answer, Typed, TypeOK, RunsHaveAnswers
<1>2. ASSUME NEW r \in Runs, Load(r, a) PROVE Typed'
  <2> DEFINE taken == [job[a] EXCEPT !.st = "running", !.by = r, !.tries = @ + 1]
  <2>1. JobOK(taken)
    <3>1. JobOK(job[a]) /\ job[a].tries \in 0 .. MaxTries  BY DEF JobOK, Job
    <3>2. ~OutOfTries(a)  BY <1>2 DEF Load
    <3>3. job[a].tries < MaxTries  BY <3>1, <3>2, ParametersOK DEF OutOfTries
    <3>4. QED  BY <3>1, <3>3, RunsOfJob
  <2>2. JobOK(Succeeded(taken, r))  BY <2>1, RunsOfJob
  <2>3. \/ job' = [job EXCEPT ![a] = taken]
             /\ run' = [run EXCEPT ![r] = [Idle EXCEPT !.pc = "loaded", !.a = a]]
        \/ job' = [job EXCEPT ![a] = Succeeded(taken, r)] /\ UNCHANGED run
    BY <1>2, Zenon DEF Load
  <2> HIDE DEF taken
  <2>4. job' \in [Answers -> Job] /\ JobsAreSpent'
    BY <2>1, <2>2, <2>3, OneJob
  <2>5. RunOK([Idle EXCEPT !.pc = "loaded", !.a = a])
    BY IdleIsRun DEF RunOK, Run
  <2>6. run' \in [Runs -> Run] /\ RunsHaveAnswers'
    BY <2>3, <2>5, OneRun DEF Typed, TypeOK, RunsHaveAnswers
  <2>7. QED  BY <1>2, <2>4, <2>6 DEF Load, Typed, TypeOK
<1>3. CASE Bury(a)
  <2>1. JobOK([job[a] EXCEPT !.st = "none", !.by = None])  BY JobChanges
  <2>2. job' = [job EXCEPT ![a] = [job[a] EXCEPT !.st = "none", !.by = None]]
    BY <1>3 DEF Bury, Typed, TypeOK
  <2>3. job' \in [Answers -> Job] /\ JobsAreSpent'
    BY <2>1, <2>2, OneJob
  <2>4. QED  BY <1>3, <2>3 DEF Bury, Typed, TypeOK, RunsHaveAnswers
<1>4. QED  BY <1>1, <1>2, <1>3

LEMMA RunKeepsTypes ==
    ASSUME Typed, NEW r \in Runs, Advances(r) \/ Cancelled(r) \/ Killed(r)
    PROVE  Typed'
<1> DEFINE a == run[r].a
           e == run[r]
<1> USE TypedParts
<1>0. a \in Answers /\ e.pc # "idle" /\ RunOK(e)
  <2>1. e.pc # "idle"
    BY DEF Advances, claim_answer, OpenSource, extract_audio, remux, NoRemux, SaveMedia, ReadAudio,
           transcribe, Finish, StepFails, Cancelled, Killed, Working, Encoding
  <2>2. QED  BY <2>1 DEF RunOK
<1>1. JobOK(job[a])  BY <1>0
<1>2. JobOK(Succeeded(job[a], r)) /\ JobOK(Failed(job[a], r)) /\ JobOK(Released(job[a], r))
      /\ JobOK([job[a] EXCEPT !.by = IF @ = r THEN None ELSE @])
  BY <1>1, RunsOfJob
\* The columns and the meta of a run, of a row and of both are of their types.
<1>3. e.mem \in Columns /\ e.meta \in SUBSET MetaKeys /\ e.mem.meta \in SUBSET MetaKeys
      /\ e.mem.media \in BOOLEAN /\ e.mem.audio \in BOOLEAN /\ e.torn \in BOOLEAN
      /\ row[a].cols \in Columns /\ row[a].cols.media \in BOOLEAN /\ row[a].cols.audio \in BOOLEAN
      /\ row[a].cols.meta \in SUBSET MetaKeys
      /\ row[a].stale \in BOOLEAN /\ row[a].status \in Statuses
  BY <1>0 DEF RunOK, Run, Columns
<1>4. ASSUME NEW q \in Row, row' = [row EXCEPT ![a] = q] PROVE row' \in [Answers -> Row]
  BY <1>0, <1>4 DEF Typed, TypeOK
<1>5. ASSUME NEW f, RunOK(f), run' = [run EXCEPT ![r] = f] PROVE run' \in [Runs -> Run] /\ RunsHaveAnswers'
  BY <1>5, OneRun
<1>6. ASSUME run' = [run EXCEPT ![r] = Idle] PROVE run' \in [Runs -> Run] /\ RunsHaveAnswers'
  BY <1>6, IdleIsRun, OneRun
<1>7. ASSUME NEW j, JobOK(j), job' = [job EXCEPT ![a] = j]
      PROVE  job' \in [Answers -> Job] /\ JobsAreSpent'
  BY <1>0, <1>7, OneJob
<1>8. row \in [Answers -> Row] /\ run \in [Runs -> Run] /\ job \in [Answers -> Job]
      /\ JobsAreSpent /\ RunsHaveAnswers
  BY DEF Typed, TypeOK
<1>9. \A p \in {"uploaded", "processing", "done", "failed"} : p \in Statuses
  BY DEF Statuses
<1>10. \A p \in Working : e.mem \in Columns => RunOK([e EXCEPT !.pc = p])
  BY <1>0 DEF RunOK, Run
<1>11. {"claimed", "extracting", "extracted", "remuxing", "remuxed", "saved", "hearing", "heard"} \subseteq Working
       /\ {"probed", "playback_key", "purged_at", "stt_model"} = MetaKeys
  BY DEF Working, Encoding, MetaKeys
<1>12. CASE claim_answer(r)
  <2>1. CASE FreeToClaim(a)
    <3>1. row' = [row EXCEPT ![a] = [row[a] EXCEPT !.status = "processing", !.stale = FALSE]]
      BY <1>0, <1>8, <1>12, <2>1 DEF claim_answer
    <3>2. run' = [run EXCEPT ![r] = [run[r] EXCEPT !.pc = "claimed", !.mem = row[a].cols]]
      BY <1>0, <1>8, <1>12, <2>1 DEF claim_answer
    <3>3. [row[a] EXCEPT !.status = "processing", !.stale = FALSE] \in Row
      BY <1>0, <1>3, <1>9 DEF Row
    <3>4. RunOK([run[r] EXCEPT !.pc = "claimed", !.mem = row[a].cols])
      BY <1>0, <1>3, <1>11 DEF Run, RunOK
    <3>5. row' \in [Answers -> Row] /\ run' \in [Runs -> Run] /\ RunsHaveAnswers'
      BY <1>4, <1>5, <3>1, <3>2, <3>3, <3>4
    <3>6. QED  BY <1>8, <1>12, <2>1, <3>5 DEF claim_answer, Typed, TypeOK, JobsAreSpent
  <2>2. CASE ~FreeToClaim(a)
    <3>1. job' \in [Answers -> Job] /\ JobsAreSpent'
      BY <1>2, <1>7, <1>12, <2>2 DEF claim_answer
    <3>2. run' = [run EXCEPT ![r] = Idle]  BY <1>12, <2>2 DEF claim_answer
    <3>3. QED  BY <1>6, <1>12, <2>2, <3>1, <3>2 DEF claim_answer, Typed, TypeOK
  <2>3. QED  BY <2>1, <2>2
<1>13. CASE OpenSource(r)
  <2> DEFINE f == [e EXCEPT !.pc = "extracting", !.torn = FALSE,
                            !.meta = (e.mem.meta \ _REBUILT_META_KEYS) \cup {"probed"}]
             g == [e EXCEPT !.pc = "remuxing", !.torn = FALSE]
  <2>1. (e.mem.meta \ _REBUILT_META_KEYS) \cup {"probed"} \in SUBSET MetaKeys
    BY <1>3, <1>11
  <2>2. RunOK(f) /\ RunOK(g)
    BY <1>0, <1>11, <2>1 DEF RunOK, Run
  <2>3. run' = [run EXCEPT ![r] = f] \/ run' = [run EXCEPT ![r] = g]
    BY <1>8, <1>13 DEF OpenSource
  <2> HIDE DEF f, g
  <2>4. run' \in [Runs -> Run] /\ RunsHaveAnswers'  BY <1>5, <2>2, <2>3
  <2>5. QED  BY <1>13, <2>4 DEF OpenSource, Typed, TypeOK, JobsAreSpent
<1>14. CASE extract_audio(r)
  <2>1. row' = [row EXCEPT ![a] = [row[a] EXCEPT !.stale = FALSE]]
    BY <1>0, <1>8, <1>14 DEF extract_audio
  <2>2. [row[a] EXCEPT !.stale = FALSE] \in Row  BY <1>0, <1>3 DEF Row
  <2>3. run' = [run EXCEPT ![r] = [e EXCEPT !.pc = "extracted"]]
    BY <1>8, <1>14 DEF extract_audio
  <2>4. RunOK([e EXCEPT !.pc = "extracted"])  BY <1>3, <1>10, <1>11
  <2>5. row' \in [Answers -> Row] /\ run' \in [Runs -> Run] /\ RunsHaveAnswers'
    BY <1>4, <1>5, <2>1, <2>2, <2>3, <2>4
  <2>6. files' \in SUBSET Files  BY <1>0, <1>14 DEF extract_audio, File, Files, Typed, TypeOK
  <2>7. QED  BY <1>14, <2>5, <2>6 DEF extract_audio, Typed, TypeOK, Files, JobsAreSpent
<1>15. CASE remux(r)
  <2> DEFINE f == [e EXCEPT !.pc = "remuxed", !.meta = @ \cup {"playback_key"}]
  <2>1. run' = [run EXCEPT ![r] = f]  BY <1>8, <1>15 DEF remux
  <2>2. e.meta \cup {"playback_key"} \in SUBSET MetaKeys  BY <1>3, <1>11
  <2>3. RunOK(f)  BY <1>0, <1>11, <2>2 DEF RunOK, Run
  <2> HIDE DEF f
  <2>4. run' \in [Runs -> Run] /\ RunsHaveAnswers'  BY <1>5, <2>1, <2>3
  <2>5. files' \in SUBSET Files  BY <1>0, <1>15 DEF remux, File, Files, Typed, TypeOK
  <2>6. QED  BY <1>15, <2>4, <2>5 DEF remux, Typed, TypeOK, Files, JobsAreSpent
<1>16. CASE NoRemux(r) \/ ReadAudio(r)
  <2>1. PICK p \in {"remuxed", "hearing"} : run' = [run EXCEPT ![r] = [e EXCEPT !.pc = p]]
    BY <1>8, <1>16 DEF NoRemux, ReadAudio
  <2>2. RunOK([e EXCEPT !.pc = p])  BY <1>3, <1>10, <1>11
  <2>3. run' \in [Runs -> Run] /\ RunsHaveAnswers'  BY <1>5, <2>1, <2>2
  <2>4. QED  BY <1>16, <2>3 DEF NoRemux, ReadAudio, Typed, TypeOK, JobsAreSpent
<1>17. CASE SaveMedia(r)
  <2> DEFINE new == [e.mem EXCEPT !.audio = TRUE, !.meta = e.meta]
             x == row[a].cols.audio \/ ~e.mem.audio
             m == IF new.meta = e.mem.meta THEN row[a].cols.meta ELSE new.meta
             b == row[a].stale /\ new = e.mem
  <2>1. new \in Columns /\ new.meta \in SUBSET MetaKeys  BY <1>3 DEF Columns
  <2>2. row' = [row EXCEPT ![a].cols.audio = x, ![a].cols.meta = m, ![a].stale = b]
    BY <1>17, Zenon DEF SaveMedia
  <2>3. run' = [run EXCEPT ![r] = [e EXCEPT !.pc = "saved", !.mem = new]]
    BY <1>8, <1>17 DEF SaveMedia
  <2>4. RunOK([e EXCEPT !.pc = "saved", !.mem = new])
    BY <1>0, <1>11, <2>1 DEF RunOK, Run
  <2>5. x \in BOOLEAN /\ b \in BOOLEAN /\ m \in SUBSET MetaKeys
    BY <1>3, <2>1
  <2> HIDE DEF x, m, b
  <2>6. [row EXCEPT ![a].cols.audio = x, ![a].cols.meta = m, ![a].stale = b] \in [Answers -> Row]
    <3> DEFINE f == [row EXCEPT ![a].cols.audio = x]
               g == [f EXCEPT ![a].cols.meta = m]
    <3>1. f \in [Answers -> Row]  BY <1>0, <1>3, <1>8, <2>5, OneColumn
    <3>2. g \in [Answers -> Row]
      <4> HIDE DEF f
      <4> QED  BY <1>0, <1>3, <1>8, <2>5, <3>1, OneColumn
    <3>3. [g EXCEPT ![a].stale = b] \in [Answers -> Row]
      <4> HIDE DEF g
      <4> QED  BY <1>0, <1>3, <1>8, <2>5, <3>2, OneColumn
    <3>4. QED  BY <3>3
  <2> HIDE DEF new
  <2>7. row' \in [Answers -> Row] /\ run' \in [Runs -> Run] /\ RunsHaveAnswers'
    BY <1>5, <2>2, <2>3, <2>4, <2>6
  <2>8. QED  BY <1>17, <2>7 DEF SaveMedia, Typed, TypeOK, JobsAreSpent
<1>18. CASE transcribe(r)
  <2> DEFINE purged == "purged_at" \in row[a].cols.meta
             m == IF purged THEN ((e.meta \cup {"stt_model"}) \ {"playback_key"}) \cup {"purged_at"}
                            ELSE e.meta \cup {"stt_model"}
  <2>1. run' = [run EXCEPT ![r] = [e EXCEPT !.pc = "heard", !.meta = m]]
    BY <1>8, <1>18 DEF transcribe
  <2>2. m \in SUBSET MetaKeys  BY <1>3, <1>11
  <2>3. files' \in SUBSET Files  BY <1>18 DEF transcribe, Files, Typed, TypeOK
  <2> HIDE DEF m
  <2>4. RunOK([e EXCEPT !.pc = "heard", !.meta = m])
    BY <1>0, <1>11, <2>2 DEF RunOK, Run
  <2>5. run' \in [Runs -> Run] /\ RunsHaveAnswers'  BY <1>5, <2>1, <2>4
  <2>6. QED  BY <1>18, <2>3, <2>5 DEF transcribe, Typed, TypeOK, Files, JobsAreSpent
<1>19. CASE Finish(r)
  <2> DEFINE purged == "purged_at" \in e.meta
             x == row[a].cols.media /\ ~(purged /\ e.mem.media)
             y == row[a].cols.audio /\ ~purged
  <2>1. row' = [row EXCEPT ![a].status = "done", ![a].stale = FALSE, ![a].cols.meta = e.meta,
                           ![a].cols.media = x, ![a].cols.audio = y]
    BY <1>19, Zenon DEF Finish
  <2>2. x \in BOOLEAN /\ y \in BOOLEAN  OBVIOUS
  <2> HIDE DEF x, y
  <2>3. [row EXCEPT ![a].status = "done", ![a].stale = FALSE, ![a].cols.meta = e.meta,
                    ![a].cols.media = x, ![a].cols.audio = y] \in [Answers -> Row]
    <3> DEFINE f == [row EXCEPT ![a].status = "done", ![a].stale = FALSE, ![a].cols.meta = e.meta]
               g == [f EXCEPT ![a].cols.media = x, ![a].cols.audio = y]
    <3>1. f \in [Answers -> Row]  BY <1>0, <1>3, <1>8, <1>9, OneColumn
    <3>2. g \in [Answers -> Row]
      <4> HIDE DEF f
      <4> QED  BY <1>0, <1>3, <1>9, <2>2, <3>1, OneColumn
    <3>3. QED  BY <3>2
  <2>4. job' \in [Answers -> Job] /\ JobsAreSpent'  BY <1>2, <1>7, <1>19 DEF Finish
  <2>5. row' \in [Answers -> Row] /\ run' \in [Runs -> Run] /\ RunsHaveAnswers'
    BY <1>6, <1>19, <2>1, <2>3 DEF Finish
  <2>6. QED  BY <1>19, <2>4, <2>5 DEF Finish, Typed, TypeOK
<1>20. CASE StepFails(r)
  <2>1. row' = [row EXCEPT ![a] = [row[a] EXCEPT !.status = "failed", !.stale = FALSE]]
    BY <1>0, <1>8, <1>20 DEF StepFails
  <2>2. [row[a] EXCEPT !.status = "failed", !.stale = FALSE] \in Row  BY <1>0, <1>9 DEF Row
  <2>3. job' \in [Answers -> Job] /\ JobsAreSpent'  BY <1>2, <1>7, <1>20 DEF StepFails
  <2>4. row' \in [Answers -> Row] /\ run' \in [Runs -> Run] /\ RunsHaveAnswers'
    BY <1>4, <1>6, <1>20, <2>1, <2>2 DEF StepFails
  <2>5. QED  BY <1>20, <2>3, <2>4 DEF StepFails, Typed, TypeOK
<1>21. CASE Cancelled(r)
  <2>1. [row[a] EXCEPT !.status = "uploaded", !.stale = FALSE] \in Row  BY <1>0, <1>9 DEF Row
  <2>2. row' = [row EXCEPT ![a] = [row[a] EXCEPT !.status = "uploaded", !.stale = FALSE]] \/ row' = row
    BY <1>0, <1>8, <1>21 DEF Cancelled, _mark_interrupted
  <2>3. row' \in [Answers -> Row]  BY <1>4, <1>8, <2>1, <2>2
  <2>4. job' \in [Answers -> Job] /\ JobsAreSpent'  BY <1>2, <1>7, <1>21 DEF Cancelled
  <2>5. run' \in [Runs -> Run] /\ RunsHaveAnswers'  BY <1>6, <1>21 DEF Cancelled
  <2>6. breaks' \in Nat  BY <1>21 DEF Cancelled, Typed, TypeOK
  <2>7. QED  BY <1>21, <2>3, <2>4, <2>5, <2>6 DEF Cancelled, Typed, TypeOK
<1>22. CASE Killed(r)
  <2>1. job' = [job EXCEPT ![a] = [job[a] EXCEPT !.by = IF @ = r THEN None ELSE @]]
    BY <1>0, <1>8, <1>22 DEF Killed
  <2>2. job' \in [Answers -> Job] /\ JobsAreSpent'  BY <1>2, <1>7, <2>1
  <2>3. run' \in [Runs -> Run] /\ RunsHaveAnswers'  BY <1>6, <1>22 DEF Killed
  <2>4. breaks' \in Nat  BY <1>22 DEF Killed, Typed, TypeOK
  <2>5. QED  BY <1>22, <2>2, <2>3, <2>4 DEF Killed, Typed, TypeOK
<1>23. QED
  BY <1>12, <1>13, <1>14, <1>15, <1>16, <1>17, <1>18, <1>19, <1>20, <1>21, <1>22 DEF Advances

LEMMA TickKeepsTypes ==
    ASSUME Typed, (\E a \in Answers : GoesStale(a)) \/ SelectStale \/ requeue_stale_answers
    PROVE  Typed'
<1> USE TypedParts
<1>1. ASSUME NEW a \in Answers, GoesStale(a) PROVE Typed'
  <2>1. row' \in [Answers -> Row]  BY <1>1 DEF GoesStale, Typed, TypeOK, Row
  <2>2. QED  BY <1>1, <2>1 DEF GoesStale, Typed, TypeOK, RunsHaveAnswers, JobsAreSpent
<1>2. CASE SelectStale
  <2>1. tick' \in SUBSET Answers  BY <1>2 DEF SelectStale, Selected
  <2>2. QED  BY <1>2, <2>1 DEF SelectStale, Typed, TypeOK, RunsHaveAnswers, JobsAreSpent
<1>3. CASE requeue_stale_answers
  <2>1. row' \in [Answers -> Row]
    <3>1. \A a \in Answers : [row[a] EXCEPT !.status = "uploaded", !.stale = FALSE] \in Row
      BY DEF Row, Statuses
    <3>2. QED  BY <1>3, <3>1 DEF requeue_stale_answers
  <2>2. job' \in [Answers -> Job] /\ JobsAreSpent'
    <3>1. \A a \in Answers : JobOK(enqueued(job[a])) /\ JobOK(job[a])
      BY JobChanges
    <3>2. job' = [a \in Answers |-> IF a \in tick THEN enqueued(job[a]) ELSE job[a]]
      BY <1>3 DEF requeue_stale_answers
    <3>3. QED  BY <3>1, <3>2 DEF JobOK, JobsAreSpent
  <2>3. tick' \in SUBSET Answers  BY <1>3 DEF requeue_stale_answers
  <2>4. QED  BY <1>3, <2>1, <2>2, <2>3 DEF requeue_stale_answers, Typed, TypeOK, RunsHaveAnswers
<1>4. QED  BY <1>1, <1>2, <1>3

LEMMA NoPurgeType == NoPurge \in Purge /\ NoColumns \in Columns
BY DEF NoPurge, Purge, NoColumns, Columns

LEMMA RetentionKeepsTypes ==
    ASSUME Typed, RetentionEnds \/ PurgeStep \/ PurgeDies
    PROVE  Typed'
<1> USE TypedParts
<1>0. purge \in Purge  BY DEF Typed, TypeOK
<1>1. CASE RetentionEnds
  BY <1>1 DEF RetentionEnds, Typed, TypeOK, RunsHaveAnswers, JobsAreSpent
<1>2. CASE PurgeBegins
  <2>1. purge' \in Purge  BY <1>2 DEF PurgeBegins, Purge
  <2>2. QED  BY <1>2, <2>1 DEF PurgeBegins, Typed, TypeOK, RunsHaveAnswers, JobsAreSpent
<1>3. ASSUME NEW a \in Answers, PurgeFiles(a) PROVE Typed'
  <2>1. purge' \in Purge  BY <1>0, <1>3 DEF PurgeFiles, Purge
  <2>2. files' \in SUBSET Files  BY <1>3 DEF PurgeFiles, Files, Typed, TypeOK
  <2>3. QED  BY <1>3, <2>1, <2>2 DEF PurgeFiles, Files, Typed, TypeOK, RunsHaveAnswers, JobsAreSpent
<1>4. CASE delete_prefix
  <2>1. purge' \in Purge  BY <1>0, <1>4 DEF delete_prefix, Purge
  <2>2. files' \in SUBSET Files  BY <1>4 DEF delete_prefix, Files, Typed, TypeOK
  <2>3. run' \in [Runs -> Run] /\ RunsHaveAnswers'
    <3>1. ASSUME NEW r \in Runs PROVE RunOK([run[r] EXCEPT !.torn = run[r].pc \in Encoding])
      <4>1. (run[r].pc \in Encoding) \in BOOLEAN  OBVIOUS
      <4>2. \A b \in BOOLEAN : RunOK([run[r] EXCEPT !.torn = b])  BY DEF RunOK, Run
      <4>3. QED  BY <4>1, <4>2
    <3>2. \A r \in Runs : RunOK(run'[r])
      BY <1>4, <3>1 DEF delete_prefix, Typed, TypeOK
    <3>3. run' = [r \in Runs |-> run'[r]]  BY <1>4 DEF delete_prefix, Typed, TypeOK
    <3>4. QED  BY <3>2, <3>3 DEF RunOK, RunsHaveAnswers
  <2>4. QED  BY <1>4, <2>1, <2>2, <2>3 DEF delete_prefix, Files, Typed, TypeOK, JobsAreSpent
<1>5. CASE PurgeCommits
  <2>1. ASSUME NEW a \in Answers
        PROVE  [row[a] EXCEPT
                  !.cols.media = @ /\ ~purge.snap[a].media,
                  !.cols.audio = @ /\ ~purge.snap[a].audio,
                  !.cols.meta = (purge.snap[a].meta \ {"playback_key"}) \cup {"purged_at"},
                  !.stale = FALSE] \in Row
    <3> DEFINE x == row[a].cols.media /\ ~purge.snap[a].media
               y == row[a].cols.audio /\ ~purge.snap[a].audio
               m == (purge.snap[a].meta \ {"playback_key"}) \cup {"purged_at"}
    <3>1. x \in BOOLEAN /\ y \in BOOLEAN  OBVIOUS
    <3>2. m \in SUBSET MetaKeys  BY <1>0 DEF Purge, Columns, MetaKeys
    <3> HIDE DEF x, y, m
    <3>3. \A q \in Row : /\ [q EXCEPT !.cols.media = x] \in Row /\ [q EXCEPT !.cols.audio = y] \in Row
                         /\ [q EXCEPT !.cols.meta = m] \in Row /\ [q EXCEPT !.stale = FALSE] \in Row
      BY <3>1, <3>2 DEF Row, Columns
    <3>4. [row[a] EXCEPT !.cols.media = x, !.cols.audio = y, !.cols.meta = m, !.stale = FALSE] \in Row
      BY <3>3
    <3>5. QED  BY <3>4 DEF x, y, m
  <2>2. row' \in [Answers -> Row]  BY <1>5, <2>1 DEF PurgeCommits
  <2>3. QED
    BY <1>5, <2>2, NoPurgeType DEF PurgeCommits, Typed, TypeOK, RunsHaveAnswers, JobsAreSpent
<1>6. CASE PurgeDies
  BY <1>6, NoPurgeType DEF PurgeDies, Typed, TypeOK, RunsHaveAnswers, JobsAreSpent
<1>7. QED  BY <1>1, <1>2, <1>3, <1>4, <1>5, <1>6 DEF PurgeStep

LEMMA TypeStep == ASSUME Typed, [Next]_vars PROVE Typed'
<1>1. CASE UNCHANGED vars
  BY <1>1 DEF vars, Typed, TypeOK, RunsHaveAnswers, JobsAreSpent
<1>2. QED
  BY <1>1, QueueKeepsTypes, RunKeepsTypes, TickKeepsTypes, RetentionKeepsTypes DEF Next

LEMMA TypeInit == Init => Typed
<1> SUFFICES ASSUME Init PROVE Typed  OBVIOUS
<1>1. row \in [Answers -> Row]
  <2>1. [NoColumns EXCEPT !.media = TRUE] \in Columns  BY DEF NoColumns, Columns
  <2>2. QED  BY <2>1 DEF Init, Row, Statuses
<1>2. job \in [Answers -> Job] /\ JobsAreSpent
  BY ZeroIsNumber DEF Init, Job, JobsAreSpent
<1>3. run \in [Runs -> Run] /\ RunsHaveAnswers
  BY IdleIsRun DEF Init, RunsHaveAnswers, RunOK
<1>4. QED  BY <1>1, <1>2, <1>3, ZeroIsNumber, NoPurgeType DEF Init, Typed, TypeOK

\* The rows, the jobs and the runs keep their types, whatever is lost, killed or purged.
THEOREM TypeCorrect == Spec => []TypeOK
<1>1. Typed /\ [Next]_vars => Typed'  BY TypeStep
<1>2. Typed => TypeOK  BY DEF Typed
<1>3. QED  BY TypeInit, <1>1, <1>2, PTL DEF Spec
-----------------------------------------------------------------------------
(* One run at a time.  While nothing was killed or stopped, an answer in   *)
(* processing is one a run works on; so none grows stale, the tick finds   *)
(* nothing, and no second run can take an answer that is being worked on.  *)

AtWork(r, a) == run[r].pc \in Working /\ run[r].a = a

WorkIsMarked ==
    /\ tick = {}
    /\ \A a \in Answers : ~row[a].stale
    /\ \A a \in Answers : row[a].status = "processing" <=> \E r \in Runs : AtWork(r, a)
    /\ \A q, r \in Runs, a \in Answers : AtWork(q, a) /\ AtWork(r, a) => q = r

Undisturbed == breaks = 0 => WorkIsMarked

\* A step by which nobody begins or ends work, and which leaves the marks alone.
LEMMA WorkGoesOn ==
    ASSUME Typed, WorkIsMarked, tick' = {},
           \A a \in Answers : /\ row'[a].status = "processing" <=> row[a].status = "processing"
                              /\ ~row'[a].stale,
           \A r \in Runs, a \in Answers : AtWork(r, a)' <=> AtWork(r, a)
    PROVE  WorkIsMarked'
BY DEF WorkIsMarked

\* A step that ends the work of run r and takes the mark off its answer.
LEMMA WorkEnds ==
    ASSUME Typed, WorkIsMarked, NEW r \in Runs, NEW a \in Answers, AtWork(r, a), tick' = {},
           run' = [run EXCEPT ![r] = Idle],
           row'[a].status # "processing", ~row'[a].stale,
           \A b \in Answers \ {a} : row'[b] = row[b]
    PROVE  WorkIsMarked'
<1>1. \A q \in Runs, b \in Answers : AtWork(q, b)' <=> AtWork(q, b) /\ q # r
  BY DEF AtWork, Idle, Working, Encoding, Typed, TypeOK
<1>2. QED  BY <1>1 DEF WorkIsMarked, AtWork

\* A step of run r that stays at work on its answer.
LEMMA SameWork ==
    ASSUME Typed, WorkIsMarked, NEW r \in Runs, NEW e, run' = [run EXCEPT ![r] = e],
           e.a = run[r].a, run[r].pc \in Working <=> e.pc \in Working, tick' = {},
           \A a \in Answers : row'[a].status = row[a].status /\ ~row'[a].stale
    PROVE  WorkIsMarked'
<1>1. \A q \in Runs, a \in Answers : AtWork(q, a)' <=> AtWork(q, a)
  BY DEF AtWork, Typed, TypeOK
<1>2. QED  BY <1>1, WorkGoesOn

LEMMA AdvancesMark ==
    ASSUME Typed, WorkIsMarked, NEW r \in Runs, Advances(r)
    PROVE  WorkIsMarked'
<1> DEFINE a == run[r].a
           e == run[r]
<1>0. /\ row \in [Answers -> Row] /\ run \in [Runs -> Run] /\ e \in Run
      /\ tick = {} /\ \A b \in Answers : ~row[b].stale /\ row[b] \in Row
      /\ e.pc # "idle" => a \in Answers
  BY DEF Typed, TypeOK, RunsHaveAnswers, WorkIsMarked
<1>1. tick' = {}
  BY <1>0 DEF Advances, claim_answer, OpenSource, extract_audio, remux, NoRemux, SaveMedia, ReadAudio,
              transcribe, Finish, StepFails
<1>2. {"claimed", "extracting", "extracted", "remuxing", "remuxed", "saved", "hearing", "heard"} = Working
      /\ "idle" \notin Working /\ "loaded" \notin Working
  BY DEF Working, Encoding
<1>3. CASE claim_answer(r) /\ FreeToClaim(a)
  <2>1. a \in Answers  BY <1>0, <1>3 DEF claim_answer
  <2>2. row[a].status # "processing"
    BY <1>0, <1>3, <2>1 DEF FreeToClaim, Abandoned, PROCESSABLE_STATUSES
  <2>3. \A q \in Runs : ~AtWork(q, a)  BY <2>1, <2>2 DEF WorkIsMarked
  <2>4. /\ row'[a].status = "processing" /\ ~row'[a].stale
        /\ \A b \in Answers \ {a} : row'[b] = row[b]
    BY <1>0, <1>3, <2>1 DEF claim_answer, Row
  <2>5. \A q \in Runs, b \in Answers : AtWork(q, b)' <=> AtWork(q, b) \/ (q = r /\ b = a)
    BY <1>0, <1>2, <1>3 DEF claim_answer, AtWork, Run
  <2>6. QED  BY <1>1, <2>1, <2>3, <2>4, <2>5 DEF WorkIsMarked
<1>4. CASE claim_answer(r) /\ ~FreeToClaim(a)
  <2>1. run' = [run EXCEPT ![r] = Idle] /\ UNCHANGED row /\ e.pc = "loaded"
    BY <1>4 DEF claim_answer
  <2>2. \A q \in Runs, b \in Answers : AtWork(q, b)' <=> AtWork(q, b)
    BY <1>0, <1>2, <2>1 DEF AtWork, Idle
  <2>3. QED  BY <1>0, <1>1, <2>1, <2>2, WorkGoesOn
<1>5. ASSUME NEW p \in Working, e.pc \in Working, NEW f, f.a = a, f.pc = p, run' = [run EXCEPT ![r] = f],
             \A b \in Answers : row'[b].status = row[b].status /\ ~row'[b].stale
      PROVE  WorkIsMarked'
  BY <1>1, <1>5, SameWork
<1>6. CASE OpenSource(r)
  <2> DEFINE f == [e EXCEPT !.pc = "extracting", !.torn = FALSE,
                            !.meta = (e.mem.meta \ _REBUILT_META_KEYS) \cup {"probed"}]
             g == [e EXCEPT !.pc = "remuxing", !.torn = FALSE]
  <2>1. f.a = a /\ f.pc = "extracting" /\ g.a = a /\ g.pc = "remuxing"  BY <1>0 DEF Run
  <2>2. run' = [run EXCEPT ![r] = f] \/ run' = [run EXCEPT ![r] = g]
    BY <1>0, <1>6 DEF OpenSource
  <2>3. e.pc \in Working /\ UNCHANGED row  BY <1>2, <1>6 DEF OpenSource
  <2> HIDE DEF f, g
  <2>4. QED  BY <1>0, <1>2, <1>5, <2>1, <2>2, <2>3
<1>7. CASE extract_audio(r)
  <2> DEFINE f == [e EXCEPT !.pc = "extracted"]
  <2>1. f.a = a /\ f.pc = "extracted"  BY <1>0 DEF Run
  <2>2. run' = [run EXCEPT ![r] = f] /\ e.pc \in Working  BY <1>0, <1>2, <1>7 DEF extract_audio
  <2>3. \A b \in Answers : row'[b].status = row[b].status /\ ~row'[b].stale
    BY <1>0, <1>7 DEF extract_audio, Row
  <2> HIDE DEF f
  <2>4. QED  BY <1>2, <1>5, <2>1, <2>2, <2>3
<1>8. CASE remux(r)
  <2> DEFINE f == [e EXCEPT !.pc = "remuxed", !.meta = @ \cup {"playback_key"}]
  <2>1. f.a = a /\ f.pc = "remuxed"  BY <1>0 DEF Run
  <2>2. run' = [run EXCEPT ![r] = f] /\ e.pc \in Working /\ UNCHANGED row
    BY <1>0, <1>2, <1>8 DEF remux
  <2> HIDE DEF f
  <2>3. QED  BY <1>0, <1>2, <1>5, <2>1, <2>2
<1>9. CASE NoRemux(r) \/ ReadAudio(r)
  BY <1>0, <1>2, <1>5, <1>9 DEF NoRemux, ReadAudio, Run
<1>10. CASE SaveMedia(r)
  <2> DEFINE new == [e.mem EXCEPT !.audio = TRUE, !.meta = e.meta]
             f == [e EXCEPT !.pc = "saved", !.mem = new]
  <2>1. f.a = a /\ f.pc = "saved"  BY <1>0 DEF Run
  <2>2. run' = [run EXCEPT ![r] = f]  BY <1>0, <1>10 DEF SaveMedia
  <2>3. \A b \in Answers : row'[b].status = row[b].status /\ ~row'[b].stale
    <3> DEFINE x == row[a].cols.audio \/ ~e.mem.audio
               m == IF new.meta = e.mem.meta THEN row[a].cols.meta ELSE new.meta
               old == row[a].stale /\ new = e.mem
    <3>1. row' = [row EXCEPT ![a].cols.audio = x, ![a].cols.meta = m, ![a].stale = old]
      BY <1>10, Zenon DEF SaveMedia
    <3>2. a \in Answers /\ ~old  BY <1>0, <1>2, <1>10 DEF SaveMedia
    <3> HIDE DEF x, m, old
    <3>3. row'[a].status = row[a].status /\ row'[a].stale = old  BY <1>0, <3>1, <3>2 DEF Row
    <3>4. \A b \in Answers \ {a} : row'[b] = row[b]  BY <1>0, <3>1
    <3>5. QED  BY <1>0, <3>2, <3>3, <3>4
  <2>4. e.pc \in Working  BY <1>2, <1>10 DEF SaveMedia
  <2> HIDE DEF f
  <2>5. QED  BY <1>2, <1>5, <2>1, <2>2, <2>3, <2>4
<1>11. CASE transcribe(r)
  <2>1. PICK m : run' = [run EXCEPT ![r] = [e EXCEPT !.pc = "heard", !.meta = m]]
    BY <1>0, <1>11 DEF transcribe
  <2> DEFINE f == [e EXCEPT !.pc = "heard", !.meta = m]
  <2>2. f.a = a /\ f.pc = "heard"  BY <1>0 DEF Run
  <2>3. e.pc \in Working /\ UNCHANGED row  BY <1>2, <1>11 DEF transcribe
  <2> HIDE DEF f
  <2>4. QED  BY <1>0, <1>2, <1>5, <2>1, <2>2, <2>3 DEF f
<1>12. CASE Finish(r) \/ StepFails(r)
  <2>1. e.pc \in Working /\ a \in Answers /\ AtWork(r, a)
    BY <1>0, <1>2, <1>12 DEF Finish, StepFails, AtWork
  <2>2. run' = [run EXCEPT ![r] = Idle]  BY <1>12 DEF Finish, StepFails
  <2>3. row'[a].status # "processing" /\ ~row'[a].stale /\ \A b \in Answers \ {a} : row'[b] = row[b]
    <3>1. row[a] \in Row /\ a \in DOMAIN row  BY <1>0, <2>1
    <3>2. CASE Finish(r)
      <4>1. row'[a].status = "done" /\ row'[a].stale = FALSE  BY <3>1, <3>2 DEF Finish, Row
      <4>2. \A b \in Answers \ {a} : row'[b] = row[b]  BY <1>0, <3>2 DEF Finish
      <4>3. QED  BY <4>1, <4>2
    <3>3. CASE StepFails(r)
      <4>1. row'[a].status = "failed" /\ row'[a].stale = FALSE  BY <3>1, <3>3 DEF StepFails, Row
      <4>2. \A b \in Answers \ {a} : row'[b] = row[b]  BY <1>0, <3>3 DEF StepFails
      <4>3. QED  BY <4>1, <4>2
    <3>4. QED  BY <1>12, <3>2, <3>3
  <2>4. QED  BY <1>1, <2>1, <2>2, <2>3, WorkEnds
<1>13. QED
  BY <1>3, <1>4, <1>6, <1>7, <1>8, <1>9, <1>10, <1>11, <1>12 DEF Advances

LEMMA MarkStep ==
    ASSUME Typed, Undisturbed, ~SlowSteps, [Next]_vars
    PROVE  Undisturbed'
<1> SUFFICES ASSUME breaks' = 0 PROVE WorkIsMarked'  BY DEF Undisturbed
<1>0. /\ row \in [Answers -> Row] /\ run \in [Runs -> Run] /\ breaks \in Nat
      /\ \A b \in Answers : row[b] \in Row /\ row[b].cols \in Columns
      /\ \A r \in Runs : run[r] \in Run /\ (run[r].pc # "idle" => run[r].a \in Answers)
  BY DEF Typed, TypeOK, RunsHaveAnswers, Row
<1>1. breaks = 0
  <2>1. breaks' = breaks + 1 \/ breaks' = breaks
    <3>1. ASSUME NEW a \in Answers, complete_answer(a) \/ Bury(a) \/ GoesStale(a) PROVE breaks' = breaks
      BY <3>1 DEF complete_answer, Bury, GoesStale
    <3>2. ASSUME NEW r \in Runs, Advances(r) PROVE breaks' = breaks
      BY <3>2 DEF Advances, claim_answer, OpenSource, extract_audio, remux, NoRemux, SaveMedia, ReadAudio,
                  transcribe, Finish, StepFails
    <3>3. ASSUME NEW r \in Runs, Cancelled(r) \/ Killed(r) PROVE breaks' = breaks + 1 \/ breaks' = breaks
      BY <3>3 DEF Cancelled, Killed
    <3>4. ASSUME NEW r \in Runs, NEW a \in Answers, Load(r, a) PROVE breaks' = breaks
      BY <3>4 DEF Load
    <3>5. SelectStale \/ requeue_stale_answers \/ RetentionEnds \/ PurgeStep => breaks' = breaks
      BY DEF SelectStale, requeue_stale_answers, RetentionEnds, PurgeStep, PurgeBegins, PurgeFiles,
             delete_prefix, PurgeCommits
    <3>6. PurgeDies => breaks' = breaks + 1  BY DEF PurgeDies
    <3>7. QED  BY <3>1, <3>2, <3>3, <3>4, <3>5, <3>6 DEF Next, vars
  <2>2. QED  BY <1>0, <2>1
<1>2. WorkIsMarked /\ tick = {} /\ \A a \in Answers : ~row[a].stale
  BY <1>1 DEF Undisturbed, WorkIsMarked
<1>3. {"claimed", "extracting", "extracted", "remuxing", "remuxed", "saved", "hearing", "heard"} = Working
      /\ "idle" \notin Working /\ "loaded" \notin Working
  BY DEF Working, Encoding
<1>4. ASSUME NEW a \in Answers, complete_answer(a) PROVE WorkIsMarked'
  <2>1. \A r \in Runs, b \in Answers : AtWork(r, b)' <=> AtWork(r, b)
    BY <1>4 DEF complete_answer, AtWork
  <2>2. \A b \in Answers : /\ row'[b].status = "processing" <=> row[b].status = "processing"
                           /\ ~row'[b].stale
    BY <1>0, <1>2, <1>4 DEF complete_answer, Row
  <2>3. QED  BY <1>2, <1>4, <2>1, <2>2, WorkGoesOn DEF complete_answer
<1>5. ASSUME NEW r \in Runs, NEW a \in Answers, Load(r, a) PROVE WorkIsMarked'
  <2>1. run[r].pc = "idle" /\ UNCHANGED <<row, tick>>  BY <1>5 DEF Load
  <2>2. run' = [run EXCEPT ![r] = [Idle EXCEPT !.pc = "loaded", !.a = a]] \/ run' = run
    BY <1>5 DEF Load
  <2>3. \A q \in Runs, b \in Answers : AtWork(q, b)' <=> AtWork(q, b)
    BY <1>0, <1>3, <2>1, <2>2 DEF AtWork, Idle
  <2>4. QED  BY <1>2, <2>1, <2>3, WorkGoesOn
<1>6. ASSUME NEW a \in Answers, GoesStale(a) PROVE FALSE
  <2>1. PICK r \in Runs : AtWork(r, a)  BY <1>2, <1>6 DEF GoesStale, WorkIsMarked
  <2>2. QED  BY <1>6, <2>1 DEF GoesStale, AtWork
<1>7. ~SelectStale /\ ~requeue_stale_answers
  BY <1>2 DEF SelectStale, Selected, Abandoned, requeue_stale_answers
<1>8. ASSUME NEW r \in Runs, Cancelled(r) PROVE WorkIsMarked'
  <2> DEFINE a == run[r].a
  <2>1. a \in Answers /\ run[r].pc # "idle" /\ run' = [run EXCEPT ![r] = Idle] /\ tick' = {}
    BY <1>0, <1>2, <1>8 DEF Cancelled
  <2>2. row' = _mark_interrupted(a, r)  BY <1>8 DEF Cancelled
  <2>3. CASE AtWork(r, a)
    <3>1. row[a].status = "processing"  BY <1>2, <2>1, <2>3 DEF WorkIsMarked
    <3>2. row'[a].status # "processing" /\ ~row'[a].stale /\ \A b \in Answers \ {a} : row'[b] = row[b]
      BY <1>0, <2>1, <2>2, <2>3, <3>1 DEF _mark_interrupted, AtWork, Row
    <3>3. QED  BY <1>2, <2>1, <2>3, <3>2, WorkEnds
  <2>4. CASE ~AtWork(r, a)
    <3>1. row' = row  BY <2>2, <2>4 DEF _mark_interrupted, AtWork
    <3>2. \A q \in Runs, b \in Answers : AtWork(q, b)' <=> AtWork(q, b)
      BY <1>0, <1>3, <2>1, <2>4 DEF AtWork, Idle
    <3>3. QED  BY <1>2, <2>1, <3>1, <3>2, WorkGoesOn
  <2>5. QED  BY <2>3, <2>4
<1>9. ASSUME NEW r \in Runs, Killed(r) PROVE FALSE
  BY <1>0, <1>1, <1>9 DEF Killed
<1>10. CASE RetentionEnds \/ PurgeStep \/ PurgeDies
  <2>1. \A r \in Runs, a \in Answers : AtWork(r, a)' <=> AtWork(r, a)
    <3>1. \A r \in Runs : run'[r].pc = run[r].pc /\ run'[r].a = run[r].a
      <4>1. CASE UNCHANGED run  BY <4>1
      <4>2. CASE delete_prefix  BY <1>0, <4>2 DEF delete_prefix, Run
      <4>3. QED
        BY <1>10, <4>1, <4>2 DEF RetentionEnds, PurgeStep, PurgeBegins, PurgeFiles, PurgeCommits, PurgeDies
    <3>2. QED  BY <3>1 DEF AtWork
  <2>2. \A a \in Answers : row'[a].status = row[a].status /\ ~row'[a].stale
    <3>1. CASE UNCHANGED row  BY <1>2, <3>1
    <3>2. CASE PurgeCommits
      <4>1. ASSUME NEW a \in Answers PROVE row'[a].status = row[a].status /\ ~row'[a].stale
        <5>1. CASE a \notin purge.touched  BY <1>2, <3>2, <5>1 DEF PurgeCommits
        <5>2. CASE a \in purge.touched
          <6> DEFINE x == row[a].cols.media /\ ~purge.snap[a].media
                     y == row[a].cols.audio /\ ~purge.snap[a].audio
                     m == (purge.snap[a].meta \ {"playback_key"}) \cup {"purged_at"}
          <6>1. row'[a] = [row[a] EXCEPT !.cols.media = x, !.cols.audio = y, !.cols.meta = m, !.stale = FALSE]
            BY <3>2, <5>2, Zenon DEF PurgeCommits
          <6> HIDE DEF x, y, m
          <6>2. QED  BY <1>0, <6>1 DEF Row
        <5>3. QED  BY <5>1, <5>2
      <4>2. QED  BY <4>1
    <3>3. QED
      BY <1>10, <3>1, <3>2 DEF RetentionEnds, PurgeStep, PurgeBegins, PurgeFiles, delete_prefix, PurgeDies
  <2>3. tick' = {}
    BY <1>2, <1>10 DEF RetentionEnds, PurgeStep, PurgeBegins, PurgeFiles, delete_prefix, PurgeCommits, PurgeDies
  <2>4. QED  BY <1>2, <2>1, <2>2, <2>3, WorkGoesOn
<1>11. CASE UNCHANGED <<row, run, tick>>
  BY <1>2, <1>11 DEF WorkIsMarked, AtWork
<1>12. QED
  BY <1>2, <1>4, <1>5, <1>6, <1>7, <1>8, <1>9, <1>10, <1>11, AdvancesMark DEF Next, Bury, vars

LEMMA MarkInit == Init => Undisturbed
BY DEF Init, Undisturbed, WorkIsMarked, AtWork, Idle, Working, Encoding

\* As long as no worker was killed or stopped and no live run stands still for half an hour,
\* no two runs work on one answer, though the queue may hand its job to a second worker.
THEOREM RunsAreSafe == ASSUME ~SlowSteps PROVE Spec => []SafeRuns
<1>1. Typed /\ Undisturbed /\ [Next]_vars => Undisturbed'  BY MarkStep
<1>2. Typed /\ [Next]_vars => Typed'  BY TypeStep
<1>3. Typed /\ Undisturbed => SafeRuns
  <2>1. SUFFICES ASSUME Typed, WorkIsMarked, NEW q \in Runs, NEW r \in Runs, q # r,
                        {run[q].pc, run[r].pc} \subseteq Working, run[q].a = run[r].a
                 PROVE  FALSE
    BY DEF SafeRuns, OneRunAtATime, Undisturbed, Typed
  <2>2. run[q].a \in Answers  BY <2>1 DEF Typed, RunsHaveAnswers, Working, Encoding
  <2>3. QED  BY <2>1, <2>2 DEF WorkIsMarked, AtWork
<1>4. QED  BY TypeInit, MarkInit, <1>1, <1>2, <1>3, PTL DEF Spec

LEMMA DoneStep ==
    ASSUME Typed, WorkIsMarked, [Next]_vars, NEW a \in Answers, row[a].status = "done"
    PROVE  row'[a].status = "done"
<1>0. /\ row \in [Answers -> Row] /\ tick = {} /\ \A b \in Answers : ~row[b].stale
      /\ \A b \in Answers : row[b] \in Row /\ row[b].cols \in Columns
      /\ \A r \in Runs : run[r].pc # "idle" => run[r].a \in Answers
  BY DEF Typed, TypeOK, RunsHaveAnswers, WorkIsMarked, Row
\* Nobody is at work on an answer that is done.
<1>1. ASSUME NEW r \in Runs, run[r].pc \in Working PROVE run[r].a # a
  BY <1>1 DEF WorkIsMarked, AtWork
<1>2. ASSUME NEW b \in Answers, complete_answer(b) \/ Bury(b) \/ GoesStale(b)
      PROVE  row'[a].status = "done"
  BY <1>0, <1>2 DEF complete_answer, Bury, GoesStale, Row
<1>3. ASSUME NEW r \in Runs, claim_answer(r) PROVE row'[a].status = "done"
  BY <1>0, <1>3 DEF claim_answer, FreeToClaim, Abandoned, PROCESSABLE_STATUSES, Row
<1>4. ASSUME NEW r \in Runs, run[r].pc \in Working, Advances(r) \/ Cancelled(r)
      PROVE  row'[a].status = "done"
  <2>1. UNCHANGED row \/ \A b \in Answers : b # run[r].a => row'[b] = row[b]
    BY <1>0, <1>4 DEF Advances, claim_answer, OpenSource, extract_audio, remux, NoRemux, SaveMedia,
                      ReadAudio, transcribe, Finish, StepFails, Cancelled, _mark_interrupted
  <2>2. QED  BY <1>1, <1>4, <2>1
<1>5. ASSUME NEW r \in Runs, run[r].pc \notin Working, Advances(r) \/ Cancelled(r)
      PROVE  row'[a].status = "done"
  <2>1. claim_answer(r) \/ UNCHANGED row
    BY <1>5 DEF Advances, OpenSource, extract_audio, remux, NoRemux, SaveMedia, ReadAudio, transcribe,
                Finish, StepFails, Cancelled, _mark_interrupted, Working, Encoding
  <2>2. QED  BY <1>3, <2>1
<1>6. ~requeue_stale_answers  BY <1>0 DEF requeue_stale_answers
<1>7. CASE PurgeCommits
  BY <1>0, <1>7 DEF PurgeCommits, Row, Columns
<1>8. CASE UNCHANGED row  BY <1>8
<1>9. QED
  BY <1>2, <1>4, <1>5, <1>6, <1>7, <1>8
  DEF Next, Load, Killed, SelectStale, RetentionEnds, PurgeStep, PurgeBegins, PurgeFiles,
      delete_prefix, PurgeDies, vars

\* Under the same conditions a transcribed answer stays done: no overtaken run fails it, takes
\* it up again or returns it.
THEOREM DoneStaysDone == ASSUME ~SlowSteps PROVE Spec => DoneIsFinal
<1> DEFINE Stays == \A a \in Answers : breaks = 0 /\ row[a].status = "done" => row'[a].status = "done"
<1>1. Typed /\ Undisturbed /\ [Next]_vars => Undisturbed'  BY MarkStep
<1>2. Typed /\ [Next]_vars => Typed'  BY TypeStep
<1>3. Typed /\ Undisturbed /\ [Next]_vars => [Stays]_vars
  BY DoneStep DEF Undisturbed
<1>4. QED  BY TypeInit, MarkInit, <1>1, <1>2, <1>3, PTL DEF Spec, DoneIsFinal
=============================================================================
