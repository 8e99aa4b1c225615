--------------------------- MODULE InterviewRoom ---------------------------
(***************************************************************************)
(* The interview room on the server (interviews/service.py): attempts,     *)
(* final answers, code, the way from question to question and the block of *)
(* follow-up questions.                                                    *)
(*                                                                         *)
(* A request loads the interview and its answers (Begin...), and its one   *)
(* commit writes, by id, the columns it has changed in what it loaded.     *)
(* Nothing locks in between, so requests of one candidate (two tabs, a     *)
(* reload, a repeated call, an autosave) overlap.  A request that is       *)
(* refused changes nothing and is left out.  The bytes of a recording are  *)
(* ChunkUpload's, its processing AnswerPipeline's.                         *)
(*                                                                         *)
(* Questions are numbered from 1; 0 is "no question" and "no answer".      *)
(***************************************************************************)
EXTENDS Integers, Sequences, FiniteSets

CONSTANTS Total,            \* main questions
          Code,             \* those of kind "code"
          RetakesAllowed,   \* retakes_allowed of a main question
          FollowupsEnabled, \* settings_snapshot.followups_enabled
          Requests,         \* requests that can be under way at once
          MaxAnswers,       \* bound on the rows
          MaxEdits,         \* bound on the versions of the code
          MaxOverlaps       \* bound on the requests that begin during another

\* What the values of the constants have to satisfy.
ParametersOK ==
    /\ Total \in Nat \ {0} /\ Code \subseteq 1 .. Total
    /\ RetakesAllowed \in Nat /\ FollowupsEnabled \in BOOLEAN
    /\ {MaxAnswers, MaxEdits, MaxOverlaps} \subseteq Nat
    /\ IsFiniteSet(Requests)

VARIABLES interview,  \* the row of the interview
          answers,    \* the rows of the answers, in the order of creation
          jobs,       \* answers for which answer.process was enqueued
          req,        \* req[r]: a request under way
          live,       \* answers whose recorder is open in the page
          edits,      \* versions of the code typed so far
          plans,      \* blocks of follow-up questions the model has made
          overlaps    \* times a request began while another was under way

vars == <<interview, answers, jobs, req, live, edits, plans, overlaps>>

\* of: the main question of a follow-up; plan: the block it belongs to.
Question == [of: 0 .. Total, plan: 0 .. Cardinality(Requests)]
Interview == [status: {"in_progress", "completed"}, current: 1 .. Total + 1,
              questions: Seq(Question), followups: {"off", "open", "done"}]

\* src 0: no code_submission.
CodeSubmission == [src: 0 .. MaxEdits, submitted: BOOLEAN]
NoCode == [src |-> 0, submitted |-> FALSE]
Ready == {"uploaded", "done"}
Answer == [q: 1 .. Total + 1, attempt: 1 .. MaxAnswers,
           status: Ready \cup {"recording", "abandoned"}, final: BOOLEAN,
           media: BOOLEAN, bytes: BOOLEAN, code: CodeSubmission, parent: 0 .. MaxAnswers]

\* What a request has loaded, and its parameters.
Request == [op: {"idle", "create", "complete", "next", "code"}, a: 0 .. MaxAnswers,
            src: 0 .. MaxEdits, submit: BOOLEAN, interview: Interview, answers: Seq(Answer)]
Begun == [status |-> "in_progress", current |-> 1,
          questions |-> [q \in 1 .. Total |-> [of |-> 0, plan |-> 0]],
          followups |-> IF FollowupsEnabled THEN "open" ELSE "off"]
Idle == [op |-> "idle", a |-> 0, src |-> 0, submit |-> FALSE,
         interview |-> Begun, answers |-> <<>>]

TypeOK ==
    /\ interview \in Interview
    /\ answers \in Seq(Answer) /\ Len(answers) <= MaxAnswers
    /\ req \in [Requests -> Request]
    /\ jobs \cup live \subseteq DOMAIN answers
    /\ edits \in 0 .. MaxEdits /\ plans \in Nat /\ overlaps \in 0 .. MaxOverlaps

Init ==
    /\ interview = Begun /\ answers = <<>> /\ jobs = {} /\ live = {}
    /\ req = [r \in Requests |-> Idle]
    /\ edits = 0 /\ plans = 0 /\ overlaps = 0
-----------------------------------------------------------------------------
(* The helpers of the service, over the rows `rows' a request has loaded. *)

Of(rows, q) == {a \in DOMAIN rows : rows[a].q = q}
Latest(rows, S) == CHOOSE a \in S : \A b \in S : rows[b].attempt <= rows[a].attempt
retakes_allowed(i, q) == IF i.questions[q].of = 0 THEN RetakesAllowed ELSE 0

\* The attempt with code and no video to which an explanation is attached.
_code_only_answer(rows, q) ==
    {a \in Of(rows, q) : /\ q \in Code /\ rows[a].code.src # 0 /\ ~rows[a].media
                         /\ rows[a].status \in {"recording", "done"}}

_latest_code(rows, q) ==
    LET S == {a \in Of(rows, q) : rows[a].code.src # 0}
    IN IF S = {} THEN NoCode ELSE rows[Latest(rows, S)].code

_code_answer(rows, q) == {a \in Of(rows, q) : rows[a].status # "abandoned"}

\* The final answer to the main question of a follow-up.
_parent_answer_id(i, rows, q) ==
    LET S == {a \in Of(rows, i.questions[q].of) : rows[a].final /\ rows[a].parent = 0}
    IN IF S = {} THEN 0 ELSE Latest(rows, S)

\* uq_answer_attempt.  Variant: no such constraint.
NoConstraint(q, attempt) == TRUE
Unique(q, attempt) == \A a \in Of(answers, q) : answers[a].attempt # attempt

\* Column writes: only a value that differs from the loaded one is sent.
NotFinal(row, loaded) == IF loaded.final THEN [row EXCEPT !.final = FALSE] ELSE row
Final(row, loaded) == IF loaded.final THEN row ELSE [row EXCEPT !.final = TRUE]
Status(row, loaded, st) == IF loaded.status = st THEN row ELSE [row EXCEPT !.status = st]

Current == interview.current
Loaded(op) == [Idle EXCEPT !.op = op, !.interview = interview, !.answers = answers]
Begin(r, q) ==
    /\ req[r].op = "idle" /\ req' = [req EXCEPT ![r] = q]
    /\ \/ /\ \A o \in Requests : req[o].op = "idle"
          /\ UNCHANGED overlaps
       \/ /\ \E o \in Requests : req[o].op # "idle"
          /\ overlaps < MaxOverlaps /\ overlaps' = overlaps + 1
Ends(r) == req' = [req EXCEPT ![r] = Idle]
-----------------------------------------------------------------------------
(* POST .../answers *)

CanCreate(i, rows, q) ==
    \/ _code_only_answer(rows, q) # {}
    \/ Cardinality(Of(rows, q)) <= retakes_allowed(i, q)

BeginCreate(r) ==
    /\ interview.status = "in_progress" /\ CanCreate(interview, answers, Current)
    /\ Begin(r, Loaded("create"))
    /\ UNCHANGED <<interview, answers, jobs, live, edits, plans>>

\* Unfinished recordings are abandoned, and a new attempt begins.
Abandoned(loaded, q, keep) ==
    [a \in DOMAIN answers |->
        IF a \in Of(loaded, q) \ keep /\ loaded[a].status = "recording"
        THEN NotFinal([answers[a] EXCEPT !.status = "abandoned"], loaded[a])
        ELSE answers[a]]

create_answer(r) ==
    LET i == req[r].interview
        loaded == req[r].answers
        q == i.current
        reusable == _code_only_answer(loaded, q)
        attempt == Cardinality(Of(loaded, q)) + 1
        fresh == [q |-> q, attempt |-> attempt, status |-> "recording", final |-> TRUE,
                  media |-> TRUE, bytes |-> FALSE, code |-> _latest_code(loaded, q),
                  parent |-> _parent_answer_id(i, loaded, q)]
    IN /\ req[r].op = "create"
       /\ \/ /\ reusable # {}
             /\ LET a == Latest(loaded, reusable) IN
                /\ answers' = [Abandoned(loaded, q, {a}) EXCEPT
                                 ![a] = [Status(@, loaded[a], "recording") EXCEPT !.media = TRUE]]
                /\ live' = live \cup {a}
          \/ /\ reusable = {} /\ Unique(q, attempt) /\ Len(answers) < MaxAnswers
             /\ answers' = Append(Abandoned(loaded, q, {}), fresh)
             /\ live' = live \cup {Len(answers')}
          \/ /\ reusable = {} /\ ~Unique(q, attempt)   \* IntegrityError
             /\ UNCHANGED <<answers, live>>
       /\ Ends(r)
       /\ UNCHANGED <<interview, jobs, edits, plans, overlaps>>

\* A chunk is stored (ChunkUpload).
append_chunk(a) ==
    /\ interview.status = "in_progress"
    /\ a \in live /\ answers[a].status = "recording"
    /\ answers' = [answers EXCEPT ![a].bytes = TRUE]
    /\ UNCHANGED <<interview, jobs, req, live, edits, plans, overlaps>>

\* The page is closed or reloaded with its recorders.
PageLost ==
    /\ live # {} /\ live' = {}
    /\ UNCHANGED <<interview, answers, jobs, req, edits, plans, overlaps>>
-----------------------------------------------------------------------------
(* POST .../complete: the page ends its recording. *)

BeginComplete(r, a) ==
    /\ interview.status = "in_progress"
    /\ a \in live /\ answers[a].status = "recording" /\ answers[a].bytes
    /\ Begin(r, [Loaded("complete") EXCEPT !.a = a])
    /\ UNCHANGED <<interview, answers, jobs, live, edits, plans>>

\* The other attempts are read after the status is written.  Variant: they are left alone.
KeepsOthers(rows, a) == rows
LastIsFinal(rows, a) ==
    [b \in DOMAIN rows |-> IF b # a /\ rows[b].q = rows[a].q
                           THEN [rows[b] EXCEPT !.final = FALSE] ELSE rows[b]]

complete_answer(r) ==
    LET a == req[r].a IN
    /\ req[r].op = "complete"
    /\ answers' = [LastIsFinal(answers, a) EXCEPT
                     ![a] = Final([@ EXCEPT !.status = "uploaded"], req[r].answers[a])]
    /\ jobs' = jobs \cup {a}
    /\ live' = live \ {a}
    /\ Ends(r)
    /\ UNCHANGED <<interview, edits, plans, overlaps>>

\* The pipeline has processed the answer.
Processed(a) ==
    /\ a \in jobs /\ answers[a].status = "uploaded"
    /\ answers' = [answers EXCEPT ![a].status = "done"]
    /\ UNCHANGED <<interview, jobs, req, live, edits, plans, overlaps>>
-----------------------------------------------------------------------------
(* PUT .../code and POST .../code/run: both store the text they carry. *)

BeginCode(r, src, submit) ==
    /\ interview.status = "in_progress" /\ Current \in Code
    /\ Begin(r, [Loaded("code") EXCEPT !.src = src, !.submit = submit])
    /\ edits' = src
    /\ UNCHANGED <<interview, answers, jobs, live, plans>>

\* The stored code differs from what was loaded, or a submission gives it a new time, or it is not written.
\* Submitted without a video: the answer is done, and final.
Finished(rows, loaded, a) ==
    [b \in DOMAIN rows |->
        IF b = a THEN Final(Status(rows[b], loaded[b], "done"), loaded[b])
        ELSE IF rows[b].q # rows[a].q THEN rows[b]
        ELSE NotFinal(rows[b], IF b \in DOMAIN loaded THEN loaded[b] ELSE rows[b])]

save_code(r) ==
    LET loaded == req[r].answers
        q == req[r].interview.current
        attempt == Cardinality(Of(loaded, q)) + 1
        fresh == [q |-> q, attempt |-> attempt, status |-> "recording", final |-> TRUE,
                  media |-> FALSE, bytes |-> FALSE, code |-> NoCode, parent |-> 0]
        Put(rows, was, a) ==
            LET code == [src |-> req[r].src,
                         submitted |-> req[r].submit \/ was[a].code.submitted]
                put == IF code = was[a].code /\ ~req[r].submit THEN rows ELSE [rows EXCEPT ![a].code = code]
            IN IF req[r].submit /\ ~was[a].media THEN Finished(put, was, a) ELSE put
    IN /\ req[r].op = "code"
       /\ \/ /\ _code_answer(loaded, q) # {}
             /\ answers' = Put(answers, loaded, Latest(loaded, _code_answer(loaded, q)))
          \/ /\ _code_answer(loaded, q) = {} /\ Unique(q, attempt) /\ Len(answers) < MaxAnswers
             /\ LET rows == Append(answers, fresh) IN answers' = Put(rows, rows, Len(rows))
          \/ /\ _code_answer(loaded, q) = {} /\ ~Unique(q, attempt)   \* IntegrityError
             /\ UNCHANGED answers
       /\ Ends(r)
       /\ UNCHANGED <<interview, jobs, live, edits, plans, overlaps>>
-----------------------------------------------------------------------------
(* POST .../next *)

Answered(rows, q) ==
    \E a \in Of(rows, q) : /\ rows[a].status # "abandoned"
                           /\ IF q \in Code THEN rows[a].code.submitted
                                            ELSE rows[a].status # "recording"

BeginNext(r) ==
    /\ interview.status = "in_progress" /\ Answered(answers, Current)
    /\ Begin(r, Loaded("next"))
    /\ UNCHANGED <<interview, answers, jobs, live, edits, plans>>

\* Variant: the index is advanced in the database.
NextOfRow(i) == interview.current + 1
NextOf(i) == i.current + 1

Asks(i) == i.followups = "open"

\* The transcripts of final answers the model may ask about.
Material(rows) == {rows[a].q : a \in {b \in DOMAIN rows :
                       rows[b].final /\ rows[b].status = "done" /\ rows[b].parent = 0}}

next_question(r) ==
    LET i == req[r].interview IN
    /\ req[r].op = "next"
    /\ \/ /\ i.current < Len(i.questions)
          /\ interview' = [interview EXCEPT !.current = NextOf(i)]
          /\ UNCHANGED plans
       \/ /\ i.current = Len(i.questions) /\ Asks(i)
          /\ \E q \in Material(req[r].answers) :
                interview' = [interview EXCEPT
                    !.followups = "done", !.current = i.current + 1,
                    !.questions = Append(i.questions, [of |-> q, plan |-> plans + 1])]
          /\ plans' = plans + 1
       \/ /\ i.current = Len(i.questions)   \* no follow-ups: _finish
          /\ interview' = [interview EXCEPT
                !.status = "completed", !.followups = IF Asks(i) THEN "done" ELSE @]
          /\ UNCHANGED plans
    /\ Ends(r)
    /\ UNCHANGED <<answers, jobs, live, edits, overlaps>>
-----------------------------------------------------------------------------
Handlers(r) == create_answer(r) \/ complete_answer(r) \/ save_code(r) \/ next_question(r)

Next ==
    \/ \E r \in Requests :
         \/ BeginCreate(r) \/ BeginNext(r) \/ Handlers(r)
         \/ \E a \in live : BeginComplete(r, a)
         \/ \E src \in {edits, edits + 1} \cap 1 .. MaxEdits, submit \in BOOLEAN :
                BeginCode(r, src, submit)
    \/ \E a \in DOMAIN answers : append_chunk(a) \/ Processed(a)
    \/ PageLost

Spec == Init /\ [][Next]_vars
-----------------------------------------------------------------------------
(* Correctness. *)

Passed(q) == q < Current \/ (interview.status = "completed" /\ q = Current)

\* A main question is passed only with a recording that was completed, also when `next' is called
\* twice at once: none is skipped (next_question: "first record an answer").
NoneSkipped ==
    \A q \in 1 .. Total \ Code : Passed(q) => \E a \in jobs : answers[a].q = q

\* As long as no two requests have overlapped, every passed question has a final answer the
\* evaluation can use: a completed recording, or submitted code (complete_answer: the last
\* completed attempt becomes the final one).
PassedHasFinal ==
    \A q \in DOMAIN interview.questions : overlaps = 0 /\ Passed(q) =>
        \E a \in Of(answers, q) :
            /\ answers[a].final
            /\ IF q \in Code THEN answers[a].code.submitted /\ answers[a].status # "abandoned"
                             ELSE answers[a].status \in Ready

\* Until then only one of the completed attempts at a question is final.
OneFinal ==
    overlaps = 0 => \A q \in DOMAIN interview.questions :
        Cardinality({a \in Of(answers, q) : answers[a].final /\ answers[a].status \in Ready}) <= 1

\* The rows keep their types, and both of these hold.
FinalAnswers == TypeOK /\ PassedHasFinal /\ OneFinal

\* Concurrent calls do not give more attempts than retakes_allowed
\* (create_answer: the limit of retakes; tests/test_interview_room.py).
RetakeLimit ==
    \A q \in DOMAIN interview.questions :
        Cardinality(Of(answers, q)) <= retakes_allowed(interview, q) + 1

\* Every passed question keeps exactly one final answer that can be evaluated, until requests overlap;
\* whatever overlaps, no main question is skipped and nobody gets more attempts than are allowed.
RoomIsFair == FinalAnswers /\ NoneSkipped /\ RetakeLimit

(* Properties the repository states and the code does not have. *)

\* A completed recording is never abandoned
\* (create_answer: only an unfinished recording is considered abandoned).
CompletedIsKept ==
    [][\A a \in jobs : answers[a].status \in Ready => answers'[a].status # "abandoned"]_vars

\* Code that was submitted stays submitted, and an older text does not replace it
\* (room.tsx: after the submission only another submission changes the code).
SubmittedStays ==
    [][\A a \in DOMAIN answers : answers[a].code.submitted =>
           answers'[a].code.submitted /\ answers'[a].code.src >= answers[a].code.src]_vars

\* The block of follow-up questions is put together once
\* (_add_followups: a repeated call sees the mark).
FollowupsOnce ==
    [][interview.followups = "done" => interview'.questions = interview.questions]_vars

\* A candidate in the room can always go on: record, finish the recording, send code, or pass on
\* (create_answer: an interrupted recording is abandoned and a new attempt follows).
CandidateCanProceed ==
    (interview.status = "in_progress" /\ \A r \in Requests : req[r].op = "idle") =>
        \/ CanCreate(interview, answers, Current)
        \/ \E a \in live : answers[a].status = "recording"
        \/ Current \in Code \/ Answered(answers, Current)

\* Submitted code answers the question, with or without an explanation on video: what remains
\* of the question when it is passed needs no more waiting (next_question).
PassedIsReady ==
    \A q \in Code : Passed(q) =>
        \E a \in Of(answers, q) : answers[a].final /\ answers[a].status \in Ready
=============================================================================
