------------------------------ MODULE Integrity ------------------------------
(***************************************************************************)
(* What the room notices of the candidate, and what the report makes of    *)
(* it: the page collects events and sends them in batches                  *)
(* (use-interview-telemetry), the server stamps them as they arrive        *)
(* (interviews/service), and the rules turn the log into observations at   *)
(* every reading of the report (integrity/rules, integrity/service).       *)
(*                                                                         *)
(* Time runs in heartbeats, five seconds; the page sends what it has       *)
(* before the next one, unless the network is slow.  A reviewer is there   *)
(* in the interviews with the signal "paste".                              *)
(***************************************************************************)
EXTENDS Integers, Sequences, FiniteSets, FiniteSetsExt, SequencesExt

CONSTANTS Signals,                 \* what this interview's page sends besides the recorder's events
          LastQuestion,            \* questions are 0..LastQuestion
          AWAY_MIN, AWAY_TOTAL, AWAY_MIN_COUNT, HEARTBEAT_GAP, FACES_MANY_MIN_SAMPLES,
          MaxTime,                 \* bound on the clock
          MaxRecordings,           \* bound on recordings
          MaxSignals,              \* bound on absences, pastes and samples, per signal
          MaxTroubles              \* bound on slow, lost and repeated batches and frozen pages

VARIABLES now,
          signal,     \* one of Signals
          page,       \* the room's page
          flight,     \* the batch that was sent
          log,        \* the rows of InterviewEvent, in the order of at_server
          question,   \* Interview.current_question_index; above LastQuestion it is completed
          reviews,    \* the observations marked as a false alarm
          past        \* what really happened

vars == <<now, signal, page, flight, log, question, reviews, past>>

\* What the values of the constants have to satisfy.
ParametersOK ==
    /\ {LastQuestion, MaxTime, MaxRecordings, MaxTroubles} \subseteq Nat
    /\ {AWAY_MIN, AWAY_TOTAL, AWAY_MIN_COUNT, HEARTBEAT_GAP, FACES_MANY_MIN_SAMPLES} \subseteq Nat \ {0}

Questions == 0..LastQuestion
Kinds == {"recorder_started", "recorder_stopped", "visibility_hidden", "visibility_visible", "window_blur",
          "window_focus", "paste", "faces_none", "faces_one", "faces_many", "heartbeat"}
Event == [kind : Kinds, question_index : Questions]
Codes == {"away_during_answer", "paste_during_answer", "multiple_faces", "no_face", "heartbeat_gap"}
Page == [recording : BOOLEAN, index : Questions, away : {"no", "tab", "window"}, buffer : Seq(Event)]
\* left, pasted, many: the questions during whose recording it happened; longest: the longest absence
\* that began in the last recording of a question; since: when it began, MaxTime + 1 before the recording.
Past == [left : SUBSET Questions, pasted : SUBSET Questions, many : [Questions -> Nat],
         longest : [Questions -> 0..MaxTime], since : 0..(MaxTime + 1), recordings : 0..MaxRecordings,
         signals : Nat, troubles : 0..MaxTroubles, repeated : BOOLEAN]

TypeOK ==
    /\ now \in 0..MaxTime /\ signal \in Signals /\ page \in Page
    /\ flight \in Seq(Event) /\ question \in 0..(LastQuestion + 1)
    /\ \A i \in DOMAIN log : log[i].kind \in Kinds /\ log[i].question_index \in Questions /\ log[i].at \in 0..now
    /\ reviews \subseteq (Codes \X Questions) /\ past \in Past

Init ==
    /\ now = 0 /\ signal \in Signals /\ flight = <<>> /\ log = <<>> /\ question = 0 /\ reviews = {}
    /\ page = [recording |-> FALSE, index |-> 0, away |-> "no", buffer |-> <<>>]
    /\ past = [left |-> {}, pasted |-> {}, many |-> [q \in Questions |-> 0], longest |-> [q \in Questions |-> 0],
               since |-> MaxTime + 1, recordings |-> 0, signals |-> 0, troubles |-> 0, repeated |-> FALSE]
-----------------------------------------------------------------------------
\* The rules (integrity/rules): operators over the log.

Of(kind, q) == {i \in DOMAIN log : log[i].kind = kind /\ log[i].question_index = q}
None(set, from, to) == \A k \in set : ~(from < k /\ k < to)

\* A recorder_stopped closes the newest recorder_started since the one before; the last recording of a
\* question is its window.
Closed(q) ==
    {<<s, e>> \in Of("recorder_started", q) \X Of("recorder_stopped", q) :
       s < e /\ None(Of("recorder_started", q) \cup Of("recorder_stopped", q), s, e)}
HasWindow(q) == Closed(q) # {}
Window(q) == CHOOSE w \in Closed(q) : \A o \in Closed(q) : o[2] <= w[2]
_inside(i, q) == HasWindow(q) /\ Window(q)[1] <= i /\ i <= Window(q)[2]

Inside(kind, q) == {i \in Of(kind, q) : _inside(i, q)}

\* Variant: who did not return is not counted.
ReturnsOnly(o, closers, q) == Min({c \in closers : c > o} \cup {o})
\* Away from the page: from the newest leaving to the return, or to the end of the recording.
EndOfWindow(q) == Window(q)[2]
Returns(o, closers, q) == Min({c \in closers : c > o} \cup {EndOfWindow(q)})

Spans(opener, closer, q) ==
    {<<o, Returns(o, Inside(closer, q), q)>> : o \in {o \in Inside(opener, q) :
       None(Inside(opener, q), o, Returns(o, Inside(closer, q), q))}}
LongSpans(q) ==
    {s \in Spans("visibility_hidden", "visibility_visible", q) \cup Spans("window_blur", "window_focus", q) :
       log[s[2]].at - log[s[1]].at >= AWAY_MIN}

away_observations(q) ==
    LET long == LongSpans(q) IN
    /\ long # {}
    /\ \/ MapThenSumSet(LAMBDA s : log[s[2]].at - log[s[1]].at, long) >= AWAY_TOTAL
       \/ Cardinality(long) >= AWAY_MIN_COUNT

\* Long texts only.
paste_observations(q) == Inside("paste", q) # {}

ManyFaces(q) == Cardinality(Inside("faces_many", q))
multiple_faces(q) == ManyFaces(q) >= FACES_MANY_MIN_SAMPLES
no_face(q) ==
    LET none == Cardinality(Inside("faces_none", q))
        all == none + Cardinality(Inside("faces_one", q)) + ManyFaces(q)
    IN  ~multiple_faces(q) /\ all > 0 /\ 10 * none >= 6 * all

\* A pause between two marks: the recording begins, heartbeats, it ends.
heartbeat_facts(q) ==
    /\ \E i \in DOMAIN log : log[i].kind = "heartbeat"
    /\ HasWindow(q)
    /\ LET marks == {Window(q)[1], Window(q)[2]} \cup {i \in DOMAIN log : log[i].kind = "heartbeat" /\
                                                         Window(q)[1] <= i /\ i <= Window(q)[2]}
       IN  \E a, b \in marks : a < b /\ None(marks, a, b) /\ log[b].at - log[a].at >= HEARTBEAT_GAP

Observed(code, q) ==
    CASE code = "away_during_answer" -> away_observations(q)
      [] code = "paste_during_answer" -> paste_observations(q)
      [] code = "multiple_faces" -> multiple_faces(q)
      [] code = "no_face" -> no_face(q)
      [] code = "heartbeat_gap" -> heartbeat_facts(q)

analyze == {<<code, q>> \in Codes \X Questions : Observed(code, q)}

\* integrity_report: a pause is a fact; the rest ask for attention, unless a reviewer called it a false alarm.
Flags == {o \in analyze : o[1] # "heartbeat_gap"} \ reviews
-----------------------------------------------------------------------------
\* The page.

Events(kinds) == [k \in DOMAIN kinds |-> [kind |-> kinds[k], question_index |-> page.index]]
Buffered(kinds) == page.buffer \o Events(kinds)

Room == page.index = question   \* the page has heard of the question, and the interview goes on

StartRecording ==
    /\ Room /\ ~page.recording /\ past.recordings < MaxRecordings
    /\ page' = [page EXCEPT !.recording = TRUE, !.buffer = Buffered(<<"recorder_started">>)]
    /\ past' = [past EXCEPT !.recordings = @ + 1, !.since = MaxTime + 1, !.longest[page.index] = 0,
                            !.left = IF page.away = "no" THEN @ ELSE @ \cup {page.index}]
    /\ UNCHANGED <<now, signal, flight, log, question, reviews>>

\* The longest absence of this recording, when one ends now.
Longest == IF page.recording /\ page.away # "no" /\ now - past.since > past.longest[page.index]
           THEN [past.longest EXCEPT ![page.index] = now - past.since] ELSE past.longest

StopRecording ==
    /\ page.recording
    /\ page' = [page EXCEPT !.recording = FALSE, !.buffer = Buffered(<<"recorder_stopped">>)]
    /\ past' = [past EXCEPT !.longest = Longest, !.since = MaxTime + 1]
    /\ UNCHANGED <<now, signal, flight, log, question, reviews>>

\* Another tab hides the page and takes the focus, another window takes the focus.
Leaves(how) ==
    /\ signal = "away" /\ page.away = "no" /\ past.signals < MaxSignals[signal]
    /\ page' = [page EXCEPT !.away = how,
                  !.buffer = Buffered(IF how = "tab" THEN <<"window_blur", "visibility_hidden">> ELSE <<"window_blur">>)]
    /\ past' = [past EXCEPT !.signals = @ + 1, !.since = IF page.recording THEN now ELSE MaxTime + 1,
                            !.left = IF page.recording THEN @ \cup {page.index} ELSE @]
    /\ UNCHANGED <<now, signal, flight, log, question, reviews>>

Comes ==
    /\ page.away # "no"
    /\ page' = [page EXCEPT !.away = "no",
                  !.buffer = Buffered(IF page.away = "tab" THEN <<"visibility_visible", "window_focus">>
                                      ELSE <<"window_focus">>)]
    /\ past' = [past EXCEPT !.longest = Longest, !.since = MaxTime + 1]
    /\ UNCHANGED <<now, signal, flight, log, question, reviews>>

\* A long text is pasted; a sample of the faces is taken, while the recorder runs.
Notices(kind) ==
    /\ past.signals < MaxSignals[signal]
    /\ \/ signal = "paste" /\ kind = "paste"
       \/ signal = "faces" /\ page.recording /\ kind \in {"faces_none", "faces_one", "faces_many"}
    /\ page' = [page EXCEPT !.buffer = Buffered(<<kind>>)]
    /\ past' = [past EXCEPT !.signals = @ + 1,
                            !.pasted = IF kind = "paste" /\ page.recording THEN @ \cup {page.index} ELSE @,
                            !.many[page.index] = IF kind = "faces_many" THEN @ + 1 ELSE @]
    /\ UNCHANGED <<now, signal, flight, log, question, reviews>>

\* next_question, once a recording of the question is there; what the page has not sent it sends later.
next_question ==
    /\ Room /\ ~page.recording /\ past.recordings > page.index
    /\ question' = question + 1
    /\ page' = [page EXCEPT !.index = IF question = LastQuestion THEN @ ELSE @ + 1]
    /\ UNCHANGED <<now, signal, flight, log, reviews, past>>

\* record_events: stamped one after another; after the end of the interview nothing is taken.
record_events(batch) ==
    IF question > LastQuestion THEN log
    ELSE log \o [k \in DOMAIN batch |-> [kind |-> batch[k].kind, at |-> now,
                                          question_index |-> batch[k].question_index]]

\* In between it matters only after the page moved to another question.
flush ==
    /\ flight = <<>> /\ \E k \in DOMAIN page.buffer : page.buffer[k].question_index < question
    /\ log' = record_events(page.buffer) /\ page' = [page EXCEPT !.buffer = <<>>]
    /\ UNCHANGED <<now, signal, flight, question, reviews, past>>

\* Five seconds: the page sends what it has, if nothing is on its way, and it may be late; a heartbeat.
Tick ==
    /\ now < MaxTime /\ now' = now + 1
    /\ \/ flight = <<>> /\ log' = record_events(page.buffer) /\ UNCHANGED <<flight, past>>
       \/ /\ flight = <<>> /\ page.buffer # <<>> /\ past.troubles < MaxTroubles
          /\ flight' = page.buffer /\ past' = [past EXCEPT !.troubles = @ + 1] /\ UNCHANGED log
       \/ flight # <<>> /\ UNCHANGED <<flight, log, past>>    \* one batch at a time
    /\ page' = [page EXCEPT !.buffer = (IF flight = <<>> THEN <<>> ELSE @)
                     \o IF signal = "heartbeat" THEN Events(<<"heartbeat">>) ELSE <<>>]
    /\ UNCHANGED <<signal, question, reviews>>

Frozen ==
    /\ signal = "heartbeat" /\ now < MaxTime /\ past.troubles < MaxTroubles
    /\ now' = now + 1 /\ past' = [past EXCEPT !.troubles = @ + 1]
    /\ UNCHANGED <<signal, page, flight, log, question, reviews>>

Arrives ==
    /\ flight # <<>> /\ log' = record_events(flight) /\ flight' = <<>>
    /\ UNCHANGED <<now, signal, page, question, reviews, past>>

\* What was not answered is sent again, whether it had arrived or not.
NotAnswered ==
    /\ flight # <<>>
    /\ \/ log' = record_events(flight) /\ past' = [past EXCEPT !.repeated = TRUE]
       \/ UNCHANGED <<log, past>>
    /\ flight' = <<>> /\ page' = [page EXCEPT !.buffer = flight \o @]
    /\ UNCHANGED <<now, signal, question, reviews>>

\* review_observation: of what the report shows; bound: one.
review_observation ==
    /\ signal = "paste" /\ reviews = {} /\ \E o \in analyze : reviews' = {o}
    /\ UNCHANGED <<now, signal, page, flight, log, question, past>>

Next ==
    \/ StartRecording \/ StopRecording \/ Comes \/ next_question \/ Tick \/ Frozen \/ flush \/ Arrives \/ NotAnswered
    \/ \E how \in {"tab", "window"} : Leaves(how)
    \/ \E kind \in Kinds : Notices(kind)
    \/ review_observation

Spec == Init /\ [][Next]_vars
-----------------------------------------------------------------------------
\* Nobody is accused of what did not happen: who did not leave the page, paste a text or share the
\* picture while the answer was recorded is not said to have, however late, lost or repeated the events
\* were; only repeated samples of faces count twice, and a page that went on sending has no pause.
NobodyAccused ==
    \A q \in Questions :
      /\ q \notin past.left => ~away_observations(q)
      /\ q \notin past.pasted => ~paste_observations(q)
      /\ past.many[q] < FACES_MANY_MIN_SAMPLES /\ ~past.repeated => ~multiple_faces(q)
      /\ past.troubles = 0 => ~heartbeat_facts(q)

\* A long absence during the last recording of a question is noticed, as long as the network works and
\* the question is not the last one.
LongAbsenceSeen ==
    \A q \in Questions :
      past.troubles = 0 /\ q < question /\ past.longest[q] >= AWAY_TOTAL
      /\ log # <<>> /\ Last(log).question_index > q
      => <<"away_during_answer", q>> \in Flags \cup reviews

ReportIsFair == TypeOK /\ NobodyAccused /\ LongAbsenceSeen
-----------------------------------------------------------------------------
(* Properties the repository states and the code does not have. *)

\* A single short absence is no observation (rules: single short events do not count).
OneShortAbsence ==
    \A q \in Questions :
      past.troubles = 0 /\ past.signals <= 1 /\ past.longest[q] < AWAY_TOTAL => ~away_observations(q)

\* The last question is looked at like the others.
LastQuestionSeen ==
    past.troubles = 0 /\ question > LastQuestion /\ past.longest[LastQuestion] >= AWAY_TOTAL
    /\ page.buffer = <<>> /\ flight = <<>>
    => away_observations(LastQuestion)
=============================================================================
