------------------------------ MODULE Vacancies ------------------------------
(***************************************************************************)
(* One vacancy: its rubric, its questions and its settings                 *)
(* (vacancies/service), who edits them - the pages and the buttons of the  *)
(* assistant, which save what was made of an earlier reading - and the     *)
(* clips of the avatar, prepared by the job avatar.prewarm and looked up   *)
(* by the rooms of candidates.                                             *)
(*                                                                         *)
(* A request reads the vacancy with its questions, then writes the columns *)
(* that differ from what it read; rows of a position are unique.           *)
(***************************************************************************)
EXTENDS Integers, Sequences, FiniteSets, SequencesExt

CONSTANTS Editors,        \* requests on their way
          Texts,          \* texts of questions
          LongTexts,      \* those over AVATAR_MAX_TEXT_CHARS
          Competencies,   \* ids of competencies
          Voices, nova,   \* voices of the interviewer, and the one a vacancy begins with
          prewarm_attempts,  \* max_attempts of the job
          MaxQuestions,   \* bound on rows of questions ever written
          MaxTroubles,    \* bound on clips that fail and workers that die
          MaxEvents       \* bound on edits and troubles together

VARIABLES vacancy,    \* the row of Vacancy
          questions,  \* the rows of Question by id
          edit,       \* edit[e]: what was read and changed, then the request that saves it
          job,        \* the job avatar.prewarm
          clips,      \* the manifests in the storage
          room,       \* the room of a candidate who is shown the questions
          past        \* history and budgets

vars == <<vacancy, questions, edit, job, clips, room, past>>

\* What the values of the constants have to satisfy.
ParametersOK ==
    /\ Texts # {} /\ LongTexts \subseteq Texts /\ nova \in Voices
    /\ {prewarm_attempts, MaxQuestions} \subseteq Nat \ {0} /\ {MaxTroubles, MaxEvents} \subseteq Nat

Vacancy == [status : {"draft", "published", "archived"}, rubric : SUBSET Competencies,
            avatar_enabled : BOOLEAN, voice : Voices]
Ids == 1..MaxQuestions
Question == [position : 0..(MaxQuestions - 1), text : Texts, competency_ids : SUBSET Competencies]
\* QuestionIn: id 0 is a new question.
Item == [id : 0..MaxQuestions, text : Texts, competency_ids : SUBSET Competencies]
Ops == {"rubric", "settings", "replace", "generate", "publish", "unpublish", "archive", "restore"}
NoEdit == [pc |-> "idle"]
NoJob == [pc |-> "none"]
NoRoom == [texts |-> {}]

Rows(n) == UNION {[ids -> Question] : ids \in {s \in SUBSET Ids : Cardinality(s) <= n}}

TypeOK ==
    /\ vacancy \in Vacancy
    /\ DOMAIN questions \subseteq Ids /\ \A q \in DOMAIN questions : questions[q] \in Question
    /\ \A e \in Editors :
         \/ edit[e] = NoEdit
         \/ /\ edit[e].pc \in {"made", "loaded"} /\ edit[e].op \in Ops
            /\ \A k \in DOMAIN edit[e].list : edit[e].list[k] \in Item
            /\ edit[e].rubric \subseteq Competencies /\ edit[e].voice \in Voices /\ edit[e].avatar \in BOOLEAN
    /\ \/ job = NoJob
       \/ job.pc \in {"queued", "running"} /\ job.attempts \in 0..prewarm_attempts /\ job.left \subseteq Texts
    /\ clips \subseteq Texts \X Voices
    /\ room.texts \subseteq Texts
    /\ past \in [overlapped : BOOLEAN, emptied : BOOLEAN, issued : 0..MaxQuestions, edits : 0..MaxEvents,
                 troubles : 0..MaxTroubles]

\* create, create_vacancy_from_text: a draft is committed, then its rubric, then its questions; a process
\* that dies in between leaves it there.
MadeOf(stage) ==
    /\ vacancy = [status |-> "draft", rubric |-> IF stage = "created" THEN {} ELSE Competencies,
                  avatar_enabled |-> TRUE, voice |-> nova]
    /\ questions = IF stage # "questions" THEN <<>>
                   ELSE <<[position |-> 0, competency_ids |-> Competencies, text |-> CHOOSE t \in Texts : TRUE]>>

Init ==
    /\ \E stage \in {"created", "rubric", "questions"} : MadeOf(stage)
    /\ edit = [e \in Editors |-> NoEdit]
    /\ job = NoJob /\ clips = {} /\ room = NoRoom
    /\ past = [overlapped |-> FALSE, emptied |-> FALSE, issued |-> Cardinality(DOMAIN questions), edits |-> 0, troubles |-> 0]
-----------------------------------------------------------------------------
\* What is made of a reading of the vacancy, by a page or by a tool of the assistant.

Ordered(rows) ==
    CHOOSE s \in SetToSeqs(DOMAIN rows) : \A j, k \in DOMAIN s : j < k => rows[s[j]].position < rows[s[k]].position
_question_in(id, row) == [id |-> id, text |-> row.text, competency_ids |-> row.competency_ids]
\* Variant: the questions there are go without their ids.
ItemsNoIds(rows) == [k \in DOMAIN Ordered(rows) |-> _question_in(0, rows[Ordered(rows)[k]])]
Items(rows) == [k \in DOMAIN Ordered(rows) |-> _question_in(Ordered(rows)[k], rows[Ordered(rows)[k]])]

\* generate_questions: what there is, and questions of the model, which refer to the rubric as it is.
Generated(rows, rubric) ==
    {Append(Items(rows), [id |-> 0, text |-> t, competency_ids |-> rubric]) : t \in Texts}

\* review_questions, and the editor of the page.
Retexted(rows) == {[Items(rows) EXCEPT ![k].text = t] : k \in DOMAIN Items(rows), t \in Texts}
Edited(rows) == {Reverse(Items(rows))} \cup {RemoveAt(Items(rows), k) : k \in DOMAIN Items(rows)} \cup Retexted(rows)

Makes(e, op, list, rubric, avatar, voice) ==
    /\ edit[e] = NoEdit
    /\ past.edits + past.troubles < MaxEvents
    /\ edit' = [edit EXCEPT ![e] = [pc |-> "made", op |-> op, list |-> list, rubric |-> rubric,
                                    avatar |-> avatar, voice |-> voice,
                                    of |-> IF op = "generate" THEN questions ELSE <<>>]]
    /\ past' = [past EXCEPT !.edits = @ + 1]
    /\ UNCHANGED <<vacancy, questions, job, clips, room>>

MakesOf(e, op) == Makes(e, op, <<>>, {}, FALSE, vacancy.voice)

generate_questions(e) ==
    /\ vacancy.status # "archived"
    /\ \E list \in Generated(questions, vacancy.rubric) : Makes(e, "generate", list, {}, FALSE, vacancy.voice)
review_questions(e) ==
    questions # <<>> /\ \E list \in Edited(questions) : Makes(e, "replace", list, {}, FALSE, vacancy.voice)
generate_rubric(e) ==
    \E rubric \in SUBSET Competencies \ {vacancy.rubric} : Makes(e, "rubric", <<>>, rubric, FALSE, vacancy.voice)
ChangesSettings(e) ==
    \/ Makes(e, "settings", <<>>, {}, ~vacancy.avatar_enabled, vacancy.voice)
    \/ \E voice \in Voices \ {vacancy.voice} : Makes(e, "settings", <<>>, {}, vacancy.avatar_enabled, voice)
publish_vacancy(e) == vacancy.status # "published" /\ questions # <<>> /\ MakesOf(e, "publish")
archive_vacancy(e) == vacancy.status # "archived" /\ MakesOf(e, "archive")
Turns(e) == \E op \in {"publish", "unpublish", "restore"} : MakesOf(e, op)
-----------------------------------------------------------------------------
\* The requests.

Alone(e) == \A o \in Editors \ {e} : edit[o].pc # "loaded"

\* get: the vacancy with its questions is read.
get(e) ==
    /\ edit[e].pc = "made"
    /\ edit' = [edit EXCEPT ![e] = [pc |-> "loaded", op |-> @.op, list |-> @.list, rubric |-> @.rubric,
                                    avatar |-> @.avatar, voice |-> @.voice, of |-> @.of,
                                    seen |-> vacancy, rows |-> questions]]
    /\ past' = [past EXCEPT !.overlapped = @ \/ ~Alone(e)]
    /\ UNCHANGED <<vacancy, questions, job, clips, room>>

\* schedule_prewarm: not beside a job that waits or runs.
schedule_prewarm(wanted) ==
    job' = IF wanted /\ job = NoJob THEN [pc |-> "queued", attempts |-> 0, left |-> {}] ELSE job

\* A refused request, or one whose transaction fails, leaves everything as it was.
Refused(e) ==
    /\ edit' = [edit EXCEPT ![e] = NoEdit]
    /\ UNCHANGED <<vacancy, questions, job, clips, room, past>>

Saved(e) == edit' = [edit EXCEPT ![e] = NoEdit] /\ UNCHANGED <<clips, room>>

\* The columns that differ from what was read.
Differs(now, seen, new) == IF new = seen THEN now ELSE new

\* Variant: the questions are left as they are.
Untrimmed(row, seen, rubric) == row
\* update, with a rubric: references to competencies that are gone are taken out of the questions.
Trimmed(row, seen, rubric) ==
    [row EXCEPT !.competency_ids = Differs(@, seen.competency_ids, seen.competency_ids \cap rubric)]

update_rubric(e) ==
    LET r == edit[e]
        touched == {q \in DOMAIN r.rows : ~r.rows[q].competency_ids \subseteq r.rubric}
    IN  /\ r.pc = "loaded" /\ r.op = "rubric"
        /\ IF r.seen.status = "archived" \/ ~touched \subseteq DOMAIN questions THEN Refused(e)
           ELSE /\ vacancy' = [vacancy EXCEPT !.rubric = Differs(@, r.seen.rubric, r.rubric)]
                /\ questions' = [q \in DOMAIN questions |->
                     IF q \in DOMAIN r.rows THEN Trimmed(questions[q], r.rows[q], r.rubric) ELSE questions[q]]
                /\ Saved(e) /\ UNCHANGED <<job, past>>

update_settings(e) ==
    LET r == edit[e] IN
    /\ r.pc = "loaded" /\ r.op = "settings"
    /\ IF r.seen.status = "archived" THEN Refused(e)
       ELSE /\ vacancy' = [vacancy EXCEPT !.avatar_enabled = Differs(@, r.seen.avatar_enabled, r.avatar),
                                          !.voice = Differs(@, r.seen.voice, r.voice)]
            /\ schedule_prewarm(/\ r.seen.status = "published" /\ r.avatar
                                /\ ~r.seen.avatar_enabled \/ r.voice # r.seen.voice)
            /\ Saved(e) /\ UNCHANGED <<questions, past>>

\* replace_questions: an item that names a question that was read changes its row, any other becomes a
\* row, and rows that were read and are not named are deleted.  A row to change that is gone, and a
\* position another row has, fail the transaction.
replace_questions(e) ==
    LET r == edit[e]
        kept == {r.list[k].id : k \in DOMAIN r.list} \cap DOMAIN r.rows
        new == {k \in DOMAIN r.list : r.list[k].id \notin kept}
        IdOf(k) == IF k \in new THEN past.issued + Cardinality({j \in new : j <= k}) ELSE r.list[k].id
        PlaceOf(q) == CHOOSE k \in DOMAIN r.list : IdOf(k) = q
        named == {IdOf(k) : k \in DOMAIN r.list}
        others == DOMAIN questions \ (named \cup DOMAIN r.rows)
        Row(q) == LET item == r.list[PlaceOf(q)] IN
                  [position |-> PlaceOf(q) - 1,
                   text |-> IF q \in kept THEN Differs(questions[q].text, r.rows[q].text, item.text) ELSE item.text,
                   competency_ids |->
                     IF q \in kept THEN Differs(questions[q].competency_ids, r.rows[q].competency_ids, item.competency_ids)
                     ELSE item.competency_ids]
    IN  /\ r.pc = "loaded" /\ r.op \in {"replace", "generate"}
        /\ IF \/ r.seen.status = "archived"
              \/ \E k \in DOMAIN r.list : ~r.list[k].competency_ids \subseteq r.seen.rubric
              \/ ~kept \subseteq DOMAIN questions
              \/ \E q \in others : questions[q].position < Len(r.list)
           THEN Refused(e)
           ELSE /\ past.issued + Cardinality(new) <= MaxQuestions
                /\ questions' = [q \in named \cup others |-> IF q \in others THEN questions[q] ELSE Row(q)]
                /\ schedule_prewarm(r.seen.status = "published" /\ r.seen.avatar_enabled)
                /\ past' = [past EXCEPT !.issued = @ + Cardinality(new),
                                        !.emptied = @ \/ r.list = <<>>]
                /\ Saved(e) /\ UNCHANGED vacancy

\* publish, unpublish, archive, restore.
TurnedTo(op) == CASE op = "publish" -> "published" [] op = "archive" -> "archived" [] OTHER -> "draft"

turn(e) ==
    LET r == edit[e] IN
    /\ r.pc = "loaded" /\ r.op \in {"publish", "unpublish", "archive", "restore"}
    /\ IF (r.op = "publish" /\ r.rows = <<>>) \/ (r.op = "restore" /\ r.seen.status # "archived") THEN Refused(e)
       ELSE /\ vacancy' = [vacancy EXCEPT !.status = Differs(@, r.seen.status, TurnedTo(r.op))]
            /\ schedule_prewarm(r.op = "publish" /\ r.seen.avatar_enabled)
            /\ Saved(e) /\ UNCHANGED <<questions, past>>

\* The page, or the button, is left, or the process dies.
Leaves(e) == edit[e] # NoEdit /\ Refused(e)
-----------------------------------------------------------------------------
\* avatar.prewarm: the texts are read once, then each gets its clip.

Prewarms == job.pc = "running"

Claim ==
    /\ job.pc = "queued"
    /\ IF vacancy.avatar_enabled
       THEN job' = [pc |-> "running", attempts |-> job.attempts + 1, voice |-> vacancy.voice,
                    left |-> {questions[q].text : q \in DOMAIN questions}, got |-> FALSE, failed |-> FALSE]
       ELSE job' = NoJob
    /\ UNCHANGED <<vacancy, questions, edit, clips, room, past>>

\* get_or_render: what is cached is not rendered; a failed clip, or none, does not stop the others.
Rendered(t) ==
    /\ Prewarms /\ t \in job.left
    /\ <<t, job.voice>> \in clips \/ t \notin LongTexts
    /\ clips' = clips \cup {<<t, job.voice>>}
    /\ job' = [job EXCEPT !.left = @ \ {t}, !.got = TRUE]
    /\ UNCHANGED <<vacancy, questions, edit, room, past>>

NotRendered(t) ==
    /\ Prewarms /\ t \in job.left /\ <<t, job.voice>> \notin clips
    /\ \/ t \in LongTexts /\ UNCHANGED past
       \/ past.troubles < MaxTroubles /\ past.edits + past.troubles < MaxEvents /\ past' = [past EXCEPT !.troubles = @ + 1]
    /\ job' = [job EXCEPT !.left = @ \ {t}, !.failed = TRUE]
    /\ UNCHANGED <<vacancy, questions, edit, clips, room>>

Again == IF job.attempts < prewarm_attempts THEN [pc |-> "queued", attempts |-> job.attempts, left |-> {}] ELSE NoJob

Finish ==
    /\ Prewarms /\ job.left = {}
    /\ job' = IF job.failed /\ ~job.got THEN Again ELSE NoJob
    /\ UNCHANGED <<vacancy, questions, edit, clips, room, past>>

Dies ==
    /\ Prewarms /\ past.troubles < MaxTroubles /\ past.edits + past.troubles < MaxEvents
    /\ past' = [past EXCEPT !.troubles = @ + 1]
    /\ job' = Again
    /\ UNCHANGED <<vacancy, questions, edit, clips, room>>

\* A candidate begins (build_question_snapshot) and is shown one question after another; a clip that is
\* missing is ordered for the next one.
Begins ==
    /\ room.texts = {} /\ vacancy.status = "published" /\ questions # <<>> /\ vacancy.avatar_enabled
    /\ room' = [texts |-> {questions[q].text : q \in DOMAIN questions}, voice |-> vacancy.voice]
    /\ UNCHANGED <<vacancy, questions, edit, job, clips, past>>

Missing(t) == <<t, room.voice>> \notin clips

\* Variant: a missing clip is only missing.
NotOrdered(t) == FALSE

_avatar(t) ==
    /\ t \in room.texts
    /\ schedule_prewarm(Missing(t))
    /\ room' = IF room.texts = {t} THEN NoRoom ELSE [room EXCEPT !.texts = @ \ {t}]
    /\ UNCHANGED <<vacancy, questions, edit, clips, past>>

Reveals == \E t \in Texts : _avatar(t)
Works == Claim \/ Finish \/ \E t \in Texts : Rendered(t) \/ NotRendered(t)

Next ==
    \/ \E e \in Editors :
         \/ generate_questions(e) \/ review_questions(e) \/ generate_rubric(e) \/ ChangesSettings(e)
         \/ publish_vacancy(e) \/ archive_vacancy(e) \/ Turns(e)
         \/ get(e) \/ update_rubric(e) \/ update_settings(e) \/ replace_questions(e) \/ turn(e) \/ Leaves(e)
    \/ Works \/ Dies \/ Begins \/ Reveals

Spec == Init /\ [][Next]_vars

\* Workers run, and candidates keep coming.
FairSpec == Spec /\ WF_vars(Works) /\ WF_vars(Begins) /\ WF_vars(Reveals)
-----------------------------------------------------------------------------
\* No two questions have one place.
PlacesDiffer == \A p, q \in DOMAIN questions : p # q => questions[p].position # questions[q].position

\* Unless two requests overlapped: the places are 1..n without a gap, every competency a question refers
\* to is in the rubric - otherwise each later list with the question would be refused -, and what is
\* published has questions, as long as no empty list was saved.
ListIsSound ==
    ~past.overlapped =>
      /\ {questions[q].position : q \in DOMAIN questions} = 0..(Cardinality(DOMAIN questions) - 1)
      /\ \A q \in DOMAIN questions : questions[q].competency_ids \subseteq vacancy.rubric
      /\ vacancy.status = "published" /\ ~past.emptied => questions # <<>>

VacancyIsSound == TypeOK /\ PlacesDiffer /\ ListIsSound

\* What the assistant generated is added: when the list is still what it was generated for, every
\* question keeps its row, its text and its place among the others, and the new one comes last.
AddsTo(e) ==
    /\ edit[e].pc = "loaded" /\ edit[e].op = "generate" /\ edit'[e] = NoEdit
    /\ questions = edit[e].of /\ questions' # questions
    => \A q \in DOMAIN questions :
         /\ q \in DOMAIN questions' /\ questions'[q].text = questions[q].text
         /\ \A p \in DOMAIN questions' :
              p \notin DOMAIN questions \/ questions[p].position > questions[q].position
              => p = q \/ questions'[p].position > questions'[q].position
GeneratedAdds == [][\A e \in Editors : AddsTo(e)]_vars

\* Once editing has ended, every question of a published vacancy gets its clip, even when the job that
\* was to prepare it had already read the older texts.
ClipsReady ==
    vacancy.status = "published" /\ vacancy.avatar_enabled =>
      \A q \in DOMAIN questions :
        questions[q].text \in LongTexts \/ <<questions[q].text, vacancy.voice>> \in clips
ClipsInTheEnd == []<>ClipsReady
-----------------------------------------------------------------------------
(* Properties the repository states and the code does not have. *)

\* Questions the assistant generated are added to those there are (toolbox: they will be added to the
\* existing ones).
GeneratedAlwaysAdds ==
    [][ \A e \in Editors :
          edit[e].pc = "loaded" /\ edit[e].op = "generate" /\ edit'[e] = NoEdit /\ questions' # questions
          => \A q \in DOMAIN questions : q \in DOMAIN questions' /\ questions'[q].text = questions[q].text ]_vars
=============================================================================
