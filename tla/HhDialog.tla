------------------------------ MODULE HhDialog ------------------------------
(***************************************************************************)
(* The dialog with one applicant in the chat of hh.ru (hh/dialog.py and    *)
(* the synchronisation of hh/service.py): greeting, a day, the link.       *)
(*                                                                         *)
(* The synchronisation of the worker and a recruiter who takes the         *)
(* application over work on the same row, each in a transaction of its     *)
(* own; what is sent to the chat is sent before the transaction ends, and  *)
(* no rollback takes it back.  New tokens of hh are saved in the same      *)
(* session, which commits the transaction halfway.  hh refuses a second    *)
(* message with the key of the first; the key names the application and    *)
(* the step.                                                               *)
(***************************************************************************)
EXTENDS Integers, Sequences, FiniteSets

CONSTANTS Actors,         \* who works on the row: "sync", "take_over"
          Disturbances,   \* the kinds of disturbance that may come together in one behaviour
          MaxWritten,     \* bound on the messages of the chat when people write
          MaxLinks,       \* the links there can be at once
          MaxInterviews   \* bound on the interviews

\* failed: calls of hh fail or lose their answer, or processes die; paused: the vacancy is unpublished;
\* refreshed: the tokens of hh run out in the middle of a step; taken: the application is taken over.
Kinds == {"failed", "paused", "refreshed", "taken"}

\* There are more links than can be in use at once: a new one is random.
ASSUME ParametersOK == /\ Actors \subseteq {"sync", "take_over"}
                       /\ Disturbances \subseteq SUBSET Kinds
                       /\ {MaxWritten, MaxLinks, MaxInterviews} \subseteq Nat
                       /\ MaxLinks >= MaxInterviews + 4

VARIABLES chat,       \* the messages of the chat, in order
          row,        \* HhNegotiation
          iv,         \* iv[i]: an interview of the applicant for the vacancy
          published,  \* the vacancy is published and its dialog switched on
          work,       \* work[a]: the transaction of an actor
          past        \* history: what has ever happened

vars == <<chat, row, iv, published, work, past>>

Links == 0..MaxLinks            \* 0: no link
Ids == 1..MaxInterviews         \* 0: no interview
Steps == {"greeting", "clarify", "link"}
MaxChat == MaxWritten + Cardinality(Steps)
Positions == 1..MaxChat
Replies == {"date", "declined", "unknown"}   \* what the applicant writes, as extract_slot reads it
States == {"new", "greeting_sent", "awaiting_slot", "link_sent", "done", "declined", "needs_recruiter"}
TERMINAL_DIALOG_STATES == {"done", "declined"}

Message == [by: {"candidate", "bot", "recruiter"}, what: Steps \cup Replies \cup {"note"}, link: Links]

\* history: the column messages, as the replies that were read and the steps that were sent.
Row == [state: States, history: [read: SUBSET Positions, steps: SUBSET Steps],
        last: 0..MaxChat, clarified: BOOLEAN, iv: 0..MaxInterviews]
Interview == [token: Links, status: {"none", "open", "finished"}]

\* loaded, now: the row as it was loaded and as it has been changed in memory.
\* token, target: the link it has issued, for which interview; locked: its UPDATE of the row was sent.
Work == [pc: {"idle", "loaded", "slot", "ensure", "send", "commit"}, loaded: Row, now: Row,
         ready: BOOLEAN, fresh: SUBSET Positions, step: Steps \cup {"none"},
         token: Links, target: 0..MaxInterviews, locked: BOOLEAN]

TypeOK ==
    /\ chat \in Seq(Message) /\ Len(chat) <= MaxChat
    /\ row \in Row
    /\ iv \in [Ids -> Interview]
    /\ published \in BOOLEAN
    /\ work \in [Actors -> Work]
    /\ past \in [Kinds -> BOOLEAN]

NewRow == [state |-> "new", history |-> [read |-> {}, steps |-> {}],
           last |-> 0, clarified |-> FALSE, iv |-> 0]
Idle == [pc |-> "idle", loaded |-> NewRow, now |-> NewRow, ready |-> FALSE, fresh |-> {},
         step |-> "none", token |-> 0, target |-> 0, locked |-> FALSE]

\* The applicant may have been invited by letter before.
Init ==
    /\ chat = <<>> /\ row = NewRow /\ published = TRUE
    /\ \E i \in {0, 1} : iv = [k \in Ids |-> IF k <= i THEN [token |-> 1, status |-> "open"]
                                                       ELSE [token |-> 0, status |-> "none"]]
    /\ work = [a \in Actors |-> Idle]
    /\ past = [failed |-> FALSE, paused |-> FALSE, refreshed |-> FALSE, taken |-> FALSE]
-----------------------------------------------------------------------------
(* The applicant, the recruiter and hh. *)

Disturbed(kind) ==
    /\ \E kinds \in Disturbances : {kind} \cup {k \in Kinds : past[k]} \subseteq kinds
    /\ past' = [past EXCEPT ![kind] = TRUE]

Say(by, what, link) == chat' = Append(chat, [by |-> by, what |-> what, link |-> link])

Write ==
    /\ Len(chat) < MaxWritten
    /\ \/ \E r \in Replies : Say("candidate", r, 0)
       \/ Say("recruiter", "note", 0)
    /\ UNCHANGED <<row, iv, published, work, past>>

InChat(link) == \E k \in 1..Len(chat) : chat[k].what = "link" /\ chat[k].link = link

\* The applicant takes the interview by the link in the chat.
Finish(i) ==
    /\ iv[i].status = "open" /\ InChat(iv[i].token)
    /\ iv' = [iv EXCEPT ![i].status = "finished"]
    /\ UNCHANGED <<chat, row, published, work, past>>

Publish ==
    /\ Disturbed("paused")
    /\ published' = ~published
    /\ UNCHANGED <<chat, row, iv, work>>
-----------------------------------------------------------------------------
(* The row is loaded, and the chat is read. *)

Load(a) ==
    /\ work[a].pc = "idle"
    /\ work' = [work EXCEPT ![a] = [Idle EXCEPT !.pc = "loaded", !.loaded = row, !.now = row,
                                                !.ready = published]]
    /\ UNCHANGED <<chat, row, iv, published>>

sync_connection == /\ "sync" \in Actors /\ row.state \notin TERMINAL_DIALOG_STATES
                   /\ Load("sync") /\ UNCHANGED past

take_over ==
    /\ "take_over" \in Actors
    /\ row.state \notin {"link_sent"} \cup TERMINAL_DIALOG_STATES
    /\ published
    /\ Load("take_over") /\ Disturbed("taken")

Answers(state) == state \in {"greeting_sent", "awaiting_slot"}

\* Variant: the greeting relies on the history alone, and not on the state.
GreetsAgain(a, now, fresh) ==
    IF a = "take_over" THEN "ensure"
    ELSE IF ~work[a].ready THEN "commit"
    ELSE IF Answers(now.state) /\ fresh # {} THEN "slot"
    ELSE "send"
\* What an actor does after it has read the chat; `commit': nothing is sent.
Dispatch(a, now, fresh) ==
    IF a = "take_over" THEN "ensure"
    ELSE IF ~work[a].ready THEN "commit"
    ELSE IF now.state = "new" THEN "send"
    ELSE IF Answers(now.state) /\ fresh # {} THEN "slot"
    ELSE "commit"

Finished(now) == now.state = "link_sent" /\ now.iv # 0 /\ iv[now.iv].status = "finished"

pull(a) ==
    LET now == work[a].now
        unread == {k \in 1..Len(chat) : k > now.last}
        fresh == {k \in unread \ now.history.read : chat[k].by = "candidate"}
        read == [now EXCEPT !.history.read = @ \cup fresh,
                            !.last = IF unread = {} THEN @ ELSE Len(chat)]
        pc == Dispatch(a, now, fresh)
    IN /\ work[a].pc = "loaded"
       /\ work' = [work EXCEPT ![a].fresh = fresh, ![a].pc = pc,
                      ![a].step = IF pc = "send" THEN "greeting" ELSE "none",
                      ![a].now = IF a = "sync" /\ Finished(now) THEN [read EXCEPT !.state = "done"]
                                                                 ELSE read]
       /\ UNCHANGED <<chat, row, iv, published, past>>
-----------------------------------------------------------------------------
(* A step of the dialog. *)

\* The replies may be read as any one of them.
advance(a) ==
    LET now == work[a].now IN
    /\ work[a].pc = "slot"
    /\ \E k \in work[a].fresh :
         LET slot == chat[k].what IN
         \/ /\ slot = "declined"
            /\ work' = [work EXCEPT ![a].pc = "commit", ![a].now.state = "declined"]
         \/ /\ slot = "date"
            /\ work' = [work EXCEPT ![a].pc = "ensure"]
         \/ /\ slot = "unknown" /\ ~now.clarified
            /\ work' = [work EXCEPT ![a].pc = "send", ![a].step = "clarify", ![a].now.clarified = TRUE]
         \/ /\ slot = "unknown" /\ now.clarified
            /\ work' = [work EXCEPT ![a].pc = "commit", ![a].now.state = "needs_recruiter"]
    /\ UNCHANGED <<chat, row, iv, published, past>>

OthersLock(a) == \E b \in Actors \ {a} : work[b].locked
OthersTarget(a, i) == \E b \in Actors \ {a} : work[b].target = i
Changed(a) == work[a].now # work[a].loaded

\* A random link: none that is known anywhere.
LinksInUse ==
    {chat[k].link : k \in 1..Len(chat)} \cup {iv[i].token : i \in Ids} \cup {work[a].token : a \in Actors}
NewLink == CHOOSE n \in 1..MaxLinks : n \notin LinksInUse

Existing == {i \in Ids : iv[i].status # "none"}

\* send_link: a new link for the interview there is, or for a new one.  The SELECT sends the
\* changes of the row to the database first, and waits for who has changed it.
_ensure_interview(a) ==
    LET unused == {i \in Ids : iv[i].status = "none" /\ ~OthersTarget(a, i)}
    IN /\ work[a].pc = "ensure"
       /\ Changed(a) => ~OthersLock(a)
       /\ \E i \in Ids :
            /\ IF Existing # {} THEN i \in Existing /\ ~OthersTarget(a, i)
               ELSE i \in unused /\ \A j \in unused : i <= j
            /\ work' = [work EXCEPT ![a].pc = "send", ![a].step = "link", ![a].token = NewLink,
                                    ![a].target = i, ![a].now.iv = i, ![a].locked = Changed(a)]
       /\ UNCHANGED <<chat, row, iv, published, past>>

\* hh has taken a message with the key of this step.
\* Variant: each message has a key of its own.
NewKeys(step) == FALSE
KeyTaken(step) == \E k \in 1..Len(chat) : chat[k].by = "bot" /\ chat[k].what = step

\* Variant: the clarification leaves the state as it is.
NotClarified(state, step) ==
    CASE step = "greeting" -> "greeting_sent" [] step = "clarify" -> state [] step = "link" -> "link_sent"
Reached(state, step) ==
    CASE step = "greeting" -> "greeting_sent" [] step = "clarify" -> "awaiting_slot"
      [] step = "link" -> "link_sent"

\* A step that is in the history is not sent; the answer 409 counts as sent.
_send(a) ==
    LET step == work[a].step
        now == [work[a].now EXCEPT !.history.steps = @ \cup {step},
                                   !.state = Reached(@, step)]
    IN /\ work[a].pc = "send"
       /\ IF step \in work[a].now.history.steps \/ KeyTaken(step)
          THEN /\ work' = [work EXCEPT ![a].pc = "commit", ![a].now = now]
               /\ UNCHANGED chat
          ELSE /\ Say("bot", step, work[a].token)
               /\ work' = [work EXCEPT ![a].pc = "commit", ![a].now = [now EXCEPT !.last = Len(chat')]]
       /\ UNCHANGED <<row, iv, published, past>>

\* The message is in the chat, and the answer of hh is lost: the transaction is rolled back.
AnswerLost(a) ==
    /\ Disturbed("failed")
    /\ work[a].pc = "send" /\ work[a].step \notin work[a].now.history.steps
    /\ ~KeyTaken(work[a].step)
    /\ Say("bot", work[a].step, work[a].token)
    /\ work' = [work EXCEPT ![a] = Idle]
    /\ UNCHANGED <<row, iv, published>>

\* A call fails or the process dies: the transaction is rolled back.
Rollback(a) ==
    /\ Disturbed("failed")
    /\ work[a].pc # "idle"
    /\ work' = [work EXCEPT ![a] = Idle]
    /\ UNCHANGED <<chat, row, iv, published>>

\* Variant: only a new interview gets the link.
NewOnly(interview, token) == IF interview.status = "none" THEN [token |-> token, status |-> "open"] ELSE interview
Relinked(interview, token) ==
    [token |-> token, status |-> IF interview.status = "none" THEN "open" ELSE interview.status]

\* The columns that were changed are written by the key of the row, and the link it has issued.
Save(a) ==
    LET w == work[a] IN
    /\ Changed(a) => ~OthersLock(a)
    /\ row' = [c \in DOMAIN row |-> IF w.now[c] = w.loaded[c] THEN row[c] ELSE w.now[c]]
    /\ iv' = IF w.target = 0 THEN iv ELSE [iv EXCEPT ![w.target] = Relinked(@, w.token)]

Commit(a) ==
    /\ work[a].pc = "commit"
    /\ Save(a)
    /\ work' = [work EXCEPT ![a] = Idle]
    /\ UNCHANGED <<chat, published, past>>

\* The tokens of hh have run out when the message is to be sent: the client renews them and commits
\* the session it shares with the dialog, and with it what the step has done so far, if anything.
persist(a) ==
    /\ Disturbed("refreshed")
    /\ work[a].pc = "send" /\ work[a].step \notin work[a].now.history.steps
    /\ Changed(a) \/ work[a].target # 0
    /\ Save(a)
    /\ work' = [work EXCEPT ![a].loaded = work[a].now, ![a].target = 0, ![a].locked = FALSE]
    /\ UNCHANGED <<chat, published>>

\* hh refuses the message and the authorization: take_over saves the error of the connection, and
\* with it what it has done so far.
_mark_auth_error(a) ==
    /\ Disturbed("failed")
    /\ a = "take_over" /\ work[a].pc = "send" /\ work[a].step \notin work[a].now.history.steps
    /\ Save(a)
    /\ work' = [work EXCEPT ![a] = Idle]
    /\ UNCHANGED <<chat, published>>
-----------------------------------------------------------------------------
Advances(a) == pull(a) \/ advance(a) \/ _ensure_interview(a) \/ _send(a) \/ Commit(a)

Next ==
    \/ Write \/ Publish \/ sync_connection \/ take_over
    \/ \E i \in Ids : Finish(i)
    \/ \E a \in Actors :
         Advances(a) \/ AnswerLost(a) \/ Rollback(a) \/ persist(a) \/ _mark_auth_error(a)

Spec == Init /\ [][Next]_vars

\* The periodic job runs again and again, and hh does not fail for ever.
FairSpec ==
    /\ Spec
    /\ WF_vars(sync_connection)
    /\ "sync" \in Actors =>
         /\ SF_vars(pull("sync")) /\ SF_vars(advance("sync")) /\ SF_vars(_ensure_interview("sync"))
         /\ SF_vars(_send("sync")) /\ SF_vars(Commit("sync"))
-----------------------------------------------------------------------------
(* Correctness. *)

\* As long as no call of hh has failed and nobody has taken the application over: when the dialog
\* waits for the interview, the chat has a link that opens it (hh/jobs.py: otherwise "the link is
\* invalid").
ChatLinkWorks ==
    ~past.failed /\ ~past.taken /\ row.state = "link_sent" => row.iv # 0 /\ InChat(iv[row.iv].token)

\* No step of the dialog is in the chat twice, whatever fails and whoever works on it
\* (hh/dialog.py: every sending is idempotent).
NothingTwice ==
    \A j, k \in 1..Len(chat) : chat[j].by = "bot" /\ chat[k].by = "bot" /\ chat[j].what = chat[k].what => j = k

\* Until somebody takes the application over, whatever fails, the dialog does not go back
\* (hh/dialog.py: new, greeting_sent, awaiting_slot, link_sent, done).
Rank == [new |-> 0, greeting_sent |-> 1, awaiting_slot |-> 2, needs_recruiter |-> 3,
         link_sent |-> 4, declined |-> 5, done |-> 5]
Forward == [][~past'.taken => Rank[row'.state] >= Rank[row.state]]_vars

\* Until then the applicant gets one interview (candidates/service.py invite).
OneInterview == ~past.taken => Cardinality({i \in Ids : iv[i].status # "none"}) <= 1

\* The types, and what the applicant sees of it: no message comes twice, and there is one interview,
\* which the link in the chat opens (hh/dialog.py _send, _ensure_interview).
ChatIsRight == TypeOK /\ NothingTwice /\ ChatLinkWorks /\ OneInterview

\* The first reply to the greeting is reacted to in the end, though calls of hh fail, and though the
\* tokens are renewed in the middle of a step -- but not after both: the reply was then committed as read
\* before the call failed.  Nor when the vacancy was paused or the application taken over.
FirstReplyAnswered ==
    (/\ row.state = "greeting_sent"
     /\ \E k \in 1..Len(chat) : k > row.last /\ chat[k].by = "candidate")
        ~> \/ row.state # "greeting_sent"
           \/ past.paused \/ past.taken \/ (past.refreshed /\ past.failed)

(* Properties the repository states and the code does not have. *)

\* Every reply up to the last message that was seen has been read (DialogRunner.pull).
RepliesRead == \A k \in 1..row.last : chat[k].by = "candidate" => k \in row.history.read

\* A reply to the greeting that was read has been reacted to (backend/README.md: the link, a
\* question, or the recruiter).
ReadIsAnswered ==
    row.state = "greeting_sent" =>
        ~ \E g, k \in 1..Len(chat) : /\ g < k /\ chat[g].what = "greeting"
                                     /\ chat[k].by = "candidate" /\ k \in row.history.read
=============================================================================
