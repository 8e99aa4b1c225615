--------------------------- MODULE AssistantThread ---------------------------
(***************************************************************************)
(* One thread of the assistant: the turns of the agent (assistant/runner), *)
(* the tools it calls (assistant/toolbox), the thread itself               *)
(* (assistant/service) and the panel of the page, whose buttons do what    *)
(* the tools proposed and mark it as done.                                 *)
(*                                                                         *)
(* No tool changes anything but the thread: whatever would is proposed,    *)
(* and the button calls the ordinary API, then confirm_action.  A turn     *)
(* that the page has left goes on until the server notices it, so the next *)
(* turn may overlap it.                                                    *)
(***************************************************************************)
EXTENDS Integers, Sequences, FiniteSets, FiniteSetsExt

CONSTANTS Proposals,      \* what the tools propose: an action and its parameters
          MaxTurns,       \* turns of the thread
          max_steps,      \* ASSISTANT_MAX_STEPS
          MaxCalls,       \* bound on the calls of one answer of the model
          MaxPresses,     \* bound on buttons pressed
          MaxTroubles,    \* bound on pages loaded again, processes that die, marks and turns that fail, threads archived
          MaxEvents       \* bound on both together

VARIABLES archived,   \* AssistantThread.archived_at is set
          messages,   \* the rows of AssistantMessage in the order they were written
          turn,       \* turn[t]: AssistantRunner.run
          page,       \* the panel
          marking,    \* the requests confirm_action on their way
          past        \* history

vars == <<archived, messages, turn, page, marking, past>>

Turns == 1..MaxTurns
\* A proposal is known by the turn and its place among the actions of the turn.
Refs == [turn : Turns, index : 1..(max_steps * MaxCalls)]
\* ToolResult.kind done and error carry no proposal: one of them stands in every other turn.
Results(t) == Proposals \cup (IF t % 2 = 0 THEN {"none"} ELSE {})
Action == [proposal : Proposals \cup {"none"}, confirmed : BOOLEAN]
Message == [turn : Turns, role : {"user", "tool", "assistant"}, position : Nat, actions : Seq(Action)]
Turn == [pc : {"none", "write", "ask", "call", "summary", "finish", "saved", "over"},
         position : Nat, steps : 0..max_steps, left : 0..MaxCalls, actions : Seq(Proposals \cup {"none"}), failed : BOOLEAN]
\* page.streaming: the turn whose events it reads, 0 none.  captured: what send() sees of confirmed.
\* view: the assistant messages shown, with the marks as they were loaded.  busy: buttons that wait, in a
\* saved message or in the draft.
\* past.met: turns that went on at once.  executed: how often the button of a proposal did it.  The rest:
\* a button was pressed in the draft of a turn, two marks of a message overlapped, something went wrong.

TypeOK ==
    /\ archived \in BOOLEAN
    /\ messages \in Seq(Message)
    /\ turn \in [Turns -> Turn]
    /\ DOMAIN page = {"streaming", "confirmed", "captured", "view", "busy"} /\ page.streaming \in 0..MaxTurns
    /\ page.confirmed \cup page.captured \subseteq Proposals /\ page.busy \subseteq Refs \X BOOLEAN
    /\ \A t \in Turns : page.view[t].shown \in BOOLEAN /\ page.view[t].done \subseteq Nat
    /\ \A m \in marking : m.ref \in Refs /\ m.pc \in {"load", "commit"} /\ m.seen \subseteq Nat
    /\ past.executed \in [Refs -> 0..MaxPresses] /\ past.presses \in 0..MaxPresses
    /\ past.troubles \in 0..MaxTroubles

Init ==
    /\ archived = FALSE /\ messages = <<>> /\ marking = {}
    /\ turn = [t \in Turns |-> [pc |-> "none", position |-> 0, steps |-> 0, left |-> 0,
                                actions |-> <<>>, failed |-> FALSE]]
    /\ page = [streaming |-> 0, confirmed |-> {}, captured |-> {}, busy |-> {},
               view |-> [t \in Turns |-> [shown |-> FALSE, done |-> {}]]]
    /\ past = [met |-> {}, executed |-> [r \in Refs |-> 0], presses |-> 0, early |-> FALSE, overlapped |-> FALSE,
               troubles |-> 0]
TroubleMayCome == past.troubles < MaxTroubles /\ past.presses + past.troubles < MaxEvents
-----------------------------------------------------------------------------
\* The server: one turn.

Active == {t \in Turns : turn[t].pc \in {"write", "ask", "call", "summary", "finish"}}

\* Variant: the next message gets the place of the last one.
LastPosition(rows) == Max({0} \cup {rows[i].position : i \in DOMAIN rows})
_next_position(rows) == LastPosition(rows) + 1

Write(t, role, position, actions) ==
    messages' = Append(messages, [turn |-> t, role |-> role, position |-> position,
                                  actions |-> [i \in DOMAIN actions |-> [proposal |-> actions[i],
                                                                         confirmed |-> FALSE]]])

writable_thread == ~archived

\* The panel sends what the user typed, unless an answer is still streaming; writable_thread lets it
\* pass, and the history and the place of the message are read.
Send(t) ==
    /\ page.streaming = 0 /\ turn[t].pc = "none" /\ \A s \in 1..(t - 1) : turn[s].pc # "none"
    /\ writable_thread
    /\ page' = [page EXCEPT !.streaming = t, !.captured = page.confirmed]
    /\ turn' = [turn EXCEPT ![t].pc = "write", ![t].position = _next_position(messages)]
    /\ past' = [past EXCEPT !.met = @ \cup {{s, t} : s \in Active}]
    /\ UNCHANGED <<archived, messages, marking>>

WriteUser(t) ==
    /\ turn[t].pc = "write"
    /\ Write(t, "user", turn[t].position, <<>>)
    /\ turn' = [turn EXCEPT ![t].pc = "ask"]
    /\ UNCHANGED <<archived, page, marking, past>>

\* The model answers with text, or calls tools; or the provider, or the run, fails.
Answered(t) ==
    /\ turn[t].pc \in {"ask", "summary"}
    /\ turn' = [turn EXCEPT ![t].pc = "finish"]
    /\ UNCHANGED <<archived, messages, page, marking, past>>

CallsTools(t) ==
    /\ turn[t].pc = "ask" /\ turn[t].steps < max_steps
    /\ \E n \in 1..MaxCalls : turn' = [turn EXCEPT ![t].pc = "call", ![t].left = n, ![t].steps = @ + 1]
    /\ UNCHANGED <<archived, messages, page, marking, past>>

Fails(t) ==
    /\ turn[t].pc \in {"ask", "summary"}
    /\ TroubleMayCome
    /\ turn' = [turn EXCEPT ![t].pc = "finish", ![t].failed = TRUE]
    /\ past' = [past EXCEPT !.troubles = @ + 1]
    /\ UNCHANGED <<archived, messages, page, marking>>

\* After the last call of an answer: ask again, or, at the limit of steps, ask for a summary.
AfterCall(t, left) ==
    IF left > 0 THEN "call" ELSE IF turn[t].steps < max_steps THEN "ask" ELSE "summary"

\* A tool does its work; its result is written at once, a message of its own.
Execute(t) ==
    /\ turn[t].pc = "call"
    /\ \E result \in Results(t) :
         /\ Write(t, "tool", turn[t].position + 1, <<result>>)
         /\ turn' = [turn EXCEPT ![t].position = @ + 1, ![t].actions = Append(@, result),
                               ![t].left = @ - 1, ![t].pc = AfterCall(t, turn[t].left - 1)]
    /\ UNCHANGED <<archived, page, marking, past>>

\* The answer of the turn, with everything that was done and proposed; whatever happened, there is one.
_finish(t) ==
    /\ turn[t].pc = "finish"
    /\ Write(t, "assistant", turn[t].position + 1, turn[t].actions)
    /\ turn' = [turn EXCEPT ![t].pc = "saved", ![t].position = 0, ![t].steps = 0]
    /\ UNCHANGED <<archived, page, marking, past>>

Over(run) == [run EXCEPT !.pc = "over", !.position = 0, !.steps = 0, !.left = 0, !.failed = FALSE]

\* The page has gone, or the process dies: the turn ends where it is.
Cut(t) ==
    /\ turn[t].pc \notin {"none", "over"}
    /\ \/ page.streaming # t /\ UNCHANGED <<page, past>>
       \/ /\ TroubleMayCome
          /\ past' = [past EXCEPT !.troubles = @ + 1]
          /\ page' = [page EXCEPT !.streaming = IF @ = t THEN 0 ELSE @]
    /\ turn' = [turn EXCEPT ![t] = Over(@)]
    /\ UNCHANGED <<archived, messages, marking>>

archive_thread ==
    /\ ~archived /\ TroubleMayCome
    /\ archived' = TRUE /\ past' = [past EXCEPT !.troubles = @ + 1]
    /\ UNCHANGED <<messages, turn, page, marking>>
-----------------------------------------------------------------------------
\* The panel, and confirm_action.

AnswerOf(t) == {i \in DOMAIN messages : messages[i].turn = t /\ messages[i].role = "assistant"}
Row(t) == CHOOSE i \in AnswerOf(t) : TRUE
Confirmed(row) == {k \in DOMAIN row.actions : row.actions[k].confirmed}
Proposal(ref) == turn[ref.turn].actions[ref.index]

\* The event done: the saved message replaces the draft, and what was confirmed in the draft is to be
\* marked.  send() still sees what was confirmed when it was called.
Done(t) ==
    /\ turn[t].pc = "saved" /\ page.streaming = t
    /\ turn' = [turn EXCEPT ![t] = Over(@)]
    /\ page' = [page EXCEPT !.streaming = 0, !.view[t] = [shown |-> TRUE, done |-> {}]]
    /\ marking' = marking \cup
         {[ref |-> r, pc |-> "load", seen |-> {}] :
            r \in {r \in Refs : /\ r.turn = t /\ ~turn[t].failed /\ r.index \in DOMAIN turn[t].actions
                                /\ turn[t].actions[r.index] \in page.captured}}
    /\ UNCHANGED <<archived, messages, past>>

\* The button of a proposal, in the draft of the turn or in a message that is shown, is not pressed
\* while it waits nor when it is marked, and the same proposal counts as done until the page is left.
Offered(ref) ==
    /\ ref.index \in DOMAIN turn[ref.turn].actions /\ Proposal(ref) # "none"
    /\ page.streaming = ref.turn \/ page.view[ref.turn].shown
    /\ ref.index \notin page.view[ref.turn].done
    /\ Proposal(ref) \notin page.confirmed /\ <<ref, page.view[ref.turn].shown>> \notin page.busy

\* executeProposal: the ordinary API has done it.
Press(ref) ==
    /\ Offered(ref) /\ past.presses < MaxPresses /\ past.presses + past.troubles < MaxEvents
    /\ page' = [page EXCEPT !.busy = @ \cup {<<ref, page.view[ref.turn].shown>>}]
    /\ past' = [past EXCEPT !.executed[ref] = @ + 1, !.presses = @ + 1, !.early = @ \/ ~page.view[ref.turn].shown]
    /\ UNCHANGED <<archived, messages, turn, marking>>

\* It is remembered as done, and marked where the button belongs to a saved message.
Executed(ref, saved) ==
    /\ <<ref, saved>> \in page.busy
    /\ page' = [page EXCEPT !.busy = @ \ {<<ref, saved>>}, !.confirmed = @ \cup {Proposal(ref)}]
    /\ marking' = IF saved THEN marking \cup {[ref |-> ref, pc |-> "load", seen |-> {}]} ELSE marking
    /\ UNCHANGED <<archived, messages, turn, past>>

\* confirm_action reads the actions of the message and writes them all.
LoadMark(m) ==
    /\ m \in marking /\ m.pc = "load" /\ AnswerOf(m.ref.turn) # {}
    /\ marking' = (marking \ {m}) \cup
                  {[m EXCEPT !.pc = "commit", !.seen = Confirmed(messages[Row(m.ref.turn)])]}
    /\ past' = [past EXCEPT !.overlapped = @ \/ \E o \in marking : o.pc = "commit" /\ o.ref.turn = m.ref.turn]
    /\ UNCHANGED <<archived, messages, turn, page>>

\* Variant: only the action of this request is marked.
MarkedAlone(seen, index) == {index}

\* What a message that was read with the marks seen is written with.
Marked(seen, index) == seen \cup {index}

confirm_action(m) ==
    /\ m \in marking /\ m.pc = "commit"
    /\ LET done == Marked(m.seen, m.ref.index) IN
       /\ messages' = IF m.ref.index \in m.seen THEN messages
                      ELSE [messages EXCEPT ![Row(m.ref.turn)].actions =
                              [k \in DOMAIN @ |-> [@[k] EXCEPT !.confirmed = k \in done]]]
       /\ page' = [page EXCEPT !.view[m.ref.turn].done = IF page.view[m.ref.turn].shown THEN done ELSE @]
    /\ marking' = marking \ {m}
    /\ UNCHANGED <<archived, turn, past>>

MarkFails(m) ==
    /\ m \in marking /\ TroubleMayCome
    /\ marking' = marking \ {m}
    /\ past' = [past EXCEPT !.troubles = @ + 1]
    /\ UNCHANGED <<archived, messages, turn, page>>

\* A new chat is begun and this one opened again (newChat, selectThread), or the page is loaded again: what the
\* panel remembers is lost then, and a request that waits goes on without it.
Loaded == [t \in Turns |-> [shown |-> AnswerOf(t) # {},
                            done |-> IF AnswerOf(t) = {} THEN {} ELSE Confirmed(messages[Row(t)])]]

LoadMessages ==
    /\ TroubleMayCome
    /\ \E whole \in BOOLEAN :
         page' = [page EXCEPT !.streaming = 0, !.view = Loaded,
                            !.confirmed = IF whole THEN {} ELSE @, !.captured = IF whole THEN {} ELSE @,
                            !.busy = IF whole THEN {} ELSE @]
    /\ past' = [past EXCEPT !.troubles = @ + 1]
    /\ UNCHANGED <<archived, messages, turn, marking>>

Runs(t) ==
    \/ WriteUser(t) \/ Answered(t) \/ CallsTools(t) \/ Fails(t) \/ Execute(t) \/ _finish(t)

Next ==
    \/ \E t \in Turns : Send(t) \/ Runs(t) \/ Cut(t) \/ Done(t)
    \/ archive_thread
    \/ \E ref \in Refs : Press(ref) \/ \E saved \in BOOLEAN : Executed(ref, saved)
    \/ \E m \in marking : LoadMark(m) \/ confirm_action(m) \/ MarkFails(m)
    \/ LoadMessages

Spec == Init /\ [][Next]_vars
-----------------------------------------------------------------------------
\* Messages come back in the order of their places (list_messages): those of one turn in the order they
\* were written, and those of turns that did not go on at once, turn after turn.
HistoryInOrder ==
    \A i, j \in DOMAIN messages :
      i < j /\ {messages[i].turn, messages[j].turn} \notin past.met =>
        messages[i].position < messages[j].position

\* A turn that went its way has one answer, whatever failed in it, and it carries everything the tools said, in their order: what
\* the tool messages hold one by one, the answer holds together.
ToolsOf(t) == {i \in DOMAIN messages : messages[i].turn = t /\ messages[i].role = "tool"}
Place(i) == Cardinality({j \in ToolsOf(messages[i].turn) : j <= i})

AnswerIsWhole ==
    /\ \A t \in Turns : turn[t].pc = "saved" => AnswerOf(t) # {}
    /\ \A i \in DOMAIN messages :
         LET row == messages[i] IN
         row.role = "assistant" =>
           /\ Cardinality(AnswerOf(row.turn)) = 1 /\ Cardinality(ToolsOf(row.turn)) = Len(row.actions)
           /\ \A j \in ToolsOf(row.turn) : messages[j].actions[1].proposal = row.actions[Place(j)].proposal

\* What is marked as done has been done: the button did this proposal, or one that is the same.
MarkIsTrue ==
    \A t \in Turns : \A i \in AnswerOf(t) : \A k \in Confirmed(messages[i]) :
      \E ref \in Refs : /\ past.executed[ref] > 0 /\ Proposal(ref) = messages[i].actions[k].proposal

\* A proposal is not done twice, unless a button was pressed in a draft, or the page or a process went away,
\* or a mark or a turn failed.
NotRepeated ==
    ~past.early /\ past.troubles = 0 => \A ref \in Refs : past.executed[ref] <= 1

ThreadIsKept == TypeOK /\ HistoryInOrder /\ AnswerIsWhole /\ MarkIsTrue /\ NotRepeated

\* A mark that was made stays, unless another mark of the message was made at the same time.
MarksStay ==
    [][ \A i \in DOMAIN messages :
          Confirmed(messages[i]) \subseteq Confirmed(messages'[i]) \/ past.overlapped ]_vars

-----------------------------------------------------------------------------
(* Properties the repository states and the code does not have. *)

\* What was confirmed in the draft is marked in the message that replaces it (assistant-panel.tsx).
ConfirmedIsMarked ==
    \A ref \in Refs :
      /\ past.executed[ref] > 0 /\ {<<ref, TRUE>>, <<ref, FALSE>>} \cap page.busy = {} /\ page.view[ref.turn].shown
      /\ past.troubles = 0 /\ ~past.overlapped
      /\ \A m \in marking : m.ref # ref
      => ref.index \in Confirmed(messages[Row(ref.turn)])
=============================================================================
