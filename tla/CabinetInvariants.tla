-------------------------- MODULE CabinetInvariants --------------------------
(***************************************************************************)
(* What stays true of the parts of MCCabinet, behind the properties that   *)
(* TLC checks: the inductive invariants, made of named parts, and what a   *)
(* step of each kind may change.  ModelGateway_proofs proves them.         *)
(***************************************************************************)
EXTENDS MCCabinet

-----------------------------------------------------------------------------
(* The members of an organization: the part "organization" of MCCabinet. *)

Changing == {"role", "scope", "deactivate", "reactivate", "logout"}

\* What the checks of a request have left to be asked for.
Fits(q) ==
    /\ q.op \in {"register", "invite"} => (q.flag => q.to = "hiring_manager")
    /\ q.op = "register" => q.uses < MaxUses
    /\ q.op \in Changing => q.read.joined
    /\ q.op = "scope" => (q.flag => q.read.role = "hiring_manager")
    /\ q.op = "deactivate" => q.read.is_active
    /\ q.op = "reactivate" => ~q.read.is_active

Guarded(q) == q.op \in {"role", "deactivate"} => A!_guard_last_owner(q.read)

\* What a request has read is what there is.
Reads(q) == q.read = member[q.target] /\ q.uses = invite.uses_count /\ q.number = invite.number

Asked ==
    \A u \in Users : request[u].op # "none" =>
      /\ Fits(request[u])
      /\ request[u].op \in Changing => member[request[u].target].joined

\* As long as no two requests met: one is under way and the rows are as it has read them.
Current ==
    \A u \in Users : request[u].op # "none" =>
      /\ Reads(request[u]) /\ Guarded(request[u])
      /\ \A v \in Users \ {u} : request[v].op = "none"

\* Who comes by the invite is counted; a session is no newer than the rights of its member.
Counted1 == Cardinality(past.joined) <= invite.uses_count /\ invite.uses_count <= MaxUses
Fresh1 ==
    session # A!None =>
      /\ member[session.user].joined /\ session.version <= member[session.user].version
      /\ session.version = member[session.user].version => session.since = past.changed[session.user]
Scoped == \A u \in Users : member[u].scoped => member[u].role = "hiring_manager"

OrgInv ==
    /\ A!TypeOK
    /\ \A u \in past.out : member[u].joined /\ ~member[u].is_active
    /\ invite.scoped => invite.role = "hiring_manager"
    /\ Asked
    /\ ~past.overlapped => Current /\ A!_active_owner_count >= 1 /\ Counted1 /\ Fresh1 /\ Scoped

\* A request has loaded what it asks for, and its checks have passed.
Loads(u, q) ==
    /\ q \in A!Request /\ q.op # "none" /\ Fits(q) /\ Guarded(q) /\ Reads(q)
    /\ request[u].op = "none" /\ request' = [request EXCEPT ![u] = q]
    /\ IF \E v \in Users : request[v].op # "none"
       THEN /\ past' = [overlapped |-> TRUE, out |-> past.out, joined |-> {}, changed |-> [v \in Users |-> 0]]
            /\ session' = A!None
       ELSE past' = past /\ session' = session
    /\ member' = member /\ invite' = invite

\* The owners who have access.
Owners == {u \in Users : member[u].joined /\ member[u].role = "owner" /\ member[u].is_active}

-----------------------------------------------------------------------------
(* The thread of the assistant: the part "thread" of MCCabinet. *)

Panel == [streaming: 0..MaxTurns, confirmed: SUBSET Proposals, captured: SUBSET Proposals,
          busy: SUBSET (T!Refs \X BOOLEAN), view: [T!Turns -> [shown: BOOLEAN, done: SUBSET Nat]]]
Mark == [ref: T!Refs, pc: {"load", "commit"}, seen: SUBSET Nat]
ThreadPast == [met: SUBSET SUBSET T!Turns, executed: [T!Refs -> 0..MaxPresses], presses: 0..MaxPresses,
               early: BOOLEAN, overlapped: BOOLEAN, troubles: 0..MaxTroubles]

ThreadTyped ==
    /\ archived \in BOOLEAN /\ messages \in Seq(T!Message) /\ turn \in [T!Turns -> T!Turn]
    /\ page \in Panel /\ marking \in SUBSET Mark /\ past \in ThreadPast

Unbegun == {"none", "write"}
Ended == {"saved", "over"}
Going == {"write", "ask", "call", "summary", "finish"}

\* The places of the messages: a turn that goes on is behind all messages, but those of the turns it met.
Bounded1 == \E b \in Nat : \A i \in DOMAIN messages : messages[i].position <= b
Behind ==
    \A t \in T!Turns : turn[t].pc \in Going =>
      \A i \in DOMAIN messages :
        /\ messages[i].turn = t => messages[i].position <= turn[t].position
        /\ messages[i].turn # t /\ {messages[i].turn, t} \notin past.met => messages[i].position < turn[t].position
Met == \A s, t \in T!Turns : turn[s].pc \in Going /\ turn[t].pc \in Going /\ s # t => {s, t} \in past.met

Places == Bounded1 /\ Behind /\ Met /\ T!HistoryInOrder

\* What a turn has done and proposed, its tool messages hold one by one and its answer all together.
Begun == \A t \in T!Turns : turn[t].pc \in Unbegun =>
            turn[t].actions = <<>> /\ \A i \in DOMAIN messages : messages[i].turn # t
OneAnswer ==
    \A t \in T!Turns :
      /\ T!AnswerOf(t) # {} => turn[t].pc \in Ended
      /\ turn[t].pc = "saved" => T!AnswerOf(t) # {}
      /\ \A i, j \in T!AnswerOf(t) : i = j
Tools ==
    \A t \in T!Turns :
      /\ Cardinality(T!ToolsOf(t)) = Len(turn[t].actions)
      /\ \A i \in T!ToolsOf(t) :
           messages[i].actions[1].proposal = turn[t].actions[Cardinality({j \in T!ToolsOf(t) : j <= i})]
Answers ==
    \A i \in DOMAIN messages : messages[i].role = "assistant" =>
      /\ Len(messages[i].actions) = Len(turn[messages[i].turn].actions)
      /\ \A k \in DOMAIN messages[i].actions :
           messages[i].actions[k].proposal = turn[messages[i].turn].actions[k]
CallsLeft == \A t \in T!Turns : turn[t].pc = "call" => turn[t].left > 0

Whole == Begun /\ OneAnswer /\ Tools /\ Answers /\ CallsLeft

\* What has been done by a button.
IsDone(p) == \E r \in T!Refs : past.executed[r] > 0 /\ T!Proposal(r) = p
ByButton ==
    \A r \in T!Refs :
      /\ past.executed[r] <= past.presses
      /\ past.executed[r] > 0 => r.index \in DOMAIN turn[r.turn].actions /\ T!Proposal(r) \in Proposals
Remembered == \A p \in page.confirmed \cup page.captured : IsDone(p)
Pressed == \A b \in page.busy : past.executed[b[1]] > 0
ToMark ==
    \A m \in marking :
      /\ m.ref.index \in DOMAIN turn[m.ref.turn].actions /\ IsDone(T!Proposal(m.ref))
      /\ m.pc = "commit" =>
           /\ T!AnswerOf(m.ref.turn) # {}
           /\ \A k \in m.seen : k \in DOMAIN turn[m.ref.turn].actions /\ IsDone(turn[m.ref.turn].actions[k])
MarkedTrue ==
    \A t \in T!Turns : \A i \in T!AnswerOf(t) : \A k \in T!Confirmed(messages[i]) : IsDone(turn[t].actions[k])
Once ==
    ~past.early /\ past.troubles = 0 =>
      \A r \in T!Refs : /\ past.executed[r] <= 1
                        /\ past.executed[r] > 0 => <<r, TRUE>> \in page.busy \/ T!Proposal(r) \in page.confirmed

DoneIsKnown == ByButton /\ Remembered /\ Pressed /\ ToMark /\ MarkedTrue /\ Once

\* As long as no two marks of a message met: one is being made, and it has seen the marks there are.
Seen ==
    ~past.overlapped =>
      \A m \in marking : m.pc = "commit" =>
        /\ m.seen = T!Confirmed(messages[T!Row(m.ref.turn)])
        /\ \A o \in marking : o.pc = "commit" /\ o.ref.turn = m.ref.turn => o = m

ThreadInv == ThreadTyped /\ Places /\ Whole /\ DoneIsKnown /\ Seen

\* The tool messages and the answers.
SameRows ==
    /\ DOMAIN messages' = DOMAIN messages
    /\ \A i \in DOMAIN messages :
         /\ messages'[i].turn = messages[i].turn /\ messages'[i].role = messages[i].role
         /\ messages'[i].position = messages[i].position
         /\ messages[i].role = "tool" => messages'[i] = messages[i]
         /\ Len(messages'[i].actions) = Len(messages[i].actions)
         /\ DOMAIN messages'[i].actions = DOMAIN messages[i].actions
         /\ \A k \in DOMAIN messages[i].actions : messages'[i].actions[k].proposal = messages[i].actions[k].proposal

\* What was done.
Extended1 ==
    \A t \in T!Turns : \A k \in DOMAIN turn[t].actions :
      k \in DOMAIN turn'[t].actions /\ turn'[t].actions[k] = turn[t].actions[k]

MarkFits(m) ==
    /\ m.ref.index \in DOMAIN turn[m.ref.turn].actions /\ IsDone(T!Proposal(m.ref))
    /\ m.pc = "commit" =>
         /\ T!AnswerOf(m.ref.turn) # {}
         /\ \A k \in m.seen : k \in DOMAIN turn[m.ref.turn].actions /\ IsDone(turn[m.ref.turn].actions[k])

\* The message is written with what was seen and the mark.
MarkWrites(i, done) ==
    /\ messages'[i].turn = messages[i].turn /\ messages'[i].role = messages[i].role
    /\ messages'[i].position = messages[i].position
    /\ Len(messages'[i].actions) = Len(messages[i].actions)
    /\ DOMAIN messages'[i].actions = DOMAIN messages[i].actions
    /\ \A k \in DOMAIN messages[i].actions :
         /\ messages'[i].actions[k].proposal = messages[i].actions[k].proposal
         /\ messages'[i].actions[k].confirmed <=> k \in done

-----------------------------------------------------------------------------
(* The rate limiter: the part "limiter" of MCCabinet. *)

\* The calls counted of a key are the last of those in its history; those before have left the window.
Traced(b, times, t) ==
    \E d \in Nat : /\ Len(times) = d + Len(b)
                   /\ \A i \in 1..Len(b) : b[i] = times[d + i]
                   /\ \A i \in 1..d : t - times[i] > window_s
\* Of more calls than the budget the last is out of the window of the first.
Spread(times) == \A i, j \in DOMAIN times : j >= i + budget => times[j] - times[i] > window_s

Admissions == [times: Seq(Int), evicted: BOOLEAN]
Bucket(b, t) == b \in Seq(Int) /\ Len(b) <= budget /\ \A i \in DOMAIN b : b[i] \in 0..t
KeyOK(b, h, when, t) ==
    /\ b \in Seq(Int) /\ h \in Admissions /\ when \in -1 .. MaxTime + window_s + 1
    /\ b # L!NoEntry => Bucket(b, t)
    /\ b # L!NoEntry /\ when # -1 /\ Len(b) = budget => when = b[1] + window_s + 1
    /\ ~h.evicted => IF b = L!NoEntry THEN h.times = <<>> ELSE Spread(h.times) /\ Traced(b, h.times, t)

LimInv ==
    /\ clock \in 0..MaxTime /\ asking \in [Keys -> Nat]
    /\ attempts \in [Keys -> Seq(Int)] /\ past \in [Keys -> Admissions] /\ told \in [Keys -> Int]
    /\ \A k \in Keys : KeyOK(attempts[k], past[k], told[k], clock)

-----------------------------------------------------------------------------
(* Links and tokens: the part "grants" of MCCabinet. *)

Open(s, t) == s # null /\ s.revoked_at = null /\ t <= s.expires_at

\* The link s, the link to media u handed out last, the v views of it, at the time t.
LinkOK(s, u, v, t, h) ==
    /\ s = null => v = 0
    /\ h.closed => s # null /\ s.revoked_at # null
    /\ s # null => s.view_count <= v /\ (h.together \/ s.view_count = v)
    /\ Open(s, t) => h.ended = null
    /\ u # null => u <= t + TTL
    /\ ~h.together /\ h.ended # null /\ u # null => u <= h.ended + TTL
TokenOK(k, h) ==
    h.called # null => k # null /\ (h.together \/ (k.last_used_at \in Int /\ h.called - k.last_used_at < LAST_USED_RESOLUTION))

\* A request has read a row that there still is.
RowOK(r, s, k, v) ==
    /\ r.op \in {"view", "revoke", "extend"} => s # null /\ r.read \in G!Share
    /\ r.op \in {"call", "withdraw"} => k # null /\ r.read \in G!ApiToken
    /\ r.op = "view" => r.read.view_count <= v
\* As long as requests have not met, the only one has read what there is.
AloneOK(r, s, k, t) ==
    /\ \A p, q \in Requests : r[p].op # "none" /\ r[q].op # "none" => p = q
    /\ \A p \in Requests : /\ r[p].op = "view" => r[p].read = s /\ Open(s, t)
                           /\ r[p].op = "call" => r[p].read = k

GrantInv ==
    /\ G!TypeOK
    /\ LinkOK(share, url, views, now, past)
    /\ TokenOK(token, past)
    /\ \A p \in Requests : RowOK(request[p], share, token, views)
    /\ ~past.together => AloneOK(request, share, token, now)
    /\ served.right

\* A range of a file of this size is all that exists of what is wanted.
RangeOK(range, wanted, size) ==
    /\ range = null => wanted = 0..(size - 1)
    /\ range = <<>> => wanted = {}
    /\ range # null /\ range # <<>> => range[1]..range[2] = wanted /\ wanted # {}

-----------------------------------------------------------------------------
(* The files of the knowledge base: of the part "knowledge" of MCCabinet. *)

\* A row as far as its file is concerned.
FileRow == [text: Samples, chunk_count: {K!Len(K!chunk_text(t)) : t \in Samples}, stored: BOOLEAN]

\* A request about a document: an upload has it to itself, and it is not there before; what is being
\* removed from the storage is not there any more.
FileAsked(p, asked, rows, kept, used) ==
    LET r == asked[p] d == r.document IN
    /\ DOMAIN r = {"op", "document", "read", "chunks", "text"}
    /\ r.op \in {"none", "upload", "update", "delete", "remove_file"}
    /\ r.op # "none" => d \in used
    /\ r.op \in {"upload", "update"} => r.text \in Samples
    /\ r.op = "upload" => /\ d \in kept /\ rows[d] = null
                          /\ \A q \in Requests : q # p /\ asked[q].op # "none" => asked[q].document # d
    /\ r.op = "remove_file" => rows[d] = null

FilesInv ==
    /\ documents \in [Documents -> FileRow \cup {null}] /\ DOMAIN request = Requests
    /\ past \in K!Past
    /\ \A d \in Documents : /\ documents[d] # null => d \in past.used
                            /\ documents[d] # null /\ documents[d].stored => d \in files
    /\ \A p \in Requests : FileAsked(p, request, documents, files, past.used)

\* What the request p leaves to the others.
FilesLeft(p, mine, rows, kept) ==
    \A q \in Requests \ {p} :
        /\ request[q].op \in {"upload", "remove_file"} => rows[request[q].document] = null
        /\ request[q].op = "upload" => request[q].document \in kept
        /\ request[q].op = "upload" /\ mine.op # "none" => mine.document # request[q].document

-----------------------------------------------------------------------------
(* The command for demo data: the part "seed" of MCCabinet. *)

Thing(what, name) == [what |-> what, name |-> name]
Nobody == Thing("none", null)

\* What the columns of an interview say of each other.
SeedSound(i) ==
    /\ i.evaluation <=> i.status \in {"evaluated", "decided"}
    /\ i.job <=> i.status = "processing"
    /\ i.notes <= 1 /\ (i.status = "decided" => i.notes = 1) /\ (i.dated => i.status = "decided")
    /\ i.status # "invited" => i.stamped
\* The interview i of p has come to its end.
AtEnd(p, i) ==
    /\ i # null /\ i.stamped
    /\ p \in D!ToSet(Cases) => i.status \in {"completed", "processing", "evaluated", "decided"}
    /\ p \in Decisions => i.status # "evaluated" /\ (i.status = "decided" => i.dated)

SeedRows(o, vs, iv, js, cs, is, ds) ==
    /\ o \in BOOLEAN
    /\ vs \in [D!ToSet(Vacancies) -> {"none", "created", "described", "asked", "published"}]
    /\ iv \in [D!ToSet(Members) -> Nat] /\ js \subseteq D!ToSet(Members)
    /\ cs \subseteq D!People /\ is \in [D!People -> D!Interview \cup {null}]
    /\ ds \in [D!ToSet(Topics) -> Nat] /\ \A k \in D!ToSet(Topics) : ds[k] <= 1
    /\ \A p \in D!People : is[p] # null => SeedSound(is[p])

\* The step of a run is one of those of the thing it is at, which is as far as the step says.
AtThing(step, thing, vs, is) ==
    \/ step = "look"
    \/ thing.what = "vacancy" /\ step = "stage" /\ vs[thing.name] \in {"created", "described", "asked"}
    \/ thing.what = "member" /\ step = "register"
    \/ thing.what \in {"case", "extra"} /\ step = "invite" /\ is[thing.name] = null
    \/ thing.what = "case" /\ step = "stage" /\ is[thing.name] = D!Invitation
    \/ /\ thing.what = "case" /\ step \in {"note", "decide", "date"} /\ thing.name \in Decisions
       /\ is[thing.name] # null
       /\ is[thing.name].status = IF step = "date" THEN "decided" ELSE "evaluated"
       /\ step = "note" => is[thing.name].notes = 0
       /\ step = "decide" => is[thing.name].notes = 1
\* What no commit has taken along is an extra that was invited just now.
UnsavedOK(step, u, is) == u # null => step \in {"look", "invite"} /\ is[u] = D!Invitation
RunOK(r, vs, is) ==
    r.at \in 1..Len(D!Agenda) /\ AtThing(r.step, D!Agenda[r.at], vs, is) /\ UnsavedOK(r.step, r.unsaved, is)

\* A thing that a run has left behind is there.
Done(thing, u, o, vs, js, is, ds) ==
    /\ thing.what = "owner" => o
    /\ thing.what = "vacancy" => vs[thing.name] = "published"
    /\ thing.what = "member" => thing.name \in js
    /\ thing.what = "case" => AtEnd(thing.name, is[thing.name])
    /\ thing.what = "extra" => AtEnd(thing.name, is[thing.name]) \/ (u # null /\ u = thing.name)
    /\ thing.what = "text" => ds[thing.name] = 1
LeftBehind(at, u, o, vs, js, is, ds) ==
    /\ \A k \in 1..(at - 1) : Done(D!Agenda[k], u, o, vs, js, is, ds)
    /\ u # null => D!Agenda[at].what \in {"extra", "commit"} /\ u \notin D!ToSet(Cases)
\* What is begun is finished, but for the thing b that is at work, and the candidate u.
Settled(b, u, vs, iv, js, is) ==
    /\ \A m \in D!ToSet(Members) : iv[m] = 0 \/ (iv[m] = 1 /\ (m \in js \/ b = Thing("member", m)))
    /\ \A v \in D!ToSet(Vacancies) : vs[v] \in {"none", "published"} \/ b = Thing("vacancy", v)
    /\ \A p \in D!People : is[p] = null \/ AtEnd(p, is[p]) \/ b = Thing("case", p) \/ (u # null /\ u = p)
AllThere(o, vs, js, is, ds) ==
    /\ o /\ D!ToSet(Members) \subseteq js
    /\ \A p \in D!People : AtEnd(p, is[p])
    /\ \A v \in D!ToSet(Vacancies) : vs[v] = "published"
    /\ \A k \in D!ToSet(Topics) : ds[k] = 1

AtWork(r) == IF r = null THEN Nobody ELSE IF r.step \in {"look", "invite"} THEN Nobody ELSE D!Agenda[r.at]
Unsaved(r) == IF r = null THEN null ELSE r.unsaved
\* As long as no run has died.
Undied(r, h, o, vs, iv, js, is, ds) ==
    /\ ~h.failed
    /\ h.finished => AllThere(o, vs, js, is, ds)
    /\ Settled(AtWork(r), Unsaved(r), vs, iv, js, is)
    /\ r # null => LeftBehind(r.at, r.unsaved, o, vs, js, is, ds)

SeedInv ==
    /\ SeedRows(owner, vacancies, invites, joined, candidates, interviews, documents)
    /\ run \in D!Run \cup {null} /\ past \in D!Past
    /\ run # null => RunOK(run, vacancies, interviews)
    /\ ~past.died => Undied(run, past, owner, vacancies, invites, joined, interviews, documents)

\* Where the parts of the agenda end.
EndV == 1 + Len(Vacancies)
EndM == EndV + Len(Members)
EndC == EndM + Len(Cases)
EndE == EndC + Len(Extras)
EndT == EndE + 1 + Len(Topics)

Joined(u, s, t, S) ==
    /\ u \in Seq(S) /\ Len(u) = Len(s) + Len(t)
    /\ \A k \in 1..Len(s) : u[k] = s[k]
    /\ \A k \in (Len(s) + 1)..(Len(s) + Len(t)) : u[k] = t[k - Len(s)]

AgendaKinds == {"owner", "vacancy", "member", "case", "extra", "commit", "text"}
Ensured(what) ==
    CASE what = "vacancy" -> D!ToSet(Vacancies) [] what = "member" -> D!ToSet(Members) [] what = "case" -> D!ToSet(Cases)
      [] what = "extra" -> D!ToSet(Extras) [] what = "text" -> D!ToSet(Topics)
      [] what \in {"owner", "commit"} -> {null}

\* What is there stays.
Grows(o, vs, js, is, ds) ==
    /\ owner => o
    /\ \A v \in D!ToSet(Vacancies) : vacancies[v] = "published" => vs[v] = "published"
    /\ joined \subseteq js
    /\ \A p \in D!People : AtEnd(p, interviews[p]) => AtEnd(p, is[p])
    /\ \A k \in D!ToSet(Topics) : documents[k] = 1 => ds[k] = 1
\* So does the candidate that is unsaved, until it is saved.
Kept(u, is) == run.unsaved # null => u = run.unsaved \/ AtEnd(run.unsaved, is[run.unsaved])

SeedSteps == {"look", "register", "invite", "stage", "note", "decide", "date"}
ThingAtWork(step) == IF step \in {"look", "invite"} THEN Nobody ELSE D!Agenda[run.at]

\* is is what a commit makes of the interviews.
SavedAs(is) ==
    /\ is \in [D!People -> D!Interview \cup {null}]
    /\ \A p \in D!People : is[p] = null <=> interviews[p] = null
    /\ \A p \in D!People : is[p] # null => SeedSound(is[p])
    /\ \A p \in D!People : run.unsaved = null \/ p # run.unsaved => is[p] = interviews[p]
    /\ ~past.died /\ run.unsaved # null => AtEnd(run.unsaved, is[run.unsaved])

\* A new interview, or new columns of one, of p.
PutIn(js, is, p, i) ==
    /\ js \in [D!People -> D!Interview \cup {null}] /\ js[p] = i
    /\ \A q \in D!People \ {p} : js[q] = is[q]
    /\ \A q \in D!People : js[q] # null => SeedSound(js[q])

-----------------------------------------------------------------------------
(* What is searched of a document: of the part "knowledge" of MCCabinet. *)

\* The chunks that the change v has made of a text.
CutRow(v, text, k) == [version |-> v, position |-> k - 1, text |-> text, piece |-> K!chunk_text(text)[k]]
Cut(v, text) == {CutRow(v, text, k) : k \in 1..Len(K!chunk_text(text))}
Versions(rows) == {row.version : row \in rows}

\* A document and its chunks are of one text, and were written by one change.
CutOf(row, rows, changes) ==
    /\ row = null => rows = {}
    /\ row # null => /\ row.chunk_count = Len(K!chunk_text(row.text))
                     /\ \E v \in 1..changes : rows = Cut(v, row.text)
\* Whose chunks a request has all loaded, that document is as it was read; and so it is with a text
\* without a word, which no place that is taken would stop.
AsRead(r, row, rows) ==
    r.op = "update" /\ row # null =>
      /\ Versions(rows) \subseteq r.chunks => row.text = r.read.text /\ row.chunk_count = r.read.chunk_count
      /\ r.text = K!Blank => Versions(rows) \subseteq r.chunks
\* Two requests for one document do not both go on, if one has a text without a word.
WithWords(r, s) == r.op # "none" /\ s.op # "none" /\ r.document = s.document => r.text # K!Blank /\ s.text # K!Blank

ChunksTyped ==
    /\ documents \in [Documents -> K!KnowledgeDocument \cup {null}]
    /\ chunks \in [Documents -> SUBSET K!KnowledgeChunk]
    /\ files \subseteq Documents /\ request \in [Requests -> K!Request] /\ past \in K!Past
ChunkInv ==
    /\ ChunksTyped
    /\ \A d \in Documents : \A row \in chunks[d] : row.version <= past.changes
    /\ \A p \in Requests : request[p].op = "update" =>
         /\ request[p].document \in Documents /\ request[p].read \in K!KnowledgeDocument /\ request[p].text \in Samples
         /\ \A v \in request[p].chunks : v <= past.changes
    /\ ~past.blank =>
         /\ \A d \in Documents : CutOf(documents[d], chunks[d], past.changes)
         /\ \A p \in Requests : request[p].op = "update" =>
              AsRead(request[p], documents[request[p].document], chunks[request[p].document])
         /\ \A p, q \in Requests : p # q => WithWords(request[p], request[q])

\* One request changes, and what it changes is whole.
ChunkSound(mine, p, rows, parts, history) ==
    /\ rows \in [Documents -> K!KnowledgeDocument \cup {null}] /\ parts \in [Documents -> SUBSET K!KnowledgeChunk]
    /\ history \in K!Past /\ mine \in K!Request
    /\ past.changes <= history.changes /\ (past.blank => history.blank)
    /\ \A d \in Documents : \A row \in parts[d] : row.version <= history.changes
    /\ mine.op = "update" =>
         /\ mine.document \in Documents /\ mine.read \in K!KnowledgeDocument /\ mine.text \in Samples
         /\ \A v \in mine.chunks : v <= history.changes
    /\ ~history.blank =>
         /\ \A d \in Documents : CutOf(rows[d], parts[d], history.changes)
         /\ mine.op = "update" => AsRead(mine, rows[mine.document], parts[mine.document])
         /\ \A q \in Requests \ {p} :
              /\ WithWords(mine, request[q])
              /\ request[q].op = "update" =>
                   AsRead(request[q], rows[request[q].document], parts[request[q].document])
=============================================================================
