--------------------------- MODULE HhDialog_proofs ---------------------------
(***************************************************************************)
(* Theorems about HhDialog for every number of messages, links and         *)
(* interviews.                                                             *)
(***************************************************************************)
EXTENDS HhDialog, FiniteSetTheorems, SequenceTheorems, TLAPS

\* What a transaction holds by its place in the dialog.
WorkOK(w) ==
    /\ w.pc = "send" => w.step \in Steps
    /\ w.token # 0 => w.pc \in {"send", "commit"} /\ w.step = "link"

\* The steps are the bot's, and the link is in the third of them.
MessageOK(m) == (m.by = "bot" <=> m.what \in Steps) /\ (m.link # 0 => m.what = "link")

SentSteps == {s \in Steps : KeyTaken(s)}

LEMMA Constants ==
    /\ IsFiniteSet(Steps) /\ Cardinality(Steps) = 3
    /\ {MaxWritten, MaxLinks, MaxInterviews, MaxChat} \subseteq Nat /\ MaxChat = MaxWritten + 3
    /\ NewRow \in Row /\ Idle \in Work /\ WorkOK(Idle)
<1>1. IsFiniteSet({}) /\ Cardinality({}) = 0  BY FS_EmptySet
<1>2. IsFiniteSet({"greeting"}) /\ Cardinality({"greeting"}) = 1  BY FS_Singleton
<1>3. IsFiniteSet({"greeting"} \cup {"clarify"}) /\ Cardinality({"greeting"} \cup {"clarify"}) = 2
  BY <1>2, FS_AddElement
<1>4. /\ IsFiniteSet({"greeting"} \cup {"clarify"} \cup {"link"})
      /\ Cardinality({"greeting"} \cup {"clarify"} \cup {"link"}) = 3
  BY <1>3, FS_AddElement
<1>5. Steps = {"greeting"} \cup {"clarify"} \cup {"link"}  BY DEF Steps
<1>6. {MaxWritten, MaxLinks, MaxInterviews, MaxChat} \subseteq Nat /\ MaxChat = MaxWritten + 3
  BY <1>4, <1>5, ParametersOK DEF MaxChat
<1>7. NewRow \in Row  BY <1>6 DEF NewRow, Row, States
<1>8. Idle \in Work /\ WorkOK(Idle)  BY <1>6, <1>7 DEF Idle, Work, Links, WorkOK
<1>9. QED  BY <1>4, <1>5, <1>6, <1>7, <1>8

-----------------------------------------------------------------------------
(* The chat grows, by one message at a time.                               *)

ChatOK ==
    /\ chat \in Seq(Message) /\ Len(chat) <= MaxChat
    /\ NothingTwice
    /\ \A k \in 1..Len(chat) : MessageOK(chat[k])
    /\ Len(chat) <= MaxWritten + Cardinality(SentSteps)

LEMMA SentAreFew ==
    IsFiniteSet(SentSteps) /\ Cardinality(SentSteps) \in Nat /\ Cardinality(SentSteps) <= 3
<1>1. SentSteps \in SUBSET Steps  BY DEF SentSteps
<1>2. QED  BY <1>1, Constants, FS_Subset, FS_CardinalityType

LEMMA Appended ==
    ASSUME ChatOK, NEW m \in Message, chat' = Append(chat, m)
    PROVE  /\ chat' \in Seq(Message) /\ Len(chat) \in Nat /\ Len(chat') = Len(chat) + 1
           /\ \A k \in 1..Len(chat) : chat'[k] = chat[k]
           /\ chat'[Len(chat')] = m
BY DEF ChatOK

\* People write until there are MaxWritten messages.
LEMMA PeopleWrite ==
    ASSUME ChatOK, NEW m \in Message, m.by # "bot", m.what \notin Steps, m.link = 0,
           chat' = Append(chat, m), Len(chat) < MaxWritten
    PROVE  ChatOK' /\ \A s : KeyTaken(s)' <=> KeyTaken(s)
<1>1. /\ chat' \in Seq(Message) /\ Len(chat) \in Nat /\ Len(chat') = Len(chat) + 1
      /\ \A k \in 1..Len(chat) : chat'[k] = chat[k]
      /\ chat'[Len(chat')] = m
  BY Appended
<1>2. \A k \in 1..Len(chat') : k \in 1..Len(chat) \/ k = Len(chat')  BY <1>1
<1>3. \A k \in 1..Len(chat) : k \in 1..Len(chat')  BY <1>1
<1>4. \A k \in 1..Len(chat') : MessageOK(chat'[k])  BY <1>1, <1>2 DEF ChatOK, MessageOK
<1>5. \A k \in 1..Len(chat') : chat'[k].by = "bot" => k \in 1..Len(chat) /\ chat[k] = chat'[k]
  BY <1>1, <1>2
<1>6. NothingTwice'  BY <1>5 DEF ChatOK, NothingTwice
<1>7. \A s : KeyTaken(s)' <=> KeyTaken(s)  BY <1>1, <1>3, <1>5 DEF KeyTaken
<1>8. SentSteps' = SentSteps  BY <1>7 DEF SentSteps
<1>9. QED  BY <1>1, <1>4, <1>6, <1>7, <1>8, SentAreFew, Constants DEF ChatOK, MessageOK

\* The bot sends a step whose key is free.
LEMMA BotSends ==
    ASSUME ChatOK, NEW m \in Message, m.by = "bot", m.what \in Steps, m.link # 0 => m.what = "link",
           chat' = Append(chat, m), ~KeyTaken(m.what)
    PROVE  ChatOK' /\ Len(chat') <= MaxChat /\ \A s : KeyTaken(s)' <=> KeyTaken(s) \/ s = m.what
<1>1. /\ chat' \in Seq(Message) /\ Len(chat) \in Nat /\ Len(chat') = Len(chat) + 1
      /\ \A k \in 1..Len(chat) : chat'[k] = chat[k]
      /\ chat'[Len(chat')] = m
  BY Appended
<1>2. \A k \in 1..Len(chat') : k \in 1..Len(chat) \/ k = Len(chat')  BY <1>1
<1>3. \A k \in 1..Len(chat) : k \in 1..Len(chat')  BY <1>1
<1>4. Len(chat') \in 1..Len(chat')  BY <1>1
<1>5. \A k \in 1..Len(chat') : MessageOK(chat'[k])  BY <1>1, <1>2 DEF ChatOK, MessageOK
<1>6. \A k \in 1..Len(chat) : chat[k].by = "bot" => chat[k].what # m.what  BY DEF KeyTaken
<1>7. NothingTwice'  BY <1>1, <1>2, <1>6 DEF ChatOK, NothingTwice
<1>8. \A s : KeyTaken(s)' <=> KeyTaken(s) \/ s = m.what
  BY <1>1, <1>2, <1>3, <1>4 DEF KeyTaken
<1>9. SentSteps' = SentSteps \cup {m.what} /\ m.what \notin SentSteps
  BY <1>8 DEF SentSteps
<1>10. Cardinality(SentSteps') = Cardinality(SentSteps) + 1
  BY <1>9, SentAreFew, FS_AddElement
<1>11. Cardinality(SentSteps') <= 3
  <2>1. SentSteps' \in SUBSET Steps  BY <1>9 DEF SentSteps
  <2>2. QED  BY <2>1, Constants, FS_Subset
<1>12. Len(chat') <= MaxWritten + Cardinality(SentSteps')
  BY <1>1, <1>10, SentAreFew, Constants DEF ChatOK
<1>13. Len(chat') <= MaxChat  BY <1>1, <1>10, <1>11, <1>12, SentAreFew, Constants
<1>14. QED  BY <1>1, <1>5, <1>7, <1>8, <1>12, <1>13 DEF ChatOK, MessageOK
-----------------------------------------------------------------------------
(* Types.  There is always a link that nobody has.                         *)

Typed == TypeOK /\ ChatOK /\ \A a \in Actors : WorkOK(work[a])

LEMMA OneMore ==
    ASSUME NEW S, NEW x, NEW n \in Nat, IsFiniteSet(S), Cardinality(S) <= n
    PROVE  IsFiniteSet(S \cup {x}) /\ Cardinality(S \cup {x}) <= n + 1
<1> DEFINE c == Cardinality(S)
           d == Cardinality(S \cup {x})
<1>1. c \in Nat  BY FS_CardinalityType
<1>2. IsFiniteSet(S \cup {x}) /\ (d = c \/ d = c + 1)  BY FS_AddElement
<1>3. c <= n  OBVIOUS
<1> HIDE DEF c, d
<1>4. d <= n + 1  BY <1>1, <1>2, <1>3
<1>5. QED  BY <1>2, <1>4 DEF d

LEMMA NewLinkIsFree == ASSUME Typed PROVE NewLink \in 1..MaxLinks
<1> DEFINE T == {iv[i].token : i \in Ids}
           f == [i \in Ids |-> iv[i].token]
           S == T \cup {work["sync"].token} \cup {work["take_over"].token}
<1>0. MaxInterviews \in Nat /\ MaxLinks \in Nat  BY Constants
<1>1. IsFiniteSet(Ids) /\ Cardinality(Ids) = MaxInterviews
  BY <1>0, FS_Interval DEF Ids
<1>2. f \in Surjection(Ids, T)  BY DEF Surjection
<1>3. IsFiniteSet(T) /\ Cardinality(T) <= MaxInterviews
  BY <1>1, <1>2, FS_Surjection
<1>4. MaxInterviews + 1 \in Nat /\ MaxInterviews + 2 \in Nat  BY <1>0
<1>5. IsFiniteSet(S) /\ Cardinality(S) <= MaxInterviews + 2
  <2> DEFINE U == T \cup {work["sync"].token}
             V == U \cup {work["take_over"].token}
  <2>1. V = S  OBVIOUS
  <2> HIDE DEF T, S
  <2>2. IsFiniteSet(U) /\ Cardinality(U) <= MaxInterviews + 1  BY <1>0, <1>3, OneMore
  <2> HIDE DEF U
  <2>3. IsFiniteSet(V) /\ Cardinality(V) <= (MaxInterviews + 1) + 1  BY <1>4, <2>2, OneMore
  <2> HIDE DEF V
  <2>4. (MaxInterviews + 1) + 1 = MaxInterviews + 2  BY <1>0
  <2>5. QED  BY <2>1, <2>3, <2>4
<1>6. IsFiniteSet(S) /\ Cardinality(S) \in 0..(MaxInterviews + 2)
  <2> DEFINE s == Cardinality(S)
  <2> HIDE DEF S
  <2>1. s \in Nat /\ s <= MaxInterviews + 2  BY <1>5, FS_CardinalityType
  <2> HIDE DEF s
  <2>2. s \in 0..(MaxInterviews + 2)  BY <1>0, <2>1
  <2>3. QED  BY <1>5, <2>2 DEF s
\* One message of the chat has a link.
<1>7. \E L : \A k \in 1..Len(chat) : chat[k].link \in {0, L}
  <2>1. \A j, k \in 1..Len(chat) : chat[j].link # 0 /\ chat[k].link # 0 => j = k
    BY DEF Typed, ChatOK, MessageOK, NothingTwice, Steps
  <2>2. QED  BY <2>1
<1>8. PICK L : \A k \in 1..Len(chat) : chat[k].link \in {0, L}  BY <1>7
<1>9. IsFiniteSet(S \cup {L}) /\ Cardinality(S \cup {L}) \in 0..(MaxInterviews + 3)
  <2> DEFINE s == Cardinality(S \cup {L})
  <2> HIDE DEF S
  <2>1. IsFiniteSet(S \cup {L}) /\ s <= (MaxInterviews + 2) + 1  BY <1>4, <1>5, OneMore
  <2>2. s \in Nat  BY <2>1, FS_CardinalityType
  <2> HIDE DEF s
  <2>3. s \in 0..(MaxInterviews + 3)  BY <1>0, <2>1, <2>2
  <2>4. QED  BY <2>1, <2>3 DEF s
<1>10. LinksInUse \ {0} \subseteq S \cup {L}
  BY <1>8, ParametersOK DEF LinksInUse
<1>11. \E n \in 1..MaxLinks : n \notin LinksInUse
  <2>1. SUFFICES ASSUME 1..MaxLinks \subseteq LinksInUse PROVE FALSE  OBVIOUS
  <2>2. 1..MaxLinks \in SUBSET (S \cup {L})  BY <1>10, <2>1
  <2>3. Cardinality(1..MaxLinks) = MaxLinks  BY Constants, FS_Interval
  <2>4. Cardinality(1..MaxLinks) <= Cardinality(S \cup {L})
    <3> HIDE DEF S
    <3>1. QED  BY <1>9, <2>2, FS_Subset
  <2>5. QED
    <3> HIDE DEF S
    <3>1. QED  BY <1>9, <2>3, <2>4, Constants, ParametersOK
<1>12. QED  BY <1>11 DEF NewLink

-----------------------------------------------------------------------------
(* What an actor's step leaves in its transaction, column by column.       *)

Hands(a, w) == work' = [work EXCEPT ![a] = w]

LEMMA WorkTypes ==
    ASSUME Typed, NEW a \in Actors
    PROVE  /\ work[a] \in Work /\ WorkOK(work[a]) /\ work[a].now \in Row /\ work[a].loaded \in Row
           /\ work[a].now.history.read \in SUBSET Positions /\ work[a].now.history.steps \in SUBSET Steps
BY DEF Typed, TypeOK, Work, Row

LEMMA Loads ==
    ASSUME Typed, NEW a \in Actors, Load(a)
    PROVE  \E w \in Work : /\ Hands(a, w) /\ work[a].pc = "idle"
                           /\ w.pc = "loaded" /\ w.loaded = row /\ w.now = row
                           /\ w.token = 0 /\ w.target = 0
<1> DEFINE w == [Idle EXCEPT !.pc = "loaded", !.loaded = row, !.now = row, !.ready = published]
<1>1. w \in Work  BY Constants DEF Typed, TypeOK, Work
<1>2. w.pc = "loaded" /\ w.loaded = row /\ w.now = row /\ w.token = 0 /\ w.target = 0  BY DEF Idle
<1>3. QED  BY <1>1, <1>2 DEF Load, Hands

LEMMA Pulls ==
    ASSUME Typed, NEW a \in Actors, pull(a)
    PROVE  \E w \in Work :
             /\ Hands(a, w) /\ work[a].pc = "loaded"
             /\ w.loaded = work[a].loaded /\ w.token = work[a].token /\ w.target = work[a].target
             /\ w.pc = Dispatch(a, work[a].now, w.fresh)
             /\ w.step = IF w.pc = "send" THEN "greeting" ELSE "none"
             /\ w.now.iv = work[a].now.iv /\ w.now.history.steps = work[a].now.history.steps
             /\ w.now.state = IF a = "sync" /\ Finished(work[a].now) THEN "done" ELSE work[a].now.state
<1> DEFINE now == work[a].now
           unread == {k \in 1..Len(chat) : k > now.last}
           fresh == {k \in unread \ now.history.read : chat[k].by = "candidate"}
           hist == [now.history EXCEPT !.read = @ \cup fresh]
           last == IF unread = {} THEN now.last ELSE Len(chat)
           read == [now EXCEPT !.history = hist, !.last = last]
           pc == Dispatch(a, now, fresh)
           done == IF a = "sync" /\ Finished(now) THEN [read EXCEPT !.state = "done"] ELSE read
           w == [work[a] EXCEPT !.fresh = fresh, !.pc = pc, !.step = IF pc = "send" THEN "greeting" ELSE "none",
                                !.now = done]
<1>1. now \in Row /\ now.history.read \in SUBSET Positions /\ work[a] \in Work  BY WorkTypes
<1>2. Len(chat) \in Nat /\ Len(chat) <= MaxChat /\ MaxChat \in Nat
  BY Constants DEF Typed, ChatOK
<1>3. fresh \in SUBSET Positions  BY <1>2 DEF Positions
<1>4. hist \in [read: SUBSET Positions, steps: SUBSET Steps] /\ hist.steps = now.history.steps
  <2> HIDE DEF fresh
  <2>1. QED  BY <1>1, <1>3 DEF Row
<1>5. last \in 0..MaxChat  BY <1>1, <1>2 DEF Row
<1>6. read \in Row /\ read.state = now.state /\ read.iv = now.iv /\ read.history = hist
  <2> HIDE DEF hist, last
  <2>1. QED  BY <1>1, <1>4, <1>5 DEF Row
<1>7. /\ done \in Row /\ done.iv = now.iv /\ done.history = hist
      /\ done.state = IF a = "sync" /\ Finished(now) THEN "done" ELSE now.state
  <2> HIDE DEF read, hist
  <2>1. QED  BY <1>6 DEF Row, States
<1>8. pc \in {"ensure", "commit", "send", "slot"}  BY DEF Dispatch
<1>9. w \in Work
  <2> HIDE DEF done, pc, fresh
  <2>1. QED  BY <1>1, <1>3, <1>7, <1>8 DEF Work, Steps
<1>10. /\ w.loaded = work[a].loaded /\ w.token = work[a].token /\ w.target = work[a].target
       /\ w.pc = pc /\ w.fresh = fresh /\ w.now = done
       /\ w.step = IF pc = "send" THEN "greeting" ELSE "none"
  <2> HIDE DEF done, pc, fresh
  <2>1. QED  BY <1>1 DEF Work
<1>11. Hands(a, w) /\ work[a].pc = "loaded"
  BY <1>1, ZenonT(30) DEF pull, Hands
<1>12. QED
  <2> HIDE DEF w, done, fresh
  <2>1. QED  BY <1>4, <1>7, <1>9, <1>10, <1>11

LEMMA Reads ==
    ASSUME Typed, NEW a \in Actors, advance(a)
    PROVE  \E w \in Work :
             /\ Hands(a, w) /\ work[a].pc = "slot"
             /\ w.loaded = work[a].loaded /\ w.token = work[a].token /\ w.target = work[a].target
             /\ w.now.iv = work[a].now.iv /\ w.now.history = work[a].now.history
             /\ \/ w.pc = "commit" /\ w.now.state \in {"declined", "needs_recruiter"}
                \/ w.pc = "ensure" /\ w.now.state = work[a].now.state
                \/ w.pc = "send" /\ w.step = "clarify" /\ w.now.state = work[a].now.state
<1> DEFINE now == work[a].now
<1>1. now \in Row /\ work[a] \in Work /\ work \in [Actors -> Work]
  BY WorkTypes DEF Typed, TypeOK
<1>2. work[a].pc = "slot"  BY DEF advance
<1>3. CASE \E s \in {"declined", "needs_recruiter"} :
             work' = [work EXCEPT ![a].pc = "commit", ![a].now.state = s]
  <2>1. PICK s \in {"declined", "needs_recruiter"} :
             work' = [work EXCEPT ![a].pc = "commit", ![a].now.state = s]  BY <1>3
  <2> DEFINE n == [now EXCEPT !.state = s]
             w == [work[a] EXCEPT !.pc = "commit", !.now = n]
  <2>2. n \in Row /\ n.state = s /\ n.iv = now.iv /\ n.history = now.history
    BY <1>1 DEF Row, States
  <2>3. work' = [work EXCEPT ![a] = w]  BY <1>1, <2>1
  <2> HIDE DEF n
  <2>4. w \in Work  BY <1>1, <2>2 DEF Work
  <2>5. /\ w.loaded = work[a].loaded /\ w.token = work[a].token /\ w.target = work[a].target
        /\ w.pc = "commit" /\ w.now = n
    BY <1>1 DEF Work
  <2> HIDE DEF w
  <2>6. QED  BY <1>2, <2>2, <2>3, <2>4, <2>5 DEF Hands
<1>4. CASE work' = [work EXCEPT ![a].pc = "ensure"]
  <2> DEFINE w == [work[a] EXCEPT !.pc = "ensure"]
  <2>1. w \in Work /\ work' = [work EXCEPT ![a] = w]  BY <1>1, <1>4 DEF Work
  <2>2. /\ w.loaded = work[a].loaded /\ w.token = work[a].token /\ w.target = work[a].target
        /\ w.pc = "ensure" /\ w.now = now
    BY <1>1 DEF Work
  <2> HIDE DEF w
  <2>3. QED  BY <1>2, <2>1, <2>2 DEF Hands
<1>5. CASE work' = [work EXCEPT ![a].pc = "send", ![a].step = "clarify", ![a].now.clarified = TRUE]
  <2> DEFINE n == [now EXCEPT !.clarified = TRUE]
             w == [work[a] EXCEPT !.pc = "send", !.step = "clarify", !.now = n]
  <2>1. n \in Row /\ n.state = now.state /\ n.iv = now.iv /\ n.history = now.history
    BY <1>1 DEF Row
  <2>2. work' = [work EXCEPT ![a] = w]  BY <1>1, <1>5
  <2> HIDE DEF n
  <2>3. w \in Work  BY <1>1, <2>1 DEF Work, Steps
  <2>4. /\ w.loaded = work[a].loaded /\ w.token = work[a].token /\ w.target = work[a].target
        /\ w.pc = "send" /\ w.step = "clarify" /\ w.now = n
    BY <1>1 DEF Work
  <2> HIDE DEF w
  <2>5. QED  BY <1>2, <2>1, <2>2, <2>3, <2>4 DEF Hands
<1>6. QED  BY <1>3, <1>4, <1>5, Zenon DEF advance

LEMMA Ensures ==
    ASSUME Typed, NEW a \in Actors, _ensure_interview(a)
    PROVE  \E w \in Work :
             /\ Hands(a, w) /\ work[a].pc = "ensure"
             /\ w.loaded = work[a].loaded /\ w.pc = "send" /\ w.step = "link" /\ w.token # 0
             /\ w.target \in Ids /\ (Existing # {} => w.target \in Existing)
             /\ w.now.iv = w.target /\ w.now.history = work[a].now.history
             /\ w.now.state = work[a].now.state
<1> DEFINE now == work[a].now
<1>1. now \in Row /\ work[a] \in Work /\ work \in [Actors -> Work]
  BY WorkTypes DEF Typed, TypeOK
<1>2. PICK i \in Ids :
        /\ Existing # {} => i \in Existing
        /\ work' = [work EXCEPT ![a].pc = "send", ![a].step = "link", ![a].token = NewLink,
                                ![a].target = i, ![a].now.iv = i, ![a].locked = Changed(a)]
  BY DEF _ensure_interview
<1> DEFINE n == [now EXCEPT !.iv = i]
           w == [work[a] EXCEPT !.pc = "send", !.step = "link", !.token = NewLink, !.target = i, !.now = n,
                                !.locked = Changed(a)]
<1>3. MaxInterviews \in Nat /\ MaxLinks \in Nat  BY Constants
<1>4. i \in 0..MaxInterviews /\ i \in Nat  BY <1>3 DEF Ids
<1>5. n \in Row /\ n.state = now.state /\ n.iv = i /\ n.history = now.history
  BY <1>1, <1>4 DEF Row
<1>6. Changed(a) \in BOOLEAN  BY DEF Changed
<1>7. NewLink \in Links /\ NewLink # 0  BY <1>3, NewLinkIsFree DEF Links
<1>8. work' = [work EXCEPT ![a] = w]
  <2> DEFINE v == [work[a] EXCEPT !.pc = "send", !.step = "link", !.token = NewLink]
             f == [work EXCEPT ![a].pc = "send", ![a].step = "link", ![a].token = NewLink]
             g == [f EXCEPT ![a].target = i, ![a].now.iv = i, ![a].locked = Changed(a)]
  <2>1. work' = g  BY <1>2
  <2>2. f = [work EXCEPT ![a] = v]  BY <1>1
  <2>3. v \in Work /\ v.now = now  BY <1>1, <1>7 DEF Work, Steps
  <2>4. g = [f EXCEPT ![a] = [v EXCEPT !.target = i, !.now = n, !.locked = Changed(a)]]
    <3> HIDE DEF v, f
    <3>1. f \in [Actors -> Work] /\ f[a] = v  BY <1>1, <2>2, <2>3
    <3>2. QED  BY <2>3, <3>1
  <2>5. w = [v EXCEPT !.target = i, !.now = n, !.locked = Changed(a)]
    <3> HIDE DEF n
    <3>1. QED  BY <1>1
  <2> HIDE DEF w, v, f, g
  <2>6. QED  BY <1>1, <2>1, <2>2, <2>4, <2>5
<1> HIDE DEF n
<1>9. w \in Work  BY <1>1, <1>4, <1>5, <1>6, <1>7 DEF Work, Steps
<1>10. /\ w.loaded = work[a].loaded /\ w.token = NewLink /\ w.target = i
       /\ w.pc = "send" /\ w.step = "link" /\ w.now = n
  BY <1>1 DEF Work
<1> HIDE DEF w
<1>11. QED  BY <1>2, <1>5, <1>7, <1>8, <1>9, <1>10 DEF Hands, _ensure_interview

\* A step is sent, or known to be in the chat; in either case it is done.
LEMMA Sends ==
    ASSUME Typed, NEW a \in Actors, _send(a)
    PROVE  LET old == work[a] IN
           /\ old.pc = "send"
           /\ \/ chat' = chat /\ (old.step \in old.now.history.steps \/ KeyTaken(old.step))
              \/ /\ chat' = Append(chat, [by |-> "bot", what |-> old.step, link |-> old.token])
                 /\ ~KeyTaken(old.step)
           /\ \E w \in Work :
                /\ Hands(a, w)
                /\ w.loaded = old.loaded /\ w.pc = "commit" /\ w.step = old.step /\ w.token = old.token
                /\ w.target = old.target /\ w.now.iv = old.now.iv
                /\ w.now.history.steps = old.now.history.steps \cup {old.step}
                /\ w.now.state = Reached(old.now.state, old.step)
<1> DEFINE old == work[a]
           step == old.step
           hist == [old.now.history EXCEPT !.steps = @ \cup {step}]
           now == [old.now EXCEPT !.history = hist, !.state = Reached(@, step)]
           sent == [now EXCEPT !.last = Len(chat')]
           message == [by |-> "bot", what |-> step, link |-> old.token]
<1>0. old.now \in Row /\ old.now.history \in [read: SUBSET Positions, steps: SUBSET Steps] /\ old \in Work
      /\ old.pc = "send" /\ work \in [Actors -> Work] /\ WorkOK(old)
  BY WorkTypes DEF Typed, TypeOK, _send, Row
<1>1. step \in Steps  BY <1>0 DEF WorkOK
<1>2. hist \in [read: SUBSET Positions, steps: SUBSET Steps] /\ hist.steps = old.now.history.steps \cup {step}
  BY <1>0, <1>1
<1>3. Reached(old.now.state, step) \in States  BY <1>1 DEF Reached, Steps, States
<1>4. /\ now \in Row /\ now.iv = old.now.iv /\ now.history = hist
      /\ now.state = Reached(old.now.state, step)
  <2> HIDE DEF hist
  <2>1. QED  BY <1>0, <1>2, <1>3 DEF Row
<1>5. ASSUME NEW n \in Row, n.iv = now.iv, n.history = now.history, n.state = now.state,
             work' = [work EXCEPT ![a].pc = "commit", ![a].now = n]
      PROVE  \E w \in Work :
                /\ Hands(a, w)
                /\ w.loaded = old.loaded /\ w.pc = "commit" /\ w.step = old.step /\ w.token = old.token
                /\ w.target = old.target /\ w.now.iv = old.now.iv
                /\ w.now.history.steps = old.now.history.steps \cup {old.step}
                /\ w.now.state = Reached(old.now.state, old.step)
  <2> DEFINE w == [old EXCEPT !.pc = "commit", !.now = n]
  <2>1. w \in Work /\ work' = [work EXCEPT ![a] = w]  BY <1>0, <1>5 DEF Work
  <2>2. /\ w.loaded = old.loaded /\ w.pc = "commit" /\ w.step = old.step /\ w.token = old.token
        /\ w.target = old.target /\ w.now = n
    BY <1>0 DEF Work
  <2> HIDE DEF w, now, hist
  <2>3. QED  BY <1>2, <1>4, <1>5, <2>1, <2>2 DEF Hands
<1>6. CASE step \in old.now.history.steps \/ KeyTaken(step)
  <2>1. chat' = chat /\ work' = [work EXCEPT ![a].pc = "commit", ![a].now = now]
    BY <1>0, <1>6 DEF _send
  <2> HIDE DEF now
  <2>2. QED  BY <1>0, <1>4, <1>5, <1>6, <2>1
<1>7. CASE ~(step \in old.now.history.steps \/ KeyTaken(step))
  <2>1. chat' = Append(chat, message) /\ work' = [work EXCEPT ![a].pc = "commit", ![a].now = sent]
    BY <1>0, <1>7 DEF _send, Say
  <2>2. message \in Message /\ message.what = step /\ message.by = "bot" /\ message.link = old.token
    BY <1>0, <1>1 DEF Message, Work
  <2>3. Len(chat') \in 0..MaxChat
    <3>1. ChatOK' /\ Len(chat') <= MaxChat
      BY <1>0, <1>1, <1>7, <2>1, <2>2, BotSends DEF Typed, WorkOK
    <3>2. QED  BY <3>1, Constants DEF ChatOK
  <2>4. sent \in Row /\ sent.iv = now.iv /\ sent.history = now.history /\ sent.state = now.state
    <3> HIDE DEF now
    <3>1. QED  BY <1>4, <2>3 DEF Row
  <2> HIDE DEF sent, now
  <2>5. QED  BY <1>0, <1>5, <1>7, <2>1, <2>4
<1>8. QED  BY <1>6, <1>7

\* The columns that were changed are those of the transaction, the others are as they are in the row.
LEMMA Saves ==
    ASSUME Typed, NEW a \in Actors, Save(a)
    PROVE  LET w == work[a] IN
           /\ row' \in Row /\ row'.state \in {row.state, w.now.state}
           /\ w.loaded = row => row' = w.now
           /\ iv' \in [Ids -> Interview]
           /\ w.target = 0 => iv' = iv
           /\ w.target # 0 => /\ w.target \in Ids
                              /\ iv' = [iv EXCEPT ![w.target] = Relinked(@, w.token)]
<1> DEFINE w == work[a]
           mixed(c) == IF w.now[c] = w.loaded[c] THEN row[c] ELSE w.now[c]
<1>1. w.now \in Row /\ w.loaded \in Row /\ row \in Row /\ w \in Work /\ iv \in [Ids -> Interview]
  BY WorkTypes DEF Typed, TypeOK
<1>2. DOMAIN row = {"state", "history", "last", "clarified", "iv"}  BY <1>1 DEF Row
<1>3. row' = [c \in {"state", "history", "last", "clarified", "iv"} |-> mixed(c)]
  BY <1>2 DEF Save
<1>4. row' \in Row /\ row'.state \in {row.state, w.now.state}  BY <1>1, <1>3 DEF Row
<1>5. ASSUME w.loaded = row PROVE row' = w.now
  <2>1. row' = [c \in {"state", "history", "last", "clarified", "iv"} |-> w.now[c]]  BY <1>3, <1>5
  <2>2. QED  BY <1>1, <2>1 DEF Row
<1>6. w.target # 0 => w.target \in Ids
  <2>1. MaxInterviews \in Nat  BY Constants
  <2>2. QED  BY <1>1, <2>1 DEF Work, Ids
<1>7. \A v \in Interview : Relinked(v, w.token) \in Interview  BY <1>1 DEF Relinked, Interview, Work
<1>8. iv' = IF w.target = 0 THEN iv ELSE [iv EXCEPT ![w.target] = Relinked(@, w.token)]
  BY DEF Save
<1>9. iv' \in [Ids -> Interview]  BY <1>1, <1>6, <1>7, <1>8
<1>10. QED  BY <1>4, <1>5, <1>6, <1>8, <1>9

LEMMA Commits ==
    ASSUME Typed, NEW a \in Actors, Commit(a) \/ _mark_auth_error(a)
    PROVE  /\ work[a].pc = IF Commit(a) THEN "commit" ELSE "send"
           /\ Save(a) /\ Hands(a, Idle) /\ UNCHANGED <<chat, published>>
BY DEF Commit, _mark_auth_error, Hands

\* New tokens of hh end the transaction and begin another where it was.
LEMMA Persists ==
    ASSUME Typed, NEW a \in Actors, persist(a)
    PROVE  \E w \in Work :
             /\ Hands(a, w) /\ work[a].pc = "send" /\ Save(a) /\ UNCHANGED <<chat, published>>
             /\ w.pc = "send" /\ w.step = work[a].step /\ w.token = work[a].token /\ w.target = 0
             /\ w.loaded = work[a].now /\ w.now = work[a].now
<1> DEFINE w == [work[a] EXCEPT !.loaded = work[a].now, !.target = 0, !.locked = FALSE]
<1>1. work[a] \in Work /\ work[a].now \in Row /\ work \in [Actors -> Work] /\ MaxInterviews \in Nat
  BY WorkTypes, Constants DEF Typed, TypeOK
<1>2. w \in Work
  <2> DEFINE n == work[a].now
  <2>1. n \in Row /\ 0 \in 0..MaxInterviews /\ FALSE \in BOOLEAN  BY <1>1
  <2>2. w = [work[a] EXCEPT !.loaded = n, !.target = 0, !.locked = FALSE]  OBVIOUS
  <2> HIDE DEF n, w
  <2>3. QED  BY <1>1, <2>1, <2>2 DEF Work
<1>3. work' = [work EXCEPT ![a] = w]  BY <1>1 DEF persist
<1>4. work[a].pc = "send" /\ Save(a) /\ UNCHANGED <<chat, published>>  BY DEF persist
<1>5. /\ w.pc = work[a].pc /\ w.step = work[a].step /\ w.token = work[a].token /\ w.target = 0
      /\ w.loaded = work[a].now /\ w.now = work[a].now
  BY <1>1 DEF Work
<1> HIDE DEF w
<1>6. QED  BY <1>2, <1>3, <1>4, <1>5 DEF Hands

LEMMA PastTypes ==
    ASSUME Typed, NEW kind, Disturbed(kind)
    PROVE  past' \in [Kinds -> BOOLEAN] /\ past'[kind] /\ \A k : past[k] /\ k # kind => past'[k]
BY ParametersOK DEF Disturbed, Typed, TypeOK

LEMMA Written ==
    ASSUME Write
    PROVE  \E m \in Message : /\ m.by # "bot" /\ m.what \notin Steps /\ m.link = 0
                              /\ chat' = Append(chat, m) /\ Len(chat) < MaxWritten
<1>1. ASSUME NEW m \in [by: {"candidate", "recruiter"}, what: Replies \cup {"note"}, link: {0}]
      PROVE  m \in Message /\ m.by # "bot" /\ m.what \notin Steps /\ m.link = 0
  BY Constants DEF Message, Replies, Steps, Links
<1>2. \E m \in [by: {"candidate", "recruiter"}, what: Replies \cup {"note"}, link: {0}] : chat' = Append(chat, m)
  BY DEF Write, Say
<1>3. QED  BY <1>1, <1>2 DEF Write

LEMMA TypeStep == ASSUME Typed, [Next]_vars PROVE Typed'
<1>0. /\ row \in Row /\ iv \in [Ids -> Interview] /\ published \in BOOLEAN
      /\ work \in [Actors -> Work] /\ past \in [Kinds -> BOOLEAN]
      /\ ChatOK /\ \A a \in Actors : WorkOK(work[a])
  BY DEF Typed, TypeOK
<1>1. ASSUME chat' = chat PROVE ChatOK'
  <2>1. SentSteps' = SentSteps /\ (NothingTwice' <=> NothingTwice)
    BY <1>1 DEF SentSteps, KeyTaken, NothingTwice
  <2>2. QED  BY <1>0, <1>1, <2>1 DEF ChatOK, MessageOK
<1>2. ASSUME NEW a \in Actors, NEW w \in Work, WorkOK(w), Hands(a, w)
      PROVE  work' \in [Actors -> Work] /\ \A b \in Actors : WorkOK(work'[b])
  <2>1. work' = [work EXCEPT ![a] = w]  BY <1>2 DEF Hands
  <2>2. \A b \in Actors : work'[b] = IF b = a THEN w ELSE work[b]  BY <1>0, <2>1
  <2>3. QED  BY <1>0, <1>2, <2>1, <2>2
<1>3. ASSUME ChatOK', row' \in Row, iv' \in [Ids -> Interview], published' \in BOOLEAN,
             past' \in [Kinds -> BOOLEAN],
             work' \in [Actors -> Work], \A b \in Actors : WorkOK(work'[b])
      PROVE  Typed'
  BY <1>3 DEF Typed, TypeOK, ChatOK, WorkOK
<1>4. CASE UNCHANGED vars
  BY <1>0, <1>1, <1>3, <1>4 DEF vars
<1>5. CASE Write
  BY <1>0, <1>3, <1>5, Written, PeopleWrite DEF Write
<1>6. ASSUME NEW i \in Ids, Finish(i) PROVE Typed'
  <2>1. iv' \in [Ids -> Interview]  BY <1>0, <1>6 DEF Finish, Interview
  <2>2. QED  BY <1>0, <1>1, <1>3, <1>6, <2>1 DEF Finish
<1>7. CASE Publish
  <2>1. past' \in [Kinds -> BOOLEAN]  BY <1>7, PastTypes DEF Publish
  <2>2. QED  BY <1>0, <1>1, <1>3, <1>7, <2>1 DEF Publish
<1>8. ASSUME NEW a \in Actors, Load(a), past' \in [Kinds -> BOOLEAN] PROVE Typed'
  <2>1. PICK w \in Work : Hands(a, w) /\ w.pc = "loaded" /\ w.token = 0  BY <1>8, Loads
  <2>2. WorkOK(w)  BY <2>1 DEF WorkOK
  <2>3. QED  BY <1>0, <1>1, <1>2, <1>3, <1>8, <2>1, <2>2 DEF Load
<1>9. CASE sync_connection
  BY <1>0, <1>8, <1>9 DEF sync_connection
<1>10. CASE take_over
  BY <1>8, <1>10, PastTypes DEF take_over
<1>11. ASSUME NEW a \in Actors, pull(a) PROVE Typed'
  <2>1. PICK w \in Work : /\ Hands(a, w) /\ work[a].pc = "loaded" /\ w.token = work[a].token
                          /\ w.step = IF w.pc = "send" THEN "greeting" ELSE "none"
    BY <1>11, Pulls
  <2>2. WorkOK(w)  BY <1>0, <2>1 DEF WorkOK, Steps
  <2>3. QED  BY <1>0, <1>1, <1>2, <1>3, <1>11, <2>1, <2>2 DEF pull
<1>12. ASSUME NEW a \in Actors, advance(a) PROVE Typed'
  <2>1. PICK w \in Work : /\ Hands(a, w) /\ work[a].pc = "slot" /\ w.token = work[a].token
                          /\ w.pc = "send" => w.step = "clarify"
    BY <1>12, Reads
  <2>2. WorkOK(w)  BY <1>0, <2>1 DEF WorkOK, Steps
  <2>3. QED  BY <1>0, <1>1, <1>2, <1>3, <1>12, <2>1, <2>2 DEF advance
<1>13. ASSUME NEW a \in Actors, _ensure_interview(a) PROVE Typed'
  <2>1. PICK w \in Work : Hands(a, w) /\ w.pc = "send" /\ w.step = "link"
    BY <1>13, Ensures
  <2>2. WorkOK(w)  BY <2>1 DEF WorkOK, Steps
  <2>3. QED  BY <1>0, <1>1, <1>2, <1>3, <1>13, <2>1, <2>2 DEF _ensure_interview
\* A message of the bot, of a step that is under way.
<1>14. ASSUME NEW a \in Actors, work[a].pc = "send", ~KeyTaken(work[a].step),
              chat' = Append(chat, [by |-> "bot", what |-> work[a].step, link |-> work[a].token])
       PROVE  ChatOK'
  <2> DEFINE m == [by |-> "bot", what |-> work[a].step, link |-> work[a].token]
  <2>1. work[a].step \in Steps /\ (work[a].token # 0 => work[a].step = "link") /\ work[a].token \in Links
    BY <1>0, <1>14 DEF WorkOK, Work
  <2>2. /\ m \in Message /\ m.by = "bot" /\ m.what \in Steps /\ (m.link # 0 => m.what = "link")
        /\ ~KeyTaken(m.what)
    BY <1>14, <2>1 DEF Message
  <2> HIDE DEF m
  <2>3. QED  BY <1>0, <1>14, <2>2, BotSends DEF m
<1>15. ASSUME NEW a \in Actors, _send(a) PROVE Typed'
  <2>1. PICK w \in Work : /\ Hands(a, w) /\ work[a].pc = "send" /\ w.pc = "commit" /\ w.step = work[a].step
                          /\ w.token = work[a].token
    BY <1>15, Sends
  <2>2. WorkOK(w)  BY <1>0, <2>1 DEF WorkOK, Steps
  <2>3. ChatOK'  BY <1>1, <1>14, <1>15, Sends
  <2>4. QED  BY <1>0, <1>2, <1>3, <1>15, <2>1, <2>2, <2>3 DEF _send
<1>16. ASSUME NEW a \in Actors, Rollback(a) \/ AnswerLost(a) PROVE Typed'
  <2>1. Hands(a, Idle) /\ past' \in [Kinds -> BOOLEAN]
    BY <1>16, PastTypes DEF Rollback, AnswerLost, Hands
  <2>2. ChatOK'  BY <1>1, <1>14, <1>16 DEF Rollback, AnswerLost, Say
  <2>3. QED  BY <1>0, <1>2, <1>3, <1>16, <2>1, <2>2, Constants DEF Rollback, AnswerLost
<1>17. ASSUME NEW a \in Actors, NEW w \in Work, WorkOK(w), Hands(a, w), Save(a), UNCHANGED <<chat, published>>,
              UNCHANGED past \/ \E kind : Disturbed(kind)
       PROVE  Typed'
  <2>1. row' \in Row /\ iv' \in [Ids -> Interview]  BY <1>17, Saves
  <2>2. past' \in [Kinds -> BOOLEAN]  BY <1>0, <1>17, PastTypes
  <2>3. QED  BY <1>0, <1>1, <1>2, <1>3, <1>17, <2>1, <2>2
<1>18. ASSUME NEW a \in Actors, Commit(a) \/ _mark_auth_error(a) PROVE Typed'
  <2>1. Save(a) /\ Hands(a, Idle) /\ UNCHANGED <<chat, published>>  BY <1>18, Commits
  <2>2. UNCHANGED past \/ \E kind : Disturbed(kind)  BY <1>18 DEF Commit, _mark_auth_error
  <2>3. QED  BY <1>17, <2>1, <2>2, Constants
<1>19. ASSUME NEW a \in Actors, persist(a) PROVE Typed'
  <2>1. PICK w \in Work :
          /\ Hands(a, w) /\ work[a].pc = "send" /\ Save(a) /\ UNCHANGED <<chat, published>>
          /\ w.pc = "send" /\ w.step = work[a].step /\ w.token = work[a].token
    BY <1>19, Persists
  <2>2. WorkOK(w)  BY <1>0, <2>1 DEF WorkOK
  <2>3. \E kind : Disturbed(kind)  BY <1>19 DEF persist
  <2>4. QED  BY <1>17, <2>1, <2>2, <2>3
<1>20. QED
  BY <1>4, <1>5, <1>6, <1>7, <1>9, <1>10, <1>11, <1>12, <1>13, <1>15, <1>16, <1>18, <1>19
  DEF Next, Advances

LEMMA TypeInit == Init => Typed
<1> SUFFICES ASSUME Init PROVE Typed  OBVIOUS
<1>1. chat = <<>> /\ Len(chat) = 0 /\ 1..Len(chat) = {}  BY DEF Init
<1>2. SentSteps = {}  BY <1>1 DEF SentSteps, KeyTaken
<1>3. Cardinality(SentSteps) = 0  BY <1>2, FS_EmptySet
<1>4. ChatOK  BY <1>1, <1>3, Constants DEF ChatOK, NothingTwice
<1>5. iv \in [Ids -> Interview]
  <2>1. {0, 1} \subseteq Links  BY Constants, ParametersOK DEF Links
  <2>2. QED  BY <2>1 DEF Init, Interview
<1>6. work \in [Actors -> Work] /\ \A a \in Actors : WorkOK(work[a])
  BY Constants DEF Init
<1>7. past \in [Kinds -> BOOLEAN]
  <2>1. past = [failed |-> FALSE, paused |-> FALSE, refreshed |-> FALSE, taken |-> FALSE]  BY DEF Init
  <2>2. past \in [failed: BOOLEAN, paused: BOOLEAN, refreshed: BOOLEAN, taken: BOOLEAN]  BY <2>1
  <2>3. /\ past = [k \in DOMAIN past |-> past[k]] /\ DOMAIN past = Kinds
        /\ past["failed"] = FALSE /\ past["paused"] = FALSE
        /\ past["refreshed"] = FALSE /\ past["taken"] = FALSE
    BY <2>1 DEF Kinds
  <2>4. QED  BY <2>3 DEF Kinds
<1>8. row \in Row /\ published \in BOOLEAN  BY Constants DEF Init
<1>9. QED  BY <1>4, <1>5, <1>6, <1>7, <1>8 DEF Typed, TypeOK, ChatOK

-----------------------------------------------------------------------------
(* Nobody has taken the application over.                                  *)

\* The one transaction there is has loaded the row as it is and only goes forward from it; whom it writes
\* a link for is the one interview there is.
AtWork(w) ==
    /\ w.loaded = row
    /\ w.target # 0 => w.pc \in {"send", "commit"} /\ Existing \subseteq {w.target} /\ w.now.iv = w.target
    /\ w.target = 0 => w.now.iv = row.iv
    /\ w.pc = "loaded" => w.now = row
    /\ w.pc \in {"slot", "ensure", "send"} => w.now.state = row.state
    /\ w.pc \in {"slot", "ensure"} => Answers(row.state) /\ w.target = 0
    /\ w.pc = "send" => IF w.step = "greeting" THEN row.state = "new" ELSE Answers(row.state)
    /\ w.pc = "commit" => Rank[w.now.state] >= Rank[row.state]

Alone ==
    ~past.taken =>
       /\ \A i, j \in Existing : i = j
       /\ \A a \in Actors : IF work[a].pc = "idle" THEN work[a] = Idle
                                                   ELSE a = "sync" /\ AtWork(work[a])

\* Until a call has failed either, a link in the chat is the one that the row knows, or is about to; the
\* interview of a link that was saved with new tokens of hh has it already.
Linked(w) ==
    /\ "link" \in w.now.history.steps => KeyTaken("link")
    /\ w.target # 0 => w.token # 0
    /\ w.token # 0 /\ w.target = 0 => row.iv # 0 /\ iv[row.iv].token = w.token
    /\ w.pc = "send" => (w.step = "link" <=> w.token # 0)
    /\ w.pc = "commit" /\ w.token # 0 => InChat(w.token) /\ w.now.state = "link_sent"
    /\ w.pc = "commit" /\ w.now.state = "link_sent" /\ w.token = 0 => row.state = "link_sent"
    /\ w.pc = "commit" /\ row.state \in {"link_sent", "done"} => w.now.state \in {"link_sent", "done"}

Quiet ==
    ~past.taken /\ ~past.failed =>
       /\ ChatLinkWorks
       /\ "link" \in row.history.steps => KeyTaken("link")
       /\ \A a \in Actors : work[a].pc # "idle" => Linked(work[a])
       /\ KeyTaken("link") => \/ row.state \in {"link_sent", "done"}
                              \/ \E a \in Actors : work[a].pc = "commit" /\ work[a].now.state = "link_sent"

\* Only a commit changes the row, of the transaction itself or of what commits it halfway.
LEMMA Untouched ==
    ASSUME Typed, Next
    PROVE  UNCHANGED row \/ \E a \in Actors : Commit(a) \/ persist(a) \/ _mark_auth_error(a)
BY ZenonT(30) DEF Next, Advances, Write, Publish, sync_connection, take_over, Load, pull, advance, _ensure_interview, _send,
       AnswerLost, Rollback, Finish

LEMMA ExistingKept ==
    ASSUME Typed, NEW i \in Ids, Finish(i)
    PROVE  /\ Existing' = Existing /\ \A k \in Ids : iv'[k].token = iv[k].token
           /\ UNCHANGED <<chat, row, published, work, past>>
<1>1. iv \in [Ids -> Interview]  BY DEF Typed, TypeOK
<1>2. iv' = [iv EXCEPT ![i] = [iv[i] EXCEPT !.status = "finished"]] /\ iv[i].status = "open"
  BY <1>1 DEF Finish
<1>3. \A k \in Ids : iv'[k].token = iv[k].token /\ (iv'[k].status # "none" <=> iv[k].status # "none")
  BY <1>1, <1>2 DEF Interview
<1>4. QED  BY <1>3 DEF Existing, Finish

\* What the disturbances leave in the history.
LEMMA PastGrows ==
    ASSUME Typed, Next
    PROVE  /\ ~past'.taken => ~past.taken
           /\ ~past'.failed => ~past.failed
           /\ take_over => past'.taken
           /\ \A a \in Actors : Rollback(a) \/ AnswerLost(a) \/ _mark_auth_error(a) => past'.failed
<1>1. ASSUME NEW kind \in Kinds, Disturbed(kind)
      PROVE  (~past'.taken => ~past.taken) /\ (~past'.failed => ~past.failed) /\ past'[kind]
  <2>1. past'[kind] /\ \A k : past[k] /\ k # kind => past'[k]  BY <1>1, PastTypes
  <2>2. past'["taken"] = past'.taken /\ past'["failed"] = past'.failed  OBVIOUS
  <2>3. QED  BY <2>1
<1>2. UNCHANGED past \/ \E kind \in Kinds : Disturbed(kind)
  <2>1. Publish \/ take_over => \E kind \in Kinds : Disturbed(kind)
    BY DEF Kinds, Publish, take_over
  <2>2. ASSUME NEW a \in Actors, Rollback(a) \/ AnswerLost(a) \/ persist(a) \/ _mark_auth_error(a)
        PROVE  \E kind \in Kinds : Disturbed(kind)
    BY <2>2 DEF Kinds, Rollback, AnswerLost, persist, _mark_auth_error
  <2>3. ASSUME NEW a \in Actors, Advances(a) PROVE UNCHANGED past
    BY <2>3 DEF Advances, pull, advance, _ensure_interview, _send, Commit
  <2>4. Write \/ sync_connection \/ (\E i \in Ids : Finish(i)) => UNCHANGED past
    BY DEF Write, sync_connection, Finish
  <2>5. QED  BY <2>1, <2>2, <2>3, <2>4 DEF Next
<1>3. take_over => past'.taken  BY <1>1 DEF Kinds, take_over
<1>4. \A a \in Actors : Rollback(a) \/ AnswerLost(a) \/ _mark_auth_error(a) => past'.failed
  BY <1>1 DEF Kinds, Rollback, AnswerLost, _mark_auth_error
<1>5. QED  BY <1>1, <1>2, <1>3, <1>4

LEMMA AloneStep == ASSUME Typed, Alone, [Next]_vars PROVE Alone'
<1> SUFFICES ASSUME ~past'.taken PROVE Alone'  BY DEF Alone
<1>1. CASE UNCHANGED vars
  BY <1>1 DEF vars, Alone, AtWork, Existing
<1> SUFFICES ASSUME Next PROVE Alone'  BY <1>1
<1>0. /\ ~past.taken /\ work \in [Actors -> Work]
      /\ \A i, j \in Existing : i = j
      /\ \A a \in Actors : IF work[a].pc = "idle" THEN work[a] = Idle ELSE a = "sync" /\ AtWork(work[a])
      /\ Idle.pc = "idle"
  BY PastGrows DEF Alone, Typed, TypeOK, Idle
\* The worker's transaction goes on, and nothing else changes.
<1>2. ASSUME NEW w \in Work, "sync" \in Actors, Hands("sync", w), row' = row, iv' = iv,
             w = Idle \/ (w.pc # "idle" /\ AtWork(w))
      PROVE  Alone'
  <2>1. Existing' = Existing  BY <1>2 DEF Existing
  <2>2. work'["sync"] = w  BY <1>0, <1>2 DEF Hands
  <2>3. w.pc # "idle" => AtWork(work["sync"])'
    BY <1>0, <1>2, <2>1, <2>2 DEF AtWork
  <2>4. \A b \in Actors \ {"sync"} : work'[b] = Idle
    BY <1>0, <1>2 DEF Hands
  <2>5. \A b \in Actors : IF work'[b].pc = "idle" THEN work'[b] = Idle ELSE b = "sync" /\ AtWork(work["sync"])'
    BY <1>0, <1>2, <2>2, <2>3, <2>4
  <2>6. QED  BY <1>0, <2>1, <2>5 DEF Alone
<1>3. ASSUME row' = row, work' = work, Existing' = Existing PROVE Alone'
  BY <1>0, <1>3 DEF Alone, AtWork
<1>4. CASE Write \/ Publish \/ \E i \in Ids : Finish(i)
  <2>1. CASE Write  BY <1>3, <2>1 DEF Write, Existing
  <2>2. CASE Publish  BY <1>3, <2>2 DEF Publish, Existing
  <2>3. ASSUME NEW i \in Ids, Finish(i) PROVE Alone'  BY <1>3, <2>3, ExistingKept
  <2>4. QED  BY <1>4, <2>1, <2>2, <2>3
<1>5. CASE sync_connection
  <2>1. "sync" \in Actors /\ Load("sync") /\ row' = row /\ iv' = iv  BY <1>5 DEF sync_connection, Load
  <2>2. PICK w \in Work : /\ Hands("sync", w) /\ w.pc = "loaded" /\ w.loaded = row /\ w.now = row
                          /\ w.target = 0
    BY <2>1, Loads
  <2>3. AtWork(w)  BY <2>2 DEF AtWork
  <2>4. QED  BY <1>2, <2>1, <2>2, <2>3
<1>6. CASE take_over
  BY <1>6, PastGrows
<1>7. ASSUME NEW a \in Actors, work[a].pc # "idle" PROVE a = "sync" /\ AtWork(work[a])
  BY <1>0, <1>7
<1>8. ASSUME NEW a \in Actors, pull(a) PROVE Alone'
  <2>1. PICK w \in Work :
          /\ Hands(a, w) /\ work[a].pc = "loaded"
          /\ w.loaded = work[a].loaded /\ w.target = work[a].target
          /\ w.pc = Dispatch(a, work[a].now, w.fresh)
          /\ w.step = IF w.pc = "send" THEN "greeting" ELSE "none"
          /\ w.now.iv = work[a].now.iv
          /\ w.now.state = IF a = "sync" /\ Finished(work[a].now) THEN "done" ELSE work[a].now.state
    BY <1>8, Pulls
  <2>2. a = "sync" /\ AtWork(work[a])  BY <1>7, <2>1
  <2>3. row' = row /\ iv' = iv  BY <1>8 DEF pull
  <2>4. work[a].now = row /\ work[a].target = 0  BY <2>1, <2>2 DEF AtWork
  <2>5. \/ w.pc = "commit"
        \/ w.pc = "send" /\ row.state = "new"
        \/ w.pc = "slot" /\ Answers(row.state)
    BY <2>1, <2>2, <2>4 DEF Dispatch
  <2>6. \/ w.now.state = row.state /\ row.state \in States
        \/ w.now.state = "done" /\ row.state = "link_sent"
    BY <2>1, <2>4 DEF Finished, Typed, TypeOK, Row
  <2>7. w.pc # "commit" => w.now.state = row.state
    BY <2>5, <2>6 DEF Answers
  <2>8. Rank[w.now.state] >= Rank[row.state]
    BY <2>6 DEF Rank, States
  <2>9. AtWork(w)  BY <2>1, <2>2, <2>4, <2>5, <2>7, <2>8 DEF AtWork
  <2>10. QED  BY <1>2, <2>1, <2>2, <2>3, <2>5, <2>9
<1>9. ASSUME NEW a \in Actors, advance(a) PROVE Alone'
  <2>1. PICK w \in Work :
          /\ Hands(a, w) /\ work[a].pc = "slot"
          /\ w.loaded = work[a].loaded /\ w.target = work[a].target
          /\ w.now.iv = work[a].now.iv
          /\ \/ w.pc = "commit" /\ w.now.state \in {"declined", "needs_recruiter"}
             \/ w.pc = "ensure" /\ w.now.state = work[a].now.state
             \/ w.pc = "send" /\ w.step = "clarify" /\ w.now.state = work[a].now.state
    BY <1>9, Reads
  <2>2. a = "sync" /\ AtWork(work[a])  BY <1>7, <2>1
  <2>3. row' = row /\ iv' = iv  BY <1>9 DEF advance
  <2>4. work[a].now.state = row.state /\ work[a].target = 0 /\ Answers(row.state)
    BY <2>1, <2>2 DEF AtWork
  <2>5. w.pc = "commit" => Rank[w.now.state] >= Rank[row.state]
    BY <2>1, <2>4 DEF Rank, Answers
  <2>6. AtWork(w)  BY <2>1, <2>2, <2>4, <2>5 DEF AtWork
  <2>7. QED  BY <1>2, <2>1, <2>2, <2>3, <2>6
<1>10. ASSUME NEW a \in Actors, _ensure_interview(a) PROVE Alone'
  <2>1. PICK w \in Work :
          /\ Hands(a, w) /\ work[a].pc = "ensure"
          /\ w.loaded = work[a].loaded /\ w.pc = "send" /\ w.step = "link"
          /\ Existing # {} => w.target \in Existing
          /\ w.now.iv = w.target /\ w.now.state = work[a].now.state
          /\ w.target \in Ids
    BY <1>10, Ensures
  <2>2. a = "sync" /\ AtWork(work[a])  BY <1>7, <2>1
  <2>3. row' = row /\ iv' = iv  BY <1>10 DEF _ensure_interview
  <2>4. work[a].now.state = row.state /\ Answers(row.state)  BY <2>1, <2>2 DEF AtWork
  <2>5. Existing \subseteq {w.target} /\ w.target # 0  BY <1>0, <2>1 DEF Ids
  <2>6. AtWork(w)  BY <2>1, <2>2, <2>4, <2>5 DEF AtWork
  <2>7. QED  BY <1>2, <2>1, <2>2, <2>3, <2>6
<1>11. ASSUME NEW a \in Actors, _send(a) PROVE Alone'
  <2>1. /\ work[a].pc = "send"
        /\ \E w \in Work :
             /\ Hands(a, w)
             /\ w.loaded = work[a].loaded /\ w.pc = "commit" /\ w.step = work[a].step
             /\ w.target = work[a].target /\ w.now.iv = work[a].now.iv
             /\ w.now.state = Reached(work[a].now.state, work[a].step)
    BY <1>11, Sends
  <2>2. PICK w \in Work :
          /\ Hands(a, w)
          /\ w.loaded = work[a].loaded /\ w.pc = "commit" /\ w.step = work[a].step
          /\ w.target = work[a].target /\ w.now.iv = work[a].now.iv
          /\ w.now.state = Reached(work[a].now.state, work[a].step)
    BY <2>1
  <2>3. a = "sync" /\ AtWork(work[a])  BY <1>7, <2>1
  <2>4. row' = row /\ iv' = iv  BY <1>11 DEF _send
  <2>5. work[a].step \in Steps  BY <2>1 DEF Typed, WorkOK
  <2>6. IF work[a].step = "greeting" THEN row.state = "new" ELSE Answers(row.state)
    BY <2>1, <2>3 DEF AtWork
  <2>7. Rank[w.now.state] >= Rank[row.state]
    BY <2>2, <2>5, <2>6 DEF Rank, Reached, Steps, Answers
  <2>8. AtWork(w)  BY <2>1, <2>2, <2>3, <2>7 DEF AtWork
  <2>9. QED  BY <1>2, <2>2, <2>3, <2>4, <2>8
<1>12. ASSUME NEW a \in Actors, Rollback(a) \/ AnswerLost(a) PROVE Alone'
  <2>1. work[a].pc # "idle" /\ Hands(a, Idle) /\ row' = row /\ iv' = iv
    BY <1>12 DEF Rollback, AnswerLost, Hands
  <2>2. QED  BY <1>2, <1>7, <2>1, Constants
\* Whom a transaction writes a link for stays the one interview.
<1>13. ASSUME NEW a \in Actors, Save(a), AtWork(work[a]) PROVE \A i, j \in Existing' : i = j
  <2>1. /\ work[a].target = 0 => iv' = iv
        /\ work[a].target # 0 => iv' = [iv EXCEPT ![work[a].target] = Relinked(@, work[a].token)]
    BY <1>13, Saves
  <2>2. CASE work[a].target = 0  BY <1>0, <2>1, <2>2 DEF Existing
  <2>3. CASE work[a].target # 0
    <3>1. \A i \in Ids : i # work[a].target => iv'[i] = iv[i]  BY <2>1, <2>3 DEF Typed, TypeOK
    <3>2. Existing' \subseteq {work[a].target}  BY <1>13, <2>3, <3>1 DEF AtWork, Existing
    <3>3. QED  BY <3>2
  <2>4. QED  BY <2>2, <2>3
<1>14. ASSUME NEW a \in Actors, Commit(a) \/ _mark_auth_error(a) PROVE Alone'
  <2>1. work[a].pc \in {"commit", "send"} /\ Save(a) /\ Hands(a, Idle)  BY <1>14, Commits
  <2>2. a = "sync" /\ AtWork(work[a])  BY <1>7, <2>1
  <2>3. \A b \in Actors : work'[b] = Idle  BY <1>0, <2>1, <2>2 DEF Hands
  <2>4. QED  BY <1>0, <1>13, <2>1, <2>2, <2>3 DEF Alone
<1>15. ASSUME NEW a \in Actors, persist(a) PROVE Alone'
  <2> DEFINE old == work[a]
  <2>1. PICK w \in Work :
          /\ Hands(a, w) /\ old.pc = "send" /\ Save(a)
          /\ w.pc = "send" /\ w.step = old.step /\ w.target = 0
          /\ w.loaded = old.now /\ w.now = old.now
    BY <1>15, Persists
  <2>2. a = "sync" /\ AtWork(old)  BY <1>7, <2>1
  <2>3. row' = old.now  BY <2>1, <2>2, Saves DEF AtWork
  <2>4. row'.state = row.state  BY <2>1, <2>2, <2>3 DEF AtWork
  <2>5. work'["sync"] = w /\ \A b \in Actors \ {"sync"} : work'[b] = Idle
    BY <1>0, <2>1, <2>2 DEF Hands
  <2>6. AtWork(work["sync"])'
    BY <2>1, <2>2, <2>3, <2>4, <2>5 DEF AtWork, Answers
  <2>7. \A i, j \in Existing' : i = j  BY <1>13, <2>1, <2>2
  <2>8. \A b \in Actors : IF work'[b].pc = "idle" THEN work'[b] = Idle ELSE b = "sync" /\ AtWork(work["sync"])'
    BY <1>0, <2>1, <2>5, <2>6
  <2>9. QED  BY <2>2, <2>5, <2>7, <2>8 DEF Alone
<1>16. QED
  BY <1>4, <1>5, <1>6, <1>8, <1>9, <1>10, <1>11, <1>12, <1>14, <1>15 DEF Next, Advances

\* What was in the chat stays in it.
LEMMA ChatKept ==
    ASSUME Typed, NEW m \in Message, chat' = Append(chat, m)
    PROVE  /\ \A l : InChat(l) => InChat(l)'
           /\ m.what = "link" => InChat(m.link)'
<1>1. /\ Len(chat) \in Nat /\ Len(chat') = Len(chat) + 1
      /\ \A k \in 1..Len(chat) : chat'[k] = chat[k]
      /\ chat'[Len(chat')] = m
  BY Appended DEF Typed
<1>2. Len(chat') \in 1..Len(chat') /\ \A k \in 1..Len(chat) : k \in 1..Len(chat')  BY <1>1
<1>3. QED  BY <1>1, <1>2 DEF InChat

LEMMA QuietStep == ASSUME Typed, Alone, Quiet, [Next]_vars PROVE Quiet'
<1> SUFFICES ASSUME ~past'.taken, ~past'.failed PROVE Quiet'  BY DEF Quiet
<1>1. CASE UNCHANGED vars
  BY <1>1 DEF vars, Quiet, ChatLinkWorks, Linked, KeyTaken, InChat
<1> SUFFICES ASSUME Next PROVE Quiet'  BY <1>1
<1>0. ~past.taken /\ ~past.failed /\ work \in [Actors -> Work] /\ Idle.pc = "idle"
  BY PastGrows DEF Typed, TypeOK, Idle
<1>2. /\ row.state = "link_sent" => row.iv # 0 /\ InChat(iv[row.iv].token)
      /\ "link" \in row.history.steps => KeyTaken("link")
      /\ \A a \in Actors : work[a].pc # "idle" => Linked(work[a])
      /\ KeyTaken("link") => \/ row.state \in {"link_sent", "done"}
                             \/ \E a \in Actors : work[a].pc = "commit" /\ work[a].now.state = "link_sent"
  BY <1>0 DEF Quiet, ChatLinkWorks
<1>3. \A a \in Actors : work[a].pc # "idle" => a = "sync" /\ AtWork(work[a])
  BY <1>0 DEF Alone
\* Without a message and a commit, what matters is what the worker's transaction holds.
<1>4. ASSUME NEW w \in Work, "sync" \in Actors, Hands("sync", w), row' = row, iv' = iv, chat' = chat,
             work["sync"].pc # "commit", w.pc # "idle" => Linked(w)
      PROVE  Quiet'
  <2>1. (\A s : KeyTaken(s)' <=> KeyTaken(s)) /\ (\A l : InChat(l)' <=> InChat(l))
    BY <1>4 DEF KeyTaken, InChat
  <2>2. work'["sync"] = w /\ \A b \in Actors \ {"sync"} : work'[b].pc = "idle"
    BY <1>0, <1>3, <1>4 DEF Hands
  <2>3. w.pc # "idle" => Linked(work["sync"])'
    BY <1>4, <2>1, <2>2 DEF Linked
  <2>4. \A b \in Actors : work'[b].pc # "idle" => Linked(work[b])'
    BY <2>2, <2>3
  <2>5. KeyTaken("link") => row.state \in {"link_sent", "done"}
    BY <1>2, <1>3, <1>4
  <2>6. ChatLinkWorks'  BY <1>2, <1>4, <2>1 DEF ChatLinkWorks
  <2>7. QED  BY <1>2, <1>4, <2>1, <2>4, <2>5, <2>6 DEF Quiet
\* People write, the applicant takes the interview, the vacancy is paused.
<1>5. ASSUME row' = row, work' = work, \A k \in Ids : iv'[k].token = iv[k].token,
             \A s : KeyTaken(s)' <=> KeyTaken(s), \A l : InChat(l) => InChat(l)'
      PROVE  Quiet'
  <2>1. row.iv # 0 => row.iv \in Ids
    <3>1. MaxInterviews \in Nat  BY Constants
    <3>2. QED  BY <3>1 DEF Typed, TypeOK, Row, Ids
  <2>2. \A b \in Actors : work'[b].pc # "idle" => Linked(work[b])'
    BY <1>2, <1>5, <2>1 DEF Linked
  <2>3. ChatLinkWorks'  BY <1>2, <1>5, <2>1 DEF ChatLinkWorks
  <2>4. QED  BY <1>2, <1>5, <2>2, <2>3 DEF Quiet
<1>6. CASE Write
  <2>1. PICK m \in Message : /\ m.by # "bot" /\ m.what \notin Steps /\ m.link = 0
                             /\ chat' = Append(chat, m) /\ Len(chat) < MaxWritten
    BY <1>6, Written
  <2>2. \A s : KeyTaken(s)' <=> KeyTaken(s)  BY <2>1, PeopleWrite DEF Typed
  <2>3. QED  BY <1>5, <1>6, <2>1, <2>2, ChatKept DEF Write
<1>7. CASE Publish
  <2>1. row' = row /\ work' = work /\ iv' = iv /\ chat' = chat  BY <1>7 DEF Publish
  <2>2. QED  BY <1>5, <2>1 DEF KeyTaken, InChat
<1>8. ASSUME NEW i \in Ids, Finish(i) PROVE Quiet'
  <2>1. /\ row' = row /\ work' = work /\ chat' = chat
        /\ \A k \in Ids : iv'[k].token = iv[k].token
    BY <1>8, ExistingKept
  <2>2. QED  BY <1>5, <2>1 DEF KeyTaken, InChat
<1>9. CASE sync_connection
  <2>1. "sync" \in Actors /\ Load("sync") /\ row' = row /\ iv' = iv /\ chat' = chat
    BY <1>9 DEF sync_connection, Load
  <2>2. PICK w \in Work : /\ Hands("sync", w) /\ work["sync"].pc = "idle"
                          /\ w.pc = "loaded" /\ w.now = row /\ w.token = 0 /\ w.target = 0
    BY <2>1, Loads
  <2>3. Linked(w)  BY <1>2, <2>2 DEF Linked
  <2>4. QED  BY <1>4, <2>1, <2>2, <2>3
<1>10. CASE take_over
  BY <1>10, PastGrows
<1>11. ASSUME NEW a \in Actors, pull(a) PROVE Quiet'
  <2>1. PICK w \in Work :
          /\ Hands(a, w) /\ work[a].pc = "loaded"
          /\ w.target = work[a].target /\ w.token = work[a].token
          /\ w.pc = Dispatch(a, work[a].now, w.fresh)
          /\ w.step = IF w.pc = "send" THEN "greeting" ELSE "none"
          /\ w.now.history.steps = work[a].now.history.steps
          /\ w.now.state = IF a = "sync" /\ Finished(work[a].now) THEN "done" ELSE work[a].now.state
    BY <1>11, Pulls
  <2>2. a = "sync" /\ AtWork(work[a]) /\ Linked(work[a])  BY <1>2, <1>3, <2>1
  <2>3. work[a].now = row /\ work[a].target = 0 /\ work[a].token = 0
    BY <2>1, <2>2 DEF AtWork, Typed, WorkOK
  <2>4. w.now.state = row.state \/ (w.now.state = "done" /\ row.state = "link_sent")
    BY <2>1, <2>3 DEF Finished
  <2>5. "link" \in w.now.history.steps => KeyTaken("link")  BY <2>1, <2>2 DEF Linked
  <2>6. Linked(w)  BY <2>1, <2>3, <2>4, <2>5 DEF Linked
  <2>7. row' = row /\ iv' = iv /\ chat' = chat  BY <1>11 DEF pull
  <2>8. QED  BY <1>4, <2>1, <2>2, <2>6, <2>7
<1>12. ASSUME NEW a \in Actors, advance(a) PROVE Quiet'
  <2>1. PICK w \in Work :
          /\ Hands(a, w) /\ work[a].pc = "slot"
          /\ w.target = work[a].target /\ w.token = work[a].token
          /\ w.now.history = work[a].now.history
          /\ \/ w.pc = "commit" /\ w.now.state \in {"declined", "needs_recruiter"}
             \/ w.pc = "ensure" /\ w.now.state = work[a].now.state
             \/ w.pc = "send" /\ w.step = "clarify" /\ w.now.state = work[a].now.state
    BY <1>12, Reads
  <2>2. a = "sync" /\ AtWork(work[a]) /\ Linked(work[a])  BY <1>2, <1>3, <2>1
  <2>3. work[a].target = 0 /\ work[a].token = 0 /\ Answers(row.state)
    BY <2>1, <2>2 DEF AtWork, Typed, WorkOK
  <2>4. "link" \in w.now.history.steps => KeyTaken("link")  BY <2>1, <2>2 DEF Linked
  <2>5. Linked(w)  BY <2>1, <2>3, <2>4 DEF Linked, Answers
  <2>6. row' = row /\ iv' = iv /\ chat' = chat  BY <1>12 DEF advance
  <2>7. QED  BY <1>4, <2>1, <2>2, <2>5, <2>6
<1>13. ASSUME NEW a \in Actors, _ensure_interview(a) PROVE Quiet'
  <2>1. PICK w \in Work :
          /\ Hands(a, w) /\ work[a].pc = "ensure"
          /\ w.pc = "send" /\ w.step = "link" /\ w.token # 0 /\ w.target \in Ids
          /\ w.now.history = work[a].now.history
    BY <1>13, Ensures
  <2>2. a = "sync" /\ Linked(work[a])  BY <1>2, <1>3, <2>1
  <2>3. w.target # 0  BY <2>1 DEF Ids
  <2>4. "link" \in w.now.history.steps => KeyTaken("link")  BY <2>1, <2>2 DEF Linked
  <2>5. Linked(w)  BY <2>1, <2>3, <2>4 DEF Linked
  <2>6. row' = row /\ iv' = iv /\ chat' = chat  BY <1>13 DEF _ensure_interview
  <2>7. QED  BY <1>4, <2>1, <2>2, <2>5, <2>6
<1>14. ASSUME NEW a \in Actors, _send(a) PROVE Quiet'
  <2> DEFINE old == work[a]
             m == [by |-> "bot", what |-> old.step, link |-> old.token]
  <2>1. /\ old.pc = "send"
        /\ \/ chat' = chat /\ (old.step \in old.now.history.steps \/ KeyTaken(old.step))
           \/ chat' = Append(chat, m) /\ ~KeyTaken(old.step)
        /\ \E w \in Work :
             /\ Hands(a, w)
             /\ w.pc = "commit" /\ w.step = old.step /\ w.token = old.token /\ w.target = old.target
             /\ w.now.history.steps = old.now.history.steps \cup {old.step}
             /\ w.now.state = Reached(old.now.state, old.step)
    BY <1>14, Sends
  <2>2. PICK w \in Work :
          /\ Hands(a, w)
          /\ w.pc = "commit" /\ w.step = old.step /\ w.token = old.token /\ w.target = old.target
          /\ w.now.history.steps = old.now.history.steps \cup {old.step}
          /\ w.now.state = Reached(old.now.state, old.step)
    BY <2>1
  <2>3. a = "sync" /\ AtWork(old) /\ Linked(old)  BY <1>2, <1>3, <2>1
  <2>4. /\ old.step \in Steps /\ old.token \in Links /\ (old.token # 0 => old.step = "link")
    BY <2>1 DEF Typed, TypeOK, WorkOK, Work
  <2>5. IF old.step = "greeting" THEN row.state = "new" ELSE Answers(row.state)
    BY <2>1, <2>3 DEF AtWork
  <2>6. row.state \notin {"link_sent", "done"}  BY <2>5 DEF Answers
  <2>7. ~KeyTaken("link") /\ "link" \notin old.now.history.steps
    BY <1>2, <1>3, <2>1, <2>3, <2>6 DEF Linked
  <2>8. PICK n \in Message : n = m /\ n.by = "bot" /\ n.what = old.step /\ n.link = w.token
    <3>1. m \in Message /\ m.by = "bot" /\ m.what = old.step /\ m.link = old.token
      BY <2>4 DEF Message
    <3> HIDE DEF m
    <3>2. QED  BY <2>2, <3>1
  <2>9. /\ KeyTaken("link")' <=> old.step = "link"
        /\ old.step = "link" => InChat(w.token)'
    <3>1. CASE chat' = chat /\ old.step # "link"
      BY <2>7, <3>1 DEF KeyTaken
    <3>2. CASE chat' = Append(chat, m) /\ ~KeyTaken(old.step)
      <4>1. KeyTaken("link")' <=> (KeyTaken("link") \/ "link" = n.what)
        BY <2>2, <2>4, <2>8, <3>2, BotSends DEF Typed
      <4>2. n.what = "link" => InChat(n.link)'
        BY <2>8, <3>2, ChatKept
      <4>3. QED  BY <2>7, <2>8, <4>1, <4>2
    <3>3. QED  BY <2>1, <2>7, <3>1, <3>2
  <2>10. row' = row /\ iv' = iv  BY <1>14 DEF _send
  <2>11. work'["sync"] = w /\ \A b \in Actors \ {"sync"} : work'[b].pc = "idle"
    BY <1>0, <1>3, <2>2, <2>3 DEF Hands
  <2>12. w.now.state = "link_sent" <=> old.step = "link"
    BY <2>2, <2>3, <2>4, <2>1, <2>5 DEF Reached, Steps
  <2>13. /\ old.step = "link" <=> old.token # 0
         /\ old.target # 0 => old.token # 0
         /\ old.token # 0 /\ old.target = 0 => row.iv # 0 /\ iv[row.iv].token = old.token
    BY <2>1, <2>3 DEF Linked
  <2>14. Linked(work["sync"])'
    <3>1. "link" \in w.now.history.steps => KeyTaken("link")'  BY <2>2, <2>7, <2>9
    <3>2. w.token # 0 => InChat(w.token)' /\ w.now.state = "link_sent"  BY <2>2, <2>9, <2>12, <2>13
    <3>3. /\ w.now.state = "link_sent" => w.token # 0
          /\ w.target # 0 => w.token # 0
          /\ w.token # 0 /\ w.target = 0 => row'.iv # 0 /\ iv'[row'.iv].token = w.token
      BY <2>2, <2>10, <2>12, <2>13
    <3>4. row'.state \notin {"link_sent", "done"} /\ w.pc = "commit"  BY <2>2, <2>6, <2>10
    <3>5. work'["sync"].now = w.now /\ work'["sync"].pc = w.pc /\ work'["sync"].target = w.target
          /\ work'["sync"].token = w.token
      BY <2>11
    <3>6. InChat(w.token)' => InChat(work["sync"].token)'  BY <3>5 DEF InChat
    <3>7. QED  BY <3>1, <3>2, <3>3, <3>4, <3>5, <3>6 DEF Linked
  <2>15. "link" \notin row.history.steps  BY <1>2, <2>7
  <2>16. ChatLinkWorks'  BY <2>6, <2>10 DEF ChatLinkWorks
  <2>17. \A b \in Actors : work'[b].pc # "idle" => Linked(work[b])'  BY <2>11, <2>14
  <2>18. KeyTaken("link")' => \E b \in Actors : work'[b].pc = "commit" /\ work'[b].now.state = "link_sent"
    BY <2>2, <2>3, <2>9, <2>11, <2>12
  <2>19. QED  BY <2>10, <2>15, <2>16, <2>17, <2>18 DEF Quiet
<1>15. ASSUME NEW a \in Actors, Rollback(a) \/ AnswerLost(a) \/ _mark_auth_error(a) PROVE Quiet'
  BY <1>15, PastGrows
\* What is saved of a link is in the row and in the interview alike.
<1>16. ASSUME NEW a \in Actors, work[a].pc # "idle", Save(a)
       PROVE  /\ a = "sync" /\ AtWork(work[a]) /\ Linked(work[a]) /\ row' = work[a].now
              /\ work[a].target = 0 => iv' = iv /\ row'.iv = row.iv
              /\ work[a].token # 0 => row'.iv # 0 /\ iv'[row'.iv].token = work[a].token
  <2> DEFINE w == work[a]
  <2>1. a = "sync" /\ AtWork(w) /\ Linked(w)  BY <1>2, <1>3, <1>16
  <2>2. /\ w.loaded = row => row' = w.now
        /\ w.target = 0 => iv' = iv
        /\ w.target # 0 => w.target \in Ids /\ iv' = [iv EXCEPT ![w.target] = Relinked(@, w.token)]
    BY <1>16, Saves
  <2>3. row' = w.now  BY <2>1, <2>2 DEF AtWork
  <2>4. w.target = 0 => row'.iv = row.iv  BY <2>1, <2>3 DEF AtWork
  <2>5. CASE w.target = 0
    BY <2>1, <2>2, <2>3, <2>4, <2>5 DEF Linked
  <2>6. CASE w.target # 0
    <3>1. row'.iv = w.target  BY <2>1, <2>3, <2>6 DEF AtWork
    <3>2. iv'[w.target].token = w.token  BY <2>2, <2>6 DEF Typed, TypeOK, Relinked
    <3>3. QED  BY <2>1, <2>3, <2>6, <3>1, <3>2
  <2>7. QED  BY <2>5, <2>6
<1>17. ASSUME NEW a \in Actors, persist(a) PROVE Quiet'
  <2> DEFINE old == work[a]
  <2>1. PICK w \in Work :
          /\ Hands(a, w) /\ old.pc = "send" /\ Save(a) /\ chat' = chat
          /\ w.pc = "send" /\ w.step = old.step /\ w.token = old.token /\ w.target = 0
          /\ w.now = old.now
    BY <1>17, Persists
  <2>2. /\ a = "sync" /\ AtWork(old) /\ Linked(old) /\ row' = old.now
        /\ old.token # 0 => row'.iv # 0 /\ iv'[row'.iv].token = old.token
    BY <1>16, <2>1
  <2>3. (\A s : KeyTaken(s)' <=> KeyTaken(s)) /\ (\A l : InChat(l)' <=> InChat(l))
    BY <2>1 DEF KeyTaken, InChat
  <2>4. row'.state = row.state /\ row.state \notin {"link_sent", "done"}
    BY <2>1, <2>2 DEF AtWork, Answers
  <2>5. work'["sync"] = w /\ \A b \in Actors \ {"sync"} : work'[b].pc = "idle"
    BY <1>0, <1>3, <2>1, <2>2 DEF Hands
  <2>6. Linked(work["sync"])'  BY <2>1, <2>2, <2>3, <2>5 DEF Linked
  <2>7. \A b \in Actors : work'[b].pc # "idle" => Linked(work[b])'  BY <2>5, <2>6
  <2>8. ~KeyTaken("link")  BY <1>2, <1>3, <2>1, <2>2, <2>4
  <2>9. "link" \notin row'.history.steps  BY <2>2, <2>8 DEF Linked
  <2>10. ChatLinkWorks'  BY <2>4 DEF ChatLinkWorks
  <2>11. QED  BY <2>3, <2>7, <2>8, <2>9, <2>10 DEF Quiet
<1>18. ASSUME NEW a \in Actors, Commit(a) PROVE Quiet'
  <2> DEFINE w == work[a]
  <2>1. w.pc = "commit" /\ Hands(a, Idle) /\ Save(a) /\ chat' = chat  BY <1>18, Commits
  <2>2. /\ a = "sync" /\ AtWork(w) /\ Linked(w) /\ row' = w.now
        /\ w.target = 0 => iv' = iv /\ row'.iv = row.iv
        /\ w.token # 0 => row'.iv # 0 /\ iv'[row'.iv].token = w.token
    BY <1>16, <2>1
  <2>3. w.target # 0 => w.token # 0  BY <2>2 DEF Linked
  <2>5. (\A s : KeyTaken(s)' <=> KeyTaken(s)) /\ (\A l : InChat(l)' <=> InChat(l))
    BY <2>1 DEF KeyTaken, InChat
  <2>6. \A b \in Actors : work'[b].pc = "idle"  BY <1>0, <1>3, <2>1, <2>2 DEF Hands
  <2>7. "link" \in row'.history.steps => KeyTaken("link")'  BY <2>2, <2>5 DEF Linked
  <2>8. KeyTaken("link")' => row'.state \in {"link_sent", "done"}
    BY <1>2, <1>3, <2>1, <2>2, <2>5 DEF Linked
  <2>9. ASSUME row'.state = "link_sent" PROVE row'.iv # 0 /\ InChat(iv'[row'.iv].token)
    <3>1. CASE w.token = 0
      BY <1>2, <2>1, <2>2, <2>3, <2>9, <3>1 DEF Linked
    <3>2. CASE w.token # 0
      <4>1. InChat(w.token)  BY <2>1, <2>2, <3>2 DEF Linked
      <4>2. QED  BY <2>2, <3>2, <4>1
    <3>3. QED  BY <3>1, <3>2
  <2>10. ChatLinkWorks'  BY <2>5, <2>9 DEF ChatLinkWorks
  <2>11. QED  BY <2>6, <2>7, <2>8, <2>10 DEF Quiet
<1>19. QED
  BY <1>6, <1>7, <1>8, <1>9, <1>10, <1>11, <1>12, <1>13, <1>14, <1>15, <1>17, <1>18 DEF Next, Advances

IInv == Typed /\ Alone /\ Quiet

LEMMA InvInit == Init => IInv
<1> SUFFICES ASSUME Init PROVE IInv  OBVIOUS
<1>1. \A i, j \in Existing : i = j
  <2>1. PICK n \in {0, 1} : iv = [k \in Ids |-> IF k <= n THEN [token |-> 1, status |-> "open"]
                                                          ELSE [token |-> 0, status |-> "none"]]
    BY DEF Init
  <2>2. \A k \in Ids : iv[k].status # "none" => k <= n  BY <2>1
  <2>3. \A k \in Existing : k = 1  BY <2>2, Constants DEF Existing, Ids
  <2>4. QED  BY <2>3
<1>2. \A a \in Actors : work[a] = Idle /\ work[a].pc = "idle"  BY DEF Init, Idle
<1>3. ~KeyTaken("link")  BY DEF Init, KeyTaken
<1>4. row.state = "new" /\ row.history.steps = {}  BY DEF Init, NewRow
<1>5. QED  BY TypeInit, <1>1, <1>2, <1>3, <1>4 DEF IInv, Alone, Quiet, ChatLinkWorks

LEMMA InvStep == IInv /\ [Next]_vars => IInv'
BY TypeStep, AloneStep, QuietStep DEF IInv

LEMMA AtMostOne == ASSUME Typed, \A i, j \in Existing : i = j PROVE Cardinality(Existing) <= 1
<1>1. CASE Existing = {}  BY <1>1, FS_EmptySet
<1>2. CASE Existing # {}
  <2>1. \E i : Existing = {i}  BY <1>2
  <2>2. QED  BY <2>1, FS_Singleton
<1>3. QED  BY <1>1, <1>2

\* No step of the dialog is in the chat twice, whatever fails and whoever works on the application; until a
\* recruiter takes it over there is one interview; and until a call fails too the link in the chat opens it
\* (hh/dialog.py _send, _ensure_interview).
THEOREM ChatStaysRight == Spec => []ChatIsRight
<1>1. Init => IInv  BY InvInit
<1>2. IInv /\ [Next]_vars => IInv'  BY InvStep
<1>3. IInv => ChatIsRight
  <2> SUFFICES ASSUME IInv PROVE ChatIsRight  OBVIOUS
  <2>1. ChatLinkWorks  BY DEF IInv, Quiet, ChatLinkWorks
  <2>2. OneInterview
    <3>1. ~past.taken => Cardinality(Existing) <= 1  BY AtMostOne DEF IInv, Alone
    <3>2. QED  BY <3>1 DEF OneInterview, Existing
  <2>3. QED  BY <2>1, <2>2 DEF IInv, Typed, ChatOK, ChatIsRight
<1>4. QED  BY <1>1, <1>2, <1>3, PTL DEF Spec

\* Until somebody takes the application over the dialog does not go back, whatever fails: each transaction
\* writes a state that comes after the one it has loaded, and what new tokens commit halfway keeps it (hh/dialog.py: the states of the dialog).
THEOREM DialogGoesForward == Spec => Forward
<1> DEFINE Ahead == ~past'.taken => Rank[row'.state] >= Rank[row.state]
<1>1. Init => IInv  BY InvInit
<1>2. IInv /\ [Next]_vars => IInv'  BY InvStep
<1>3. ASSUME IInv, Next PROVE Ahead
  <2> SUFFICES ASSUME ~past'.taken PROVE Rank[row'.state] >= Rank[row.state]  OBVIOUS
  <2>1. Typed /\ Alone /\ ~past.taken  BY <1>3, PastGrows DEF IInv
  <2>2. Rank[row.state] \in Nat  BY <2>1 DEF Typed, TypeOK, Row, States, Rank
  <2>3. CASE UNCHANGED row  BY <2>2, <2>3
  <2>4. ASSUME NEW a \in Actors, Commit(a) \/ persist(a) \/ _mark_auth_error(a)
        PROVE  Rank[row'.state] >= Rank[row.state]
    <3>1. work[a].pc \in {"commit", "send"} /\ Save(a)  BY <2>1, <2>4, Commits, Persists
    <3>2. row'.state \in {row.state, work[a].now.state}  BY <2>1, <3>1, Saves
    <3>3. work[a].now.state = row.state \/ Rank[work[a].now.state] >= Rank[row.state]
      BY <2>1, <3>1 DEF Alone, AtWork
    <3>4. QED  BY <2>2, <3>2, <3>3
  <2>5. QED  BY <1>3, <2>1, <2>3, <2>4, Untouched
<1>4. IInv /\ [Next]_vars => [Ahead]_vars  BY <1>3
<1>5. QED  BY <1>1, <1>2, <1>4, PTL DEF Spec, Forward
=============================================================================
