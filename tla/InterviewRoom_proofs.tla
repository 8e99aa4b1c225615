------------------------- MODULE InterviewRoom_proofs -------------------------
(***************************************************************************)
(* Theorems about InterviewRoom for every number of questions, retakes and *)
(* requests that overlap.                                                  *)
(***************************************************************************)
EXTENDS InterviewRoom, FiniteSetTheorems, SequenceTheorems, WellFoundedInduction, TLAPS

Main == 1 .. Total
Spoken == Main \ Code
Asked == 1 .. Total + 1
Count(rows, q) == Cardinality(Of(rows, q))
Allowed(q) == IF q \in Main THEN RetakesAllowed ELSE 0

\* The questions of an interview: the main ones, and one block of follow-ups behind them.
Shaped(i) ==
    /\ i \in Interview
    /\ Len(i.questions) \in {Total, Total + 1} /\ i.current <= Len(i.questions)
    /\ i.followups # "done" => Len(i.questions) = Total
    /\ i.followups = "off" <=> ~FollowupsEnabled
    /\ \A q \in DOMAIN i.questions : i.questions[q].of = 0 <=> q \in Main

\* The attempts at a question are numbered without a gap, and no more than are allowed.
Numbered(rows, q) ==
    /\ \A a \in Of(rows, q) : rows[a].attempt \in 1 .. Count(rows, q)
    /\ \A k \in 1 .. Count(rows, q) : \E a \in Of(rows, q) : rows[a].attempt = k
    /\ \A a, b \in Of(rows, q) : rows[a].attempt = rows[b].attempt => a = b
    /\ Count(rows, q) <= Allowed(q) + 1

IsLast(rows, a) == rows[a].attempt = Count(rows, rows[a].q)

\* The rows, as they are and as a request has loaded them: the last attempt stands, and code without
\* a video is the only attempt.
RowOK(rows, a) ==
    /\ IsLast(rows, a) => rows[a].status # "abandoned"
    /\ rows[a].code.submitted => rows[a].code.src # 0
    /\ ~rows[a].media => /\ Of(rows, rows[a].q) = {a} /\ rows[a].q \in Code
                         /\ rows[a].status \in {"recording", "done"} /\ rows[a].code.src # 0
RowsOK(rows) ==
    /\ rows \in Seq(Answer) /\ Len(rows) <= MaxAnswers
    /\ \A q \in Asked : Numbered(rows, q)
    /\ \A a \in DOMAIN rows : RowOK(rows, a)

\* Nobody has answered a question that is not there.
Within(i, rows) == \A a \in DOMAIN rows : rows[a].q <= Len(i.questions)

Recorded(q) == \E a \in jobs : answers[a].q = q

\* What a request has loaded is still true, as far as rows only grow.
Known(r) ==
    LET i == req[r].interview
        loaded == req[r].answers
    IN /\ Shaped(i) /\ i.status = "in_progress" /\ RowsOK(loaded) /\ Within(i, loaded)
       /\ Len(i.questions) <= Len(interview.questions)
       /\ i.followups = "done" => interview.followups = "done"
       /\ \A q \in Spoken : q < i.current => Recorded(q)
       /\ Len(loaded) <= Len(answers)
       /\ \A a \in DOMAIN loaded :
            /\ answers[a].q = loaded[a].q /\ answers[a].attempt = loaded[a].attempt
            /\ loaded[a].media => answers[a].media
            /\ loaded[a].q \notin Code /\ loaded[a].status \in Ready => a \in jobs

\* What a request has loaded permits what it is about to do.
Permitted(r) ==
    LET i == req[r].interview
        loaded == req[r].answers
        a == req[r].a
    IN /\ req[r].op = "create" => CanCreate(i, loaded, i.current)
       /\ req[r].op = "complete" => a \in DOMAIN loaded /\ loaded[a].media
       /\ req[r].op = "code" => i.current \in Code /\ req[r].src \in 1 .. MaxEdits
       /\ req[r].op = "next" => Answered(loaded, i.current)

\* Only requests that were under way at the first block can make another one.
MayPlan == {r \in Requests : req[r].op = "next" /\ Asks(req[r].interview)}
PlansFit ==
    IF interview.followups = "done" THEN plans + Cardinality(MayPlan) <= Cardinality(Requests) ELSE plans = 0

\* What holds however requests overlap.
Base ==
    /\ TypeOK /\ Shaped(interview) /\ RowsOK(answers) /\ Within(interview, answers) /\ PlansFit
    /\ \A a \in DOMAIN answers : answers[a].q \notin Code /\ answers[a].status \in Ready => a \in jobs
    /\ \A a \in live : answers[a].media
    /\ \A q \in Spoken : q < Current \/ interview.status = "completed" => Recorded(q)
    /\ \A r \in Requests : Known(r) /\ Permitted(r)

\* Until two requests overlap: one has the interview and the rows before it as they are, but for
\* bytes that arrive and answers that are processed.
Aged(old, new) ==
    /\ new.q = old.q /\ new.attempt = old.attempt /\ new.final = old.final
    /\ new.media = old.media /\ new.code = old.code
    /\ new.status = old.status \/ (old.status = "uploaded" /\ new.status = "done")
Fresh(r) ==
    LET loaded == req[r].answers
    IN /\ req[r].interview = interview /\ DOMAIN loaded = DOMAIN answers
       /\ \A a \in DOMAIN answers : Aged(loaded[a], answers[a])
       /\ req[r].op = "complete" => loaded[req[r].a].status = "recording"

Alone ==
    /\ \A r, s \in Requests : req[r].op # "idle" /\ req[s].op # "idle" => r = s
    /\ \A r \in Requests : req[r].op # "idle" => Fresh(r)

\* Then the last attempt at a question is final and the only one that is open, and has the code; of
\* the completed ones one is final.
OrderlyFor(rows, q, a) ==
    /\ IF IsLast(rows, a) THEN rows[a].final ELSE rows[a].status # "recording"
    /\ q \notin Code /\ rows[a].status \in Ready =>
           \E b \in Of(rows, q) : rows[b].final /\ rows[b].status \in Ready
    /\ \A b \in Of(rows, q) :
         /\ rows[a].attempt <= rows[b].attempt =>
              /\ rows[a].code.src # 0 => rows[b].code.src # 0
              /\ rows[a].code.submitted => rows[b].code.submitted
         /\ rows[a].final /\ rows[a].status \in Ready /\ rows[b].final /\ rows[b].status \in Ready
              => a = b
OrderlyAt(rows, a) == OrderlyFor(rows, rows[a].q, a)
Orderly == \A a \in DOMAIN answers : OrderlyAt(answers, a)

\* And a passed question was answered.
PassedAnswered ==
    \A q \in DOMAIN interview.questions : Passed(q) =>
        \E a \in Of(answers, q) : IF q \in Code THEN answers[a].code.submitted ELSE answers[a].status \in Ready

Tidy == Alone /\ Orderly /\ PassedAnswered
Sequential == overlaps = 0 => Tidy

IInv == Base /\ Sequential
-----------------------------------------------------------------------------
(* Facts about numbers, sets and rows. *)

LEMMA SomeLeast ==
    ASSUME NEW S, S \subseteq Nat, S # {}
    PROVE  \E m \in S : \A n \in S : m <= n
<1> DEFINE R == OpToRel(<, Nat)
<1>1. IsWellFoundedOn(R, Nat)  BY NatLessThanWellFounded, Zenon
<1>2. \A x, y \in Nat : x < y => <<x, y>> \in R  BY DEF OpToRel
<1> HIDE DEF R
<1>3. PICK m \in S : \A n \in S : <<n, m>> \notin R  BY <1>1, WFMin
<1>4. m \in Nat /\ \A n \in S : n \in Nat /\ ~(n < m)  BY <1>2, <1>3
<1>5. \A n \in S : m <= n  BY <1>4
<1>6. QED  BY <1>5

LEMMA SomeGreatest ==
    ASSUME NEW S, NEW f, NEW k \in Nat, S # {}, \A s \in S : f[s] \in 0 .. k
    PROVE  \E m \in S : \A s \in S : f[s] <= f[m]
<1> DEFINE T == {k - f[s] : s \in S}
<1>1. T \subseteq Nat /\ T # {}  OBVIOUS
<1>2. PICK t \in T : \A u \in T : t <= u
  <2> HIDE DEF T
  <2>1. QED  BY <1>1, SomeLeast
<1>3. PICK m \in S : t = k - f[m]  OBVIOUS
<1>4. \A s \in S : k - f[m] <= k - f[s]  BY <1>2, <1>3
<1>5. QED  BY <1>4

LEMMA LatestIn ==
    ASSUME ParametersOK, NEW rows \in Seq(Answer), NEW S, S \subseteq DOMAIN rows, S # {}
    PROVE  /\ Latest(rows, S) \in S
           /\ \A b \in S : rows[b].attempt <= rows[Latest(rows, S)].attempt
<1> DEFINE f == [s \in S |-> rows[s].attempt]
<1>1. MaxAnswers \in Nat  BY DEF ParametersOK
<1>2. \A s \in S : rows[s] \in Answer  OBVIOUS
<1>3. \A s \in S : f[s] \in 0 .. MaxAnswers  BY <1>1, <1>2 DEF Answer
<1>4. \E m \in S : \A s \in S : f[s] <= f[m]
  <2> HIDE DEF f
  <2>1. QED  BY <1>1, <1>3, SomeGreatest
<1>5. QED  BY <1>4 DEF Latest

LEMMA OfFinite ==
    ASSUME NEW rows, NEW n \in Nat, DOMAIN rows = 1 .. n, NEW q
    PROVE  IsFiniteSet(Of(rows, q)) /\ Count(rows, q) \in Nat /\ (Count(rows, q) = 0 <=> Of(rows, q) = {})
<1>1. IsFiniteSet(1 .. n)  BY FS_Interval
<1>2. Of(rows, q) \in SUBSET (1 .. n)  BY DEF Of
<1>3. IsFiniteSet(Of(rows, q))  BY <1>1, <1>2, FS_Subset
<1>4. QED  BY <1>3, FS_CardinalityType, FS_EmptySet DEF Count

LEMMA SameOf ==
    ASSUME NEW rows, NEW new, DOMAIN new = DOMAIN rows, \A a \in DOMAIN rows : new[a].q = rows[a].q
    PROVE  \A q : Of(new, q) = Of(rows, q) /\ Count(new, q) = Count(rows, q)
BY DEF Of, Count

\* A new row k counts for its question.
OneMore(rows, new, k) ==
    /\ IsFiniteSet(DOMAIN rows) /\ k \notin DOMAIN rows /\ DOMAIN new = DOMAIN rows \cup {k}
    /\ \A a \in DOMAIN rows : new[a].q = rows[a].q
CountsFor(rows, new, k, p) ==
    /\ Of(new, p) = Of(rows, p) \cup {k} /\ Count(new, p) = Count(rows, p) + 1
    /\ \A q : q # p => Of(new, q) = Of(rows, q) /\ Count(new, q) = Count(rows, q)

LEMMA NewOf ==
    ASSUME NEW rows, NEW new, NEW k, OneMore(rows, new, k), NEW p, new[k].q = p
    PROVE  CountsFor(rows, new, k, p)
<1>1. Of(new, p) = Of(rows, p) \cup {k}  BY DEF Of, OneMore
<1>2. k \notin Of(rows, p)  BY DEF Of, OneMore
<1>3. Of(rows, p) \in SUBSET DOMAIN rows  BY DEF Of
<1>4. IsFiniteSet(Of(rows, p))  BY <1>3, FS_Subset DEF OneMore
<1>5. Count(new, p) = Count(rows, p) + 1  BY <1>1, <1>2, <1>4, FS_AddElement DEF Count
<1>6. \A q : q # p => Of(new, q) = Of(rows, q)  BY DEF Of, OneMore
<1>7. QED  BY <1>1, <1>5, <1>6 DEF Count, CountsFor

\* Rows that were loaded earlier are fewer.
LEMMA FewerOf ==
    ASSUME NEW loaded, NEW rows, NEW m \in Nat, NEW n \in Nat, m <= n, DOMAIN loaded = 1 .. m,
           DOMAIN rows = 1 .. n, \A a \in 1 .. m : rows[a].q = loaded[a].q
    PROVE  \A q : Of(loaded, q) \subseteq Of(rows, q) /\ Count(loaded, q) <= Count(rows, q)
<1> TAKE q
<1>1. Of(loaded, q) \subseteq Of(rows, q)  BY DEF Of
<1>2. QED  BY <1>1, OfFinite, FS_Subset DEF Count
-----------------------------------------------------------------------------
(* Rows that are written stay in order. *)

\* A row that is written keeps its question and its number, and what it has.
Kept(old, new) ==
    /\ new.q = old.q /\ new.attempt = old.attempt
    /\ old.media => new.media
    /\ new.code = old.code \/ new.code.src # 0
    /\ ~new.media => new.status \in {"recording", "done"}

LEMMA ModifiedRows ==
    ASSUME NEW rows, RowsOK(rows), NEW new \in Seq(Answer), Len(new) = Len(rows),
           \A a \in DOMAIN rows :
               Kept(rows[a], new[a]) /\ (new[a].status = "abandoned" => rows[a].status = "abandoned")
    PROVE  RowsOK(new)
<1>1. rows \in Seq(Answer) /\ DOMAIN new = DOMAIN rows /\ Len(new) <= MaxAnswers  BY DEF RowsOK
<1>2. \A q : Of(new, q) = Of(rows, q) /\ Count(new, q) = Count(rows, q)  BY <1>1, SameOf DEF Kept
<1>3. ASSUME NEW q \in Asked  PROVE Numbered(new, q)
  <2>1. Numbered(rows, q)  BY <1>3 DEF RowsOK
  <2>2. \A a \in Of(rows, q) : new[a].attempt = rows[a].attempt  BY DEF Of, Kept
  <2>3. QED  BY <1>2, <2>1, <2>2 DEF Numbered
<1>4. ASSUME NEW a \in DOMAIN rows  PROVE RowOK(new, a)
  <2>1. RowOK(rows, a) /\ Kept(rows[a], new[a])  BY DEF RowsOK
  <2>2. IsLast(new, a) <=> IsLast(rows, a)  BY <1>2, <2>1 DEF IsLast, Kept
  <2>3. QED  BY <1>2, <2>1, <2>2 DEF RowOK, Kept
<1>5. QED  BY <1>1, <1>3, <1>4 DEF RowsOK

LEMMA AppendedRows ==
    ASSUME NEW rows, RowsOK(rows), NEW new \in Seq(Answer), NEW n \in Nat, n = Len(rows),
           Len(new) = n + 1, n < MaxAnswers, MaxAnswers \in Nat, RetakesAllowed \in Nat,
           \A a \in 1 .. n : Kept(rows[a], new[a]),
           \A a \in 1 .. n : new[a].status = "abandoned" =>
               rows[a].status = "abandoned" \/ rows[a].q = new[n + 1].q,
           new[n + 1].attempt = Count(rows, new[n + 1].q) + 1,
           Count(rows, new[n + 1].q) <= Allowed(new[n + 1].q),
           new[n + 1].status # "abandoned",
           new[n + 1].code.submitted => new[n + 1].code.src # 0,
           IF new[n + 1].media THEN \A b \in Of(rows, new[n + 1].q) : rows[b].media
           ELSE /\ Of(rows, new[n + 1].q) = {} /\ new[n + 1].q \in Code
                /\ new[n + 1].status \in {"recording", "done"} /\ new[n + 1].code.src # 0
    PROVE  RowsOK(new)
<1> DEFINE p == new[n + 1].q
<1>1. /\ rows \in Seq(Answer) /\ DOMAIN rows = 1 .. n /\ DOMAIN new = 1 .. n + 1 /\ Len(new) <= MaxAnswers
      /\ n + 1 \in 1 .. n + 1
  BY DEF RowsOK
<1>2. /\ Of(new, p) = Of(rows, p) \cup {n + 1} /\ Count(new, p) = Count(rows, p) + 1
      /\ \A q : q # p => Of(new, q) = Of(rows, q) /\ Count(new, q) = Count(rows, q)
  <2>1. \A a \in DOMAIN rows : new[a].q = rows[a].q  BY <1>1 DEF Kept
  <2>2. IsFiniteSet(DOMAIN rows)  BY <1>1, FS_Interval
  <2>3. n + 1 \notin DOMAIN rows /\ DOMAIN new = DOMAIN rows \cup {n + 1}  BY <1>1
  <2>4. OneMore(rows, new, n + 1)  BY <2>1, <2>2, <2>3 DEF OneMore
  <2>5. CountsFor(rows, new, n + 1, p)  BY <2>4, NewOf
  <2>6. QED  BY <2>5 DEF CountsFor
<1>3. Count(rows, p) \in Nat  BY <1>1, OfFinite
<1>4. ASSUME NEW q \in Asked  PROVE Numbered(new, q)
  <2>1. Numbered(rows, q)  BY <1>4 DEF RowsOK
  <2>2. \A a \in Of(rows, q) : new[a].attempt = rows[a].attempt  BY <1>1 DEF Of, Kept
  <2>3. CASE q # p
    <3>1. Of(new, q) = Of(rows, q) /\ Count(new, q) = Count(rows, q)  BY <1>2, <2>3
    <3>2. QED  BY <2>1, <2>2, <3>1 DEF Numbered
  <2>4. CASE q = p
    <3>1. \A a \in Of(rows, p) : new[a].attempt \in 1 .. Count(rows, p)  BY <2>1, <2>2, <2>4 DEF Numbered
    <3>2. \A a \in Of(new, p) : new[a].attempt \in 1 .. Count(new, p)  BY <1>2, <1>3, <3>1
    <3>3. ASSUME NEW k \in 1 .. Count(new, p)  PROVE \E a \in Of(new, p) : new[a].attempt = k
      <4>1. CASE k = Count(rows, p) + 1  BY <1>2, <4>1
      <4>2. CASE k # Count(rows, p) + 1
        <5>1. k \in 1 .. Count(rows, p)  BY <1>2, <1>3, <4>2
        <5>2. QED  BY <1>2, <2>1, <2>2, <2>4, <5>1 DEF Numbered
      <4>3. QED  BY <4>1, <4>2
    <3>4. \A a, b \in Of(new, p) : new[a].attempt = new[b].attempt => a = b
      <4>1. \A a, b \in Of(rows, p) : new[a].attempt = new[b].attempt => a = b  BY <2>1, <2>2, <2>4 DEF Numbered
      <4>2. \A a \in Of(rows, p) : new[a].attempt # new[n + 1].attempt  BY <1>3, <3>1
      <4>3. QED  BY <1>2, <4>1, <4>2
    <3>5. Count(new, p) <= Allowed(p) + 1
      <4>1. Allowed(p) \in Nat  BY DEF Allowed
      <4>2. QED  BY <1>2, <1>3, <4>1
    <3>6. QED  BY <2>4, <3>2, <3>3, <3>4, <3>5 DEF Numbered
  <2>5. QED  BY <2>3, <2>4
<1>5. ASSUME NEW a \in 1 .. n  PROVE RowOK(new, a)
  <2>1. RowOK(rows, a) /\ Kept(rows[a], new[a])  BY <1>1 DEF RowsOK
  <2>2. CASE rows[a].q # p
    <3>1. IsLast(new, a) <=> IsLast(rows, a)  BY <1>2, <2>1, <2>2 DEF IsLast, Kept
    <3>2. QED  BY <1>2, <2>1, <2>2, <3>1 DEF RowOK, Kept
  <2>3. CASE rows[a].q = p
    <3>1. a \in Of(rows, p)  BY <1>1, <2>3 DEF Of
    <3>2. rows[a].attempt \in 1 .. Count(rows, p)
      <4>1. rows[a] \in Answer  BY <1>1
      <4>2. Numbered(rows, p)  BY <2>3, <4>1 DEF RowsOK, Answer, Asked
      <4>3. QED  BY <3>1, <4>2 DEF Numbered
    <3>3. ~IsLast(new, a)  BY <1>2, <1>3, <2>1, <2>3, <3>2 DEF IsLast, Kept
    <3>4. new[a].media  BY <2>1, <3>1 DEF Kept
    <3>5. QED  BY <2>1, <3>3, <3>4 DEF RowOK, Kept
  <2>4. QED  BY <2>2, <2>3
<1>6. RowOK(new, n + 1)  BY <1>2 DEF RowOK
<1>7. ASSUME NEW a \in DOMAIN new  PROVE RowOK(new, a)
  <2>1. a \in 1 .. n \/ a = n + 1  BY <1>1
  <2>2. QED  BY <1>5, <1>6, <2>1
<1>8. QED  BY <1>1, <1>4, <1>7 DEF RowsOK
-----------------------------------------------------------------------------
(* What every step leaves true of a request that does not take it. *)

\* The interview and its rows only grow.
Grows ==
    /\ Len(answers) <= Len(answers') /\ jobs \subseteq jobs'
    /\ \A a \in DOMAIN answers :
         /\ answers'[a].q = answers[a].q /\ answers'[a].attempt = answers[a].attempt
         /\ answers[a].media => answers'[a].media
    /\ Len(interview.questions) <= Len(interview'.questions)
    /\ interview.followups = "done" => interview'.followups = "done"

RowTypes == answers \in Seq(Answer) /\ answers' \in Seq(Answer)
LenTypes == Len(interview.questions) \in Nat /\ Len(interview'.questions) \in Nat

LEMMA RecordedStays ==
    ASSUME Grows, RowTypes, jobs \subseteq DOMAIN answers, NEW q, Recorded(q)
    PROVE  Recorded(q)'
BY DEF Grows, RowTypes, Recorded

LEMMA KnownStays ==
    ASSUME Grows, RowTypes, LenTypes, jobs \subseteq DOMAIN answers, NEW r, req'[r] = req[r], Known(r)
    PROVE  Known(r)'
<1> DEFINE i == req[r].interview
           loaded == req[r].answers
<1>1. /\ Shaped(i) /\ i.status = "in_progress" /\ RowsOK(loaded) /\ Within(i, loaded)
      /\ Len(i.questions) <= Len(interview.questions)
      /\ i.followups = "done" => interview.followups = "done"
      /\ \A q \in Spoken : q < i.current => Recorded(q)
      /\ Len(loaded) <= Len(answers)
      /\ \A a \in DOMAIN loaded :
           /\ answers[a].q = loaded[a].q /\ answers[a].attempt = loaded[a].attempt
           /\ loaded[a].media => answers[a].media
           /\ loaded[a].q \notin Code /\ loaded[a].status \in Ready => a \in jobs
  BY DEF Known
<1>2. Len(i.questions) \in Nat /\ loaded \in Seq(Answer)
  BY <1>1 DEF Shaped, RowsOK, Interview
<1>3. Len(i.questions) <= Len(interview'.questions)
  <2>1. Len(i.questions) <= Len(interview.questions) /\ Len(i.questions) \in Nat  BY <1>1, <1>2
  <2>2. Len(interview.questions) <= Len(interview'.questions)  BY DEF Grows
  <2> HIDE DEF i
  <2>3. QED  BY <2>1, <2>2 DEF LenTypes
<1>4. i.followups = "done" => interview'.followups = "done"  BY <1>1 DEF Grows
<1>5. \A q \in Spoken : q < i.current => Recorded(q)'  BY <1>1, RecordedStays
<1>6. Len(loaded) <= Len(answers')  BY <1>1, <1>2 DEF Grows, RowTypes
<1>7. ASSUME NEW a \in DOMAIN loaded
      PROVE  /\ answers'[a].q = loaded[a].q /\ answers'[a].attempt = loaded[a].attempt
             /\ loaded[a].media => answers'[a].media
             /\ loaded[a].q \notin Code /\ loaded[a].status \in Ready => a \in jobs'
  <2>1. a \in DOMAIN answers  BY <1>1, <1>2 DEF RowTypes
  <2>2. QED  BY <1>1, <2>1 DEF Grows
<1>8. req'[r].interview = i /\ req'[r].answers = loaded  OBVIOUS
<1> HIDE DEF i, loaded
<1>9. QED  BY <1>1, <1>3, <1>4, <1>5, <1>6, <1>7, <1>8 DEF Known

LEMMA IdleFacts ==
    ASSUME ParametersOK
    PROVE  /\ Shaped(Begun) /\ RowsOK(<<>>) /\ Idle \in Request
           /\ Begun.status = "in_progress" /\ Begun.current = 1 /\ Begun.followups # "done"
           /\ Len(Begun.questions) = Total
<1>1. Total \in Nat /\ Total >= 1 /\ Code \subseteq 1 .. Total  BY DEF ParametersOK
<1>2. Begun.questions \in Seq(Question) /\ Len(Begun.questions) = Total
  <2>1. Begun.questions = [q \in 1 .. Total |-> [of |-> 0, plan |-> 0]]  BY DEF Begun
  <2>2. [of |-> 0, plan |-> 0] \in Question  BY <1>1, FS_CardinalityType DEF Question, ParametersOK
  <2>3. QED  BY <1>1, <2>1, <2>2
<1>3. Begun \in Interview  BY <1>1, <1>2 DEF Begun, Interview
<1>4. Shaped(Begun)
  <2>1. \A q \in DOMAIN Begun.questions : Begun.questions[q].of = 0 /\ q \in Main  BY DEF Begun, Main
  <2>2. Begun.current = 1 /\ Begun.followups = IF FollowupsEnabled THEN "open" ELSE "off"  BY DEF Begun
  <2>3. QED  BY <1>1, <1>2, <1>3, <2>1, <2>2 DEF Shaped, ParametersOK
<1>5. RowsOK(<<>>)
  <2>1. \A q : Of(<<>>, q) = {} /\ Count(<<>>, q) = 0  BY FS_EmptySet DEF Of, Count
  <2>2. \A q \in Asked : Numbered(<<>>, q)
    <3>1. \A q : Allowed(q) \in Nat  BY DEF Allowed, ParametersOK
    <3>2. QED  BY <2>1, <3>1 DEF Numbered
  <2>3. QED  BY <2>2 DEF RowsOK, ParametersOK
<1>6. Idle \in Request  BY <1>3 DEF Idle, Request, ParametersOK
<1>7. Begun.status = "in_progress" /\ Begun.current = 1 /\ Begun.followups # "done"  BY DEF Begun
<1>8. QED  BY <1>2, <1>4, <1>5, <1>6, <1>7

LEMMA NothingLoaded ==
    ASSUME ParametersOK
    PROVE  /\ Idle.interview = Begun /\ Idle.answers = <<>> /\ Idle.op = "idle"
           /\ Within(Begun, <<>>) /\ \A q \in Spoken : ~(q < 1)
BY DEF Idle, Within, Spoken, Main, ParametersOK

LEMMA IdleKnown ==
    ASSUME ParametersOK, NEW r, req'[r] = Idle, Len(interview.questions)' \in {Total, Total + 1},
           Len(answers') \in Nat
    PROVE  Known(r)' /\ Permitted(r)'
<1>1. /\ Shaped(Begun) /\ RowsOK(<<>>) /\ Begun.status = "in_progress" /\ Begun.current = 1
      /\ Begun.followups # "done" /\ Len(Begun.questions) = Total /\ Total \in Nat
  BY IdleFacts DEF ParametersOK
<1>2. /\ req'[r].interview = Begun /\ req'[r].answers = <<>> /\ req'[r].op = "idle"
      /\ Within(Begun, <<>>) /\ \A q \in Spoken : ~(q < 1)
  BY NothingLoaded
<1>3. Known(r)'  BY <1>1, <1>2 DEF Known
<1>4. QED  BY <1>2, <1>3 DEF Permitted
-----------------------------------------------------------------------------
(* Steps that write answers, and steps that only load. *)

\* What is left of Base once the requests are taken care of.
Settled ==
    /\ \A a \in DOMAIN answers : answers[a].q \notin Code /\ answers[a].status \in Ready => a \in jobs
    /\ \A a \in live : answers[a].media
    /\ \A q \in Spoken : q < Current \/ interview.status = "completed" => Recorded(q)

LEMMA Parts == Base <=> /\ TypeOK /\ Shaped(interview) /\ RowsOK(answers) /\ Within(interview, answers) /\ PlansFit
                        /\ Settled /\ \A r \in Requests : Known(r) /\ Permitted(r)
BY DEF Base, Settled

LEMMA PartsNext == Base' <=> /\ TypeOK' /\ Shaped(interview)' /\ RowsOK(answers)' /\ Within(interview, answers)' /\ PlansFit'
                             /\ Settled' /\ \A r \in Requests : Known(r)' /\ Permitted(r)'
BY DEF Base, Settled

\* Fewer requests may plan.
LEMMA FewerPlan ==
    ASSUME ParametersOK, PlansFit, plans' = plans, interview'.followups = interview.followups,
           interview.followups = "done" => MayPlan' \subseteq MayPlan, plans \in Nat
    PROVE  PlansFit'
<1>1. MayPlan \in SUBSET Requests  BY DEF MayPlan
<1>2. IsFiniteSet(MayPlan)  BY <1>1, FS_Subset DEF ParametersOK
<1>3. CASE interview.followups = "done"
  <2>1. Cardinality(MayPlan') <= Cardinality(MayPlan)  BY <1>2, <1>3, FS_Subset
  <2>2. IsFiniteSet(MayPlan')  BY <1>2, <1>3, FS_Subset
  <2>3. /\ Cardinality(MayPlan') \in Nat /\ Cardinality(MayPlan) \in Nat
        /\ Cardinality(Requests) \in Nat
    BY <1>2, <2>2, FS_CardinalityType DEF ParametersOK
  <2>4. QED  BY <1>3, <2>1, <2>3 DEF PlansFit
<1>4. CASE interview.followups # "done"  BY <1>4 DEF PlansFit
<1>5. QED  BY <1>3, <1>4

\* Rows are written by a request that ends, by a chunk or by the pipeline.
LEMMA RowsWritten ==
    ASSUME ParametersOK, Base, UNCHANGED <<interview, plans>>,
           RowsOK(answers'), Len(answers) <= Len(answers'),
           \A a \in DOMAIN answers : Kept(answers[a], answers'[a]),
           jobs \subseteq jobs', jobs' \cup live' \subseteq DOMAIN answers',
           edits' \in 0 .. MaxEdits, overlaps' \in 0 .. MaxOverlaps,
           req' = req \/ \E r \in Requests : Ends(r),
           \A a \in DOMAIN answers' :
               answers'[a].q \notin Code /\ answers'[a].status \in Ready => a \in jobs',
           \A a \in live' : answers'[a].media,
           \A a \in DOMAIN answers' : answers'[a].q <= Len(interview.questions)
    PROVE  Base'
<1>1. /\ TypeOK /\ Shaped(interview) /\ RowsOK(answers) /\ Within(interview, answers) /\ PlansFit
      /\ Settled /\ \A r \in Requests : Known(r) /\ Permitted(r)
  BY Parts
<1>2. /\ interview \in Interview /\ answers \in Seq(Answer) /\ req \in [Requests -> Request]
      /\ jobs \subseteq DOMAIN answers /\ plans \in Nat
  BY <1>1 DEF TypeOK
<1>3. answers' \in Seq(Answer) /\ Len(answers') <= MaxAnswers  BY DEF RowsOK
<1>4. /\ Len(interview.questions) \in Nat /\ Len(interview.questions) \in {Total, Total + 1}
  BY <1>1, <1>2 DEF Shaped, Interview
<1>5. TypeOK'
  <2>1. req' \in [Requests -> Request]  BY <1>2, IdleFacts DEF Ends
  <2>2. QED  BY <1>2, <1>3, <2>1 DEF TypeOK
<1>0. \A s \in Requests : req'[s] = req[s] \/ req'[s] = Idle  BY <1>2 DEF Ends
<1>6. Grows /\ RowTypes /\ LenTypes
  BY <1>2, <1>3, <1>4 DEF Grows, RowTypes, LenTypes, Kept
<1>7. ASSUME NEW s \in Requests  PROVE Known(s)' /\ Permitted(s)'
  <2>1. CASE req'[s] = req[s]
    <3>1. Known(s)'  BY <1>1, <1>2, <1>6, <2>1, KnownStays
    <3>2. Permitted(s)'  BY <1>1, <2>1 DEF Permitted
    <3>3. QED  BY <3>1, <3>2
  <2>2. CASE req'[s] = Idle  BY <1>3, <1>4, <2>2, IdleKnown
  <2>3. QED  BY <1>0, <2>1, <2>2
<1>8. PlansFit'
  <2>1. MayPlan' \subseteq MayPlan  BY <1>0, NothingLoaded DEF MayPlan
  <2>2. QED  BY <1>1, <1>2, <2>1, FewerPlan
<1>9. Settled'
  <2>1. \A q : Recorded(q) => Recorded(q)'  BY <1>2, <1>6, RecordedStays
  <2>2. QED  BY <1>1, <2>1 DEF Settled, Current
<1>10. Within(interview, answers)'  BY DEF Within
<1>11. Shaped(interview)' /\ RowsOK(answers)'  BY <1>1
<1>12. QED  BY <1>5, <1>7, <1>8, <1>9, <1>10, <1>11, PartsNext

\* A request begins.
LEMMA Loads ==
    ASSUME ParametersOK, Base, interview.status = "in_progress",
           UNCHANGED <<interview, answers, jobs, live, plans>>, edits' \in 0 .. MaxEdits,
           NEW r \in Requests, NEW x \in Request, Begin(r, x), x.interview = interview, x.answers = answers,
           Permitted(r)'
    PROVE  Base'
<1>1. /\ TypeOK /\ Shaped(interview) /\ RowsOK(answers) /\ Within(interview, answers) /\ PlansFit
      /\ Settled /\ \A s \in Requests : Known(s) /\ Permitted(s)
  BY Parts
<1>2. /\ interview \in Interview /\ answers \in Seq(Answer) /\ req \in [Requests -> Request]
      /\ jobs \subseteq DOMAIN answers /\ plans \in Nat /\ overlaps \in 0 .. MaxOverlaps
  BY <1>1 DEF TypeOK
<1>3. req' = [req EXCEPT ![r] = x] /\ overlaps' \in 0 .. MaxOverlaps
  BY <1>2 DEF Begin, ParametersOK
<1>4. TypeOK'  BY <1>1, <1>2, <1>3 DEF TypeOK
<1>5. Len(interview.questions) \in Nat  BY <1>2 DEF Interview
<1>6. Grows /\ RowTypes /\ LenTypes  BY <1>2, <1>5 DEF Grows, RowTypes, LenTypes
<1>7. ASSUME NEW s \in Requests  PROVE Known(s)' /\ Permitted(s)'
  <2>1. CASE s # r
    <3>1. req'[s] = req[s]  BY <1>2, <1>3, <2>1
    <3>2. Known(s)'  BY <1>1, <1>2, <1>6, <3>1, KnownStays
    <3>3. Permitted(s)'  BY <1>1, <3>1 DEF Permitted
    <3>4. QED  BY <3>2, <3>3
  <2>2. CASE s = r
    <3>1. req'[r].interview = interview /\ req'[r].answers = answers  BY <1>2, <1>3
    <3>2. \A q \in Spoken : q < interview.current => Recorded(q)'
      BY <1>1 DEF Settled, Current, Recorded
    <3>3. Known(r)'  BY <1>1, <1>2, <1>5, <3>1, <3>2 DEF Known, Settled
    <3>4. QED  BY <2>2, <3>3
  <2>3. QED  BY <2>1, <2>2
<1>8. PlansFit'
  <2>1. interview.followups = "done" => MayPlan' \subseteq MayPlan
    <3>1. ASSUME interview.followups = "done", NEW s \in MayPlan'  PROVE s \in MayPlan
      <4>1. s \in Requests /\ Asks(req'[s].interview)  BY <3>1 DEF MayPlan
      <4>2. s # r  BY <1>2, <1>3, <3>1, <4>1 DEF Asks
      <4>3. req'[s] = req[s]  BY <1>2, <1>3, <4>1, <4>2
      <4>4. QED  BY <3>1, <4>3 DEF MayPlan
    <3>2. QED  BY <3>1
  <2>2. QED  BY <1>1, <1>2, <2>1, FewerPlan
<1>9. Settled' /\ Within(interview, answers)'
  BY <1>1 DEF Settled, Within, Recorded, Current
<1>10. Shaped(interview)' /\ RowsOK(answers)'  BY <1>1
<1>11. QED  BY <1>4, <1>7, <1>8, <1>9, <1>10, PartsNext

LEMMA BaseBeginCreate == ASSUME ParametersOK, Base, NEW r \in Requests, BeginCreate(r)  PROVE Base'
<1> DEFINE x == Loaded("create")
<1>1. /\ interview \in Interview /\ answers \in Seq(Answer) /\ edits \in 0 .. MaxEdits
      /\ req \in [Requests -> Request]
  BY DEF Base, TypeOK
<1>2. x \in Request /\ x.op = "create" /\ x.interview = interview /\ x.answers = answers
  BY <1>1, IdleFacts DEF Loaded, Idle, Request, ParametersOK
<1>3. /\ Begin(r, x) /\ UNCHANGED <<interview, answers, jobs, live, edits, plans>>
      /\ interview.status = "in_progress" /\ CanCreate(interview, answers, interview.current)
  BY DEF BeginCreate, Current
<1> HIDE DEF x
<1>4. Permitted(r)'
  <2>1. req'[r] = x  BY <1>1, <1>3 DEF Begin
  <2>2. QED  BY <1>2, <1>3, <2>1 DEF Permitted
<1>5. QED  BY <1>1, <1>2, <1>3, <1>4, Loads

LEMMA BaseBeginNext == ASSUME ParametersOK, Base, NEW r \in Requests, BeginNext(r)  PROVE Base'
<1> DEFINE x == Loaded("next")
<1>1. /\ interview \in Interview /\ answers \in Seq(Answer) /\ edits \in 0 .. MaxEdits
      /\ req \in [Requests -> Request]
  BY DEF Base, TypeOK
<1>2. x \in Request /\ x.op = "next" /\ x.interview = interview /\ x.answers = answers
  BY <1>1, IdleFacts DEF Loaded, Idle, Request, ParametersOK
<1>3. /\ Begin(r, x) /\ UNCHANGED <<interview, answers, jobs, live, edits, plans>>
      /\ interview.status = "in_progress" /\ Answered(answers, interview.current)
  BY DEF BeginNext, Current
<1> HIDE DEF x
<1>4. Permitted(r)'
  <2>1. req'[r] = x  BY <1>1, <1>3 DEF Begin
  <2>2. QED  BY <1>2, <1>3, <2>1 DEF Permitted
<1>5. QED  BY <1>1, <1>2, <1>3, <1>4, Loads

LEMMA BaseBeginComplete ==
    ASSUME ParametersOK, Base, NEW r \in Requests, NEW a \in live, BeginComplete(r, a)  PROVE Base'
<1> DEFINE x == [Loaded("complete") EXCEPT !.a = a]
<1>1. /\ interview \in Interview /\ answers \in Seq(Answer) /\ edits \in 0 .. MaxEdits
      /\ Len(answers) <= MaxAnswers /\ live \subseteq DOMAIN answers
      /\ req \in [Requests -> Request]
  BY DEF Base, TypeOK
<1>2. a \in 0 .. MaxAnswers  BY <1>1 DEF ParametersOK
<1>3. x \in Request /\ x.op = "complete" /\ x.a = a /\ x.interview = interview /\ x.answers = answers
  BY <1>1, <1>2, IdleFacts DEF Loaded, Idle, Request, ParametersOK
<1>4. /\ Begin(r, x) /\ UNCHANGED <<interview, answers, jobs, live, edits, plans>>
      /\ interview.status = "in_progress"
  BY DEF BeginComplete
<1> HIDE DEF x
<1>5. Permitted(r)'
  <2>1. req'[r] = x  BY <1>1, <1>4 DEF Begin
  <2>2. a \in DOMAIN answers /\ answers[a].media  BY <1>1 DEF Base
  <2>3. QED  BY <1>3, <2>1, <2>2 DEF Permitted
<1>6. QED  BY <1>1, <1>3, <1>4, <1>5, Loads

LEMMA BaseBeginCode ==
    ASSUME ParametersOK, Base, NEW r \in Requests, NEW src \in 1 .. MaxEdits, NEW submit \in BOOLEAN,
           BeginCode(r, src, submit)
    PROVE  Base'
<1> DEFINE x == [Loaded("code") EXCEPT !.src = src, !.submit = submit]
<1>1. /\ interview \in Interview /\ answers \in Seq(Answer)
      /\ req \in [Requests -> Request]
  BY DEF Base, TypeOK
<1>2. src \in 0 .. MaxEdits  BY DEF ParametersOK
<1>3. x \in Request /\ x.op = "code" /\ x.src = src /\ x.interview = interview /\ x.answers = answers
  BY <1>1, <1>2, IdleFacts DEF Loaded, Idle, Request, ParametersOK
<1>4. /\ Begin(r, x) /\ UNCHANGED <<interview, answers, jobs, live, plans>> /\ edits' = src
      /\ interview.status = "in_progress" /\ interview.current \in Code
  BY DEF BeginCode, Current
<1> HIDE DEF x
<1>5. Permitted(r)'
  <2>1. req'[r] = x  BY <1>1, <1>4 DEF Begin
  <2>2. QED  BY <1>3, <1>4, <2>1 DEF Permitted
<1>6. QED  BY <1>1, <1>2, <1>3, <1>4, <1>5, Loads
-----------------------------------------------------------------------------
(* The next question. *)

LEMMA Advances ==
    ASSUME ParametersOK, Base, NEW r \in Requests, Ends(r),
           UNCHANGED <<answers, jobs, live, edits, overlaps>>,
           Shaped(interview'), Len(interview.questions) <= Len(interview'.questions),
           interview.followups = "done" => interview'.followups = "done",
           plans' \in Nat, PlansFit',
           \A q \in Spoken : q < interview'.current \/ interview'.status = "completed" => Recorded(q)
    PROVE  Base'
<1>1. /\ TypeOK /\ Shaped(interview) /\ RowsOK(answers) /\ Within(interview, answers)
      /\ Settled /\ \A s \in Requests : Known(s) /\ Permitted(s)
  BY Parts
<1>2. /\ interview \in Interview /\ answers \in Seq(Answer) /\ req \in [Requests -> Request]
      /\ jobs \subseteq DOMAIN answers /\ interview' \in Interview
  BY <1>1 DEF TypeOK, Shaped
<1>3. req' = [req EXCEPT ![r] = Idle]  BY DEF Ends
<1>4. TypeOK'
  <2>1. req' \in [Requests -> Request]  BY <1>2, <1>3, IdleFacts
  <2>2. QED  BY <1>1, <1>2, <2>1 DEF TypeOK
<1>5. Len(interview.questions) \in Nat /\ Len(interview'.questions) \in {Total, Total + 1} /\ Total \in Nat
  BY <1>2 DEF Interview, Shaped, ParametersOK
<1>6. Grows /\ RowTypes /\ LenTypes  BY <1>2, <1>5 DEF Grows, RowTypes, LenTypes
<1>7. ASSUME NEW s \in Requests  PROVE Known(s)' /\ Permitted(s)'
  <2>1. CASE s # r
    <3>1. req'[s] = req[s]  BY <1>2, <1>3, <2>1
    <3>2. Known(s)'  BY <1>1, <1>2, <1>6, <3>1, KnownStays
    <3>3. Permitted(s)'  BY <1>1, <3>1 DEF Permitted
    <3>4. QED  BY <3>2, <3>3
  <2>2. CASE s = r
    <3>1. req'[s] = Idle /\ Len(answers') \in Nat  BY <1>2, <1>3, <2>2
    <3>2. QED  BY <1>5, <3>1, IdleKnown
  <2>3. QED  BY <2>1, <2>2
<1>8. Settled'  BY <1>1 DEF Settled, Recorded, Current
<1>9. Within(interview, answers)'
  <2>1. \A a \in DOMAIN answers : answers[a].q \in Nat
    <3>1. \A a \in DOMAIN answers : answers[a] \in Answer  BY <1>2
    <3>2. QED  BY <1>5, <3>1 DEF Answer
  <2>2. QED  BY <1>1, <1>5, <2>1 DEF Within
<1>10. Shaped(interview)' /\ RowsOK(answers)'  BY <1>1
<1>11. QED  BY <1>4, <1>7, <1>8, <1>9, <1>10, PartsNext

\* What a request to go on has loaded: every question up to the current one was recorded.
LEMMA LoadedIsRecorded ==
    ASSUME ParametersOK, NEW r, Known(r), Permitted(r), req[r].op = "next"
    PROVE  \A q \in Spoken : q <= req[r].interview.current => Recorded(q)
<1> DEFINE i == req[r].interview
           loaded == req[r].answers
<1>1. /\ loaded \in Seq(Answer) /\ i \in Interview /\ Total \in Nat /\ Answered(loaded, i.current)
      /\ \A q \in Spoken : q < i.current => Recorded(q)
      /\ Len(loaded) <= Len(answers)
      /\ \A a \in DOMAIN loaded :
           /\ answers[a].q = loaded[a].q
           /\ loaded[a].q \notin Code /\ loaded[a].status \in Ready => a \in jobs
  BY DEF Known, Permitted, RowsOK, Shaped, ParametersOK
<1>2. \A a \in DOMAIN loaded : loaded[a] \in Answer  BY <1>1
<1> HIDE DEF i, loaded
<1>3. i.current \in Nat /\ Spoken \subseteq Nat  BY <1>1 DEF Interview, Spoken, Main
<1>4. ASSUME i.current \in Spoken  PROVE Recorded(i.current)
  <2>1. PICK a \in DOMAIN loaded : loaded[a].q = i.current /\ loaded[a].status \notin {"abandoned", "recording"}
    BY <1>1, <1>4 DEF Answered, Of, Spoken
  <2>2. loaded[a].status \in Ready  BY <1>2, <2>1 DEF Answer
  <2>3. a \in jobs /\ answers[a].q = i.current  BY <1>1, <1>4, <2>1, <2>2 DEF Spoken
  <2>4. QED  BY <2>3 DEF Recorded
<1>5. ASSUME NEW q \in Spoken, q <= i.current  PROVE Recorded(q)
  <2>1. q < i.current \/ q = i.current  BY <1>3, <1>5
  <2>2. QED  BY <1>1, <1>4, <1>5, <2>1
<1>6. QED  BY <1>5 DEF i

\* The blocks made, and those that may still be made.
LEMMA BlocksLeft ==
    ASSUME ParametersOK, Base, NEW r \in Requests, Ends(r)
    PROVE  /\ MayPlan \subseteq Requests /\ MayPlan' \subseteq MayPlan \ {r}
           /\ Cardinality(Requests) \in Nat /\ Cardinality(MayPlan) \in Nat /\ Cardinality(MayPlan') \in Nat
           /\ plans + Cardinality(MayPlan) <= Cardinality(Requests)
           /\ Cardinality(MayPlan') <= Cardinality(MayPlan)
           /\ r \in MayPlan => Cardinality(MayPlan') + 1 <= Cardinality(MayPlan)
<1>1. PlansFit /\ req \in [Requests -> Request] /\ plans \in Nat  BY DEF Base, TypeOK
<1>2. MayPlan \subseteq Requests /\ MayPlan' \subseteq MayPlan \ {r}
  <2>1. req' = [req EXCEPT ![r] = Idle] /\ Idle.op = "idle"  BY NothingLoaded DEF Ends
  <2>2. QED  BY <1>1, <2>1 DEF MayPlan
<1>3. IsFiniteSet(Requests) /\ IsFiniteSet(MayPlan) /\ IsFiniteSet(MayPlan \ {r}) /\ IsFiniteSet(MayPlan')
  <2>1. IsFiniteSet(MayPlan)  BY <1>2, FS_Subset DEF ParametersOK
  <2>2. IsFiniteSet(MayPlan \ {r})  BY <2>1, FS_Subset
  <2>3. QED  BY <1>2, <2>1, <2>2, FS_Subset DEF ParametersOK
<1>4. Cardinality(Requests) \in Nat /\ Cardinality(MayPlan) \in Nat /\ Cardinality(MayPlan') \in Nat
  BY <1>3, FS_CardinalityType
<1>5. Cardinality(MayPlan) <= Cardinality(Requests)  BY <1>2, <1>3, FS_Subset
<1>6. Cardinality(MayPlan') <= Cardinality(MayPlan)
  <2>1. MayPlan' \in SUBSET MayPlan  BY <1>2
  <2>2. QED  BY <1>3, <2>1, FS_Subset
<1>7. ASSUME r \in MayPlan  PROVE Cardinality(MayPlan') + 1 <= Cardinality(MayPlan)
  <2>1. Cardinality(MayPlan \ {r}) = Cardinality(MayPlan) - 1  BY <1>3, <1>7, FS_RemoveElement
  <2>2. Cardinality(MayPlan') <= Cardinality(MayPlan \ {r})  BY <1>2, <1>3, FS_Subset
  <2>3. QED  BY <1>4, <2>1, <2>2
<1>8. plans + Cardinality(MayPlan) <= Cardinality(Requests)  BY <1>1, <1>4, <1>5 DEF PlansFit
<1>9. QED  BY <1>2, <1>4, <1>5, <1>6, <1>7, <1>8

LEMMA BaseNextQuestion == ASSUME ParametersOK, Base, NEW r \in Requests, next_question(r)  PROVE Base'
<1> DEFINE i == req[r].interview
           goesOn == [interview EXCEPT !.current = i.current + 1]
           asks(q) == [interview EXCEPT !.followups = "done", !.current = i.current + 1,
                           !.questions = Append(i.questions, [of |-> q, plan |-> plans + 1])]
           finished == [interview EXCEPT !.status = "completed", !.followups = IF Asks(i) THEN "done" ELSE @]
<1>1. /\ Shaped(interview) /\ interview \in Interview /\ plans \in Nat /\ PlansFit
      /\ Shaped(i) /\ i \in Interview /\ Len(i.questions) <= Len(interview.questions)
      /\ i.followups = "done" => interview.followups = "done"
      /\ Within(i, req[r].answers) /\ req[r].answers \in Seq(Answer)
      /\ interview.status = "completed" => \A q \in Spoken : Recorded(q)
      /\ Known(r) /\ Permitted(r)
  BY DEF Base, TypeOK, Known, Shaped, RowsOK
<1>2. /\ req[r].op = "next" /\ Ends(r) /\ UNCHANGED <<answers, jobs, live, edits, overlaps>>
      /\ \/ /\ i.current < Len(i.questions) /\ interview' = goesOn /\ plans' = plans
         \/ /\ i.current = Len(i.questions) /\ Asks(i)
            /\ \E q \in Material(req[r].answers) : interview' = asks(q)
            /\ plans' = plans + 1
         \/ i.current = Len(i.questions) /\ interview' = finished /\ plans' = plans
  <2>1. req[r].op = "next" /\ Ends(r) /\ UNCHANGED <<answers, jobs, live, edits, overlaps>>
    BY Zenon DEF next_question
  <2>2. \/ i.current < Len(i.questions) /\ interview' = goesOn /\ plans' = plans
        \/ /\ i.current = Len(i.questions) /\ Asks(i)
           /\ \E q \in Material(req[r].answers) : interview' = asks(q)
           /\ plans' = plans + 1
        \/ i.current = Len(i.questions) /\ interview' = finished /\ plans' = plans
    BY ZenonT(30) DEF next_question, NextOf
  <2> HIDE DEF i, goesOn, asks, finished
  <2>3. QED  BY <2>1, <2>2
<1> HIDE DEF goesOn, asks, finished
<1>3. \A q \in Spoken : q <= i.current => Recorded(q)  BY <1>1, <1>2, LoadedIsRecorded
<1>4. /\ MayPlan \subseteq Requests
      /\ Cardinality(Requests) \in Nat /\ Cardinality(MayPlan) \in Nat /\ Cardinality(MayPlan') \in Nat
      /\ plans + Cardinality(MayPlan) <= Cardinality(Requests)
      /\ Cardinality(MayPlan') <= Cardinality(MayPlan)
      /\ r \in MayPlan => Cardinality(MayPlan') + 1 <= Cardinality(MayPlan)
  BY <1>2, BlocksLeft
<1>5. /\ Total \in Nat /\ Spoken \subseteq 1 .. Total
      /\ Len(i.questions) \in {Total, Total + 1} /\ Len(interview.questions) \in {Total, Total + 1}
      /\ i.current \in 1 .. Total + 1 /\ i.current <= Len(i.questions)
      /\ i.questions \in Seq(Question) /\ interview.questions \in Seq(Question)
  BY <1>1 DEF ParametersOK, Shaped, Interview, Spoken, Main
<1> HIDE DEF i
<1>6. CASE i.current < Len(i.questions) /\ interview' = goesOn /\ plans' = plans
  <2>1. interview' \in Interview
    <3>1. i.current + 1 \in 1 .. Total + 1  BY <1>5, <1>6
    <3>2. QED  BY <1>1, <1>6, <3>1 DEF Interview, goesOn
  <2>2. /\ interview'.current = i.current + 1 /\ interview'.questions = interview.questions
        /\ interview'.followups = interview.followups /\ interview'.status = interview.status
    BY <1>1, <1>6 DEF Interview, goesOn
  <2>3. Shaped(interview')  BY <1>1, <1>5, <1>6, <2>1, <2>2 DEF Shaped
  <2>4. PlansFit'
    <3>1. MayPlan' \subseteq MayPlan  BY <1>2, BlocksLeft
    <3>2. QED  BY <1>1, <1>6, <2>2, <3>1, FewerPlan
  <2>5. \A q \in Spoken : q < interview'.current \/ interview'.status = "completed" => Recorded(q)
    BY <1>1, <1>3, <1>5, <2>2
  <2>6. Len(interview.questions) <= Len(interview'.questions)  BY <1>5, <2>2
  <2>7. QED  BY <1>1, <1>2, <1>6, <2>2, <2>3, <2>4, <2>5, <2>6, Advances
<1>7. ASSUME i.current = Len(i.questions), Asks(i), NEW q \in Material(req[r].answers), plans' = plans + 1,
             interview' = asks(q)
      PROVE  Base'
  <2> DEFINE new == [of |-> q, plan |-> plans + 1]
  <2>1. r \in MayPlan  BY <1>2, <1>7 DEF MayPlan, i
  <2>2. plans' + Cardinality(MayPlan') <= Cardinality(Requests) /\ plans + 1 \in 0 .. Cardinality(Requests)
    BY <1>1, <1>4, <1>7, <2>1
  <2>3. Len(i.questions) = Total /\ FollowupsEnabled  BY <1>1, <1>7 DEF Shaped, Asks
  <2>4. q \in 1 .. Total
    <3>1. PICK a \in DOMAIN req[r].answers : q = req[r].answers[a].q  BY <1>7 DEF Material
    <3>2. req[r].answers[a] \in Answer  BY <1>1, <3>1
    <3>3. q \in 1 .. Total + 1 /\ q <= Len(i.questions)  BY <1>1, <3>1, <3>2 DEF Within, Answer
    <3>4. QED  BY <1>5, <2>3, <3>3
  <2>5. new \in Question  BY <1>5, <2>2, <2>4 DEF Question
  <2>6. /\ interview'.questions = Append(i.questions, new) /\ interview'.current = Total + 1
        /\ interview'.followups = "done" /\ interview'.status = interview.status
    BY <1>1, <1>7, <2>3 DEF Interview, asks
  <2>7. interview' \in Interview
    <3>1. Append(i.questions, new) \in Seq(Question)  BY <1>5, <2>5
    <3>2. Total + 1 \in 1 .. Total + 1  BY <1>5
    <3>3. QED  BY <1>1, <1>7, <2>3, <3>1, <3>2 DEF Interview, asks
  <2>8. Shaped(interview')
    <3>1. Len(interview'.questions) = Total + 1  BY <1>5, <2>3, <2>6
    <3>2. \A p \in DOMAIN interview'.questions : interview'.questions[p].of = 0 <=> p \in Main
      <4>1. ASSUME NEW p \in 1 .. Total  PROVE interview'.questions[p].of = 0 <=> p \in Main
        <5>1. interview'.questions[p] = i.questions[p] /\ p \in DOMAIN i.questions  BY <1>5, <2>3, <2>6
        <5>2. QED  BY <1>1, <5>1 DEF Shaped
      <4>2. interview'.questions[Total + 1] = new /\ Total + 1 \notin Main  BY <1>5, <2>3, <2>6 DEF Main
      <4>3. new.of # 0  BY <1>5, <2>4
      <4>4. DOMAIN interview'.questions = 1 .. Total + 1  BY <2>7, <3>1 DEF Interview
      <4>5. ASSUME NEW p \in DOMAIN interview'.questions  PROVE interview'.questions[p].of = 0 <=> p \in Main
        <5>1. p \in 1 .. Total \/ p = Total + 1  BY <1>5, <4>4
        <5>2. QED  BY <4>1, <4>2, <4>3, <5>1
      <4>6. QED  BY <4>5
    <3>3. interview'.followups # "off"  BY <2>6
    <3>4. QED  BY <1>5, <2>3, <2>6, <2>7, <3>1, <3>2 DEF Shaped
  <2>9. PlansFit'  BY <2>2, <2>6 DEF PlansFit
  <2>10. \A p \in Spoken : Recorded(p)  BY <1>3, <1>5, <1>7, <2>3
  <2>11. Len(interview.questions) <= Len(interview'.questions)
    <3>1. Len(interview'.questions) = Total + 1  BY <1>5, <2>3, <2>6
    <3>2. QED  BY <1>5, <3>1
  <2>12. QED  BY <1>1, <1>2, <1>7, <2>6, <2>8, <2>9, <2>10, <2>11, Advances
<1>8. CASE i.current = Len(i.questions) /\ interview' = finished /\ plans' = plans
  <2>1. /\ interview'.current = interview.current /\ interview'.questions = interview.questions
        /\ interview'.status = "completed"
        /\ interview'.followups = IF Asks(i) THEN "done" ELSE interview.followups
    BY <1>1, <1>8 DEF Interview, finished
  <2>2. interview' \in Interview  BY <1>1, <1>8 DEF Interview, finished
  <2>3. Shaped(interview')
    <3>1. Asks(i) => FollowupsEnabled  BY <1>1 DEF Shaped, Asks
    <3>2. QED  BY <1>1, <2>1, <2>2, <3>1 DEF Shaped
  <2>4. PlansFit'
    <3>1. plans' + Cardinality(MayPlan') <= Cardinality(Requests)  BY <1>1, <1>4, <1>8
    <3>2. interview'.followups # "done" => plans' = 0  BY <1>1, <1>8, <2>1 DEF PlansFit
    <3>3. QED  BY <3>1, <3>2 DEF PlansFit
  <2>5. \A q \in Spoken : Recorded(q)  BY <1>3, <1>5, <1>8
  <2>6. Len(interview.questions) <= Len(interview'.questions)  BY <1>5, <2>1
  <2>7. interview.followups = "done" => interview'.followups = "done"  BY <2>1
  <2>8. QED  BY <1>1, <1>2, <1>8, <2>3, <2>4, <2>5, <2>6, <2>7, Advances
<1>9. QED  BY <1>2, <1>6, <1>7, <1>8
-----------------------------------------------------------------------------
(* The handlers that write answers. *)

LEMMA MadeOf ==
    ASSUME NEW n \in Nat, NEW new, new = [a \in 1 .. n |-> new[a]], \A a \in 1 .. n : new[a] \in Answer
    PROVE  new \in Seq(Answer) /\ Len(new) = n /\ DOMAIN new = 1 .. n
BY SMT

\* The rows keep their order and their questions.
LEMMA RowsModified ==
    ASSUME ParametersOK, Base, UNCHANGED <<interview, plans, edits, overlaps>>,
           answers' = [a \in DOMAIN answers |-> answers'[a]],
           \A a \in DOMAIN answers :
               /\ answers'[a] \in Answer /\ Kept(answers[a], answers'[a])
               /\ answers'[a].status = "abandoned" => answers[a].status = "abandoned"
               /\ answers'[a].q \notin Code /\ answers'[a].status \in Ready => a \in jobs'
               /\ a \in live' => answers'[a].media,
           jobs \subseteq jobs', jobs' \cup live' \subseteq DOMAIN answers,
           req' = req \/ \E r \in Requests : Ends(r)
    PROVE  Base'
<1>1. /\ RowsOK(answers) /\ answers \in Seq(Answer) /\ Within(interview, answers)
      /\ edits \in 0 .. MaxEdits /\ overlaps \in 0 .. MaxOverlaps
  BY DEF Base, TypeOK
<1>2. answers' \in Seq(Answer) /\ Len(answers') = Len(answers) /\ DOMAIN answers' = DOMAIN answers
  <2>1. Len(answers) \in Nat /\ DOMAIN answers = 1 .. Len(answers)  BY <1>1
  <2>2. QED  BY <2>1, MadeOf
<1>3. RowsOK(answers')  BY <1>1, <1>2, ModifiedRows
<1>4. \A a \in DOMAIN answers' : answers'[a].q <= Len(interview.questions)  BY <1>1, <1>2 DEF Within, Kept
<1>5. QED  BY <1>1, <1>2, <1>3, <1>4, RowsWritten

LEMMA RowFacts ==
    ASSUME Base
    PROVE  /\ answers \in Seq(Answer) /\ jobs \cup live \subseteq DOMAIN answers
           /\ \A a \in live : answers[a].media
           /\ \A a \in DOMAIN answers :
                /\ answers[a] \in Answer /\ RowOK(answers, a)
                /\ answers[a].q \notin Code /\ answers[a].status \in Ready => a \in jobs
BY DEF Base, TypeOK, RowsOK

LEMMA BaseChunk == ASSUME ParametersOK, Base, NEW a \in DOMAIN answers, append_chunk(a)  PROVE Base'
<1>1. /\ answers' = [answers EXCEPT ![a] = [answers[a] EXCEPT !.bytes = TRUE]]
      /\ UNCHANGED <<interview, jobs, req, live, edits, plans, overlaps>>
  BY RowFacts DEF append_chunk, Answer
<1>2. [answers[a] EXCEPT !.bytes = TRUE] \in Answer  BY RowFacts DEF Answer
<1>3. ASSUME NEW b \in DOMAIN answers
      PROVE  /\ answers'[b] \in Answer /\ answers'[b].status = answers[b].status
             /\ answers'[b].q = answers[b].q /\ answers'[b].media = answers[b].media
             /\ Kept(answers[b], answers'[b])
  BY <1>1, <1>2, RowFacts DEF Kept, RowOK, Answer
<1>4. answers' = [b \in DOMAIN answers |-> answers'[b]]  BY <1>1, RowFacts
<1>5. QED  BY <1>1, <1>3, <1>4, RowFacts, RowsModified

LEMMA BaseProcessed == ASSUME ParametersOK, Base, NEW a \in DOMAIN answers, Processed(a)  PROVE Base'
<1>1. /\ answers' = [answers EXCEPT ![a] = [answers[a] EXCEPT !.status = "done"]] /\ a \in jobs
      /\ UNCHANGED <<interview, jobs, req, live, edits, plans, overlaps>>
  BY RowFacts DEF Processed, Answer
<1>2. [answers[a] EXCEPT !.status = "done"] \in Answer  BY RowFacts DEF Answer, Ready
<1>3. ASSUME NEW b \in DOMAIN answers
      PROVE  /\ answers'[b] \in Answer /\ answers'[b].status = IF b = a THEN "done" ELSE answers[b].status
             /\ answers'[b].q = answers[b].q /\ answers'[b].media = answers[b].media
             /\ Kept(answers[b], answers'[b])
  BY <1>1, <1>2, RowFacts DEF Kept, RowOK, Answer
<1>4. answers' = [b \in DOMAIN answers |-> answers'[b]]  BY <1>1, RowFacts
<1>5. QED  BY <1>1, <1>3, <1>4, RowFacts, RowsModified

LEMMA BasePageLost == ASSUME ParametersOK, Base, PageLost  PROVE Base'
<1>1. live' = {} /\ UNCHANGED <<interview, answers, jobs, req, edits, plans, overlaps>>  BY DEF PageLost
<1>2. \A b \in DOMAIN answers : Kept(answers[b], answers[b])  BY RowFacts DEF Kept, RowOK
<1>3. answers = [b \in DOMAIN answers |-> answers[b]]  BY RowFacts
<1>4. QED  BY <1>1, <1>2, <1>3, RowFacts, RowsModified

LEMMA BaseComplete == ASSUME ParametersOK, Base, NEW r \in Requests, complete_answer(r)  PROVE Base'
<1> DEFINE a == req[r].a
           loaded == req[r].answers
           put == Final([answers[a] EXCEPT !.status = "uploaded"], loaded[a])
<1>1. /\ req[r].op = "complete" /\ Ends(r) /\ UNCHANGED <<interview, edits, plans, overlaps>>
      /\ jobs' = jobs \cup {a} /\ live' = live \ {a}
      /\ answers' = [LastIsFinal(answers, a) EXCEPT ![a] = Final([@ EXCEPT !.status = "uploaded"], loaded[a])]
  BY DEF complete_answer
<1>2. a \in DOMAIN answers /\ answers[a].media
  <2>1. Known(r) /\ Permitted(r)  BY DEF Base
  <2>2. a \in DOMAIN loaded /\ loaded[a].media /\ loaded \in Seq(Answer)
    BY <1>1, <2>1 DEF Known, Permitted, RowsOK
  <2>3. QED  BY <2>1, <2>2, RowFacts DEF Known
<1>3. /\ answers' = [b \in DOMAIN answers |-> answers'[b]] /\ answers'[a] = put
      /\ \A b \in DOMAIN answers : b # a => answers'[b] = LastIsFinal(answers, a)[b]
  BY <1>1, <1>2 DEF LastIsFinal
<1>4. /\ put \in Answer /\ put.q = answers[a].q /\ put.attempt = answers[a].attempt
      /\ put.media = answers[a].media /\ put.code = answers[a].code /\ put.status = "uploaded"
  <2> DEFINE w == [answers[a] EXCEPT !.status = "uploaded"]
  <2>1. answers[a] \in Answer  BY <1>2, RowFacts
  <2>2. /\ w \in Answer /\ w.q = answers[a].q /\ w.attempt = answers[a].attempt
        /\ w.media = answers[a].media /\ w.code = answers[a].code /\ w.status = "uploaded"
    BY <2>1 DEF Answer, Ready
  <2>3. put = w \/ put = [w EXCEPT !.final = TRUE]  BY DEF Final
  <2> HIDE DEF put, w
  <2>4. QED  BY <2>2, <2>3 DEF Answer
<1> HIDE DEF put
<1>5. ASSUME NEW b \in DOMAIN answers, b # a
      PROVE  /\ answers'[b] \in Answer /\ answers'[b].q = answers[b].q /\ answers'[b].attempt = answers[b].attempt
             /\ answers'[b].media = answers[b].media /\ answers'[b].code = answers[b].code
             /\ answers'[b].status = answers[b].status
  <2>1. answers[b] \in Answer  BY RowFacts
  <2>2. answers'[b] = answers[b] \/ answers'[b] = [answers[b] EXCEPT !.final = FALSE]
    BY <1>3, <1>5 DEF LastIsFinal
  <2>3. QED  BY <2>1, <2>2 DEF Answer
<1>6. \A b \in DOMAIN answers : answers'[b] \in Answer /\ Kept(answers[b], answers'[b])
  <2> TAKE b \in DOMAIN answers
  <2>1. CASE b = a  BY <1>2, <1>3, <1>4, <2>1 DEF Kept
  <2>2. CASE b # a
    <3>1. RowOK(answers, b)  BY RowFacts
    <3>2. QED  BY <1>5, <2>2, <3>1 DEF Kept, RowOK
  <2>3. QED  BY <2>1, <2>2
<1>7. \A b \in DOMAIN answers :
          /\ answers'[b].status = "abandoned" => answers[b].status = "abandoned"
          /\ answers'[b].q \notin Code /\ answers'[b].status \in Ready => b \in jobs'
          /\ b \in live' => answers'[b].media
  BY <1>1, <1>2, <1>3, <1>4, <1>5, RowFacts
<1>8. jobs \subseteq jobs' /\ jobs' \cup live' \subseteq DOMAIN answers  BY <1>1, <1>2, RowFacts
<1>9. \E s \in Requests : Ends(s)  BY <1>1
<1>10. answers' = [b \in DOMAIN answers |-> answers'[b]] /\ UNCHANGED <<interview, plans, edits, overlaps>>
  BY <1>1, <1>3
<1> HIDE DEF a, loaded
<1>11. QED  BY <1>6, <1>7, <1>8, <1>9, <1>10, RowsModified

\* A row is added behind the others.
AddsRow(n, q) ==
    /\ UNCHANGED <<interview, plans, edits, overlaps, jobs>>
    /\ n = Len(answers) /\ n < MaxAnswers /\ answers' \in Seq(Answer) /\ Len(answers') = n + 1
    /\ \A a \in 1 .. n :
         /\ Kept(answers[a], answers'[a])
         /\ answers'[a].status = "abandoned" => answers[a].status = "abandoned" \/ answers[a].q = q
    /\ \A a \in DOMAIN answers' : answers'[a].q \notin Code /\ answers'[a].status \in Ready => a \in jobs
    /\ q <= Len(interview.questions) /\ Count(answers, q) <= Allowed(q)
    /\ answers'[n + 1].q = q /\ answers'[n + 1].attempt = Count(answers, q) + 1
    /\ answers'[n + 1].status # "abandoned"
    /\ answers'[n + 1].code.submitted => answers'[n + 1].code.src # 0
    /\ answers'[n + 1].media => \A b \in Of(answers, q) : answers[b].media
    /\ ~answers'[n + 1].media => /\ Of(answers, q) = {} /\ q \in Code
                                 /\ answers'[n + 1].status \in {"recording", "done"}
                                 /\ answers'[n + 1].code.src # 0
    /\ live' = live \/ (live' = live \cup {n + 1} /\ answers'[n + 1].media)

LEMMA RowsAppended ==
    ASSUME ParametersOK, Base, NEW n \in Nat, NEW q, AddsRow(n, q), \E r \in Requests : Ends(r)
    PROVE  Base'
<1> USE DEF AddsRow
<1>1. /\ RowsOK(answers) /\ answers \in Seq(Answer) /\ Within(interview, answers)
      /\ edits \in 0 .. MaxEdits /\ overlaps \in 0 .. MaxOverlaps /\ jobs \cup live \subseteq DOMAIN answers
      /\ \A a \in live : answers[a].media
      /\ MaxAnswers \in Nat /\ RetakesAllowed \in Nat
  BY DEF Base, TypeOK, ParametersOK
<1>2. RowsOK(answers')  BY <1>1, AppendedRows
<1>3. DOMAIN answers = 1 .. n /\ DOMAIN answers' = 1 .. n + 1  BY <1>1
<1>4. \A a \in DOMAIN answers' : answers'[a].q <= Len(interview.questions)
  <2>1. \A a \in 1 .. n : answers'[a].q <= Len(interview.questions)  BY <1>1, <1>3 DEF Within, Kept
  <2>2. \A a \in 1 .. n + 1 : a \in 1 .. n \/ a = n + 1  OBVIOUS
  <2>3. QED  BY <1>3, <2>1, <2>2
<1>5. \A a \in live' : answers'[a].media  BY <1>1, <1>3 DEF Kept
<1>6. jobs \subseteq jobs' /\ jobs' \cup live' \subseteq DOMAIN answers'
  <2>1. 1 .. n \subseteq 1 .. n + 1 /\ n + 1 \in 1 .. n + 1  OBVIOUS
  <2>2. QED  BY <1>1, <1>3, <2>1
<1>7. \A a \in DOMAIN answers' : answers'[a].q \notin Code /\ answers'[a].status \in Ready => a \in jobs'
  OBVIOUS
<1>8. /\ UNCHANGED <<interview, plans>> /\ Len(answers) <= Len(answers')
      /\ \A a \in DOMAIN answers : Kept(answers[a], answers'[a])
      /\ edits' \in 0 .. MaxEdits /\ overlaps' \in 0 .. MaxOverlaps
  BY <1>1, <1>3
<1> HIDE DEF AddsRow
<1>9. QED  BY <1>2, <1>4, <1>5, <1>6, <1>7, <1>8, RowsWritten

\* The rows a request has loaded, and those of today.
LEMMA LoadedRows ==
    ASSUME ParametersOK, Base, NEW r \in Requests, NEW q, q = req[r].interview.current,
           NEW loaded, loaded = req[r].answers
    PROVE  /\ loaded \in Seq(Answer) /\ answers \in Seq(Answer) /\ DOMAIN loaded \subseteq DOMAIN answers
           /\ q \in Asked /\ q <= Len(interview.questions) /\ retakes_allowed(req[r].interview, q) = Allowed(q)
           /\ Numbered(loaded, q) /\ Numbered(answers, q)
           /\ Of(loaded, q) \subseteq Of(answers, q)
           /\ Count(loaded, q) \in Nat /\ Count(answers, q) \in Nat /\ Count(loaded, q) <= Count(answers, q)
           /\ Count(answers, q) <= Len(answers)
           /\ \A a \in DOMAIN loaded :
                /\ loaded[a] \in Answer /\ RowOK(loaded, a) /\ answers[a].q = loaded[a].q
                /\ loaded[a].media => answers[a].media
<1>1. Known(r) /\ RowsOK(answers) /\ answers \in Seq(Answer) /\ interview \in Interview
  BY DEF Base, TypeOK
<1>2. /\ loaded \in Seq(Answer) /\ RowsOK(loaded) /\ Len(loaded) <= Len(answers)
      /\ \A a \in DOMAIN loaded : answers[a].q = loaded[a].q /\ (loaded[a].media => answers[a].media)
      /\ Shaped(req[r].interview) /\ Len(req[r].interview.questions) <= Len(interview.questions)
  BY <1>1 DEF Known, RowsOK
<1>3. /\ Len(loaded) \in Nat /\ DOMAIN loaded = 1 .. Len(loaded)
      /\ Len(answers) \in Nat /\ DOMAIN answers = 1 .. Len(answers) /\ DOMAIN loaded \subseteq DOMAIN answers
  BY <1>1, <1>2
<1>4. /\ q \in Asked /\ q <= Len(interview.questions) /\ q \in DOMAIN req[r].interview.questions
      /\ req[r].interview.questions \in Seq(Question) /\ Total \in Nat
  BY <1>1, <1>2 DEF Shaped, Interview, Asked, ParametersOK
<1>5. retakes_allowed(req[r].interview, q) = Allowed(q)
  <2>1. req[r].interview.questions[q].of = 0 <=> q \in Main  BY <1>2, <1>4 DEF Shaped
  <2>2. QED  BY <2>1 DEF retakes_allowed, Allowed
<1>6. Of(loaded, q) \subseteq Of(answers, q) /\ Count(loaded, q) <= Count(answers, q)
  BY <1>2, <1>3, FewerOf
<1>7. Count(loaded, q) \in Nat /\ Count(answers, q) \in Nat /\ Count(answers, q) <= Len(answers)
  <2>1. Count(loaded, q) \in Nat /\ Count(answers, q) \in Nat  BY <1>3, OfFinite
  <2>2. Of(answers, q) \in SUBSET (1 .. Len(answers))  BY <1>3 DEF Of
  <2>3. ASSUME NEW n \in Nat  PROVE IsFiniteSet(1 .. n) /\ Cardinality(1 .. n) = n
    <3>1. 1 \in Int /\ n \in Int /\ (1 > n => n = 0) /\ n - 1 + 1 = n  OBVIOUS
    <3>2. QED  BY <3>1, FS_Interval
  <2>4. Cardinality(Of(answers, q)) <= Len(answers)  BY <1>3, <2>2, <2>3, FS_Subset
  <2>5. QED  BY <2>1, <2>4 DEF Count
<1>8. QED  BY <1>1, <1>2, <1>3, <1>4, <1>5, <1>6, <1>7 DEF RowsOK

\* When the number a request gives is free, no attempt was added since.
NoneSince(loaded, q) == Of(answers, q) = Of(loaded, q) /\ Count(answers, q) = Count(loaded, q)

LEMMA FreeNumber ==
    ASSUME ParametersOK, Base, NEW r \in Requests, NEW q, q = req[r].interview.current,
           NEW loaded, loaded = req[r].answers, Unique(q, Count(loaded, q) + 1)
    PROVE  NoneSince(loaded, q)
<1>1. /\ Of(loaded, q) \subseteq Of(answers, q) /\ Numbered(answers, q)
      /\ Count(loaded, q) \in Nat /\ Count(answers, q) \in Nat /\ Count(loaded, q) <= Count(answers, q)
      /\ answers \in Seq(Answer)
  BY LoadedRows
<1>2. Count(answers, q) = Count(loaded, q)
  <2>1. SUFFICES ASSUME Count(loaded, q) + 1 \in 1 .. Count(answers, q)  PROVE FALSE  BY <1>1
  <2>2. \E a \in Of(answers, q) : answers[a].attempt = Count(loaded, q) + 1  BY <1>1, <2>1 DEF Numbered
  <2>3. QED  BY <2>2 DEF Unique
<1>3. IsFiniteSet(Of(answers, q))
  <2>1. Len(answers) \in Nat /\ DOMAIN answers = 1 .. Len(answers)  BY <1>1
  <2>2. QED  BY <2>1, OfFinite
<1>4. Of(loaded, q) = Of(answers, q)
  <2>1. Of(loaded, q) \in SUBSET Of(answers, q)  BY <1>1
  <2>2. Cardinality(Of(loaded, q)) = Cardinality(Of(answers, q))  BY <1>2 DEF Count
  <2>3. QED  BY <1>3, <2>1, <2>2, FS_Subset
<1>5. QED  BY <1>2, <1>4 DEF NoneSince
-----------------------------------------------------------------------------
(* A new attempt. *)

\* The attempt that create_answer adds.
NewAttempt(r) ==
    LET i == req[r].interview
        loaded == req[r].answers
        q == i.current
    IN [q |-> q, attempt |-> Cardinality(Of(loaded, q)) + 1, status |-> "recording", final |-> TRUE,
        media |-> TRUE, bytes |-> FALSE, code |-> _latest_code(loaded, q),
        parent |-> _parent_answer_id(i, loaded, q)]

LEMMA LatestCode ==
    ASSUME ParametersOK, NEW rows \in Seq(Answer), \A a \in DOMAIN rows : RowOK(rows, a), NEW q
    PROVE  /\ _latest_code(rows, q) \in CodeSubmission
           /\ _latest_code(rows, q).submitted => _latest_code(rows, q).src # 0
<1> DEFINE S == {a \in Of(rows, q) : rows[a].code.src # 0}
<1>1. CASE S = {}
  <2>1. _latest_code(rows, q) = NoCode  BY <1>1 DEF _latest_code
  <2>2. QED  BY <2>1 DEF NoCode, CodeSubmission, ParametersOK
<1>2. CASE S # {}
  <2>1. S \subseteq DOMAIN rows  BY DEF Of
  <2>2. Latest(rows, S) \in S  BY <1>2, <2>1, LatestIn
  <2>3. _latest_code(rows, q) = rows[Latest(rows, S)].code  BY <1>2 DEF _latest_code
  <2>4. rows[Latest(rows, S)] \in Answer  BY <2>1, <2>2
  <2>5. QED  BY <2>2, <2>3, <2>4 DEF Answer
<1>3. QED  BY <1>1, <1>2

LEMMA ParentIn ==
    ASSUME ParametersOK, NEW rows \in Seq(Answer), Len(rows) <= MaxAnswers, NEW i, NEW q
    PROVE  _parent_answer_id(i, rows, q) \in 0 .. MaxAnswers
<1> DEFINE S == {a \in Of(rows, i.questions[q].of) : rows[a].final /\ rows[a].parent = 0}
<1>1. MaxAnswers \in Nat  BY DEF ParametersOK
<1>2. CASE S = {}
  <2>1. _parent_answer_id(i, rows, q) = 0  BY <1>2 DEF _parent_answer_id
  <2>2. QED  BY <1>1, <2>1
<1>3. CASE S # {}
  <2>1. S \subseteq DOMAIN rows  BY DEF Of
  <2>2. Latest(rows, S) \in DOMAIN rows  BY <1>3, <2>1, LatestIn
  <2>3. _parent_answer_id(i, rows, q) = Latest(rows, S)  BY <1>3 DEF _parent_answer_id
  <2>4. QED  BY <1>1, <2>2, <2>3
<1>4. QED  BY <1>2, <1>3

\* What abandoning does to a row.
LEMMA AbandonedRow ==
    ASSUME Base, NEW loaded, NEW q, NEW keep, NEW a \in DOMAIN answers
    PROVE  LET new == Abandoned(loaded, q, keep)[a]
           IN /\ new \in Answer /\ new.q = answers[a].q /\ new.attempt = answers[a].attempt
              /\ new.media = answers[a].media /\ new.code = answers[a].code
              /\ IF a \in Of(loaded, q) \ keep /\ loaded[a].status = "recording"
                 THEN new.status = "abandoned" ELSE new = answers[a]
<1> DEFINE w == [answers[a] EXCEPT !.status = "abandoned"]
           new == Abandoned(loaded, q, keep)[a]
<1>1. answers[a] \in Answer  BY RowFacts
<1>2. /\ w \in Answer /\ w.q = answers[a].q /\ w.attempt = answers[a].attempt
      /\ w.media = answers[a].media /\ w.code = answers[a].code /\ w.status = "abandoned"
  BY <1>1 DEF Answer
<1>3. IF a \in Of(loaded, q) \ keep /\ loaded[a].status = "recording"
      THEN new = w \/ new = [w EXCEPT !.final = FALSE] ELSE new = answers[a]
  BY DEF Abandoned, NotFinal
<1> DEFINE x == [w EXCEPT !.final = FALSE]
<1>4. /\ x \in Answer /\ x.q = w.q /\ x.attempt = w.attempt /\ x.media = w.media /\ x.code = w.code
      /\ x.status = w.status
  <2> HIDE DEF w
  <2>1. QED  BY <1>2 DEF Answer
<1> HIDE DEF w, x, new
<1>5. new = answers[a] \/ new = w \/ new = x  BY <1>3 DEF x
<1>6. IF a \in Of(loaded, q) \ keep /\ loaded[a].status = "recording"
      THEN new.status = "abandoned" ELSE new = answers[a]
  BY <1>2, <1>3, <1>4 DEF x
<1>7. QED  BY <1>1, <1>2, <1>4, <1>5, <1>6 DEF new

LEMMA NewAttemptIs ==
    ASSUME ParametersOK, Base, NEW r \in Requests, NEW q, q = req[r].interview.current,
           Count(req[r].answers, q) < MaxAnswers
    PROVE  /\ NewAttempt(r) \in Answer /\ NewAttempt(r).q = q
           /\ NewAttempt(r).attempt = Count(req[r].answers, q) + 1
           /\ NewAttempt(r).status = "recording" /\ NewAttempt(r).media
           /\ NewAttempt(r).code.submitted => NewAttempt(r).code.src # 0
<1> DEFINE loaded == req[r].answers
<1>1. RowsOK(loaded) /\ q \in Asked /\ Count(loaded, q) \in Nat /\ MaxAnswers \in Nat
  <2>1. Known(r)  BY DEF Base
  <2>2. QED  BY <2>1, LoadedRows DEF Known, ParametersOK
<1>2. loaded \in Seq(Answer) /\ Len(loaded) <= MaxAnswers /\ \A a \in DOMAIN loaded : RowOK(loaded, a)
  BY <1>1 DEF RowsOK
<1>3. /\ _latest_code(loaded, q) \in CodeSubmission
      /\ _latest_code(loaded, q).submitted => _latest_code(loaded, q).src # 0
  BY <1>2, LatestCode
<1>4. _parent_answer_id(req[r].interview, loaded, q) \in 0 .. MaxAnswers  BY <1>2, ParentIn
<1>5. Count(loaded, q) + 1 \in 1 .. MaxAnswers  BY <1>1
<1>6. NewAttempt(r) = [q |-> q, attempt |-> Count(loaded, q) + 1, status |-> "recording", final |-> TRUE,
                       media |-> TRUE, bytes |-> FALSE, code |-> _latest_code(loaded, q),
                       parent |-> _parent_answer_id(req[r].interview, loaded, q)]
  BY DEF NewAttempt, Count
<1>7. QED  BY <1>1, <1>3, <1>4, <1>5, <1>6 DEF Answer, Asked

\* An attempt without a video that can be reused is the only one.
LEMMA OnlyReusable ==
    ASSUME NEW rows, \A a \in DOMAIN rows : RowOK(rows, a), NEW q, NEW a \in _code_only_answer(rows, q)
    PROVE  a \in DOMAIN rows /\ rows[a].q = q /\ q \in Code /\ Of(rows, q) = {a} /\ ~rows[a].media
BY DEF _code_only_answer, RowOK, Of

\* A video is recorded for an attempt that has none.
Reused(loaded, q, a) ==
    [Abandoned(loaded, q, {a}) EXCEPT ![a] = [Status(@, loaded[a], "recording") EXCEPT !.media = TRUE]]

LEMMA BaseReuse ==
    ASSUME ParametersOK, Base, NEW r \in Requests, Ends(r), UNCHANGED <<interview, jobs, edits, plans, overlaps>>,
           NEW q, q = req[r].interview.current, NEW loaded, loaded = req[r].answers,
           NEW a \in _code_only_answer(loaded, q),
           answers' = Reused(loaded, q, a), live' = live \cup {a}
    PROVE  Base'
<1> DEFINE kept == Abandoned(loaded, q, {a})
           put == [Status(kept[a], loaded[a], "recording") EXCEPT !.media = TRUE]
<1>1. /\ loaded \in Seq(Answer) /\ DOMAIN loaded \subseteq DOMAIN answers
      /\ \A b \in DOMAIN loaded : RowOK(loaded, b) /\ answers[b].q = loaded[b].q
  BY LoadedRows
<1>2. a \in DOMAIN answers /\ answers[a].q = q /\ q \in Code /\ Of(loaded, q) \ {a} = {}
  BY <1>1, OnlyReusable
<1>3. kept = answers
  <2>1. kept = [b \in DOMAIN answers |-> answers[b]]  BY <1>2 DEF Abandoned
  <2>2. QED  BY <2>1, RowFacts
<1>4. answers' = [answers EXCEPT ![a] = put]  BY <1>3 DEF Reused
<1>5. /\ put \in Answer /\ put.q = q /\ put.attempt = answers[a].attempt /\ put.media
      /\ put.code = answers[a].code /\ put.status \in {answers[a].status, "recording"}
  <2>1. answers[a] \in Answer  BY <1>2, RowFacts
  <2>2. put = [answers[a] EXCEPT !.media = TRUE] \/ put = [[answers[a] EXCEPT !.status = "recording"] EXCEPT !.media = TRUE]
    BY <1>3 DEF Status
  <2>3. QED  BY <1>2, <2>1, <2>2 DEF Answer
<1> HIDE DEF kept, put
<1>6. ASSUME NEW b \in DOMAIN answers
      PROVE  /\ answers'[b] \in Answer /\ Kept(answers[b], answers'[b])
             /\ answers'[b].status = "abandoned" => answers[b].status = "abandoned"
             /\ answers'[b].q \notin Code /\ answers'[b].status \in Ready => b \in jobs'
             /\ b \in live' => answers'[b].media
  <2>1. CASE b = a
    <3>1. answers'[b] = put  BY <1>4, <2>1, RowFacts
    <3>2. answers[b].media => put.media  BY <1>5
    <3>3. Kept(answers[b], put)  BY <1>2, <1>5, <2>1, <3>2 DEF Kept
    <3>4. put.status = "abandoned" => answers[b].status = "abandoned"  BY <1>5, <2>1
    <3>5. QED  BY <1>2, <1>5, <3>1, <3>3, <3>4
  <2>2. CASE b # a
    <3>1. answers'[b] = answers[b]  BY <1>4, <2>2, RowFacts
    <3>2. RowOK(answers, b) /\ answers[b] \in Answer  BY RowFacts
    <3>3. QED  BY <2>2, <3>1, <3>2, RowFacts DEF Kept, RowOK
  <2>3. QED  BY <2>1, <2>2
<1>7. answers' = [b \in DOMAIN answers |-> answers'[b]]  BY <1>4, RowFacts
<1>8. jobs \subseteq jobs' /\ jobs' \cup live' \subseteq DOMAIN answers  BY <1>2, RowFacts
<1>9. \E s \in Requests : Ends(s)  OBVIOUS
<1>10. UNCHANGED <<interview, plans, edits, overlaps>>  OBVIOUS
<1>11. QED  BY <1>6, <1>7, <1>8, <1>9, <1>10, RowsModified

\* The others are abandoned, and a new attempt begins.
WithNew(r, loaded, q) == Append(Abandoned(loaded, q, {}), NewAttempt(r))

LEMMA BaseFreshAttempt ==
    ASSUME ParametersOK, Base, NEW r \in Requests, Ends(r), UNCHANGED <<interview, jobs, edits, plans, overlaps>>,
           NEW q, q = req[r].interview.current, NEW loaded, loaded = req[r].answers,
           _code_only_answer(loaded, q) = {}, Count(loaded, q) <= Allowed(q),
           Unique(q, Count(loaded, q) + 1), Len(answers) < MaxAnswers,
           answers' = WithNew(r, loaded, q), live' = live \cup {Len(answers')}
    PROVE  Base'
<1> DEFINE kept == Abandoned(loaded, q, {})
           n == Len(answers)
<1>1. /\ loaded \in Seq(Answer) /\ answers \in Seq(Answer) /\ DOMAIN loaded \subseteq DOMAIN answers
      /\ q <= Len(interview.questions) /\ Count(loaded, q) \in Nat /\ Count(answers, q) <= n
      /\ \A b \in DOMAIN loaded : /\ loaded[b] \in Answer /\ RowOK(loaded, b) /\ answers[b].q = loaded[b].q
                                  /\ loaded[b].media => answers[b].media
  BY LoadedRows
<1>2. Of(answers, q) = Of(loaded, q) /\ Count(answers, q) = Count(loaded, q)  BY FreeNumber DEF NoneSince
<1>3. n \in Nat /\ n = Len(answers) /\ DOMAIN answers = 1 .. n /\ MaxAnswers \in Nat /\ n < MaxAnswers
  BY <1>1 DEF ParametersOK
<1>4. \A b \in 1 .. n :
          /\ kept[b] \in Answer /\ kept[b].q = answers[b].q /\ kept[b].attempt = answers[b].attempt
          /\ kept[b].media = answers[b].media /\ kept[b].code = answers[b].code
          /\ kept[b] = answers[b] \/ (b \in Of(loaded, q) /\ kept[b].status = "abandoned")
  BY <1>3, AbandonedRow
<1>5. kept \in Seq(Answer) /\ Len(kept) = n /\ DOMAIN kept = 1 .. n
  <2>1. kept = [b \in 1 .. n |-> kept[b]]  BY <1>3 DEF Abandoned
  <2> HIDE DEF kept
  <2>2. QED  BY <1>3, <1>4, <2>1, MadeOf
<1>6. /\ NewAttempt(r) \in Answer /\ NewAttempt(r).q = q
      /\ NewAttempt(r).attempt = Count(answers, q) + 1
      /\ NewAttempt(r).status = "recording" /\ NewAttempt(r).media
      /\ NewAttempt(r).code.submitted => NewAttempt(r).code.src # 0
  <2>1. Count(loaded, q) < MaxAnswers  BY <1>1, <1>2, <1>3
  <2>2. QED  BY <1>2, <2>1, NewAttemptIs
<1>7. \A b \in Of(answers, q) : answers[b].media
  <2>1. SUFFICES ASSUME NEW b \in Of(loaded, q), ~loaded[b].media  PROVE FALSE
    BY <1>1, <1>2 DEF Of
  <2>2. b \in DOMAIN loaded /\ loaded[b].q = q  BY <2>1 DEF Of
  <2>3. b \in _code_only_answer(loaded, q)  BY <1>1, <2>1, <2>2 DEF _code_only_answer, RowOK
  <2>4. QED  BY <2>3
<1> HIDE DEF kept, n
<1>8. /\ answers' \in Seq(Answer) /\ Len(answers') = n + 1 /\ answers'[n + 1] = NewAttempt(r)
      /\ \A b \in 1 .. n : answers'[b] = kept[b]
  BY <1>3, <1>5, <1>6 DEF kept, n, WithNew
<1>9. ASSUME NEW b \in 1 .. n
      PROVE  /\ Kept(answers[b], answers'[b])
             /\ answers'[b].status = "abandoned" => answers[b].status = "abandoned" \/ answers[b].q = q
             /\ answers'[b].q \notin Code /\ answers'[b].status \in Ready => b \in jobs
  <2>1. CASE kept[b] = answers[b]
    <3>1. RowOK(answers, b)  BY <1>3, RowFacts
    <3>2. QED  BY <1>3, <1>8, <2>1, <3>1, RowFacts DEF Kept, RowOK
  <2>2. CASE b \in Of(loaded, q) /\ kept[b].status = "abandoned"
    <3>1. answers[b].media /\ answers[b].q = q  BY <1>2, <1>7, <2>2 DEF Of
    <3>2. /\ answers'[b].q = answers[b].q /\ answers'[b].attempt = answers[b].attempt
          /\ answers'[b].media /\ answers'[b].code = answers[b].code /\ answers'[b].status = "abandoned"
      BY <1>4, <1>8, <2>2, <3>1
    <3>3. QED  BY <3>1, <3>2 DEF Kept, Ready
  <2>3. QED  BY <1>4, <2>1, <2>2
<1>10. \A b \in DOMAIN answers' : answers'[b].q \notin Code /\ answers'[b].status \in Ready => b \in jobs
  <2>1. \A b \in DOMAIN answers' : b \in 1 .. n \/ b = n + 1  BY <1>3, <1>8
  <2>2. answers'[n + 1].status \notin Ready  BY <1>6, <1>8 DEF Ready
  <2>3. QED  BY <1>9, <2>1, <2>2
<1>11. live' = live \cup {n + 1} /\ \E s \in Requests : Ends(s)  BY <1>3, <1>8
<1>12. /\ answers'[n + 1].q = q /\ answers'[n + 1].media /\ answers'[n + 1].attempt = Count(answers, q) + 1
       /\ answers'[n + 1].status # "abandoned"
       /\ answers'[n + 1].code.submitted => answers'[n + 1].code.src # 0
  BY <1>6, <1>8
<1>13. Count(answers, q) <= Allowed(q) /\ q <= Len(interview.questions)  BY <1>1, <1>2
<1>14. UNCHANGED <<interview, plans, edits, overlaps, jobs>>  BY Zenon
<1>15. AddsRow(n, q)
  BY <1>3, <1>7, <1>8, <1>9, <1>10, <1>11, <1>12, <1>13, <1>14 DEF AddsRow
<1>16. QED  BY <1>3, <1>11, <1>15, RowsAppended

\* The number was taken: the request ends.
LEMMA BaseRefused ==
    ASSUME ParametersOK, Base, NEW r \in Requests, Ends(r),
           UNCHANGED <<interview, answers, jobs, live, edits, plans, overlaps>>
    PROVE  Base'
<1>1. \A b \in DOMAIN answers : Kept(answers[b], answers[b])  BY RowFacts DEF Kept, RowOK
<1>2. answers = [b \in DOMAIN answers |-> answers[b]]  BY RowFacts
<1>3. \E s \in Requests : Ends(s)  OBVIOUS
<1>4. QED  BY <1>1, <1>2, <1>3, RowFacts, RowsModified

LEMMA BaseCreate == ASSUME ParametersOK, Base, NEW r \in Requests, create_answer(r)  PROVE Base'
<1> DEFINE q == req[r].interview.current
           loaded == req[r].answers
           reusable == _code_only_answer(loaded, q)
           a == Latest(loaded, reusable)
<1>1. req[r].op = "create" /\ Ends(r) /\ UNCHANGED <<interview, jobs, edits, plans, overlaps>>
  BY Zenon DEF create_answer
<1>2. \/ reusable # {} /\ answers' = Reused(loaded, q, a) /\ live' = live \cup {a}
      \/ /\ reusable = {} /\ Unique(q, Count(loaded, q) + 1) /\ Len(answers) < MaxAnswers
         /\ answers' = WithNew(r, loaded, q) /\ live' = live \cup {Len(answers')}
      \/ UNCHANGED <<answers, live>>
  BY ZenonT(30) DEF create_answer, Reused, WithNew, NewAttempt, Count
<1>3. CanCreate(req[r].interview, loaded, q)  BY <1>1 DEF Base, Permitted
<1>4. loaded \in Seq(Answer) /\ retakes_allowed(req[r].interview, q) = Allowed(q)  BY LoadedRows
<1>5. CASE reusable # {} /\ answers' = Reused(loaded, q, a) /\ live' = live \cup {a}
  <2>1. reusable \subseteq DOMAIN loaded  BY DEF _code_only_answer, Of
  <2>2. a \in reusable  BY <1>4, <1>5, <2>1, LatestIn
  <2> HIDE DEF q, loaded, a
  <2>3. q = req[r].interview.current /\ loaded = req[r].answers  BY DEF q, loaded
  <2>4. QED  BY <1>1, <1>5, <2>2, <2>3, BaseReuse
<1>6. CASE /\ reusable = {} /\ Unique(q, Count(loaded, q) + 1) /\ Len(answers) < MaxAnswers
           /\ answers' = WithNew(r, loaded, q) /\ live' = live \cup {Len(answers')}
  <2>1. Count(loaded, q) <= Allowed(q)  BY <1>3, <1>4, <1>6 DEF CanCreate, Count
  <2> HIDE DEF q, loaded
  <2>2. q = req[r].interview.current /\ loaded = req[r].answers  BY DEF q, loaded
  <2>3. QED  BY <1>1, <1>6, <2>1, <2>2, BaseFreshAttempt
<1>7. CASE UNCHANGED <<answers, live>>  BY <1>1, <1>7, BaseRefused
<1>8. QED  BY <1>2, <1>5, <1>6, <1>7
-----------------------------------------------------------------------------
(* Code is stored. *)

CodeOf(was, a, src, submit) == [src |-> src, submitted |-> submit \/ was[a].code.submitted]
CodePut(rows, was, a, src, submit) ==
    IF CodeOf(was, a, src, submit) = was[a].code /\ ~submit THEN rows
    ELSE [rows EXCEPT ![a] = [rows[a] EXCEPT !.code = CodeOf(was, a, src, submit)]]
CodeSaved(rows, was, a, src, submit) ==
    IF submit /\ ~was[a].media THEN Finished(CodePut(rows, was, a, src, submit), was, a)
    ELSE CodePut(rows, was, a, src, submit)

\* A row keeps what it is, but for what is written to row a.
SameButCode(old, new) ==
    new \in Answer /\ new.q = old.q /\ new.attempt = old.attempt /\ new.media = old.media
CodeWritten(was, old, new, a, b, src, submit) ==
    /\ SameButCode(old, new)
    /\ b # a => new.code = old.code /\ new.status = old.status
    /\ b = a => /\ \/ new.code = CodeOf(was, a, src, submit)
                   \/ new.code = old.code /\ was[a].code = CodeOf(was, a, src, submit)
                /\ new.status = old.status \/ new.status = "done"

LEMMA CodePutRow ==
    ASSUME NEW rows \in Seq(Answer), NEW was, NEW a \in DOMAIN rows, NEW src \in 0 .. MaxEdits,
           NEW submit \in BOOLEAN, was[a].code.submitted \in BOOLEAN, NEW b \in DOMAIN rows
    PROVE  /\ CodeWritten(was, rows[b], CodePut(rows, was, a, src, submit)[b], a, b, src, submit)
           /\ CodePut(rows, was, a, src, submit)[b].status = rows[b].status
<1> DEFINE c == CodeOf(was, a, src, submit)
           new == CodePut(rows, was, a, src, submit)
<1>1. c \in CodeSubmission
  <2>1. (submit \/ was[a].code.submitted) \in BOOLEAN  OBVIOUS
  <2>2. QED  BY <2>1 DEF CodeOf, CodeSubmission
<1>2. rows[b] \in Answer  OBVIOUS
<1>3. \/ new[b] = rows[b] /\ (b = a => was[a].code = c)
      \/ b = a /\ new[b] = [rows[b] EXCEPT !.code = c]
      \/ b # a /\ new[b] = rows[b]
  <2> HIDE DEF c
  <2>1. (new = rows /\ was[a].code = c) \/ new = [rows EXCEPT ![a] = [rows[a] EXCEPT !.code = c]]
    BY DEF CodePut, c
  <2> HIDE DEF new
  <2>2. QED  BY <2>1
<1> HIDE DEF c, new
<1>4. SameButCode(rows[b], new[b]) /\ new[b].status = rows[b].status
  BY <1>1, <1>2, <1>3 DEF SameButCode, Answer
<1>5. b # a => new[b].code = rows[b].code  BY <1>3
<1>6. b = a => new[b].code = c \/ (new[b].code = rows[b].code /\ was[a].code = c)
  BY <1>1, <1>2, <1>3 DEF Answer
<1>7. QED  BY <1>4, <1>5, <1>6 DEF CodeWritten, c, new

LEMMA FinishedRow ==
    ASSUME NEW rows, NEW loaded, NEW a \in DOMAIN rows, NEW b \in DOMAIN rows, rows[b] \in Answer
    PROVE  LET new == Finished(rows, loaded, a)
           IN /\ SameButCode(rows[b], new[b]) /\ new[b].code = rows[b].code
              /\ new[b].status = rows[b].status \/ (b = a /\ new[b].status = "done")
<1> DEFINE new == Finished(rows, loaded, a)
           w == [rows[b] EXCEPT !.status = "done"]
<1>1. /\ w \in Answer /\ w.q = rows[b].q /\ w.attempt = rows[b].attempt /\ w.media = rows[b].media
      /\ w.code = rows[b].code /\ w.status = "done"
  BY DEF Answer, Ready
<1>2. \/ new[b] = rows[b] \/ new[b] = [rows[b] EXCEPT !.final = FALSE] \/ new[b] = [rows[b] EXCEPT !.final = TRUE]
      \/ b = a /\ (new[b] = w \/ new[b] = [w EXCEPT !.final = TRUE])
  BY DEF Finished, Final, NotFinal, Status
<1> HIDE DEF new, w
<1>3. QED  BY <1>1, <1>2 DEF SameButCode, Answer, new

LEMMA CodeSavedRow ==
    ASSUME NEW rows \in Seq(Answer), NEW was, NEW a \in DOMAIN rows, NEW src \in 0 .. MaxEdits,
           NEW submit \in BOOLEAN, was[a].code.submitted \in BOOLEAN
    PROVE  LET new == CodeSaved(rows, was, a, src, submit)
           IN /\ new = [b \in DOMAIN rows |-> new[b]]
              /\ \A b \in DOMAIN rows : CodeWritten(was, rows[b], new[b], a, b, src, submit)
<1> DEFINE put == CodePut(rows, was, a, src, submit)
           new == CodeSaved(rows, was, a, src, submit)
<1>1. \A b \in DOMAIN rows : CodeWritten(was, rows[b], put[b], a, b, src, submit) /\ put[b].status = rows[b].status
  BY CodePutRow
<1>2. put = [b \in DOMAIN rows |-> put[b]] /\ DOMAIN put = DOMAIN rows
  <2>1. put = rows \/ put = [rows EXCEPT ![a] = [rows[a] EXCEPT !.code = CodeOf(was, a, src, submit)]]
    BY DEF CodePut
  <2> HIDE DEF put
  <2>2. QED  BY <2>1
<1>3. new = put \/ new = Finished(put, was, a)  BY DEF CodeSaved
<1> HIDE DEF put, new
<1>4. CASE new = put  BY <1>1, <1>2, <1>4 DEF new
<1>5. CASE new = Finished(put, was, a)
  <2>1. new = [b \in DOMAIN rows |-> new[b]]  BY <1>2, <1>5 DEF Finished
  <2>2. ASSUME NEW b \in DOMAIN rows  PROVE CodeWritten(was, rows[b], new[b], a, b, src, submit)
    <3>1. put[b] \in Answer  BY <1>1 DEF CodeWritten, SameButCode
    <3>2. /\ SameButCode(put[b], new[b]) /\ new[b].code = put[b].code
          /\ new[b].status = put[b].status \/ (b = a /\ new[b].status = "done")
      BY <1>2, <1>5, <3>1, FinishedRow
    <3>3. QED  BY <1>1, <3>2 DEF CodeWritten, SameButCode
  <2>3. QED  BY <2>1, <2>2 DEF new
<1>6. QED  BY <1>3, <1>4, <1>5

LEMMA BaseCodeChanged ==
    ASSUME ParametersOK, Base, NEW r \in Requests, Ends(r),
           UNCHANGED <<interview, jobs, live, edits, plans, overlaps>>,
           NEW q \in Code, q = req[r].interview.current, NEW loaded, loaded = req[r].answers,
           NEW a \in _code_answer(loaded, q), NEW src \in 1 .. MaxEdits, NEW submit \in BOOLEAN,
           answers' = CodeSaved(answers, loaded, a, src, submit)
    PROVE  Base'
<1>1. /\ loaded \in Seq(Answer) /\ DOMAIN loaded \subseteq DOMAIN answers
      /\ \A b \in DOMAIN loaded : loaded[b] \in Answer /\ answers[b].q = loaded[b].q
  BY LoadedRows
<1>2. a \in DOMAIN loaded /\ a \in DOMAIN answers /\ answers[a].q = q  BY <1>1 DEF _code_answer, Of
<1>3. loaded[a].code.submitted \in BOOLEAN /\ src \in 0 .. MaxEdits /\ src # 0
  <2>1. loaded[a] \in Answer /\ MaxEdits \in Nat  BY <1>1, <1>2 DEF ParametersOK
  <2>2. loaded[a].code \in CodeSubmission  BY <2>1 DEF Answer
  <2>3. loaded[a].code.submitted \in BOOLEAN  BY <2>2 DEF CodeSubmission
  <2>4. QED  BY <2>1, <2>3
<1>4. /\ answers' = [b \in DOMAIN answers |-> answers'[b]]
      /\ \A b \in DOMAIN answers : CodeWritten(loaded, answers[b], answers'[b], a, b, src, submit)
  BY <1>2, <1>3, RowFacts, CodeSavedRow
<1>5. ASSUME NEW b \in DOMAIN answers
      PROVE  /\ answers'[b] \in Answer /\ Kept(answers[b], answers'[b])
             /\ answers'[b].status = "abandoned" => answers[b].status = "abandoned"
             /\ answers'[b].q \notin Code /\ answers'[b].status \in Ready => b \in jobs'
             /\ b \in live' => answers'[b].media
  <2>1. CodeWritten(loaded, answers[b], answers'[b], a, b, src, submit) /\ RowOK(answers, b)
    BY <1>4, RowFacts
  <2>2. /\ answers'[b] \in Answer /\ answers'[b].q = answers[b].q /\ answers'[b].attempt = answers[b].attempt
        /\ answers'[b].media = answers[b].media
        /\ answers'[b].status = answers[b].status \/ (b = a /\ answers'[b].status = "done")
    BY <2>1 DEF CodeWritten, SameButCode
  <2>3. answers'[b].code = answers[b].code \/ answers'[b].code.src # 0
    BY <1>3, <2>1 DEF CodeWritten, CodeOf
  <2>4. Kept(answers[b], answers'[b])  BY <2>1, <2>2, <2>3 DEF Kept, RowOK
  <2>5. QED  BY <1>2, <2>2, <2>4, RowFacts
<1>6. jobs \subseteq jobs' /\ jobs' \cup live' \subseteq DOMAIN answers  BY RowFacts
<1>7. (\E s \in Requests : Ends(s)) /\ UNCHANGED <<interview, plans, edits, overlaps>>  BY Zenon
<1>8. QED  BY <1>4, <1>5, <1>6, <1>7, RowsModified

\* Code is stored for a question nobody has tried.
WithCode(q, attempt) ==
    Append(answers, [q |-> q, attempt |-> attempt, status |-> "recording", final |-> TRUE,
                     media |-> FALSE, bytes |-> FALSE, code |-> NoCode, parent |-> 0])

LEMMA NoAttempt ==
    ASSUME ParametersOK, NEW rows \in Seq(Answer), \A a \in DOMAIN rows : RowOK(rows, a),
           NEW q, Numbered(rows, q), _code_answer(rows, q) = {}
    PROVE  Of(rows, q) = {} /\ Count(rows, q) = 0
<1>1. Len(rows) \in Nat /\ DOMAIN rows = 1 .. Len(rows)  OBVIOUS
<1>2. Count(rows, q) \in Nat /\ (Count(rows, q) = 0 <=> Of(rows, q) = {})  BY <1>1, OfFinite
<1>3. SUFFICES ASSUME Count(rows, q) # 0  PROVE FALSE  BY <1>2
<1>4. Count(rows, q) \in 1 .. Count(rows, q)  BY <1>2, <1>3
<1>5. PICK a \in Of(rows, q) : rows[a].attempt = Count(rows, q)  BY <1>4 DEF Numbered
<1>6. a \in DOMAIN rows /\ rows[a].q = q  BY <1>5 DEF Of
<1>7. rows[a].status # "abandoned"  BY <1>5, <1>6 DEF RowOK, IsLast
<1>8. a \in _code_answer(rows, q)  BY <1>5, <1>7 DEF _code_answer
<1>9. QED  BY <1>8

LEMMA WithCodeIs ==
    ASSUME ParametersOK, answers \in Seq(Answer), NEW n \in Nat, n = Len(answers), n < MaxAnswers,
           NEW q \in Asked, NEW rows, rows = WithCode(q, 1)
    PROVE  /\ rows \in Seq(Answer) /\ Len(rows) = n + 1 /\ DOMAIN rows = 1 .. n + 1
           /\ \A b \in 1 .. n : rows[b] = answers[b]
           /\ rows[n + 1].q = q /\ rows[n + 1].attempt = 1 /\ rows[n + 1].status = "recording"
           /\ rows[n + 1].final /\ ~rows[n + 1].media /\ rows[n + 1].code = NoCode
<1> DEFINE fresh == [q |-> q, attempt |-> 1, status |-> "recording", final |-> TRUE,
                     media |-> FALSE, bytes |-> FALSE, code |-> NoCode, parent |-> 0]
<1>1. fresh \in Answer
  <2>1. NoCode \in CodeSubmission  BY DEF NoCode, CodeSubmission, ParametersOK
  <2>2. 1 \in 1 .. MaxAnswers /\ 0 \in 0 .. MaxAnswers  BY DEF ParametersOK
  <2>3. QED  BY <2>1, <2>2 DEF Answer, Asked
<1>2. /\ fresh.q = q /\ fresh.attempt = 1 /\ fresh.status = "recording" /\ fresh.final
      /\ ~fresh.media /\ fresh.code = NoCode
  OBVIOUS
<1>3. rows = Append(answers, fresh)  BY DEF WithCode
<1> HIDE DEF fresh
<1>4. /\ rows \in Seq(Answer) /\ Len(rows) = n + 1 /\ rows[n + 1] = fresh
      /\ \A b \in 1 .. n : rows[b] = answers[b]
  BY <1>1, <1>3
<1>5. QED  BY <1>2, <1>4

FirstCode(q, loaded, src, submit) ==
    LET rows == WithCode(q, Count(loaded, q) + 1)
    IN /\ _code_answer(loaded, q) = {} /\ Unique(q, Count(loaded, q) + 1) /\ Len(answers) < MaxAnswers
       /\ answers' = CodeSaved(rows, rows, Len(rows), src, submit)

LEMMA BaseCodeFirst ==
    ASSUME ParametersOK, Base, NEW r \in Requests, Ends(r),
           UNCHANGED <<interview, jobs, live, edits, plans, overlaps>>,
           NEW q \in Code, q = req[r].interview.current, NEW loaded, loaded = req[r].answers,
           NEW src \in 1 .. MaxEdits, NEW submit \in BOOLEAN, FirstCode(q, loaded, src, submit)
    PROVE  Base'
<1> DEFINE rows == WithCode(q, Count(loaded, q) + 1)
<1>0. /\ _code_answer(loaded, q) = {} /\ Unique(q, Count(loaded, q) + 1) /\ Len(answers) < MaxAnswers
      /\ answers' = CodeSaved(rows, rows, Len(rows), src, submit)
  BY DEF FirstCode
<1>1. /\ loaded \in Seq(Answer) /\ answers \in Seq(Answer) /\ Numbered(loaded, q) /\ q \in Asked
      /\ q <= Len(interview.questions) /\ \A b \in DOMAIN loaded : RowOK(loaded, b)
  BY LoadedRows
<1>2. Of(loaded, q) = {} /\ Count(loaded, q) = 0  BY <1>0, <1>1, NoAttempt
<1>3. Of(answers, q) = {} /\ Count(answers, q) = 0  BY <1>0, <1>2, FreeNumber DEF NoneSince
<1>4. PICK n \in Nat : n = Len(answers) /\ n < MaxAnswers /\ DOMAIN answers = 1 .. n  BY <1>0, <1>1
<1>5. /\ rows \in Seq(Answer) /\ Len(rows) = n + 1 /\ DOMAIN rows = 1 .. n + 1
      /\ \A b \in 1 .. n : rows[b] = answers[b]
      /\ rows[n + 1].q = q /\ rows[n + 1].attempt = 1 /\ rows[n + 1].status = "recording"
      /\ ~rows[n + 1].media /\ rows[n + 1].code = NoCode
  <2>1. rows = WithCode(q, 1)  BY <1>2
  <2> HIDE DEF rows
  <2>2. answers \in Seq(Answer) /\ n = Len(answers) /\ n < MaxAnswers /\ q \in Asked  BY <1>1, <1>4
  <2>3. QED  BY <2>1, <2>2, WithCodeIs
<1> HIDE DEF rows
<1>6. n + 1 \in DOMAIN rows /\ src \in 0 .. MaxEdits /\ src # 0 /\ rows[n + 1].code.submitted = FALSE
  BY <1>4, <1>5 DEF NoCode, ParametersOK
<1>7. /\ answers' = [b \in DOMAIN rows |-> answers'[b]]
      /\ \A b \in DOMAIN rows : CodeWritten(rows, rows[b], answers'[b], n + 1, b, src, submit)
  <2>1. answers' = CodeSaved(rows, rows, n + 1, src, submit)  BY <1>0, <1>5
  <2>2. rows[n + 1].code.submitted \in BOOLEAN  BY <1>6
  <2>3. rows \in Seq(Answer)  BY <1>5
  <2>4. PICK k \in DOMAIN rows : k = n + 1  BY <1>6
  <2>5. LET new == CodeSaved(rows, rows, k, src, submit)
        IN /\ new = [b \in DOMAIN rows |-> new[b]]
           /\ \A b \in DOMAIN rows : CodeWritten(rows, rows[b], new[b], k, b, src, submit)
    BY <1>6, <2>2, <2>3, <2>4, CodeSavedRow
  <2>6. QED  BY <2>1, <2>4, <2>5
<1>8. answers' \in Seq(Answer) /\ Len(answers') = n + 1 /\ DOMAIN answers' = 1 .. n + 1
  <2>1. \A b \in 1 .. n + 1 : answers'[b] \in Answer  BY <1>5, <1>7 DEF CodeWritten, SameButCode
  <2>2. answers' = [b \in 1 .. n + 1 |-> answers'[b]]  BY <1>5, <1>7
  <2>3. n + 1 \in Nat  BY <1>4
  <2>4. QED  BY <2>1, <2>2, <2>3, MadeOf
<1>9. ASSUME NEW b \in 1 .. n
      PROVE  /\ Kept(answers[b], answers'[b])
             /\ answers'[b].status = "abandoned" => answers[b].status = "abandoned" \/ answers[b].q = q
             /\ answers'[b].q \notin Code /\ answers'[b].status \in Ready => b \in jobs
  <2>1. b \in DOMAIN rows /\ b # n + 1 /\ rows[b] = answers[b] /\ b \in DOMAIN answers  BY <1>4, <1>5
  <2>2. CodeWritten(rows, answers[b], answers'[b], n + 1, b, src, submit) /\ RowOK(answers, b)
    BY <1>7, <2>1, RowFacts
  <2>3. /\ answers'[b].q = answers[b].q /\ answers'[b].attempt = answers[b].attempt
        /\ answers'[b].media = answers[b].media /\ answers'[b].code = answers[b].code
        /\ answers'[b].status = answers[b].status
    BY <2>1, <2>2 DEF CodeWritten, SameButCode
  <2>4. QED  BY <2>1, <2>2, <2>3, RowFacts DEF Kept, RowOK
<1>10. /\ answers'[n + 1].q = q /\ answers'[n + 1].attempt = 1 /\ ~answers'[n + 1].media
       /\ answers'[n + 1].status \in {"recording", "done"} /\ answers'[n + 1].code.src # 0
  <2>1. CodeWritten(rows, rows[n + 1], answers'[n + 1], n + 1, n + 1, src, submit)  BY <1>6, <1>7
  <2>2. rows[n + 1].code.src = 0  BY <1>5 DEF NoCode
  <2>3. answers'[n + 1].code.src = src  BY <1>6, <2>1, <2>2 DEF CodeWritten, CodeOf
  <2>4. QED  BY <1>5, <1>6, <2>1, <2>3 DEF CodeWritten, SameButCode
<1>11. \A b \in DOMAIN answers' : answers'[b].q \notin Code /\ answers'[b].status \in Ready => b \in jobs
  <2>1. \A b \in DOMAIN answers' : b \in 1 .. n \/ b = n + 1  BY <1>4, <1>8
  <2>2. QED  BY <1>9, <1>10, <2>1
<1>12. Count(answers, q) <= Allowed(q)  BY <1>3 DEF Allowed, ParametersOK
<1>13. AddsRow(n, q)
  <2>1. UNCHANGED <<interview, plans, edits, overlaps, jobs>> /\ live' = live  BY Zenon
  <2>2. answers'[n + 1].attempt = Count(answers, q) + 1  BY <1>3, <1>10
  <2>3. answers'[n + 1].status # "abandoned"  BY <1>10
  <2>4. QED  BY <1>1, <1>3, <1>4, <1>8, <1>9, <1>10, <1>11, <1>12, <2>1, <2>2, <2>3 DEF AddsRow
<1>14. \E s \in Requests : Ends(s)  OBVIOUS
<1>15. QED  BY <1>4, <1>13, <1>14, RowsAppended

LEMMA BaseSaveCode == ASSUME ParametersOK, Base, NEW r \in Requests, save_code(r)  PROVE Base'
<1> DEFINE q == req[r].interview.current
           loaded == req[r].answers
           src == req[r].src
           submit == req[r].submit
           a == Latest(loaded, _code_answer(loaded, q))
<1>1. req[r].op = "code" /\ Ends(r) /\ UNCHANGED <<interview, jobs, live, edits, plans, overlaps>>
  BY Zenon DEF save_code
<1>2. \/ _code_answer(loaded, q) # {} /\ answers' = CodeSaved(answers, loaded, a, src, submit)
      \/ FirstCode(q, loaded, src, submit)
      \/ UNCHANGED answers
  BY ZenonT(30) DEF save_code, FirstCode, CodeSaved, CodePut, CodeOf, WithCode, Count
<1>3. q \in Code /\ src \in 1 .. MaxEdits /\ submit \in BOOLEAN
  <2>1. Permitted(r) /\ req[r] \in Request  BY DEF Base, TypeOK
  <2>2. QED  BY <1>1, <2>1 DEF Permitted, Request
<1>4. loaded \in Seq(Answer)  BY LoadedRows
<1>5. CASE _code_answer(loaded, q) # {} /\ answers' = CodeSaved(answers, loaded, a, src, submit)
  <2>1. _code_answer(loaded, q) \subseteq DOMAIN loaded  BY DEF _code_answer, Of
  <2>2. a \in _code_answer(loaded, q)  BY <1>4, <1>5, <2>1, LatestIn
  <2>3. q = req[r].interview.current /\ loaded = req[r].answers  BY DEF q, loaded
  <2> HIDE DEF q, loaded, a, src, submit
  <2>4. QED  BY <1>1, <1>3, <1>5, <2>2, <2>3, BaseCodeChanged
<1>6. CASE FirstCode(q, loaded, src, submit)
  <2>1. q = req[r].interview.current /\ loaded = req[r].answers  BY DEF q, loaded
  <2> HIDE DEF q, loaded, src, submit
  <2>2. QED  BY <1>1, <1>3, <1>6, <2>1, BaseCodeFirst
<1>7. CASE UNCHANGED answers  BY <1>1, <1>7, BaseRefused
<1>8. QED  BY <1>2, <1>5, <1>6, <1>7
-----------------------------------------------------------------------------
(* However requests overlap. *)

LEMMA BaseInit == ASSUME ParametersOK, Init  PROVE Base
<1>1. /\ interview = Begun /\ answers = <<>> /\ jobs = {} /\ live = {} /\ req = [r \in Requests |-> Idle]
      /\ edits = 0 /\ plans = 0 /\ overlaps = 0
  BY DEF Init
<1>2. /\ Shaped(Begun) /\ Begun \in Interview /\ RowsOK(<<>>) /\ Idle \in Request /\ Begun.status = "in_progress"
      /\ Begun.current = 1 /\ Begun.followups # "done" /\ Len(Begun.questions) = Total /\ Total \in Nat
  BY IdleFacts DEF Shaped, ParametersOK
<1>3. TypeOK  BY <1>1, <1>2 DEF TypeOK, RowsOK, ParametersOK
<1>4. ASSUME NEW r \in Requests  PROVE Known(r) /\ Permitted(r)
  <2>1. /\ req[r].interview = Begun /\ req[r].answers = <<>> /\ req[r].op = "idle"
        /\ Within(Begun, <<>>) /\ \A q \in Spoken : ~(q < 1)
    BY <1>1, NothingLoaded
  <2>2. Known(r)  BY <1>1, <1>2, <2>1 DEF Known
  <2>3. QED  BY <2>1, <2>2 DEF Permitted
<1>5. PlansFit  BY <1>1, <1>2 DEF PlansFit
<1>6. Settled  BY <1>1, <1>2, NothingLoaded DEF Settled, Current
<1>7. Within(interview, answers)  BY <1>1 DEF Within
<1>8. QED  BY <1>1, <1>2, <1>3, <1>4, <1>5, <1>6, <1>7, Parts

LEMMA BaseSame == ASSUME ParametersOK, Base, UNCHANGED vars  PROVE Base'
<1>1. UNCHANGED <<interview, answers, jobs, req, live, edits, plans, overlaps>>  BY DEF vars
<1>2. \A b \in DOMAIN answers : Kept(answers[b], answers[b])  BY RowFacts DEF Kept, RowOK
<1>3. answers = [b \in DOMAIN answers |-> answers[b]]  BY RowFacts
<1>4. QED  BY <1>1, <1>2, <1>3, RowFacts, RowsModified

\* The parts of Next.
RequestStep(r) ==
    \/ BeginCreate(r) \/ BeginNext(r) \/ Handlers(r)
    \/ \E a \in live : BeginComplete(r, a)
    \/ \E src \in 1 .. MaxEdits, submit \in BOOLEAN : src \in {edits, edits + 1} /\ BeginCode(r, src, submit)

LEMMA Steps ==
    ASSUME Next
    PROVE  \/ \E r \in Requests : RequestStep(r)
           \/ \E a \in DOMAIN answers : append_chunk(a) \/ Processed(a)
           \/ PageLost
BY Zenon DEF Next, RequestStep

LEMMA BaseStays == ASSUME ParametersOK, Base, [Next]_vars  PROVE Base'
<1>1. CASE UNCHANGED vars  BY <1>1, BaseSame
<1>2. ASSUME NEW r \in Requests, RequestStep(r)  PROVE Base'
  <2>1. CASE BeginCreate(r)  BY <2>1, BaseBeginCreate
  <2>2. CASE BeginNext(r)  BY <2>2, BaseBeginNext
  <2>3. CASE create_answer(r)  BY <2>3, BaseCreate
  <2>4. CASE complete_answer(r)  BY <2>4, BaseComplete
  <2>5. CASE save_code(r)  BY <2>5, BaseSaveCode
  <2>6. CASE next_question(r)  BY <2>6, BaseNextQuestion
  <2>7. CASE \E a \in live : BeginComplete(r, a)  BY <2>7, BaseBeginComplete
  <2>8. CASE \E src \in 1 .. MaxEdits, submit \in BOOLEAN : src \in {edits, edits + 1} /\ BeginCode(r, src, submit)
    BY <2>8, BaseBeginCode
  <2>9. QED  BY <1>2, <2>1, <2>2, <2>3, <2>4, <2>5, <2>6, <2>7, <2>8 DEF RequestStep, Handlers
<1>3. ASSUME NEW a \in DOMAIN answers, append_chunk(a) \/ Processed(a)  PROVE Base'
  BY <1>3, BaseChunk, BaseProcessed
<1>4. CASE PageLost  BY <1>4, BasePageLost
<1>5. CASE Next  BY <1>2, <1>3, <1>4, <1>5, Steps
<1>6. QED  BY <1>1, <1>5

LEMMA BaseIsFair == ASSUME ParametersOK, Base  PROVE TypeOK /\ NoneSkipped /\ RetakeLimit
<1>1. TypeOK /\ Shaped(interview) /\ RowsOK(answers) /\ Settled  BY Parts
<1>2. NoneSkipped
  <2>1. ASSUME NEW q \in Spoken, Passed(q)  PROVE Recorded(q)
    <3>1. q < Current \/ interview.status = "completed"  BY <2>1 DEF Passed
    <3>2. QED  BY <1>1, <2>1, <3>1 DEF Settled
  <2>2. QED  BY <2>1 DEF NoneSkipped, Spoken, Main, Recorded
<1>3. RetakeLimit
  <2>1. ASSUME NEW q \in DOMAIN interview.questions
        PROVE  Cardinality(Of(answers, q)) <= retakes_allowed(interview, q) + 1
    <3>1. q \in Asked
      <4>1. interview.questions \in Seq(Question) /\ Len(interview.questions) \in {Total, Total + 1} /\ Total \in Nat
        BY <1>1 DEF Shaped, Interview, ParametersOK
      <4>2. QED  BY <4>1 DEF Asked
    <3>2. Count(answers, q) <= Allowed(q) + 1  BY <1>1, <3>1 DEF RowsOK, Numbered
    <3>3. interview.questions[q].of = 0 <=> q \in Main  BY <1>1 DEF Shaped
    <3>4. QED  BY <3>2, <3>3 DEF Count, Allowed, retakes_allowed
  <2>2. QED  BY <2>1 DEF RetakeLimit
<1>4. QED  BY <1>1, <1>2, <1>3
-----------------------------------------------------------------------------
(* As long as no two requests have overlapped. *)

\* Rows that differ in bytes, or were processed, are as orderly as before.
Similar(old, new) ==
    /\ new.q = old.q /\ new.attempt = old.attempt /\ new.final = old.final /\ new.code = old.code
    /\ new.status = old.status \/ {old.status, new.status} \subseteq Ready

LEMMA SimilarRows ==
    ASSUME Orderly, DOMAIN answers' = DOMAIN answers, \A a \in DOMAIN answers : Similar(answers[a], answers'[a])
    PROVE  Orderly'
<1>1. \A q : Of(answers', q) = Of(answers, q) /\ Count(answers', q) = Count(answers, q)  BY SameOf DEF Similar
<1>2. ASSUME NEW a \in DOMAIN answers  PROVE OrderlyAt(answers', a)
  <2>1. OrderlyAt(answers, a) /\ Similar(answers[a], answers'[a])  BY DEF Orderly
  <2>2. IsLast(answers', a) <=> IsLast(answers, a)  BY <1>1, <2>1 DEF IsLast, Similar
  <2>3. \A b \in Of(answers, answers[a].q) : Similar(answers[b], answers'[b])  BY DEF Of
  <2>4. IF IsLast(answers', a) THEN answers'[a].final ELSE answers'[a].status # "recording"
    BY <2>1, <2>2 DEF OrderlyAt, OrderlyFor, Similar, Ready
  <2>5. answers'[a].q \notin Code /\ answers'[a].status \in Ready =>
            \E b \in Of(answers', answers'[a].q) : answers'[b].final /\ answers'[b].status \in Ready
    BY <1>1, <2>1, <2>3 DEF OrderlyAt, OrderlyFor, Similar
  <2>6. \A b \in Of(answers', answers'[a].q) :
           /\ answers'[a].attempt <= answers'[b].attempt =>
                /\ answers'[a].code.src # 0 => answers'[b].code.src # 0
                /\ answers'[a].code.submitted => answers'[b].code.submitted
           /\ answers'[a].final /\ answers'[a].status \in Ready /\ answers'[b].final /\ answers'[b].status \in Ready
                => a = b
    BY <1>1, <2>1, <2>3 DEF OrderlyAt, OrderlyFor, Similar
  <2>7. QED  BY <2>4, <2>5, <2>6 DEF OrderlyAt, OrderlyFor
<1>3. QED  BY <1>2 DEF Orderly

\* Writing to one question disturbs no other.
LEMMA OrderlyElsewhere ==
    ASSUME Orderly, NEW q, DOMAIN answers \subseteq DOMAIN answers',
           \A a \in DOMAIN answers : /\ answers'[a].q = answers[a].q
                                     /\ answers[a].q # q => answers'[a] = answers[a],
           \A a \in DOMAIN answers' : a \in DOMAIN answers \/ answers'[a].q = q,
           \A a \in DOMAIN answers' : answers'[a].q = q => OrderlyAt(answers', a)
    PROVE  Orderly'
<1>1. ASSUME NEW p, p # q  PROVE Of(answers', p) = Of(answers, p) /\ Count(answers', p) = Count(answers, p)
  <2>1. Of(answers', p) = Of(answers, p)  BY <1>1 DEF Of
  <2>2. QED  BY <2>1 DEF Count
<1>2. ASSUME NEW a \in DOMAIN answers', answers'[a].q # q  PROVE OrderlyAt(answers', a)
  <2>1. a \in DOMAIN answers /\ answers'[a] = answers[a] /\ answers[a].q # q  BY <1>2
  <2>2. /\ Of(answers', answers[a].q) = Of(answers, answers[a].q)
        /\ Count(answers', answers[a].q) = Count(answers, answers[a].q)
    BY <1>1, <2>1
  <2>3. \A b \in Of(answers, answers[a].q) : answers'[b] = answers[b]  BY <2>1 DEF Of
  <2>4. OrderlyAt(answers, a)  BY <2>1 DEF Orderly
  <2>5. IsLast(answers', a) <=> IsLast(answers, a)  BY <2>1, <2>2 DEF IsLast
  <2>6. QED  BY <2>1, <2>2, <2>3, <2>4, <2>5 DEF OrderlyAt, OrderlyFor
<1>3. QED  BY <1>2 DEF Orderly

\* What answers a passed question stays.
LEMMA PassedStays ==
    ASSUME PassedAnswered, UNCHANGED interview, DOMAIN answers \subseteq DOMAIN answers',
           \A a \in DOMAIN answers : Passed(answers[a].q) =>
               /\ answers'[a].q = answers[a].q
               /\ answers[a].code.submitted => answers'[a].code.submitted
               /\ answers[a].status \in Ready => answers'[a].status \in Ready
    PROVE  PassedAnswered'
<1>1. ASSUME NEW q \in DOMAIN interview.questions, Passed(q)
      PROVE  \E a \in Of(answers', q) : IF q \in Code THEN answers'[a].code.submitted ELSE answers'[a].status \in Ready
  <2>1. PICK a \in Of(answers, q) : IF q \in Code THEN answers[a].code.submitted ELSE answers[a].status \in Ready
    BY <1>1 DEF PassedAnswered
  <2>2. a \in DOMAIN answers /\ answers[a].q = q  BY <2>1 DEF Of
  <2>3. a \in Of(answers', q)  BY <1>1, <2>2 DEF Of
  <2>4. IF q \in Code THEN answers'[a].code.submitted ELSE answers'[a].status \in Ready  BY <1>1, <2>1, <2>2
  <2>5. QED  BY <2>3, <2>4
<1>2. \A q : Passed(q)' <=> Passed(q)  BY DEF Passed, Current
<1>3. QED  BY <1>1, <1>2 DEF PassedAnswered

\* Requests that begin alone, or end.
LEMMA AloneAfter ==
    ASSUME Alone, NEW r \in Requests, Ends(r), req \in [Requests -> Request], req[r].op # "idle"
    PROVE  Alone'
<1>1. \A s \in Requests : req'[s].op = "idle"
  <2>0. Idle.op = "idle"  BY DEF Idle
  <2>1. req' = [req EXCEPT ![r] = Idle]  BY DEF Ends
  <2>2. \A s \in Requests : s # r => req[s].op = "idle"  BY DEF Alone
  <2>3. QED  BY <2>0, <2>1, <2>2
<1>2. QED  BY <1>1 DEF Alone

LEMMA AloneBegins ==
    ASSUME NEW r \in Requests, NEW x \in Request, Begin(r, x), overlaps' = overlaps, overlaps \in Nat,
           req \in [Requests -> Request], answers \in Seq(Answer), UNCHANGED <<interview, answers>>,
           x.interview = interview, x.answers = answers,
           x.op = "complete" => answers[x.a].status = "recording"
    PROVE  Alone'
<1>1. /\ req' = [req EXCEPT ![r] = x] /\ \A s \in Requests : req[s].op = "idle"
  BY DEF Begin
<1>2. \A s \in Requests : req'[s].op # "idle" => s = r  BY <1>1
<1>3. req'[r] = x  BY <1>1
<1>4. Fresh(r)'
  <2>1. \A a \in DOMAIN answers : Aged(answers[a], answers[a])  BY DEF Aged
  <2>2. QED  BY <1>3, <2>1 DEF Fresh
<1>5. QED  BY <1>2, <1>4 DEF Alone

LEMMA AloneStays ==
    ASSUME Alone, UNCHANGED <<req, interview>>, DOMAIN answers' = DOMAIN answers,
           \A a \in DOMAIN answers : Aged(answers[a], answers'[a])
    PROVE  Alone'
<1>1. ASSUME NEW r \in Requests, req[r].op # "idle"  PROVE Fresh(r)'
  <2>1. Fresh(r)  BY <1>1 DEF Alone
  <2>2. \A a \in DOMAIN answers : Aged(req[r].answers[a], answers'[a])  BY <2>1 DEF Fresh, Aged
  <2>3. QED  BY <2>1, <2>2 DEF Fresh
<1>2. QED  BY <1>1 DEF Alone

LEMMA NothingWritten ==
    ASSUME Orderly, PassedAnswered, UNCHANGED <<interview, answers>>
    PROVE  Orderly' /\ PassedAnswered'
BY DEF Orderly, PassedAnswered, Passed, Current

LEMMA TidyBegins ==
    ASSUME ParametersOK, Base, Tidy, NEW r \in Requests, overlaps' = overlaps,
           \/ BeginCreate(r) \/ BeginNext(r) \/ \E a \in live : BeginComplete(r, a)
           \/ \E src \in 1 .. MaxEdits, submit \in BOOLEAN : BeginCode(r, src, submit)
    PROVE  Tidy'
<1>1. /\ interview \in Interview /\ answers \in Seq(Answer) /\ overlaps \in Nat /\ req \in [Requests -> Request]
      /\ live \subseteq DOMAIN answers /\ Len(answers) <= MaxAnswers /\ MaxAnswers \in Nat /\ MaxEdits \in Nat
  BY DEF Base, TypeOK, ParametersOK
<1>2. ASSUME NEW op \in {"create", "next"}, Begin(r, Loaded(op)), UNCHANGED <<interview, answers>>
      PROVE  Alone'
  <2>1. /\ Loaded(op) \in Request /\ Loaded(op).op = op
        /\ Loaded(op).interview = interview /\ Loaded(op).answers = answers
    BY <1>1, IdleFacts DEF Loaded, Idle, Request
  <2>2. QED  BY <1>1, <1>2, <2>1, AloneBegins
<1>3. ASSUME NEW a \in live, BeginComplete(r, a)  PROVE Alone'
  <2> DEFINE x == [Loaded("complete") EXCEPT !.a = a]
  <2>1. a \in 0 .. MaxAnswers  BY <1>1
  <2>2. x \in Request /\ x.op = "complete" /\ x.a = a /\ x.interview = interview /\ x.answers = answers
    BY <1>1, <2>1, IdleFacts DEF Loaded, Idle, Request
  <2>3. Begin(r, x) /\ UNCHANGED <<interview, answers>> /\ answers[a].status = "recording"
    BY <1>3 DEF BeginComplete
  <2> HIDE DEF x
  <2>4. QED  BY <1>1, <2>2, <2>3, AloneBegins
<1>4. ASSUME NEW src \in 1 .. MaxEdits, NEW submit \in BOOLEAN, BeginCode(r, src, submit)  PROVE Alone'
  <2> DEFINE x == [Loaded("code") EXCEPT !.src = src, !.submit = submit]
  <2>0. src \in 0 .. MaxEdits  BY <1>1
  <2>1. x \in Request /\ x.op = "code" /\ x.interview = interview /\ x.answers = answers
    BY <1>1, <2>0, IdleFacts DEF Loaded, Idle, Request
  <2>2. Begin(r, x) /\ UNCHANGED <<interview, answers>>  BY <1>4 DEF BeginCode
  <2> HIDE DEF x
  <2>3. QED  BY <1>1, <2>1, <2>2, AloneBegins
<1>5. Alone'
  <2>1. CASE BeginCreate(r)
    <3>1. Begin(r, Loaded("create")) /\ UNCHANGED <<interview, answers>>  BY <2>1 DEF BeginCreate
    <3>2. QED  BY <1>2, <3>1
  <2>2. CASE BeginNext(r)
    <3>1. Begin(r, Loaded("next")) /\ UNCHANGED <<interview, answers>>  BY <2>2 DEF BeginNext
    <3>2. QED  BY <1>2, <3>1
  <2>3. QED  BY <1>3, <1>4, <2>1, <2>2
<1>6. UNCHANGED <<interview, answers>>  BY DEF BeginCreate, BeginNext, BeginComplete, BeginCode
<1>7. QED  BY <1>5, <1>6, NothingWritten DEF Tidy

LEMMA TidyChunk == ASSUME ParametersOK, Base, Tidy, NEW a \in DOMAIN answers, append_chunk(a)  PROVE Tidy'
<1>1. /\ answers' = [answers EXCEPT ![a] = [answers[a] EXCEPT !.bytes = TRUE]]
      /\ UNCHANGED <<interview, req>>
  BY RowFacts DEF append_chunk, Answer
<1>2. DOMAIN answers' = DOMAIN answers /\ \A b \in DOMAIN answers : Aged(answers[b], answers'[b])
  BY <1>1, RowFacts DEF Aged, Answer
<1>3. \A b \in DOMAIN answers : Similar(answers[b], answers'[b])  BY <1>2 DEF Aged, Similar, Ready
<1>4. Alone' /\ Orderly'  BY <1>1, <1>2, <1>3, AloneStays, SimilarRows DEF Tidy
<1>5. PassedAnswered'  BY <1>1, <1>2, <1>3, PassedStays DEF Tidy, Similar
<1>6. QED  BY <1>4, <1>5 DEF Tidy

LEMMA TidyProcessed == ASSUME ParametersOK, Base, Tidy, NEW a \in DOMAIN answers, Processed(a)  PROVE Tidy'
<1>1. /\ answers' = [answers EXCEPT ![a] = [answers[a] EXCEPT !.status = "done"]]
      /\ answers[a].status = "uploaded" /\ UNCHANGED <<interview, req>>
  BY RowFacts DEF Processed, Answer
<1>2. DOMAIN answers' = DOMAIN answers /\ \A b \in DOMAIN answers : Aged(answers[b], answers'[b])
  BY <1>1, RowFacts DEF Aged, Answer
<1>3. \A b \in DOMAIN answers : Similar(answers[b], answers'[b])  BY <1>2 DEF Aged, Similar, Ready
<1>4. Alone' /\ Orderly'  BY <1>1, <1>2, <1>3, AloneStays, SimilarRows DEF Tidy
<1>5. PassedAnswered'  BY <1>1, <1>2, <1>3, PassedStays DEF Tidy, Similar
<1>6. QED  BY <1>4, <1>5 DEF Tidy

LEMMA TidySame == ASSUME Tidy, UNCHANGED <<interview, answers, req>>  PROVE Tidy'
<1>1. Orderly' /\ PassedAnswered'  BY NothingWritten DEF Tidy
<1>2. Alone'  BY DEF Tidy, Alone, Fresh
<1>3. QED  BY <1>1, <1>2 DEF Tidy

\* The request that ends has loaded what is there.
LEMMA LoadedIsFresh ==
    ASSUME ParametersOK, Base, Tidy, NEW r \in Requests, req[r].op # "idle", Ends(r)
    PROVE  /\ Fresh(r) /\ Known(r) /\ Permitted(r) /\ Orderly /\ PassedAnswered /\ Alone'
           /\ interview.status = "in_progress"
<1>1. Fresh(r) /\ Orderly /\ PassedAnswered  BY DEF Tidy, Alone
<1>2. Known(r) /\ Permitted(r) /\ req \in [Requests -> Request]  BY DEF Base, TypeOK
<1>3. Alone'  BY <1>2, AloneAfter DEF Tidy
<1>4. interview.status = "in_progress"  BY <1>1, <1>2 DEF Known, Fresh
<1>5. QED  BY <1>1, <1>2, <1>3, <1>4

LEMMA TidyNextQuestion == ASSUME ParametersOK, Base, Tidy, NEW r \in Requests, next_question(r)  PROVE Tidy'
<1> DEFINE loaded == req[r].answers
<1>1. req[r].op = "next" /\ Ends(r) /\ UNCHANGED answers  BY Zenon DEF next_question
<1>2. Fresh(r) /\ Permitted(r) /\ Orderly /\ PassedAnswered /\ Alone' /\ interview.status = "in_progress"
  BY <1>1, LoadedIsFresh
<1>3. req[r].interview = interview /\ Answered(loaded, interview.current)
  BY <1>1, <1>2 DEF Fresh, Permitted
<1>4. interview \in Interview /\ answers \in Seq(Answer) /\ Total \in Nat /\ loaded \in Seq(Answer)
  BY LoadedRows DEF Base, TypeOK, ParametersOK
<1>5. interview.current \in Nat /\ interview.questions \in Seq(Question)  BY <1>4 DEF Interview
<1>6. \/ interview'.current = interview.current + 1 /\ interview'.status = "in_progress"
      \/ interview'.current = interview.current /\ interview'.status = "completed"
  <2>1. \/ interview' = [interview EXCEPT !.current = interview.current + 1]
        \/ \E qs : interview' = [interview EXCEPT !.followups = "done", !.current = interview.current + 1,
                                                  !.questions = qs]
        \/ \E f : interview' = [interview EXCEPT !.status = "completed", !.followups = f]
    BY <1>3, ZenonT(30) DEF next_question, NextOf
  <2>2. QED  BY <1>2, <1>4, <2>1 DEF Interview
<1>7. \E a \in Of(answers, interview.current) :
          IF interview.current \in Code THEN answers[a].code.submitted ELSE answers[a].status \in Ready
  <2>1. PICK a \in Of(loaded, interview.current) :
            /\ loaded[a].status # "abandoned"
            /\ IF interview.current \in Code THEN loaded[a].code.submitted ELSE loaded[a].status # "recording"
    BY <1>3 DEF Answered
  <2>2. a \in DOMAIN answers /\ Aged(loaded[a], answers[a]) /\ loaded[a].q = interview.current
    BY <1>2, <2>1 DEF Of, Fresh
  <2>3. a \in Of(answers, interview.current)  BY <2>2 DEF Of, Aged
  <2>4. loaded[a] \in Answer  BY <1>2, <1>4, <2>2 DEF Fresh
  <2>5. interview.current \notin Code => loaded[a].status \in Ready  BY <2>1, <2>4 DEF Answer
  <2>6. QED  BY <2>1, <2>2, <2>3, <2>5 DEF Aged, Ready
<1>8. ASSUME NEW q \in Nat \ {0}, q < interview.current \/ q = interview.current
      PROVE  \E a \in Of(answers, q) : IF q \in Code THEN answers[a].code.submitted ELSE answers[a].status \in Ready
  <2>1. CASE q = interview.current  BY <1>7, <2>1
  <2>2. CASE q < interview.current
    <3>1. interview.current <= Len(interview.questions)  BY DEF Base, Shaped
    <3>2. q \in DOMAIN interview.questions  BY <1>5, <1>8, <2>2, <3>1
    <3>3. QED  BY <1>2, <2>2, <3>2 DEF PassedAnswered, Passed, Current
  <2>3. QED  BY <1>8, <2>1, <2>2
<1>9. PassedAnswered'
  <2>1. ASSUME NEW q \in DOMAIN interview'.questions, Passed(q)'
        PROVE  \E a \in Of(answers, q) : IF q \in Code THEN answers[a].code.submitted ELSE answers[a].status \in Ready
    <3>1. Base'  BY BaseNextQuestion
    <3>2. q \in Nat \ {0}
      <4>1. interview' \in Interview  BY <3>1 DEF Base, TypeOK
      <4>2. interview'.questions \in Seq(Question)  BY <4>1 DEF Interview
      <4>3. QED  BY <4>2
    <3>3. q < interview.current \/ q = interview.current  BY <1>5, <1>6, <2>1, <3>2 DEF Passed, Current
    <3>4. QED  BY <1>8, <3>2, <3>3
  <2>2. QED  BY <1>1, <2>1 DEF PassedAnswered
<1>10. Orderly'  BY <1>1, <1>2 DEF Orderly
<1>11. QED  BY <1>2, <1>9, <1>10 DEF Tidy

\* Only the last attempt at a question is not finished.
LEMMA OpenIsLast ==
    ASSUME Base, Orderly, NEW a \in DOMAIN answers, answers[a].status = "recording",
           NEW b \in Of(answers, answers[a].q)
    PROVE  IsLast(answers, a) /\ (IsLast(answers, b) => b = a) /\ answers[b].attempt <= answers[a].attempt
<1>1. IsLast(answers, a)  BY DEF Orderly, OrderlyAt, OrderlyFor
<1>2. answers[a] \in Answer  BY RowFacts
<1>3. Numbered(answers, answers[a].q)  BY <1>2 DEF Base, RowsOK, Answer, Asked
<1>4. b \in DOMAIN answers /\ answers[b].q = answers[a].q /\ a \in Of(answers, answers[a].q)  BY DEF Of
<1>5. answers[b].attempt \in 1 .. Count(answers, answers[a].q)  BY <1>3 DEF Numbered
<1>6. IsLast(answers, b) => b = a  BY <1>1, <1>3, <1>4 DEF Numbered, IsLast
<1>7. QED  BY <1>1, <1>5, <1>6 DEF IsLast

LEMMA TidyComplete == ASSUME ParametersOK, Base, Tidy, NEW r \in Requests, complete_answer(r)  PROVE Tidy'
<1> DEFINE a == req[r].a
           loaded == req[r].answers
           p == answers[a].q
           put == Final([answers[a] EXCEPT !.status = "uploaded"], loaded[a])
<1>1. /\ req[r].op = "complete" /\ Ends(r) /\ UNCHANGED interview
      /\ answers' = [LastIsFinal(answers, a) EXCEPT ![a] = Final([@ EXCEPT !.status = "uploaded"], loaded[a])]
  BY DEF complete_answer
<1>2. Fresh(r) /\ Permitted(r) /\ Orderly /\ PassedAnswered /\ Alone'  BY <1>1, LoadedIsFresh
<1>3. a \in DOMAIN answers /\ answers[a].status = "recording" /\ loaded[a].final = answers[a].final
  BY <1>1, <1>2 DEF Fresh, Permitted, Aged
<1>4. DOMAIN answers' = DOMAIN answers /\ answers'[a] = put
  <2>1. LastIsFinal(answers, a)[a] = answers[a]  BY <1>3 DEF LastIsFinal
  <2>2. a \in DOMAIN LastIsFinal(answers, a) /\ DOMAIN LastIsFinal(answers, a) = DOMAIN answers
    BY <1>3 DEF LastIsFinal
  <2>3. QED  BY <1>1, <2>1, <2>2
<1>5. /\ put.q = p /\ put.attempt = answers[a].attempt /\ put.code = answers[a].code
      /\ put.status = "uploaded" /\ put.final
  <2> DEFINE w == [answers[a] EXCEPT !.status = "uploaded"]
  <2>1. answers[a] \in Answer  BY <1>3, RowFacts
  <2>2. /\ w \in Answer /\ w.q = p /\ w.attempt = answers[a].attempt /\ w.code = answers[a].code
        /\ w.status = "uploaded" /\ w.final = answers[a].final
    BY <2>1 DEF Answer, Ready
  <2>3. (put = w /\ loaded[a].final) \/ put = [w EXCEPT !.final = TRUE]  BY DEF Final
  <2> HIDE DEF put, w
  <2>4. QED  BY <1>3, <2>2, <2>3 DEF Answer
<1>6. ASSUME NEW b \in DOMAIN answers, b # a
      PROVE  /\ answers[b].q # p => answers'[b] = answers[b]
             /\ answers'[b].q = answers[b].q /\ answers'[b].attempt = answers[b].attempt
             /\ answers'[b].code = answers[b].code /\ answers'[b].status = answers[b].status
             /\ answers[b].q = p => ~answers'[b].final
  <2>1. answers[b] \in Answer  BY RowFacts
  <2>2. answers'[b] = LastIsFinal(answers, a)[b]  BY <1>1, <1>6 DEF LastIsFinal
  <2>3. /\ answers[b].q # p => answers'[b] = answers[b]
        /\ answers[b].q = p => answers'[b] = [answers[b] EXCEPT !.final = FALSE]
    BY <1>6, <2>2 DEF LastIsFinal
  <2> HIDE DEF p
  <2>4. QED  BY <2>1, <2>3 DEF Answer
<1> HIDE DEF put
<1>7. \A b \in DOMAIN answers : /\ answers'[b].q = answers[b].q /\ answers'[b].attempt = answers[b].attempt
                                /\ answers'[b].code = answers[b].code
                                /\ answers[b].status \in Ready => answers'[b].status \in Ready
  BY <1>3, <1>4, <1>5, <1>6 DEF Ready
<1>8. \A q : Of(answers', q) = Of(answers, q) /\ Count(answers', q) = Count(answers, q)  BY <1>4, <1>7, SameOf
<1>9. ASSUME NEW b \in DOMAIN answers, answers[b].q = p  PROVE OrderlyAt(answers', b)
  <2>1. b \in Of(answers, p) /\ answers'[b].q = p  BY <1>7, <1>9 DEF Of
  <2>2. IsLast(answers', b) <=> IsLast(answers, b)  BY <1>7, <1>8, <1>9 DEF IsLast
  <2>3. IsLast(answers, a) /\ (IsLast(answers, b) => b = a)  BY <1>2, <1>3, <2>1, OpenIsLast
  <2>4. IF IsLast(answers', b) THEN answers'[b].final ELSE answers'[b].status # "recording"
    <3>1. CASE b = a  BY <1>4, <1>5, <3>1
    <3>2. CASE b # a
      <4>1. answers[b].status # "recording"  BY <1>2, <2>3, <3>2 DEF Orderly, OrderlyAt, OrderlyFor
      <4>2. QED  BY <1>6, <2>2, <2>3, <3>2, <4>1
    <3>3. QED  BY <3>1, <3>2
  <2>5. a \in Of(answers', p) /\ answers'[a].final /\ answers'[a].status \in Ready
    BY <1>3, <1>4, <1>5, <1>8 DEF Of, Ready
  <2>6. ASSUME NEW c \in Of(answers', p)
        PROVE  /\ answers'[b].attempt <= answers'[c].attempt =>
                    /\ answers'[b].code.src # 0 => answers'[c].code.src # 0
                    /\ answers'[b].code.submitted => answers'[c].code.submitted
               /\ answers'[b].final /\ answers'[c].final => b = c
    <3>0. c \in Of(answers, p)  BY <1>8, <2>6
    <3>1. c \in DOMAIN answers /\ answers[c].q = p /\ c \in Of(answers, answers[b].q)  BY <1>9, <3>0 DEF Of
    <3>2. OrderlyAt(answers, b)  BY <1>2 DEF Orderly
    <3>3. answers'[b].final => b = a  BY <1>6, <1>9
    <3>4. answers'[c].final => c = a  BY <1>6, <3>1
    <3>5. QED  BY <1>7, <3>1, <3>2, <3>3, <3>4 DEF OrderlyAt, OrderlyFor
  <2>7. QED  BY <2>1, <2>4, <2>5, <2>6 DEF OrderlyAt, OrderlyFor
<1>10. Orderly'
  <2> HIDE DEF p
  <2>1. \A b \in DOMAIN answers : answers[b].q # p => answers'[b] = answers[b]  BY <1>4, <1>6 DEF p
  <2>2. QED  BY <1>2, <1>4, <1>7, <1>9, <2>1, OrderlyElsewhere
<1>11. PassedAnswered'  BY <1>1, <1>2, <1>4, <1>7, PassedStays
<1>12. QED  BY <1>2, <1>10, <1>11 DEF Tidy

\* The question in hand is not passed yet.
LEMMA CurrentIsOpen ==
    ASSUME ParametersOK, Base, interview.status = "in_progress", NEW q, q = interview.current, PassedAnswered,
           UNCHANGED interview, DOMAIN answers \subseteq DOMAIN answers',
           \A a \in DOMAIN answers : answers[a].q # q => answers'[a] = answers[a]
    PROVE  PassedAnswered'
<1>1. interview \in Interview  BY DEF Base, TypeOK
<1>2. interview.current \in Int /\ ~Passed(q)  BY <1>1 DEF Interview, Passed, Current, ParametersOK
<1>3. QED  BY <1>2, PassedStays

LEMMA TidyReuse ==
    ASSUME ParametersOK, Base, Tidy, NEW r \in Requests, Ends(r), req[r].op = "create",
           UNCHANGED <<interview, jobs, edits, plans, overlaps>>,
           NEW q, q = req[r].interview.current, NEW loaded, loaded = req[r].answers,
           NEW a \in _code_only_answer(loaded, q), answers' = Reused(loaded, q, a)
    PROVE  Tidy'
<1> DEFINE kept == Abandoned(loaded, q, {a})
           put == [Status(kept[a], loaded[a], "recording") EXCEPT !.media = TRUE]
<1>1. /\ \A b \in DOMAIN loaded : RowOK(loaded, b)
      /\ Fresh(r) /\ Orderly /\ PassedAnswered /\ Alone' /\ interview.status = "in_progress"
  BY LoadedRows, LoadedIsFresh
<1>2. /\ a \in DOMAIN answers /\ answers[a].q = q /\ q \in Code /\ Of(loaded, q) = {a} /\ DOMAIN loaded = DOMAIN answers
      /\ interview.current = q /\ \A b \in DOMAIN answers : answers[b].q = loaded[b].q
  BY <1>1, OnlyReusable DEF Fresh, Aged
<1>3. Of(answers, q) = {a}  BY <1>2 DEF Of
<1>4. kept = answers
  <2>1. kept = [b \in DOMAIN answers |-> answers[b]]  BY <1>2 DEF Abandoned
  <2>2. QED  BY <2>1, RowFacts
<1>5. answers' = [answers EXCEPT ![a] = put]  BY <1>4 DEF Reused
<1>6. put.q = q /\ put.attempt = answers[a].attempt /\ put.final = answers[a].final
  <2>1. answers[a] \in Answer  BY <1>2, RowFacts
  <2>2. put = [answers[a] EXCEPT !.media = TRUE] \/ put = [[answers[a] EXCEPT !.status = "recording"] EXCEPT !.media = TRUE]
    BY <1>4 DEF Status
  <2>3. QED  BY <1>2, <2>1, <2>2 DEF Answer
<1> HIDE DEF kept, put
<1>7. /\ DOMAIN answers' = DOMAIN answers /\ answers'[a] = put
      /\ \A b \in DOMAIN answers : b # a => answers'[b] = answers[b]
  BY <1>2, <1>5, RowFacts
<1>8. \A b \in DOMAIN answers : answers[b].q = q => b = a  BY <1>3 DEF Of
<1>9. OrderlyAt(answers', a)
  <2>1. \A b \in DOMAIN answers : answers'[b].q = answers[b].q  BY <1>2, <1>6, <1>7
  <2>2. Of(answers', q) = {a} /\ Count(answers', q) = Count(answers, q)  BY <1>3, <1>7, <2>1, SameOf
  <2>3. IsLast(answers, a)
    <3>1. Cardinality({a}) = 1  BY FS_Singleton
    <3>2. Count(answers, q) = 1  BY <1>3, <3>1 DEF Count
    <3>3. answers[a] \in Answer  BY <1>2, RowFacts
    <3>4. Numbered(answers, q)  BY <1>2, <3>3 DEF Base, RowsOK, Answer, Asked
    <3>5. answers[a].attempt \in 1 .. 1  BY <1>3, <3>2, <3>4 DEF Numbered
    <3>6. QED  BY <1>2, <3>2, <3>5 DEF IsLast
  <2>4. IsLast(answers', a) /\ answers'[a].final
    BY <1>1, <1>2, <1>6, <1>7, <2>2, <2>3 DEF IsLast, Orderly, OrderlyAt, OrderlyFor
  <2>5. QED  BY <1>2, <1>6, <1>7, <2>2, <2>4 DEF OrderlyAt, OrderlyFor
<1>10. Orderly'
  <2>1. \A b \in DOMAIN answers : /\ answers'[b].q = answers[b].q
                                  /\ answers[b].q # q => answers'[b] = answers[b]
    BY <1>2, <1>6, <1>7
  <2>2. \A b \in DOMAIN answers' : answers'[b].q = q => OrderlyAt(answers', b)  BY <1>7, <1>8, <1>9, <2>1
  <2>3. QED  BY <1>1, <1>7, <2>1, <2>2, OrderlyElsewhere
<1>11. PassedAnswered'
  <2>1. \A b \in DOMAIN answers : answers[b].q # q => answers'[b] = answers[b]  BY <1>2, <1>7
  <2>2. QED  BY <1>1, <1>2, <1>7, <2>1, CurrentIsOpen
<1>12. QED  BY <1>1, <1>10, <1>11 DEF Tidy

\* The code a new attempt takes over covers that of the attempts before it.
LEMMA LatestCodeCovers ==
    ASSUME ParametersOK, NEW rows \in Seq(Answer), NEW q, NEW a \in Of(rows, q), rows[a].code.src # 0
    PROVE  \E b \in Of(rows, q) : /\ rows[b].code.src # 0 /\ _latest_code(rows, q) = rows[b].code
                                  /\ rows[a].attempt <= rows[b].attempt
<1> DEFINE S == {c \in Of(rows, q) : rows[c].code.src # 0}
<1>1. a \in S /\ S \subseteq DOMAIN rows  BY DEF Of
<1>2. Latest(rows, S) \in S /\ \A c \in S : rows[c].attempt <= rows[Latest(rows, S)].attempt
  <2> HIDE DEF S
  <2>1. QED  BY <1>1, LatestIn
<1>3. _latest_code(rows, q) = rows[Latest(rows, S)].code  BY <1>1 DEF _latest_code
<1>4. QED  BY <1>1, <1>2, <1>3

LEMMA TidyFreshAttempt ==
    ASSUME ParametersOK, Base, Tidy, NEW r \in Requests, Ends(r), req[r].op = "create",
           UNCHANGED <<interview, jobs, edits, plans, overlaps>>,
           NEW q, q = req[r].interview.current, NEW loaded, loaded = req[r].answers,
           Len(answers) < MaxAnswers, answers' = WithNew(r, loaded, q)
    PROVE  Tidy'
<1> DEFINE kept == Abandoned(loaded, q, {})
<1>1. /\ loaded \in Seq(Answer) /\ answers \in Seq(Answer) /\ Numbered(answers, q)
      /\ Count(loaded, q) \in Nat /\ Count(answers, q) <= Len(answers)
      /\ \A b \in DOMAIN loaded : RowOK(loaded, b)
      /\ Fresh(r) /\ Orderly /\ PassedAnswered /\ Alone' /\ interview.status = "in_progress"
  BY LoadedRows, LoadedIsFresh
<1>2. /\ DOMAIN loaded = DOMAIN answers /\ interview.current = q
      /\ \A b \in DOMAIN answers : Aged(loaded[b], answers[b])
  BY <1>1 DEF Fresh
<1>3. Of(answers, q) = Of(loaded, q) /\ Count(answers, q) = Count(loaded, q)
  <2>1. \A p : Of(answers, p) = Of(loaded, p) /\ Count(answers, p) = Count(loaded, p)  BY <1>2, SameOf DEF Aged
  <2>2. QED  BY <2>1
<1>4. PICK n \in Nat : n = Len(answers) /\ DOMAIN answers = 1 .. n  BY <1>1
<1>5. ASSUME NEW b \in 1 .. n
      PROVE  /\ kept[b] \in Answer /\ kept[b].q = answers[b].q /\ kept[b].attempt = answers[b].attempt
             /\ kept[b].code = answers[b].code
             /\ IF b \in Of(answers, q) /\ answers[b].status = "recording"
                THEN kept[b].status = "abandoned" ELSE kept[b] = answers[b]
  <2>1. IF b \in Of(loaded, q) \ {} /\ loaded[b].status = "recording"
        THEN kept[b].status = "abandoned" ELSE kept[b] = answers[b]
    BY <1>4, AbandonedRow
  <2>2. loaded[b].status = "recording" <=> answers[b].status = "recording"  BY <1>2, <1>4 DEF Aged
  <2>3. QED  BY <1>3, <1>4, <2>1, <2>2, AbandonedRow
<1>6. kept \in Seq(Answer) /\ Len(kept) = n
  <2>1. kept = [b \in 1 .. n |-> kept[b]]  BY <1>4 DEF Abandoned
  <2> HIDE DEF kept
  <2>2. QED  BY <1>4, <1>5, <2>1, MadeOf
<1>7. /\ NewAttempt(r) \in Answer /\ NewAttempt(r).q = q
      /\ NewAttempt(r).attempt = Count(answers, q) + 1
      /\ NewAttempt(r).status = "recording" /\ NewAttempt(r).final
      /\ NewAttempt(r).code = _latest_code(loaded, q)
  <2>1. Count(loaded, q) < MaxAnswers  BY <1>1, <1>3 DEF ParametersOK
  <2>2. NewAttempt(r).final /\ NewAttempt(r).code = _latest_code(loaded, q)  BY DEF NewAttempt
  <2>3. QED  BY <1>3, <2>1, <2>2, NewAttemptIs
<1> HIDE DEF kept
<1>8. /\ DOMAIN answers' = 1 .. n + 1 /\ answers'[n + 1] = NewAttempt(r)
      /\ \A b \in 1 .. n : answers'[b] = kept[b]
  BY <1>4, <1>6, <1>7 DEF kept, WithNew
<1>9. Of(answers', q) = Of(answers, q) \cup {n + 1} /\ Count(answers', q) = Count(answers, q) + 1
  <2>1. IsFiniteSet(DOMAIN answers) /\ n + 1 \notin DOMAIN answers /\ DOMAIN answers' = DOMAIN answers \cup {n + 1}
    BY <1>4, <1>8, FS_Interval
  <2>2. \A b \in DOMAIN answers : answers'[b].q = answers[b].q  BY <1>4, <1>5, <1>8
  <2>3. OneMore(answers, answers', n + 1)  BY <2>1, <2>2 DEF OneMore
  <2>4. CountsFor(answers, answers', n + 1, q)  BY <1>7, <1>8, <2>3, NewOf
  <2>5. QED  BY <2>4 DEF CountsFor
<1>10. \A b \in Of(answers, q) :
           /\ b \in 1 .. n /\ answers[b].q = q /\ answers[b].attempt \in 1 .. Count(answers, q)
           /\ answers'[b].q = q /\ answers'[b].attempt = answers[b].attempt /\ answers'[b].code = answers[b].code
           /\ OrderlyAt(answers, b)
           /\ IF answers[b].status = "recording" THEN answers'[b].status = "abandoned" ELSE answers'[b] = answers[b]
  BY <1>1, <1>4, <1>5, <1>8 DEF Of, Numbered, Orderly
<1>11. \A b \in Of(answers, q) :
           /\ answers[b].code.src # 0 => NewAttempt(r).code.src # 0
           /\ answers[b].code.submitted => NewAttempt(r).code.submitted
  <2>1. SUFFICES ASSUME NEW b \in Of(answers, q), answers[b].code.src # 0 \/ answers[b].code.submitted
                 PROVE  /\ NewAttempt(r).code.src # 0
                        /\ answers[b].code.submitted => NewAttempt(r).code.submitted
    OBVIOUS
  <2>2. b \in Of(loaded, q) /\ loaded[b].code = answers[b].code  BY <1>2, <1>3, <2>1 DEF Aged, Of
  <2>3. loaded[b].code.src # 0  BY <1>1, <2>1, <2>2 DEF RowOK, Of
  <2>4. PICK c \in Of(loaded, q) : /\ loaded[c].code.src # 0 /\ _latest_code(loaded, q) = loaded[c].code
                                   /\ loaded[b].attempt <= loaded[c].attempt
    BY <1>1, <2>2, <2>3, LatestCodeCovers
  <2>5. /\ c \in Of(answers, q) /\ loaded[c].code = answers[c].code
        /\ loaded[c].attempt = answers[c].attempt /\ loaded[b].attempt = answers[b].attempt
    BY <1>2, <1>3, <2>2, <2>4 DEF Aged, Of
  <2>6. answers[b].code.submitted => answers[c].code.submitted  BY <1>10, <2>4, <2>5 DEF OrderlyAt, OrderlyFor
  <2>7. QED  BY <1>7, <2>4, <2>5, <2>6
<1>12. OrderlyAt(answers', n + 1)
  <2>1. IsLast(answers', n + 1) /\ answers'[n + 1].final /\ answers'[n + 1].status \notin Ready
    BY <1>7, <1>8, <1>9 DEF IsLast, Ready
  <2>2. \A b \in Of(answers, q) : ~(answers'[n + 1].attempt <= answers'[b].attempt)
    <3>1. Count(answers, q) \in Nat  BY <1>1, <1>3
    <3>2. QED  BY <1>7, <1>8, <1>10, <3>1
  <2>3. answers'[n + 1].q = q  BY <1>7, <1>8
  <2>4. ASSUME NEW c \in Of(answers', q)
        PROVE  /\ answers'[n + 1].attempt <= answers'[c].attempt => c = n + 1
               /\ answers'[n + 1].final /\ answers'[n + 1].status \in Ready => FALSE
    <3>1. c \in Of(answers, q) \/ c = n + 1  BY <1>9, <2>4
    <3>2. QED  BY <2>1, <2>2, <3>1
  <2>5. OrderlyFor(answers', q, n + 1)  BY <2>1, <2>4 DEF OrderlyFor
  <2>6. QED  BY <2>3, <2>5, Zenon DEF OrderlyAt
<1>13. ASSUME NEW b \in Of(answers, q)  PROVE OrderlyAt(answers', b)
  <2>1. ~IsLast(answers', b) /\ answers'[b].status # "recording"
    <3>1. Count(answers, q) \in Nat  BY <1>1, <1>3
    <3>2. QED  BY <1>9, <1>10, <3>1 DEF IsLast
  <2>2. ASSUME q \notin Code, answers'[b].status \in Ready
        PROVE  \E c \in Of(answers', q) : answers'[c].final /\ answers'[c].status \in Ready
    <3>1. answers[b].status \in Ready  BY <1>10, <2>2 DEF Ready
    <3>2. PICK c \in Of(answers, q) : answers[c].final /\ answers[c].status \in Ready
      BY <1>10, <2>2, <3>1 DEF OrderlyAt, OrderlyFor
    <3>3. answers'[c] = answers[c]  BY <1>10, <3>2 DEF Ready
    <3>4. QED  BY <1>9, <3>2, <3>3
  <2>3. ASSUME NEW c \in Of(answers, q)
        PROVE  /\ answers'[b].attempt <= answers'[c].attempt =>
                    /\ answers'[b].code.src # 0 => answers'[c].code.src # 0
                    /\ answers'[b].code.submitted => answers'[c].code.submitted
               /\ answers'[b].final /\ answers'[b].status \in Ready /\ answers'[c].final /\ answers'[c].status \in Ready
                    => b = c
    <3>1. answers'[b].status \in Ready => answers'[b] = answers[b]  BY <1>10 DEF Ready
    <3>2. answers'[c].status \in Ready => answers'[c] = answers[c]  BY <1>10, <2>3 DEF Ready
    <3>3. OrderlyFor(answers, q, b)
      <4>1. OrderlyAt(answers, b) /\ answers[b].q = q  BY <1>10
      <4>2. QED  BY <4>1, Zenon DEF OrderlyAt
    <3>4. /\ answers'[b].attempt = answers[b].attempt /\ answers'[b].code = answers[b].code
          /\ answers'[c].attempt = answers[c].attempt /\ answers'[c].code = answers[c].code
      BY <1>10, <2>3
    <3>5. answers'[b].attempt <= answers'[c].attempt =>
              /\ answers'[b].code.src # 0 => answers'[c].code.src # 0
              /\ answers'[b].code.submitted => answers'[c].code.submitted
      BY <2>3, <3>3, <3>4 DEF OrderlyFor
    <3>6. answers'[b].final /\ answers'[b].status \in Ready /\ answers'[c].final /\ answers'[c].status \in Ready
              => b = c
      BY <2>3, <3>1, <3>2, <3>3 DEF OrderlyFor
    <3>7. QED  BY <3>5, <3>6
  <2>4. /\ answers'[b].code.src # 0 => answers'[n + 1].code.src # 0
        /\ answers'[b].code.submitted => answers'[n + 1].code.submitted
        /\ answers'[n + 1].status \notin Ready
    <3>1. answers'[n + 1] = NewAttempt(r) /\ NewAttempt(r).status = "recording"  BY <1>7, <1>8
    <3>2. answers'[b].code = answers[b].code  BY <1>10
    <3>3. /\ answers[b].code.src # 0 => NewAttempt(r).code.src # 0
          /\ answers[b].code.submitted => NewAttempt(r).code.submitted
      BY <1>11
    <3>4. QED  BY <3>1, <3>2, <3>3 DEF Ready
  <2>5. ASSUME NEW c \in Of(answers', q)
        PROVE  /\ answers'[b].attempt <= answers'[c].attempt =>
                    /\ answers'[b].code.src # 0 => answers'[c].code.src # 0
                    /\ answers'[b].code.submitted => answers'[c].code.submitted
               /\ answers'[b].final /\ answers'[b].status \in Ready /\ answers'[c].final /\ answers'[c].status \in Ready
                    => b = c
    <3>1. c \in Of(answers, q) \/ c = n + 1  BY <1>9, <2>5
    <3>2. CASE c = n + 1  BY <2>4, <3>2
    <3>3. QED  BY <2>3, <3>1, <3>2
  <2>6. answers'[b].q = q  BY <1>10
  <2>7. OrderlyFor(answers', q, b)  BY <2>1, <2>2, <2>5 DEF OrderlyFor
  <2>8. QED  BY <2>6, <2>7, Zenon DEF OrderlyAt
<1>14. /\ DOMAIN answers \subseteq DOMAIN answers'
       /\ \A b \in DOMAIN answers : /\ answers'[b].q = answers[b].q
                                    /\ answers[b].q # q => answers'[b] = answers[b]
       /\ \A b \in DOMAIN answers' : b \in DOMAIN answers \/ b = n + 1
  <2>1. \A b \in DOMAIN answers : answers'[b].q = answers[b].q /\ (answers[b].q # q => answers'[b] = answers[b])
    BY <1>4, <1>5, <1>8 DEF Of
  <2>2. QED  BY <1>4, <1>8, <2>1
<1>15. Orderly'
  <2>1. \A b \in DOMAIN answers' : answers'[b].q = q => OrderlyAt(answers', b)
    BY <1>12, <1>13, <1>14 DEF Of
  <2>2. \A b \in DOMAIN answers' : b \in DOMAIN answers \/ answers'[b].q = q  BY <1>7, <1>8, <1>14
  <2>3. /\ DOMAIN answers \subseteq DOMAIN answers' /\ Orderly
        /\ \A b \in DOMAIN answers : /\ answers'[b].q = answers[b].q
                                     /\ answers[b].q # q => answers'[b] = answers[b]
    BY <1>1, <1>14
  <2>4. QED  BY <2>1, <2>2, <2>3, OrderlyElsewhere
<1>16. PassedAnswered'  BY <1>1, <1>2, <1>14, CurrentIsOpen
<1>17. QED  BY <1>1, <1>15, <1>16 DEF Tidy

\* What storing code leaves as it is.
LEMMA CodeSavedRest ==
    ASSUME NEW rows \in Seq(Answer), NEW was, NEW a \in DOMAIN rows, NEW src \in 0 .. MaxEdits,
           NEW submit \in BOOLEAN, was[a].code.submitted \in BOOLEAN, NEW b \in DOMAIN rows
    PROVE  LET new == CodeSaved(rows, was, a, src, submit)
           IN /\ IF submit /\ ~was[a].media THEN rows[b].q # rows[a].q => new[b] = rows[b]
                 ELSE (b # a => new[b] = rows[b]) /\ new[b].final = rows[b].final /\ new[b].status = rows[b].status
              /\ b = a /\ rows[a].final /\ was[a].final => new[a].final
<1> DEFINE put == CodePut(rows, was, a, src, submit)
           c == CodeOf(was, a, src, submit)
           new == CodeSaved(rows, was, a, src, submit)
<1>1. c \in CodeSubmission
  <2>1. (submit \/ was[a].code.submitted) \in BOOLEAN  OBVIOUS
  <2>2. QED  BY <2>1 DEF CodeOf, CodeSubmission
<1>2. \A d \in DOMAIN rows : d # a => put[d] = rows[d]
  <2>1. put = rows \/ put = [rows EXCEPT ![a] = [rows[a] EXCEPT !.code = c]]  BY DEF CodePut
  <2> HIDE DEF put
  <2>2. QED  BY <2>1
<1>3. /\ DOMAIN put = DOMAIN rows /\ put[a] \in Answer /\ put[a].final = rows[a].final
      /\ put[a].status = rows[a].status /\ put[a].q = rows[a].q
  <2>1. rows[a] \in Answer  OBVIOUS
  <2> DEFINE w == [rows[a] EXCEPT !.code = c]
  <2>2. w \in Answer /\ w.final = rows[a].final /\ w.status = rows[a].status /\ w.q = rows[a].q
    <3> HIDE DEF c
    <3>1. QED  BY <1>1, <2>1 DEF Answer
  <2>3. put = rows \/ put = [rows EXCEPT ![a] = w]  BY DEF CodePut
  <2> HIDE DEF put, w
  <2>4. put[a] = rows[a] \/ put[a] = w  BY <2>3
  <2>5. DOMAIN put = DOMAIN rows  BY <2>3
  <2>6. QED  BY <2>1, <2>2, <2>4, <2>5
<1>4. IF submit /\ ~was[a].media THEN new = Finished(put, was, a) ELSE new = put  BY DEF CodeSaved
<1> HIDE DEF put, c, new
<1>5. CASE submit /\ ~was[a].media
  <2>1. rows[b].q # rows[a].q => new[b] = rows[b]  BY <1>2, <1>3, <1>4, <1>5 DEF Finished
  <2>2. ASSUME rows[a].final, was[a].final  PROVE new[a].final
    <3>1. new[a] = put[a] \/ new[a] = [put[a] EXCEPT !.status = "done"]
      BY <1>3, <1>4, <1>5, <2>2 DEF Finished, Final, Status
    <3>2. QED  BY <1>3, <2>2, <3>1 DEF Answer
  <2>3. QED  BY <1>5, <2>1, <2>2 DEF new
<1>6. CASE ~(submit /\ ~was[a].media)
  <2>1. new = put  BY <1>4, <1>6
  <2>2. b # a => new[b] = rows[b]  BY <1>2, <2>1
  <2>3. new[b].final = rows[b].final /\ new[b].status = rows[b].status
    BY <1>2, <1>3, <2>1
  <2>4. QED  BY <1>6, <2>2, <2>3 DEF new
<1>7. QED  BY <1>5, <1>6

\* Code goes to the last attempt.
LEMMA LatestIsLast ==
    ASSUME NEW rows \in Seq(Answer), NEW q, Numbered(rows, q), \A b \in DOMAIN rows : RowOK(rows, b),
           NEW a \in _code_answer(rows, q), \A b \in _code_answer(rows, q) : rows[b].attempt <= rows[a].attempt
    PROVE  IsLast(rows, a)
<1>1. Count(rows, q) \in Nat
  <2>1. Len(rows) \in Nat /\ DOMAIN rows = 1 .. Len(rows)  OBVIOUS
  <2>2. QED  BY <2>1, OfFinite
<1>2. a \in Of(rows, q) /\ a \in DOMAIN rows /\ rows[a].q = q  BY DEF _code_answer, Of
<1>3. rows[a].attempt \in 1 .. Count(rows, q)  BY <1>2 DEF Numbered
<1>4. Count(rows, q) \in 1 .. Count(rows, q)  BY <1>1, <1>3
<1>5. PICK b \in Of(rows, q) : rows[b].attempt = Count(rows, q)  BY <1>4 DEF Numbered
<1>6. b \in DOMAIN rows /\ rows[b].q = q  BY <1>5 DEF Of
<1>7. rows[b].status # "abandoned"  BY <1>5, <1>6 DEF RowOK, IsLast
<1>8. b \in _code_answer(rows, q)  BY <1>5, <1>7 DEF _code_answer
<1>9. rows[a].attempt = Count(rows, q)  BY <1>1, <1>3, <1>5, <1>8
<1>10. QED  BY <1>2, <1>9 DEF IsLast

LEMMA TidyCodeChanged ==
    ASSUME ParametersOK, Base, Tidy, NEW r \in Requests, Ends(r), req[r].op = "code",
           UNCHANGED <<interview, jobs, live, edits, plans, overlaps>>,
           NEW q \in Code, q = req[r].interview.current, NEW loaded, loaded = req[r].answers,
           NEW a \in _code_answer(loaded, q), \A b \in _code_answer(loaded, q) : loaded[b].attempt <= loaded[a].attempt,
           NEW src \in 1 .. MaxEdits, NEW submit \in BOOLEAN,
           answers' = CodeSaved(answers, loaded, a, src, submit)
    PROVE  Tidy'
<1>1. /\ loaded \in Seq(Answer) /\ answers \in Seq(Answer) /\ Numbered(loaded, q) /\ Numbered(answers, q)
      /\ \A b \in DOMAIN loaded : loaded[b] \in Answer /\ RowOK(loaded, b)
      /\ Fresh(r) /\ Orderly /\ PassedAnswered /\ Alone' /\ interview.status = "in_progress"
  BY LoadedRows, LoadedIsFresh
<1>2. /\ DOMAIN loaded = DOMAIN answers /\ interview.current = q
      /\ \A b \in DOMAIN answers : Aged(loaded[b], answers[b])
  BY <1>1 DEF Fresh
<1>3. Of(answers, q) = Of(loaded, q) /\ Count(answers, q) = Count(loaded, q)
  <2>1. \A p : Of(answers, p) = Of(loaded, p) /\ Count(answers, p) = Count(loaded, p)  BY <1>2, SameOf DEF Aged
  <2>2. QED  BY <2>1
<1>4. /\ a \in DOMAIN answers /\ a \in Of(answers, q) /\ answers[a].q = q /\ loaded[a].q = q
      /\ answers[a].code = loaded[a].code /\ answers[a].final = loaded[a].final
  BY <1>2, <1>3 DEF _code_answer, Of, Aged
<1>5. IsLast(answers, a) /\ answers[a].final
  <2>1. IsLast(loaded, a)  BY <1>1, LatestIsLast
  <2>2. answers[a].attempt = loaded[a].attempt  BY <1>2, <1>4 DEF Aged
  <2>3. IsLast(answers, a)  BY <1>3, <1>4, <2>1, <2>2 DEF IsLast
  <2>4. QED  BY <1>1, <1>4, <2>3 DEF Orderly, OrderlyAt, OrderlyFor
<1>6. loaded[a].code.submitted \in BOOLEAN /\ src \in 0 .. MaxEdits /\ src # 0
  <2>1. loaded[a] \in Answer /\ MaxEdits \in Nat  BY <1>1, <1>2, <1>4 DEF ParametersOK
  <2>2. loaded[a].code \in CodeSubmission  BY <2>1 DEF Answer
  <2>3. loaded[a].code.submitted \in BOOLEAN  BY <2>2 DEF CodeSubmission
  <2>4. QED  BY <2>1, <2>3
<1>7. /\ DOMAIN answers' = DOMAIN answers
      /\ \A b \in DOMAIN answers : CodeWritten(loaded, answers[b], answers'[b], a, b, src, submit)
  <2>1. LET new == CodeSaved(answers, loaded, a, src, submit)
        IN /\ new = [b \in DOMAIN answers |-> new[b]]
           /\ \A b \in DOMAIN answers : CodeWritten(loaded, answers[b], new[b], a, b, src, submit)
    BY <1>1, <1>4, <1>6, CodeSavedRow
  <2>2. QED  BY <2>1
<1>8. ASSUME NEW b \in DOMAIN answers
      PROVE  /\ IF submit /\ ~loaded[a].media THEN answers[b].q # q => answers'[b] = answers[b]
                ELSE (b # a => answers'[b] = answers[b]) /\ answers'[b].final = answers[b].final
                        /\ answers'[b].status = answers[b].status
             /\ answers'[a].final
  <2> DEFINE new == CodeSaved(answers, loaded, a, src, submit)
  <2>1. answers \in Seq(Answer) /\ a \in DOMAIN answers /\ src \in 0 .. MaxEdits /\ loaded[a].code.submitted \in BOOLEAN
    BY <1>1, <1>4, <1>6
  <2>2. IF submit /\ ~loaded[a].media THEN answers[b].q # answers[a].q => new[b] = answers[b]
        ELSE (b # a => new[b] = answers[b]) /\ new[b].final = answers[b].final /\ new[b].status = answers[b].status
    BY <2>1, <1>8, CodeSavedRest
  <2>3. a = a /\ answers[a].final /\ loaded[a].final => new[a].final  BY <2>1, CodeSavedRest
  <2> HIDE DEF new
  <2>4. answers' = new  BY DEF new
  <2>5. QED  BY <1>4, <1>5, <2>2, <2>3, <2>4
<1>9. \A b \in DOMAIN answers : answers'[b].q = answers[b].q /\ answers'[b].attempt = answers[b].attempt
  BY <1>7 DEF CodeWritten, SameButCode
<1>10. Of(answers', q) = Of(answers, q) /\ Count(answers', q) = Count(answers, q)
  <2>1. \A p : Of(answers', p) = Of(answers, p) /\ Count(answers', p) = Count(answers, p)  BY <1>7, <1>9, SameOf
  <2>2. QED  BY <2>1
<1>11. \A b \in DOMAIN answers : answers[b].q # q => answers'[b] = answers[b]  BY <1>4, <1>8
<1>12. /\ answers'[a].code.src # 0
       /\ answers[a].code.submitted => answers'[a].code.submitted
  <2>1. answers'[a].code = CodeOf(loaded, a, src, submit)  BY <1>4, <1>7 DEF CodeWritten
  <2>2. QED  BY <1>4, <1>6, <2>1 DEF CodeOf
<1>13. IsLast(answers', a)  BY <1>4, <1>5, <1>9, <1>10 DEF IsLast
<1>14. ASSUME NEW b \in Of(answers, q)  PROVE OrderlyFor(answers', q, b)
  <2>1. b \in DOMAIN answers /\ answers[b].q = q  BY <1>14 DEF Of
  <2>2. OrderlyFor(answers, q, b)
    <3>1. OrderlyAt(answers, b)  BY <1>1, <2>1 DEF Orderly
    <3>2. QED  BY <2>1, <3>1, Zenon DEF OrderlyAt
  <2>3. CASE submit /\ ~loaded[a].media
    <3>1. Of(loaded, q) = {a}  BY <1>1, <1>2, <1>4, <2>3 DEF RowOK
    <3>2. b = a /\ Of(answers', q) = {a}  BY <1>3, <1>10, <1>14, <3>1
    <3>3. QED  BY <1>8, <1>13, <2>1, <3>2 DEF OrderlyFor
  <2>4. CASE ~(submit /\ ~loaded[a].media)
    <3>1. \A c \in Of(answers, q) : /\ c # a => answers'[c] = answers[c]
                                    /\ answers'[c].final = answers[c].final
                                    /\ answers'[c].status = answers[c].status
                                    /\ answers'[c].attempt = answers[c].attempt
      BY <1>8, <1>9, <2>4 DEF Of
    <3>2. IsLast(answers', b) <=> IsLast(answers, b)  BY <1>9, <1>10, <2>1 DEF IsLast
    <3>3. ASSUME NEW c \in Of(answers, q), answers'[b].attempt <= answers'[c].attempt
          PROVE  /\ answers'[b].code.src # 0 => answers'[c].code.src # 0
                 /\ answers'[b].code.submitted => answers'[c].code.submitted
      <4>1. /\ answers[b].code.src # 0 => answers[c].code.src # 0
            /\ answers[b].code.submitted => answers[c].code.submitted
        BY <1>14, <2>2, <3>1, <3>3 DEF OrderlyFor
      <4>2. CASE b = a
        <5>1. c = a
          <6>1. answers[a].attempt <= answers[c].attempt  BY <1>4, <3>1, <3>3, <4>2
          <6>2. answers[a].attempt = Count(answers, q)  BY <1>4, <1>5 DEF IsLast
          <6>3. answers[c].attempt \in 1 .. Count(answers, q)  BY <1>1, <3>3 DEF Numbered
          <6>4. Count(answers, q) \in Nat  BY LoadedRows
          <6>5. QED  BY <1>1, <1>4, <3>3, <6>1, <6>2, <6>3, <6>4 DEF Numbered
        <5>2. QED  BY <4>2, <5>1
      <4>3. CASE b # a /\ c = a  BY <1>12, <1>14, <3>1, <4>1, <4>3
      <4>4. CASE b # a /\ c # a  BY <1>14, <3>1, <3>3, <4>1, <4>4
      <4>5. QED  BY <4>2, <4>3, <4>4
    <3>4. \A c \in Of(answers, q) : answers'[b].final /\ answers'[b].status \in Ready
                                    /\ answers'[c].final /\ answers'[c].status \in Ready => b = c
      BY <1>14, <2>2, <3>1 DEF OrderlyFor
    <3>5. IF IsLast(answers', b) THEN answers'[b].final ELSE answers'[b].status # "recording"
      BY <1>14, <2>2, <3>1, <3>2 DEF OrderlyFor
    <3>6. QED  BY <1>10, <3>3, <3>4, <3>5 DEF OrderlyFor
  <2>5. QED  BY <2>3, <2>4
<1>15. Orderly'
  <2>1. \A b \in DOMAIN answers' : answers'[b].q = q => OrderlyAt(answers', b)
    <3>1. ASSUME NEW b \in DOMAIN answers', answers'[b].q = q  PROVE OrderlyAt(answers', b)
      <4>1. b \in Of(answers, q)  BY <1>7, <1>9, <3>1 DEF Of
      <4>2. OrderlyFor(answers', q, b)  BY <1>14, <4>1
      <4>3. QED  BY <3>1, <4>2, Zenon DEF OrderlyAt
    <3>2. QED  BY <3>1
  <2>2. \A b \in DOMAIN answers' : b \in DOMAIN answers \/ answers'[b].q = q  BY <1>7
  <2>3. /\ DOMAIN answers \subseteq DOMAIN answers' /\ Orderly
        /\ \A b \in DOMAIN answers : /\ answers'[b].q = answers[b].q
                                     /\ answers[b].q # q => answers'[b] = answers[b]
    BY <1>1, <1>7, <1>9, <1>11
  <2>4. QED  BY <2>1, <2>2, <2>3, OrderlyElsewhere
<1>16. PassedAnswered'
  <2>1. DOMAIN answers \subseteq DOMAIN answers'  BY <1>7
  <2>2. QED  BY <1>1, <1>2, <1>11, <2>1, CurrentIsOpen
<1>17. QED  BY <1>1, <1>15, <1>16 DEF Tidy

\* The only attempt at a question with code.
LEMMA OnlyOneIsOrderly ==
    ASSUME NEW rows, NEW q \in Code, NEW k, Of(rows, q) = {k}, IsLast(rows, k), rows[k].final
    PROVE  OrderlyFor(rows, q, k)
BY DEF OrderlyFor

LEMMA TidyCodeFirst ==
    ASSUME ParametersOK, Base, Tidy, NEW r \in Requests, Ends(r), req[r].op = "code",
           UNCHANGED <<interview, jobs, live, edits, plans, overlaps>>,
           NEW q \in Code, q = req[r].interview.current, NEW loaded, loaded = req[r].answers,
           NEW src \in 1 .. MaxEdits, NEW submit \in BOOLEAN, FirstCode(q, loaded, src, submit)
    PROVE  Tidy'
<1> DEFINE rows == WithCode(q, Count(loaded, q) + 1)
<1>0. /\ _code_answer(loaded, q) = {} /\ Unique(q, Count(loaded, q) + 1) /\ Len(answers) < MaxAnswers
      /\ answers' = CodeSaved(rows, rows, Len(rows), src, submit)
  BY DEF FirstCode
<1>1. /\ loaded \in Seq(Answer) /\ answers \in Seq(Answer) /\ Numbered(loaded, q) /\ q \in Asked
      /\ \A b \in DOMAIN loaded : RowOK(loaded, b)
      /\ Fresh(r) /\ Orderly /\ PassedAnswered /\ Alone' /\ interview.status = "in_progress"
      /\ interview.current = q
  <2>1. Fresh(r) /\ Orderly /\ PassedAnswered /\ Alone' /\ interview.status = "in_progress"  BY LoadedIsFresh
  <2>2. interview.current = q  BY <2>1 DEF Fresh
  <2>3. QED  BY <2>1, <2>2, LoadedRows
<1>2. Of(loaded, q) = {} /\ Count(loaded, q) = 0  BY <1>0, <1>1, NoAttempt
<1>3. Of(answers, q) = {}  BY <1>0, <1>2, FreeNumber DEF NoneSince
<1>4. PICK n \in Nat : n = Len(answers) /\ n < MaxAnswers /\ DOMAIN answers = 1 .. n  BY <1>0, <1>1
<1>5. /\ rows \in Seq(Answer) /\ Len(rows) = n + 1 /\ DOMAIN rows = 1 .. n + 1
      /\ \A b \in 1 .. n : rows[b] = answers[b]
      /\ rows[n + 1].q = q /\ rows[n + 1].attempt = 1 /\ rows[n + 1].final /\ rows[n + 1].code = NoCode
  <2>1. rows = WithCode(q, 1)  BY <1>2
  <2> HIDE DEF rows
  <2>2. answers \in Seq(Answer) /\ n = Len(answers) /\ n < MaxAnswers /\ q \in Asked  BY <1>1, <1>4
  <2>3. QED  BY <2>1, <2>2, WithCodeIs
<1> HIDE DEF rows
<1>6. PICK k \in DOMAIN rows : k = n + 1  BY <1>4, <1>5
<1>7. src \in 0 .. MaxEdits /\ rows[k].code.submitted \in BOOLEAN /\ rows \in Seq(Answer)
  <2>1. src \in 0 .. MaxEdits  BY DEF ParametersOK
  <2>2. rows[k].code.submitted = FALSE  BY <1>5, <1>6 DEF NoCode
  <2>3. QED  BY <1>5, <2>1, <2>2
<1>8. DOMAIN answers' = 1 .. n + 1 /\ \A b \in DOMAIN rows : SameButCode(rows[b], answers'[b])
  <2>1. LET new == CodeSaved(rows, rows, k, src, submit)
        IN /\ new = [b \in DOMAIN rows |-> new[b]]
           /\ \A b \in DOMAIN rows : CodeWritten(rows, rows[b], new[b], k, b, src, submit)
    BY <1>7, CodeSavedRow
  <2>2. answers' = CodeSaved(rows, rows, k, src, submit)  BY <1>0, <1>5, <1>6
  <2>3. QED  BY <1>5, <2>1, <2>2 DEF CodeWritten
<1>9. ASSUME NEW b \in DOMAIN rows
      PROVE  (rows[b].q # q => answers'[b] = rows[b]) /\ answers'[k].final
  <2> DEFINE new == CodeSaved(rows, rows, k, src, submit)
  <2>1. IF submit /\ ~rows[k].media THEN rows[b].q # rows[k].q => new[b] = rows[b]
        ELSE (b # k => new[b] = rows[b]) /\ new[b].final = rows[b].final /\ new[b].status = rows[b].status
    BY <1>7, <1>9, CodeSavedRest
  <2>2. k = k /\ rows[k].final /\ rows[k].final => new[k].final  BY <1>7, CodeSavedRest
  <2> HIDE DEF new
  <2>3. answers' = new  BY <1>0, <1>5, <1>6 DEF new
  <2>4. QED  BY <1>5, <1>6, <2>1, <2>2, <2>3
<1>10. /\ DOMAIN answers \subseteq DOMAIN answers'
       /\ \A b \in DOMAIN answers : /\ answers'[b].q = answers[b].q /\ answers[b].q # q
                                    /\ answers'[b] = answers[b]
       /\ \A b \in DOMAIN answers' : b \in DOMAIN answers \/ b = k
       /\ answers'[k].q = q /\ answers'[k].attempt = 1 /\ k \in DOMAIN answers'
  <2>1. ASSUME NEW b \in 1 .. n
        PROVE  answers'[b].q = answers[b].q /\ answers[b].q # q /\ answers'[b] = answers[b]
    <3>1. b \in DOMAIN rows /\ rows[b] = answers[b] /\ b \in DOMAIN answers  BY <1>4, <1>5
    <3>2. answers[b].q # q  BY <1>3, <3>1 DEF Of
    <3>3. QED  BY <1>9, <3>1, <3>2
  <2>2. answers'[k].q = q /\ answers'[k].attempt = 1  BY <1>5, <1>6, <1>8 DEF SameButCode
  <2>3. QED  BY <1>4, <1>6, <1>8, <2>1, <2>2
<1>11. Of(answers', q) = {k}  BY <1>10 DEF Of
<1>12. OrderlyFor(answers', q, k)
  <2>1. IsLast(answers', k)
    <3>1. Cardinality({k}) = 1  BY FS_Singleton
    <3>2. QED  BY <1>10, <1>11, <3>1 DEF IsLast, Count
  <2>2. QED  BY <1>6, <1>9, <1>11, <2>1, OnlyOneIsOrderly
<1>13. Orderly'
  <2>1. OrderlyAt(answers', k)  BY <1>10, <1>12, Zenon DEF OrderlyAt
  <2>2. \A b \in DOMAIN answers' : answers'[b].q = q => OrderlyAt(answers', b)  BY <1>10, <2>1
  <2>3. \A b \in DOMAIN answers' : b \in DOMAIN answers \/ answers'[b].q = q  BY <1>10
  <2>4. /\ DOMAIN answers \subseteq DOMAIN answers' /\ Orderly
        /\ \A b \in DOMAIN answers : /\ answers'[b].q = answers[b].q
                                     /\ answers[b].q # q => answers'[b] = answers[b]
    BY <1>1, <1>10
  <2>5. QED  BY <2>2, <2>3, <2>4, OrderlyElsewhere
<1>14. PassedAnswered'  BY <1>1, <1>10, CurrentIsOpen
<1>15. QED  BY <1>1, <1>13, <1>14 DEF Tidy

LEMMA TidyCreate == ASSUME ParametersOK, Base, Tidy, NEW r \in Requests, create_answer(r)  PROVE Tidy'
<1> DEFINE q == req[r].interview.current
           loaded == req[r].answers
           reusable == _code_only_answer(loaded, q)
           a == Latest(loaded, reusable)
<1>1. req[r].op = "create" /\ Ends(r) /\ UNCHANGED <<interview, jobs, edits, plans, overlaps>>
  BY Zenon DEF create_answer
<1>2. \/ reusable # {} /\ answers' = Reused(loaded, q, a)
      \/ Len(answers) < MaxAnswers /\ answers' = WithNew(r, loaded, q)
      \/ UNCHANGED answers
  BY ZenonT(30) DEF create_answer, Reused, WithNew, NewAttempt, Count
<1>3. loaded \in Seq(Answer)  BY LoadedRows
<1>4. CASE reusable # {} /\ answers' = Reused(loaded, q, a)
  <2>1. reusable \subseteq DOMAIN loaded  BY DEF _code_only_answer, Of
  <2>2. a \in reusable  BY <1>3, <1>4, <2>1, LatestIn
  <2> HIDE DEF q, loaded, a
  <2>3. q = req[r].interview.current /\ loaded = req[r].answers  BY DEF q, loaded
  <2>4. QED  BY <1>1, <1>4, <2>2, <2>3, TidyReuse
<1>5. CASE Len(answers) < MaxAnswers /\ answers' = WithNew(r, loaded, q)
  <2> HIDE DEF q, loaded
  <2>1. q = req[r].interview.current /\ loaded = req[r].answers  BY DEF q, loaded
  <2>2. QED  BY <1>1, <1>5, <2>1, TidyFreshAttempt
<1>6. CASE UNCHANGED answers
  <2>1. Orderly /\ PassedAnswered /\ Alone'  BY <1>1, LoadedIsFresh
  <2>2. QED  BY <1>1, <1>6, <2>1, NothingWritten DEF Tidy
<1>7. QED  BY <1>2, <1>4, <1>5, <1>6

LEMMA TidySaveCode == ASSUME ParametersOK, Base, Tidy, NEW r \in Requests, save_code(r)  PROVE Tidy'
<1> DEFINE q == req[r].interview.current
           loaded == req[r].answers
           src == req[r].src
           submit == req[r].submit
           a == Latest(loaded, _code_answer(loaded, q))
<1>1. req[r].op = "code" /\ Ends(r) /\ UNCHANGED <<interview, jobs, live, edits, plans, overlaps>>
  BY Zenon DEF save_code
<1>2. \/ _code_answer(loaded, q) # {} /\ answers' = CodeSaved(answers, loaded, a, src, submit)
      \/ FirstCode(q, loaded, src, submit)
      \/ UNCHANGED answers
  BY ZenonT(30) DEF save_code, FirstCode, CodeSaved, CodePut, CodeOf, WithCode, Count
<1>3. q \in Code /\ src \in 1 .. MaxEdits /\ submit \in BOOLEAN
  <2>1. Permitted(r) /\ req[r] \in Request  BY DEF Base, TypeOK
  <2>2. QED  BY <1>1, <2>1 DEF Permitted, Request
<1>4. loaded \in Seq(Answer)  BY LoadedRows
<1>5. CASE _code_answer(loaded, q) # {} /\ answers' = CodeSaved(answers, loaded, a, src, submit)
  <2>1. _code_answer(loaded, q) \subseteq DOMAIN loaded  BY DEF _code_answer, Of
  <2>2. /\ a \in _code_answer(loaded, q)
        /\ \A b \in _code_answer(loaded, q) : loaded[b].attempt <= loaded[a].attempt
    BY <1>4, <1>5, <2>1, LatestIn
  <2>3. q = req[r].interview.current /\ loaded = req[r].answers  BY DEF q, loaded
  <2> HIDE DEF q, loaded, a, src, submit
  <2>4. QED  BY <1>1, <1>3, <1>5, <2>2, <2>3, TidyCodeChanged
<1>6. CASE FirstCode(q, loaded, src, submit)
  <2>1. q = req[r].interview.current /\ loaded = req[r].answers  BY DEF q, loaded
  <2> HIDE DEF q, loaded, src, submit
  <2>2. QED  BY <1>1, <1>3, <1>6, <2>1, TidyCodeFirst
<1>7. CASE UNCHANGED answers
  <2>1. Orderly /\ PassedAnswered /\ Alone'  BY <1>1, LoadedIsFresh
  <2>2. QED  BY <1>1, <1>7, <2>1, NothingWritten DEF Tidy
<1>8. QED  BY <1>2, <1>5, <1>6, <1>7

\* Overlaps are only counted up, when a request begins.
LEMMA OverlapsGrow ==
    ASSUME Base, [Next]_vars, overlaps' = 0
    PROVE  overlaps = 0
<1>1. overlaps \in Nat  BY DEF Base, TypeOK
<1>2. overlaps' = overlaps \/ overlaps' = overlaps + 1
  <2>1. ASSUME NEW r \in Requests, NEW x, Begin(r, x)  PROVE overlaps' = overlaps \/ overlaps' = overlaps + 1
    BY <2>1, Zenon DEF Begin
  <2>2. ASSUME NEW r \in Requests, RequestStep(r)  PROVE overlaps' = overlaps \/ overlaps' = overlaps + 1
    <3>1. CASE Handlers(r)
      BY <3>1, Zenon DEF Handlers, create_answer, complete_answer, save_code, next_question
    <3>2. CASE \E x : Begin(r, x)  BY <2>1, <3>2
    <3>3. QED  BY <2>2, <3>1, <3>2, Zenon DEF RequestStep, BeginCreate, BeginNext, BeginComplete, BeginCode
  <2>3. ASSUME NEW a \in DOMAIN answers, append_chunk(a) \/ Processed(a)  PROVE overlaps' = overlaps
    BY <2>3, Zenon DEF append_chunk, Processed
  <2>4. PageLost => overlaps' = overlaps  BY Zenon DEF PageLost
  <2>5. UNCHANGED vars => overlaps' = overlaps  BY DEF vars
  <2>6. QED  BY <2>2, <2>3, <2>4, <2>5, Steps
<1>3. QED  BY <1>1, <1>2

LEMMA TidyStays == ASSUME ParametersOK, Base, Tidy, [Next]_vars, overlaps' = overlaps  PROVE Tidy'
<1>1. CASE UNCHANGED vars  BY <1>1, TidySame DEF vars
<1>2. ASSUME NEW r \in Requests, RequestStep(r)  PROVE Tidy'
  <2>1. CASE BeginCreate(r) \/ BeginNext(r) \/ \E a \in live : BeginComplete(r, a)  BY <2>1, TidyBegins
  <2>2. CASE \E src \in 1 .. MaxEdits, submit \in BOOLEAN : src \in {edits, edits + 1} /\ BeginCode(r, src, submit)
    BY <2>2, TidyBegins
  <2>3. CASE create_answer(r)  BY <2>3, TidyCreate
  <2>4. CASE complete_answer(r)  BY <2>4, TidyComplete
  <2>5. CASE save_code(r)  BY <2>5, TidySaveCode
  <2>6. CASE next_question(r)  BY <2>6, TidyNextQuestion
  <2>7. QED  BY <1>2, <2>1, <2>2, <2>3, <2>4, <2>5, <2>6 DEF RequestStep, Handlers
<1>3. ASSUME NEW a \in DOMAIN answers, append_chunk(a) \/ Processed(a)  PROVE Tidy'
  BY <1>3, TidyChunk, TidyProcessed
<1>4. CASE PageLost  BY <1>4, TidySame DEF PageLost
<1>5. CASE Next  BY <1>2, <1>3, <1>4, <1>5, Steps
<1>6. QED  BY <1>1, <1>5

LEMMA TidyInit == ASSUME ParametersOK, Init  PROVE Tidy
<1>1. /\ interview = Begun /\ answers = <<>> /\ \A r \in Requests : req[r] = Idle  BY DEF Init
<1>2. Alone
  <2>1. Idle.op = "idle"  BY DEF Idle
  <2>2. QED  BY <1>1, <2>1 DEF Alone
<1>3. Orderly
  <2>1. DOMAIN answers = {}  BY <1>1
  <2>2. QED  BY <2>1 DEF Orderly
<1>4. PassedAnswered
  <2>1. /\ interview.status = "in_progress" /\ interview.current = 1
        /\ DOMAIN interview.questions = 1 .. Total /\ Total \in Nat
    BY <1>1 DEF Begun, ParametersOK
  <2>2. \A q \in DOMAIN interview.questions : ~Passed(q)  BY <2>1 DEF Passed, Current
  <2>3. QED  BY <2>2 DEF PassedAnswered
<1>5. QED  BY <1>2, <1>3, <1>4 DEF Tidy

\* The last attempt at a question has the code of those before it, and is final.
LEMMA LastIsFinalOne ==
    ASSUME ParametersOK, Base, Orderly, NEW q \in Asked, NEW a \in Of(answers, q)
    PROVE  \E l \in Of(answers, q) : /\ answers[l].final /\ answers[l].status # "abandoned"
                                     /\ answers[a].code.submitted => answers[l].code.submitted
<1>1. Numbered(answers, q) /\ answers \in Seq(Answer)  BY DEF Base, RowsOK
<1>2. Count(answers, q) \in Nat
  <2>1. Len(answers) \in Nat /\ DOMAIN answers = 1 .. Len(answers)  BY <1>1
  <2>2. QED  BY <2>1, OfFinite
<1>3. answers[a].attempt \in 1 .. Count(answers, q)  BY <1>1 DEF Numbered
<1>4. Count(answers, q) \in 1 .. Count(answers, q)  BY <1>2, <1>3
<1>5. PICK l \in Of(answers, q) : answers[l].attempt = Count(answers, q)  BY <1>1, <1>4 DEF Numbered
<1>6. l \in DOMAIN answers /\ answers[l].q = q /\ a \in DOMAIN answers /\ answers[a].q = q  BY <1>5 DEF Of
<1>7. IsLast(answers, l)  BY <1>5, <1>6 DEF IsLast
<1>8. answers[l].status # "abandoned"  BY <1>6, <1>7, RowFacts DEF RowOK
<1>9. OrderlyFor(answers, q, l) /\ OrderlyFor(answers, q, a)
  <2>1. OrderlyAt(answers, l) /\ OrderlyAt(answers, a)  BY <1>6 DEF Orderly
  <2>2. QED  BY <1>6, <2>1, Zenon DEF OrderlyAt
<1>10. answers[l].final  BY <1>7, <1>9 DEF OrderlyFor
<1>11. answers[a].attempt <= answers[l].attempt  BY <1>2, <1>3, <1>5
<1>12. answers[a].code.submitted => answers[l].code.submitted  BY <1>5, <1>9, <1>11 DEF OrderlyFor
<1>13. QED  BY <1>5, <1>8, <1>10, <1>12

LEMMA TidyIsFair == ASSUME ParametersOK, Base, Tidy  PROVE PassedHasFinal /\ OneFinal
<1>1. Orderly /\ PassedAnswered /\ Shaped(interview) /\ answers \in Seq(Answer)  BY DEF Tidy, Base, TypeOK
<1>2. DOMAIN interview.questions \subseteq Asked
  <2>1. interview.questions \in Seq(Question) /\ Len(interview.questions) \in {Total, Total + 1} /\ Total \in Nat
    BY <1>1 DEF Shaped, Interview, ParametersOK
  <2>2. QED  BY <2>1 DEF Asked
<1>3. PassedHasFinal
  <2>1. SUFFICES ASSUME NEW q \in DOMAIN interview.questions, Passed(q)
                 PROVE  \E a \in Of(answers, q) :
                            /\ answers[a].final
                            /\ IF q \in Code THEN answers[a].code.submitted /\ answers[a].status # "abandoned"
                                             ELSE answers[a].status \in Ready
    BY DEF PassedHasFinal
  <2>2. PICK a \in Of(answers, q) : IF q \in Code THEN answers[a].code.submitted ELSE answers[a].status \in Ready
    BY <1>1, <2>1 DEF PassedAnswered
  <2>3. CASE q \in Code
    <3>1. answers[a].code.submitted  BY <2>2, <2>3
    <3>2. PICK l \in Of(answers, q) : /\ answers[l].final /\ answers[l].status # "abandoned"
                                      /\ answers[a].code.submitted => answers[l].code.submitted
      BY <1>1, <1>2, LastIsFinalOne
    <3>3. QED  BY <2>3, <3>1, <3>2
  <2>4. CASE q \notin Code
    <3>1. a \in DOMAIN answers /\ answers[a].q = q  BY <2>2 DEF Of
    <3>2. OrderlyFor(answers, q, a)
      <4>1. OrderlyAt(answers, a)  BY <1>1, <3>1 DEF Orderly
      <4>2. QED  BY <3>1, <4>1, Zenon DEF OrderlyAt
    <3>3. \E b \in Of(answers, q) : answers[b].final /\ answers[b].status \in Ready
      BY <2>2, <2>4, <3>2 DEF OrderlyFor
    <3>4. QED  BY <2>4, <3>3
  <2>5. QED  BY <2>3, <2>4
<1>4. OneFinal
  <2>1. SUFFICES ASSUME NEW q \in DOMAIN interview.questions
                 PROVE  Cardinality({a \in Of(answers, q) : answers[a].final /\ answers[a].status \in Ready}) <= 1
    BY DEF OneFinal
  <2> DEFINE S == {a \in Of(answers, q) : answers[a].final /\ answers[a].status \in Ready}
  <2>2. ASSUME NEW a \in S, NEW b \in S  PROVE a = b
    <3>1. a \in DOMAIN answers /\ answers[a].q = q /\ b \in Of(answers, q)  BY <2>2 DEF Of
    <3>2. OrderlyFor(answers, q, a)
      <4>1. OrderlyAt(answers, a)  BY <1>1, <3>1 DEF Orderly
      <4>2. QED  BY <3>1, <4>1, Zenon DEF OrderlyAt
    <3>3. QED  BY <2>2, <3>1, <3>2 DEF OrderlyFor
  <2> HIDE DEF S
  <2>3. S = {} \/ \E a \in S : S = {a}  BY <2>2
  <2>4. Cardinality(S) = 0 \/ Cardinality(S) = 1  BY <2>3, FS_EmptySet, FS_Singleton
  <2>5. Cardinality(S) <= 1  BY <2>4
  <2>6. QED  BY <2>5 DEF S
<1>5. QED  BY <1>3, <1>4
-----------------------------------------------------------------------------
(* The theorems. *)

LEMMA SequentialStays == ASSUME ParametersOK, Base, Sequential, [Next]_vars  PROVE Sequential'
<1>1. SUFFICES ASSUME overlaps' = 0  PROVE Tidy'  BY DEF Sequential
<1>2. overlaps = 0  BY <1>1, OverlapsGrow
<1>3. Tidy /\ overlaps' = overlaps  BY <1>1, <1>2 DEF Sequential
<1>4. QED  BY <1>3, TidyStays

\* The invariant: what holds however requests overlap, and how tidy the answers are until they do.
THEOREM Invariant == ASSUME ParametersOK  PROVE Spec => []IInv
<1>1. Init => IInv  BY BaseInit, TidyInit DEF IInv, Sequential
<1>2. IInv /\ [Next]_vars => IInv'  BY BaseStays, SequentialStays DEF IInv
<1>3. QED  BY <1>1, <1>2, PTL DEF Spec

\* The rows keep their types, and the indices stay within the rows, however the requests of a
\* candidate overlap.
THEOREM TypeCorrect == ASSUME ParametersOK  PROVE Spec => []TypeOK
<1>1. IInv => TypeOK  BY DEF IInv, Base
<1>2. QED  BY <1>1, Invariant, PTL

\* For every number of requests that overlap: a question never gets more attempts than its retakes
\* allow, since a number given twice is refused (uq_answer_attempt).
THEOREM AttemptsAreLimited == ASSUME ParametersOK  PROVE Spec => []RetakeLimit
<1>1. IInv => RetakeLimit  BY BaseIsFair DEF IInv
<1>2. QED  BY <1>1, Invariant, PTL

\* For every number of requests that overlap, `next' called twice at once included: no main question
\* is passed without a recording that was completed.
THEOREM NothingIsSkipped == ASSUME ParametersOK  PROVE Spec => []NoneSkipped
<1>1. IInv => NoneSkipped  BY BaseIsFair DEF IInv
<1>2. QED  BY <1>1, Invariant, PTL

\* Both, and until two requests have overlapped: every passed question has one final answer, and
\* one the evaluation can use.
THEOREM RoomStaysFair == ASSUME ParametersOK  PROVE Spec => []RoomIsFair
<1>1. ASSUME Base, Sequential  PROVE PassedHasFinal /\ OneFinal
  <2>1. CASE overlaps = 0  BY <1>1, <2>1, TidyIsFair DEF Sequential
  <2>2. CASE overlaps # 0  BY <2>2 DEF PassedHasFinal, OneFinal
  <2>3. QED  BY <2>1, <2>2
<1>2. IInv => RoomIsFair  BY <1>1, BaseIsFair DEF IInv, RoomIsFair, FinalAnswers
<1>3. QED  BY <1>2, Invariant, PTL
=============================================================================
