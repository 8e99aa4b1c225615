-------------------------- MODULE Invitations_proofs --------------------------
(***************************************************************************)
(* Theorems about Invitations for every number of interviews and requests  *)
(* that overlap; then one about the hand-over of a candidate to Huntflow   *)
(* (HuntflowPush, the part "huntflow" of MCCandidates) for every number of *)
(* executions, attempts, pushes and breaks; and at the end one about who   *)
(* is shown what (Perimeter, the part "perimeter") for all vacancies,      *)
(* members, tokens and candidates.                                         *)
(***************************************************************************)
EXTENDS MCCandidates, FiniteSetTheorems, SequenceTheorems, TLAPS

OnRow == Operations \ {"invite"}

\* What a request has read permits what it is about to do.
Permitted(op, loaded) ==
    /\ op = "resend" => loaded.status \notin {None, "cancelled", "rejected"}
    /\ op = "cancel" => "cancelled" \in TRANSITIONS[loaded.status]
    /\ op = "expire" => loaded.status \in {"invited", "opened", "consented"} /\ loaded.overdue
    /\ op = "open" => loaded.status = "invited"
    /\ op = "consent" => loaded.status \in {"invited", "opened"}
    /\ op = "start" => loaded.status = "consented"
    /\ op = "work" => loaded.status \in {"in_progress", "completed", "processing", "evaluated"}
    /\ op \in Decisions => loaded.status \in DECIDABLE

RequestsPermitted ==
    \A r \in Requests :
        req[r].op \in OnRow => /\ req[r].i \in Interviews /\ req[r].loaded.status \in Statuses
                               /\ Permitted(req[r].op, req[r].loaded)

Typed == TypeOK /\ RequestsPermitted

LEMMA StatusesAreNamed ==
    Statuses = {"invited", "opened", "consented", "in_progress", "completed", "processing", "evaluated",
                "reviewed", "advanced", "rejected", "expired", "cancelled"}
BY DEF Statuses, OPEN_STATUSES, DECIDABLE

LEMMA RowConstants == NoRow \in Row /\ Invited \in Row /\ Idle \in Request
<1>1. NoRow \in Row  BY DEF NoRow, Row
<1>2. Invited \in Row  BY <1>1, StatusesAreNamed DEF Invited, NoRow, Row
<1>3. Idle \in Request  BY <1>1 DEF Idle, Request
<1>4. QED  BY <1>1, <1>2, <1>3

\* The requests that write a row they have read.
Writes(r) ==
    \/ resend(r) \/ cancel(r) \/ decide(r) \/ expire(r) \/ open(r)
    \/ submit_consent(r) \/ start(r) \/ work(r)

\* The columns a request writes: the status only where it moves it.
Changes(r, old, new) ==
    LET op == req[r].op
        loaded == req[r].loaded
    IN /\ \/ new.status = old.status
          \/ new.status # loaded.status /\
               \/ op = "resend" /\ loaded.status = "expired" /\ new.status = "invited"
               \/ op = "cancel" /\ new.status = "cancelled"
               \/ op = "expire" /\ new.status = "expired"
               \/ op = "open" /\ new.status = "opened"
               \/ op = "consent" /\ new.status = "consented" /\ new.consents
               \/ op = "start" /\ new.status = "in_progress"
               \/ op = "work" /\ new.status = Following(loaded.status)
               \/ op \in Decisions /\ Follows(loaded, op) /\ new.status = Target(op)
       /\ op = "resend" /\ loaded.status = "expired" => new.status = "invited"
       /\ new.consents = old.consents \/ new.consents
       /\ op \notin Decisions => new.decision = old.decision
       /\ op \in Decisions =>
            /\ new.decision = op \/ (loaded.decision = op /\ new.decision = old.decision)
            /\ Follows(loaded, op) => new.status = Target(op) \/ loaded.status = Target(op)
       /\ op # "resend" => new.overdue = old.overdue
       /\ op = "resend" => ~new.overdue

LEMMA WritesChange ==
    ASSUME ParametersOK, Typed, NEW r \in Requests, Writes(r)
    PROVE  \E new \in Row :
             /\ req[r].op \in OnRow /\ req[r].i \in Interviews
             /\ Commit(r, req[r].op, new)
             /\ Changes(r, row[req[r].i], new)
<1> DEFINE i == req[r].i
           old == row[i]
           loaded == req[r].loaded
           op == req[r].op
<1>1. op \in OnRow  BY DEF Writes, resend, cancel, decide, expire, open, submit_consent, start, work,
                           Commit, OnRow, Operations, Decisions
<1>2. i \in Interviews /\ loaded.status \in Statuses /\ Permitted(op, loaded)
  BY <1>1 DEF Typed, RequestsPermitted
<1>3. old \in Row /\ loaded \in Row  BY <1>2 DEF Typed, TypeOK, Request
<1>4. CASE resend(r)
  <2> DEFINE new == IF loaded.status = "expired" THEN Moved(NewExpiry(old), loaded, "invited")
                                                 ELSE NewExpiry(old)
  <2>1. op = "resend" /\ Commit(r, op, new)  BY <1>4 DEF resend, Commit
  <2>2. new \in Row /\ Changes(r, old, new)
    BY <1>3, <2>1, StatusesAreNamed DEF Moved, NewExpiry, Row, Changes, Decisions
  <2>3. QED  BY <1>1, <1>2, <2>1, <2>2
<1>5. ASSUME NEW s \in Statuses
      PROVE  LET new == Moved(old, loaded, s) IN
             /\ new \in Row /\ new.consents = old.consents /\ new.decision = old.decision
             /\ new.overdue = old.overdue
             /\ loaded.status = s => new.status = old.status
             /\ loaded.status # s => new.status = s
  BY <1>3 DEF Moved, Row
<1>6. CASE cancel(r)
  <2> DEFINE new == Moved(old, loaded, "cancelled")
  <2>1. op = "cancel" /\ Commit(r, op, new)  BY <1>6 DEF cancel, Commit
  <2>2. /\ new \in Row /\ new.consents = old.consents /\ new.decision = old.decision
        /\ new.overdue = old.overdue
        /\ loaded.status = "cancelled" => new.status = old.status
        /\ loaded.status # "cancelled" => new.status = "cancelled"
    BY <1>5, StatusesAreNamed
  <2>3. Changes(r, old, new)
    <3> HIDE DEF new
    <3> QED  BY <2>1, <2>2 DEF Changes, Decisions
  <2>4. QED  BY <1>1, <1>2, <2>1, <2>2, <2>3
<1>7. CASE expire(r)
  <2> DEFINE new == Moved(old, loaded, "expired")
  <2>1. op = "expire" /\ Commit(r, op, new)  BY <1>7 DEF expire, Commit
  <2>2. /\ new \in Row /\ new.consents = old.consents /\ new.decision = old.decision
        /\ new.overdue = old.overdue
        /\ loaded.status = "expired" => new.status = old.status
        /\ loaded.status # "expired" => new.status = "expired"
    BY <1>5, StatusesAreNamed
  <2>3. Changes(r, old, new)
    <3> HIDE DEF new
    <3> QED  BY <2>1, <2>2 DEF Changes, Decisions
  <2>4. QED  BY <1>1, <1>2, <2>1, <2>2, <2>3
<1>8. CASE open(r)
  <2> DEFINE new == Moved(old, loaded, "opened")
  <2>1. op = "open" /\ Commit(r, op, new)  BY <1>8 DEF open, Commit
  <2>2. /\ new \in Row /\ new.consents = old.consents /\ new.decision = old.decision
        /\ new.overdue = old.overdue
        /\ loaded.status = "opened" => new.status = old.status
        /\ loaded.status # "opened" => new.status = "opened"
    BY <1>5, StatusesAreNamed
  <2>3. Changes(r, old, new)
    <3> HIDE DEF new
    <3> QED  BY <2>1, <2>2 DEF Changes, Decisions
  <2>4. QED  BY <1>1, <1>2, <2>1, <2>2, <2>3
<1>9. CASE submit_consent(r)
  <2> DEFINE moved == Moved(old, loaded, "consented")
             new == [moved EXCEPT !.consents = TRUE]
  <2>1. op = "consent" /\ Commit(r, op, new)  BY <1>9 DEF submit_consent, Commit
  <2>2. /\ moved \in Row /\ moved.decision = old.decision /\ moved.overdue = old.overdue
        /\ loaded.status = "consented" => moved.status = old.status
        /\ loaded.status # "consented" => moved.status = "consented"
    BY <1>5, StatusesAreNamed
  <2>3. new \in Row /\ Changes(r, old, new)
    <3> HIDE DEF moved
    <3> QED  BY <2>1, <2>2 DEF Changes, Decisions, Row
  <2>4. QED  BY <1>1, <1>2, <2>1, <2>3
<1>10. CASE start(r)
  <2> DEFINE new == Moved(old, loaded, "in_progress")
  <2>1. op = "start" /\ Commit(r, op, new)  BY <1>10 DEF start, Commit
  <2>2. /\ new \in Row /\ new.consents = old.consents /\ new.decision = old.decision
        /\ new.overdue = old.overdue
        /\ loaded.status = "in_progress" => new.status = old.status
        /\ loaded.status # "in_progress" => new.status = "in_progress"
    BY <1>5, StatusesAreNamed
  <2>3. Changes(r, old, new)
    <3> HIDE DEF new
    <3> QED  BY <2>1, <2>2 DEF Changes, Decisions
  <2>4. QED  BY <1>1, <1>2, <2>1, <2>2, <2>3
<1>11. CASE work(r)
  <2> DEFINE new == Moved(old, loaded, Following(loaded.status))
  <2>1. op = "work" /\ Commit(r, op, new)  BY <1>11 DEF work, Commit
  <2>2. Following(loaded.status) \in Statuses
    BY <1>2, <2>1, StatusesAreNamed DEF Permitted, Following
  <2>3. new \in Row /\ Changes(r, old, new)
    BY <1>5, <2>1, <2>2 DEF Changes, Decisions
  <2>4. QED  BY <1>1, <1>2, <2>1, <2>3
<1>12. CASE decide(r)
  <2> DEFINE noted == IF loaded.decision = op THEN old ELSE [old EXCEPT !.decision = op]
             moved == Moved(noted, loaded, Target(op))
             new == IF Follows(loaded, op) THEN moved ELSE noted
  <2>1. op \in Decisions /\ Commit(r, op, new)  BY <1>12 DEF decide
  <2>2. Target(op) \in Statuses  BY <2>1, StatusesAreNamed DEF Target, Decisions
  <2>3. /\ noted \in Row /\ noted.status = old.status /\ noted.consents = old.consents
        /\ noted.overdue = old.overdue
        /\ noted.decision = op \/ (loaded.decision = op /\ noted.decision = old.decision)
    BY <1>3, <2>1 DEF Row
  <2>4. /\ moved \in Row /\ moved.consents = noted.consents /\ moved.overdue = noted.overdue
        /\ moved.decision = noted.decision
        /\ loaded.status = Target(op) => moved.status = noted.status
        /\ loaded.status # Target(op) => moved.status = Target(op)
    <3> HIDE DEF noted
    <3> QED  BY <2>2, <2>3 DEF Moved, Row
  <2>5. new \in Row /\ Changes(r, old, new)
    <3>1. op \notin {"resend", "cancel", "expire", "open", "consent", "start", "work"}
      BY <2>1 DEF Decisions
    <3> HIDE DEF noted, moved
    <3> QED  BY <2>1, <2>3, <2>4, <3>1 DEF Changes
  <2>6. QED  BY <1>1, <1>2, <2>1, <2>5
<1>13. QED
  BY <1>4, <1>6, <1>7, <1>8, <1>9, <1>10, <1>11, <1>12 DEF Writes

\* A request begins on a row that permits it.
Begins(r) ==
    \E op \in OnRow, i \in Interviews :
        Begin(r, op, i) /\ row[i].status \in Statuses /\ Permitted(op, row[i])

LEMMA Steps ==
    ASSUME ParametersOK, Typed, [Next]_vars
    PROVE  \/ UNCHANGED vars
           \/ \E r \in Requests : BeginInvite(r) \/ Begins(r) \/ invite(r) \/ Writes(r)
           \/ \E i \in Interviews : Overdue(i)
<1>1. ASSUME NEW r \in Requests, NEW i \in Interviews,
             \/ BeginResend(r, i) \/ _ensure_interview(r, i) \/ BeginCancel(r, i)
             \/ BeginExpire(r, i) \/ BeginOpen(r, i) \/ BeginConsent(r, i)
             \/ BeginStart(r, i) \/ BeginWork(r, i)
             \/ \E d \in Decisions : BeginDecide(r, i, d)
      PROVE  Begins(r)
  <2>0. None \notin Statuses /\ row[i].status \in Statuses \cup {None}
    BY DEF ParametersOK, Typed, TypeOK, Row
  <2>1. CASE BeginResend(r, i)
    BY <2>0, <2>1, StatusesAreNamed
    DEF BeginResend, Begins, OnRow, Operations, Permitted, Decisions, OPEN_STATUSES
  <2>2. CASE _ensure_interview(r, i)
    BY <2>0, <2>2, StatusesAreNamed
    DEF _ensure_interview, Active, Exists, Ended, Begins, OnRow, Operations, Permitted, Decisions
  <2>3. CASE BeginCancel(r, i)
    BY <2>0, <2>3 DEF BeginCancel, Exists, May, Begins, OnRow, Operations, Permitted, Decisions
  <2>4. CASE BeginExpire(r, i)
    BY <2>4, StatusesAreNamed
    DEF BeginExpire, Before, Begins, OnRow, Operations, Permitted, Decisions
  <2>5. CASE BeginOpen(r, i)
    BY <2>5, StatusesAreNamed DEF BeginOpen, Begins, OnRow, Operations, Permitted, Decisions
  <2>6. CASE BeginConsent(r, i)
    BY <2>6, StatusesAreNamed DEF BeginConsent, Begins, OnRow, Operations, Permitted, Decisions
  <2>7. CASE BeginStart(r, i)
    BY <2>7, StatusesAreNamed DEF BeginStart, Consented, Begins, OnRow, Operations, Permitted, Decisions
  <2>8. CASE BeginWork(r, i)
    BY <2>8, StatusesAreNamed DEF BeginWork, Begins, OnRow, Operations, Permitted, Decisions
  <2>9. ASSUME NEW d \in Decisions, BeginDecide(r, i, d) PROVE Begins(r)
    BY <2>9 DEF BeginDecide, Begins, OnRow, Operations, Permitted, Decisions, Statuses
  <2>10. QED  BY <1>1, <2>1, <2>2, <2>3, <2>4, <2>5, <2>6, <2>7, <2>8, <2>9
<1>2. QED  BY <1>1 DEF Next, Writes

LEMMA TypeStep == ASSUME ParametersOK, Typed, [Next]_vars PROVE Typed'
<1>0. /\ row \in [Interviews -> Row] /\ req \in [Requests -> Request]
      /\ overlaps \in 0 .. MaxOverlaps /\ revived \in BOOLEAN /\ MaxOverlaps \in Nat
      /\ Idle.op \notin OnRow
  BY DEF ParametersOK, Typed, TypeOK, Idle, OnRow, Operations, Decisions
<1>1. CASE UNCHANGED vars
  BY <1>0, <1>1 DEF vars, Typed, TypeOK, RequestsPermitted
<1>2. ASSUME NEW r \in Requests, NEW op \in Operations, NEW i \in Interviews \cup {None}, Begin(r, op, i),
             i = None => op \notin OnRow,
             i \in Interviews => row[i].status \in Statuses /\ Permitted(op, row[i])
      PROVE  Typed'
  <2> DEFINE new == [op |-> op, i |-> i, loaded |-> IF i = None THEN NoRow ELSE row[i]]
  <2>1. new \in Request  BY <1>0, <1>2, RowConstants DEF Request
  <2>2. req' = [req EXCEPT ![r] = new] /\ UNCHANGED <<row, revived>>  BY <1>2 DEF Begin
  <2>3. overlaps' \in 0 .. MaxOverlaps  BY <1>0, <1>2 DEF Begin
  <2>4. new.op \in OnRow => /\ new.i \in Interviews /\ new.loaded.status \in Statuses
                            /\ Permitted(new.op, new.loaded)
    BY <1>2 DEF ParametersOK
  <2> HIDE DEF new
  <2>5. RequestsPermitted'
    BY <1>0, <2>2, <2>4 DEF Typed, RequestsPermitted
  <2>6. QED  BY <1>0, <2>1, <2>2, <2>3, <2>5 DEF Typed, TypeOK
<1>3. ASSUME NEW r \in Requests, BeginInvite(r) PROVE Typed'
  BY <1>2, <1>3 DEF BeginInvite, ParametersOK, Operations, OnRow
<1>4. ASSUME NEW r \in Requests, Begins(r) PROVE Typed'
  BY <1>2, <1>4 DEF Begins, ParametersOK, OnRow
\* The request ends.
<1>5. ASSUME NEW r \in Requests, req' = [req EXCEPT ![r] = Idle]
      PROVE  req' \in [Requests -> Request] /\ RequestsPermitted'
  BY <1>0, <1>5, RowConstants DEF Typed, RequestsPermitted
<1>6. ASSUME NEW r \in Requests, invite(r) PROVE Typed'
  BY <1>0, <1>5, <1>6, RowConstants DEF invite, Typed, TypeOK
<1>7. ASSUME NEW r \in Requests, Writes(r) PROVE Typed'
  <2>1. PICK new \in Row : req[r].i \in Interviews /\ Commit(r, req[r].op, new)
    BY <1>7, WritesChange
  <2>2. row' \in [Interviews -> Row] /\ UNCHANGED overlaps /\ req' = [req EXCEPT ![r] = Idle]
    BY <1>0, <2>1 DEF Commit
  <2>3. revived' \in BOOLEAN  BY <2>1 DEF Commit
  <2>4. QED  BY <1>0, <1>5, <2>2, <2>3 DEF Typed, TypeOK
<1>8. ASSUME NEW i \in Interviews, Overdue(i) PROVE Typed'
  <2>1. row' \in [Interviews -> Row]  BY <1>0, <1>8 DEF Overdue, Row
  <2>2. QED  BY <1>0, <1>8, <2>1 DEF Overdue, Typed, TypeOK, RequestsPermitted
<1>9. QED  BY <1>1, <1>3, <1>4, <1>6, <1>7, <1>8, Steps

LEMMA TypeInit == ASSUME ParametersOK PROVE Init => Typed
<1> SUFFICES ASSUME Init PROVE Typed  OBVIOUS
<1>1. 0 \in 0 .. MaxOverlaps  BY DEF ParametersOK
<1>2. \A r \in Requests : req[r] = Idle  BY DEF Init
<1>3. Idle.op \notin OnRow  BY DEF Idle, OnRow, Operations, Decisions
<1>4. TypeOK  BY <1>1, RowConstants DEF Init, TypeOK
<1>5. QED  BY <1>2, <1>3, <1>4 DEF Typed, RequestsPermitted
-----------------------------------------------------------------------------
(* Consent.  Who has read a row that needs consents finds them in it still *)
(* when he writes: they are never taken back, and a row never disappears.  *)

NeedsConsent == DECIDABLE \cup {"in_progress", "consented"}

ConsentKept ==
    /\ \A i \in Interviews : row[i].status \in NeedsConsent => row[i].consents
    /\ \A r \in Requests :
         req[r].op \in OnRow =>
            /\ Exists(req[r].i)
            /\ req[r].loaded.status \in NeedsConsent => row[req[r].i].consents

LEMMA ConsentStep == ASSUME ParametersOK, Typed, ConsentKept, [Next]_vars PROVE ConsentKept'
<1>0. /\ row \in [Interviews -> Row] /\ req \in [Requests -> Request] /\ Idle.op \notin OnRow
      /\ None \notin Statuses
      /\ \A r \in Requests : req[r].op \in OnRow => req[r].i \in Interviews
  BY DEF ParametersOK, Typed, TypeOK, RequestsPermitted, Idle, OnRow, Operations, Decisions
<1>1. CASE UNCHANGED vars
  BY <1>1 DEF vars, ConsentKept, Exists
<1>2. ASSUME NEW r \in Requests, BeginInvite(r) PROVE ConsentKept'
  <2>1. UNCHANGED row /\ req' = [req EXCEPT ![r] = [op |-> "invite", i |-> None, loaded |-> NoRow]]
    BY <1>2 DEF BeginInvite, Begin
  <2>2. QED  BY <1>0, <2>1 DEF ConsentKept, Exists, OnRow
<1>3. ASSUME NEW r \in Requests, Begins(r) PROVE ConsentKept'
  <2>1. PICK op \in OnRow, i \in Interviews : Begin(r, op, i) /\ row[i].status \in Statuses
    BY <1>3 DEF Begins
  <2>2. UNCHANGED row /\ req' = [req EXCEPT ![r] = [op |-> op, i |-> i, loaded |-> row[i]]]
    BY <2>1 DEF Begin, ParametersOK
  <2>3. QED  BY <1>0, <2>1, <2>2 DEF ConsentKept, Exists
<1>4. ASSUME NEW r \in Requests, invite(r) PROVE ConsentKept'
  <2>1. PICK i \in Interviews : ~Exists(i) /\ row' = [row EXCEPT ![i] = Invited]
    BY <1>4 DEF invite
  <2>2. row'[i] = Invited /\ \A k \in Interviews : Exists(k) => row'[k] = row[k]
    BY <1>0, <2>1
  <2>3. \A k \in Interviews : row'[k].status \in NeedsConsent => row'[k].consents
    BY <1>0, <2>1, <2>2 DEF ConsentKept, Invited, NoRow, NeedsConsent, DECIDABLE
  <2>4. req' = [req EXCEPT ![r] = Idle]  BY <1>4 DEF invite
  <2>5. QED  BY <1>0, <2>2, <2>3, <2>4 DEF ConsentKept, Exists
<1>5. ASSUME NEW r \in Requests, Writes(r) PROVE ConsentKept'
  <2> DEFINE i == req[r].i
             loaded == req[r].loaded
  <2>1. PICK new \in Row : /\ req[r].op \in OnRow /\ i \in Interviews
                           /\ Commit(r, req[r].op, new) /\ Changes(r, row[i], new)
    BY <1>5, WritesChange
  <2>2. row' = [row EXCEPT ![i] = new] /\ req' = [req EXCEPT ![r] = Idle]
    BY <2>1 DEF Commit
  <2>3. Exists(i) /\ loaded.status \in Statuses /\ Permitted(req[r].op, loaded)
    BY <2>1 DEF ConsentKept, Typed, RequestsPermitted
  <2>4. new.status \in Statuses
    BY <1>0, <2>1, <2>3, StatusesAreNamed DEF Changes, Exists, Row, Following, Target, Permitted, Decisions, Follows
  <2>5. new.consents = row[i].consents \/ new.consents  BY <2>1 DEF Changes
  <2>6. new.status \in NeedsConsent => new.consents
    <3>1. row[i].status \in NeedsConsent => row[i].consents  BY <2>1 DEF ConsentKept
    <3>2. loaded.status \in NeedsConsent => row[i].consents  BY <2>1 DEF ConsentKept
    <3>3. \/ new.status = row[i].status
          \/ new.status \in {"invited", "cancelled", "expired", "opened"}
          \/ new.consents
          \/ req[r].op \in {"start", "work"} \cup Decisions
      BY <2>1 DEF Changes
    <3>4. req[r].op \in {"start", "work"} \cup Decisions => loaded.status \in NeedsConsent
      BY <2>3 DEF Permitted, NeedsConsent, DECIDABLE
    <3>5. {"invited", "cancelled", "expired", "opened"} \cap NeedsConsent = {}
      BY DEF NeedsConsent, DECIDABLE
    <3>6. QED  BY <2>5, <3>1, <3>2, <3>3, <3>4, <3>5
  <2>7. \A k \in Interviews : /\ Exists(k) => Exists(k)'
                              /\ row[k].consents => row'[k].consents
    BY <1>0, <2>1, <2>2, <2>4, <2>5 DEF Exists
  <2>8. \A k \in Interviews : row'[k].status \in NeedsConsent => row'[k].consents
    BY <1>0, <2>1, <2>2, <2>6 DEF ConsentKept
  <2>9. QED  BY <1>0, <2>2, <2>7, <2>8 DEF ConsentKept, Exists
<1>6. ASSUME NEW i \in Interviews, Overdue(i) PROVE ConsentKept'
  <2>1. \A k \in Interviews : row'[k].status = row[k].status /\ row'[k].consents = row[k].consents
    BY <1>0, <1>6 DEF Overdue, Row
  <2>2. UNCHANGED req  BY <1>6 DEF Overdue
  <2>3. QED  BY <1>0, <2>1, <2>2 DEF ConsentKept, Exists
<1>7. QED  BY <1>1, <1>2, <1>3, <1>4, <1>5, <1>6, Steps

\* Whatever requests overlap, an interview that was recorded has the candidate's consents in the journal.
THEOREM NothingWithoutConsent == ASSUME ParametersOK PROVE Spec => []RecordedWithConsent
<1>1. Init => ConsentKept
  <2>1. None \notin NeedsConsent
    BY StatusesAreNamed DEF ParametersOK, NeedsConsent, Statuses
  <2>2. Idle.op \notin OnRow  BY DEF Idle, OnRow, Operations, Decisions
  <2>3. QED  BY <2>1, <2>2 DEF Init, ConsentKept, NoRow
<1>2. Typed /\ ConsentKept /\ [Next]_vars => ConsentKept'  BY ConsentStep
<1>3. Typed /\ [Next]_vars => Typed'  BY TypeStep
<1>4. ConsentKept => RecordedWithConsent
  BY DEF ConsentKept, RecordedWithConsent, NeedsConsent
<1>5. QED  BY TypeInit, <1>1, <1>2, <1>3, <1>4, PTL DEF Spec
-----------------------------------------------------------------------------
(* One request at a time.  Until two overlap, what a request has read is   *)
(* what it writes to, except that an expiry may have passed.               *)

Sequential ==
    overlaps = 0 =>
        /\ \A q, r \in Requests : req[q].op # "idle" /\ req[r].op # "idle" => q = r
        /\ \A r \in Requests : req[r].op = "invite" => \A i \in Interviews : ~Active(i)
        /\ \A r \in Requests :
             req[r].op \in OnRow =>
                LET loaded == req[r].loaded
                    now == row[req[r].i]
                IN /\ now.status = loaded.status /\ now.decision = loaded.decision
                   /\ loaded.overdue => now.overdue

LEMMA OverlapsGrow ==
    ASSUME ParametersOK, Typed, [Next]_vars, overlaps' = 0 PROVE overlaps = 0
<1>1. overlaps \in Nat  BY DEF Typed, TypeOK, ParametersOK
<1>2. ASSUME NEW r, NEW op, NEW i, Begin(r, op, i) PROVE overlaps' = overlaps \/ overlaps' = overlaps + 1
  BY <1>2 DEF Begin
<1>3. ASSUME NEW r \in Requests, Writes(r) PROVE UNCHANGED overlaps
  BY <1>3, WritesChange DEF Commit
<1>4. overlaps' = overlaps \/ overlaps' = overlaps + 1
  BY <1>2, <1>3, Steps DEF vars, BeginInvite, Begins, invite, Overdue
<1>5. QED  BY <1>1, <1>4

LEMMA SequentialStep == ASSUME ParametersOK, Typed, Sequential, [Next]_vars PROVE Sequential'
<1> SUFFICES ASSUME overlaps' = 0 PROVE Sequential'  BY DEF Sequential
<1>0. /\ row \in [Interviews -> Row] /\ req \in [Requests -> Request] /\ Idle.op = "idle"
      /\ \A r \in Requests : req[r].op \in OnRow => req[r].i \in Interviews
      /\ "idle" \notin OnRow /\ "invite" \notin OnRow /\ overlaps = 0
  BY OverlapsGrow DEF Typed, TypeOK, RequestsPermitted, Idle, OnRow, Operations, Decisions
<1>1. CASE UNCHANGED vars
  BY <1>1 DEF vars, Sequential, Active, Exists, Ended
\* Nobody else is under way when a request begins.
<1>2. ASSUME NEW r \in Requests, NEW op, NEW i, Begin(r, op, i)
      PROVE  /\ \A q \in Requests : req[q].op = "idle"
             /\ \A q \in Requests : req'[q].op # "idle" => q = r
             /\ row' = row
             /\ req'[r].op = op /\ req'[r].i = i
             /\ req'[r].loaded = IF i = None THEN NoRow ELSE row[i]
  <2>1. \A q \in Requests : req[q].op = "idle"
    BY <1>0, <1>2 DEF Begin, Typed, TypeOK, ParametersOK
  <2>2. QED  BY <1>0, <1>2, <2>1 DEF Begin
<1>3. ASSUME NEW r \in Requests, BeginInvite(r) PROVE Sequential'
  <2>1. Begin(r, "invite", None) /\ \A i \in Interviews : ~Active(i)  BY <1>3 DEF BeginInvite
  <2>2. /\ \A q \in Requests : req'[q].op # "idle" => q = r
        /\ req'[r].op = "invite" /\ row' = row
    BY <1>2, <2>1
  <2>3. \A i \in Interviews : ~Active(i)'  BY <2>1, <2>2 DEF Active, Exists, Ended
  <2>4. \A q \in Requests : req'[q].op \notin OnRow  BY <1>0, <2>2
  <2>5. QED  BY <2>2, <2>3, <2>4 DEF Sequential
<1>4. ASSUME NEW r \in Requests, Begins(r) PROVE Sequential'
  <2>1. PICK op \in OnRow, i \in Interviews : Begin(r, op, i)  BY <1>4 DEF Begins
  <2>2. /\ \A q \in Requests : req'[q].op # "idle" => q = r
        /\ req'[r].op = op /\ req'[r].i = i /\ req'[r].loaded = row[i] /\ row' = row
    <3>1. i # None  BY DEF ParametersOK
    <3>2. QED  BY <1>2, <2>1, <3>1
  <2>3. \A q \in Requests : req'[q].op # "invite"  BY <1>0, <2>1, <2>2
  <2>4. \A q \in Requests : req'[q].op \in OnRow => q = r  BY <1>0, <2>2
  <2>5. QED  BY <2>2, <2>3, <2>4 DEF Sequential
\* Nobody is under way when the only request has ended.
<1>5. ASSUME NEW r \in Requests, req[r].op # "idle", req' = [req EXCEPT ![r] = Idle] PROVE Sequential'
  <2>1. \A q \in Requests : req'[q].op = "idle"
    BY <1>0, <1>5 DEF Sequential
  <2>2. QED  BY <1>0, <2>1 DEF Sequential
<1>6. ASSUME NEW r \in Requests, invite(r) PROVE Sequential'
  BY <1>5, <1>6 DEF invite
<1>7. ASSUME NEW r \in Requests, Writes(r) PROVE Sequential'
  BY <1>0, <1>5, <1>7, WritesChange DEF Commit
<1>8. ASSUME NEW i \in Interviews, Overdue(i) PROVE Sequential'
  <2>1. \A k \in Interviews : /\ row'[k].status = row[k].status /\ row'[k].decision = row[k].decision
                              /\ row[k].overdue => row'[k].overdue
    BY <1>0, <1>8 DEF Overdue, Row
  <2>2. UNCHANGED <<req, overlaps>>  BY <1>8 DEF Overdue
  <2>3. QED  BY <1>0, <2>1, <2>2 DEF Sequential, Active, Exists, Ended
<1>9. QED  BY <1>1, <1>3, <1>4, <1>6, <1>7, <1>8, Steps

\* What one row says, and what a request leaves it saying.
RowAgrees(rw) ==
    /\ rw.status = "advanced" => rw.decision # "reject"
    /\ rw.status = "rejected" => rw.decision # "advance"
    /\ rw.status = "expired" => rw.overdue

LEMMA WrittenAgrees ==
    ASSUME ParametersOK, Typed, Sequential, overlaps = 0, NEW r \in Requests, req[r].op \in OnRow,
           NEW new \in Row, Changes(r, row[req[r].i], new), RowAgrees(row[req[r].i])
    PROVE  RowAgrees(new)
<1> DEFINE old == row[req[r].i]
           loaded == req[r].loaded
           op == req[r].op
<1>1. /\ old.status = loaded.status /\ old.decision = loaded.decision /\ (loaded.overdue => old.overdue)
      /\ loaded.status \in Statuses /\ Permitted(op, loaded)
  BY DEF Sequential, Typed, RequestsPermitted
<1>2. CASE op \in Decisions
  <2>1. new.decision = op /\ new.overdue = old.overdue
    BY <1>1, <1>2 DEF Changes, Decisions
  <2>2. ASSUME Follows(loaded, op) PROVE new.status = Target(op)
    <3>1. new.status = Target(op) \/ loaded.status = Target(op)
      BY <1>2, <2>2 DEF Changes
    <3>2. op \notin {"resend", "cancel", "expire", "open", "consent", "start", "work"}
      BY <1>2 DEF Decisions
    <3>3. new.status = old.status \/ new.status = Target(op)
      BY <3>2 DEF Changes
    <3>4. QED  BY <1>1, <3>1, <3>3
  <2>3. ~Follows(loaded, op) =>
            new.status = old.status /\ (old.status \in {"completed", "processing"} \/ op = "hold")
    BY <1>1, <1>2 DEF Changes, Follows, Decisions
  <2>4. old.status \in DECIDABLE  BY <1>1, <1>2 DEF Permitted
  <2>5. CASE Follows(loaded, op)
    BY <1>2, <2>1, <2>2, <2>5 DEF RowAgrees, Target, Decisions
  <2>6. CASE ~Follows(loaded, op)
    BY <1>2, <2>1, <2>3, <2>4, <2>6 DEF RowAgrees, Decisions, DECIDABLE
  <2>7. QED  BY <2>5, <2>6
<1>3. CASE op \notin Decisions
  <2>1. new.decision = old.decision /\ (op # "resend" => new.overdue = old.overdue)
    BY <1>3 DEF Changes
  <2>2. CASE new.status = old.status
    <3>1. CASE op # "resend"  BY <2>1, <2>2, <3>1 DEF RowAgrees
    <3>2. CASE op = "resend"
      <4>1. new.status # "expired"  BY <1>1, <2>2, <3>2 DEF Changes
      <4>2. QED  BY <2>1, <2>2, <4>1 DEF RowAgrees
    <3>3. QED  BY <3>1, <3>2
  <2>3. CASE op = "expire" /\ new.status = "expired"
    BY <1>1, <2>1, <2>3 DEF RowAgrees, Permitted
  <2>4. CASE new.status \notin {"advanced", "rejected", "expired"}
    BY <2>4 DEF RowAgrees
  <2>5. op = "work" => Following(loaded.status) \notin {"advanced", "rejected", "expired"}
    BY <1>1 DEF Permitted, Following
  <2>6. QED  BY <1>3, <2>2, <2>3, <2>4, <2>5 DEF Changes
<1>4. QED  BY <1>2, <1>3

\* Until two requests overlap: every row agrees with itself, and unless an ended one was revived
\* there is one active row.
Agreement ==
    overlaps = 0 => /\ \A i \in Interviews : RowAgrees(row[i])
                    /\ ~revived => OneActive

LEMMA AgreementStep ==
    ASSUME ParametersOK, Typed, ConsentKept, Sequential, Agreement, [Next]_vars PROVE Agreement'
<1> SUFFICES ASSUME overlaps' = 0 PROVE Agreement'  BY DEF Agreement
<1>0. /\ row \in [Interviews -> Row] /\ overlaps = 0 /\ revived \in BOOLEAN
      /\ \A i \in Interviews : RowAgrees(row[i])
      /\ ~revived => OneActive
  BY OverlapsGrow DEF Typed, TypeOK, Agreement
<1>1. ASSUME UNCHANGED <<row, revived>> PROVE Agreement'
  BY <1>0, <1>1 DEF Agreement, RowAgrees, OneActive, Active, Exists, Ended
<1>2. ASSUME NEW r \in Requests, BeginInvite(r) \/ Begins(r) PROVE UNCHANGED <<row, revived>>
  BY <1>2 DEF BeginInvite, Begins, Begin
\* Who invites has seen no active interview, and nobody has come in between.
<1>3. ASSUME NEW r \in Requests, invite(r) PROVE Agreement'
  <2>1. PICK i \in Interviews : row' = [row EXCEPT ![i] = Invited]  BY <1>3 DEF invite
  <2>2. row'[i] = Invited /\ \A k \in Interviews \ {i} : row'[k] = row[k]  BY <1>0, <2>1
  <2>3. RowAgrees(Invited)  BY DEF RowAgrees, Invited, NoRow
  <2>4. \A k \in Interviews : RowAgrees(row'[k])  BY <1>0, <2>2, <2>3
  <2>5. \A k \in Interviews : ~Active(k)  BY <1>0, <1>3 DEF Sequential, invite
  <2>6. \A k \in Interviews : Active(k)' => k = i  BY <2>2, <2>5 DEF Active, Exists, Ended
  <2>7. OneActive'  BY <2>6 DEF OneActive
  <2>8. \A k \in Interviews : RowAgrees(row[k])'  BY <2>4 DEF RowAgrees
  <2>9. QED  BY <2>7, <2>8 DEF Agreement
<1>4. ASSUME NEW r \in Requests, Writes(r) PROVE Agreement'
  <2> DEFINE i == req[r].i
  <2>1. PICK new \in Row : /\ req[r].op \in OnRow /\ i \in Interviews
                           /\ Commit(r, req[r].op, new) /\ Changes(r, row[i], new)
    BY <1>4, WritesChange
  <2>2. /\ row' = [row EXCEPT ![i] = new]
        /\ revived' = (revived \/ (Ended(row[i]) /\ ~Ended(new)))
    BY <2>1 DEF Commit
  <2>3. row'[i] = new /\ \A k \in Interviews \ {i} : row'[k] = row[k]  BY <1>0, <2>1, <2>2
  <2>4. RowAgrees(new)  BY <1>0, <2>1, WrittenAgrees
  <2>5. \A k \in Interviews : RowAgrees(row[k])'  BY <1>0, <2>3, <2>4 DEF RowAgrees
  <2>6. Exists(i)  BY <2>1 DEF ConsentKept
  <2>7. ASSUME ~revived' PROVE OneActive'
    <3>1. ~revived /\ (Ended(row[i]) => Ended(new))  BY <2>2, <2>7
    <3>2. ASSUME NEW k \in Interviews, Active(k)' PROVE Active(k)
      <4>1. CASE k = i
        <5>1. ~Ended(new)  BY <2>3, <3>2, <4>1 DEF Active, Ended
        <5>2. QED  BY <2>6, <3>1, <4>1, <5>1 DEF Active
      <4>2. CASE k # i
        BY <2>3, <3>2, <4>2 DEF Active, Exists, Ended
      <4>3. QED  BY <4>1, <4>2
    <3>3. QED  BY <1>0, <3>1, <3>2 DEF OneActive
  <2>8. QED  BY <2>5, <2>7 DEF Agreement
<1>5. ASSUME NEW i \in Interviews, Overdue(i) PROVE Agreement'
  <2>1. \A k \in Interviews : /\ row'[k].status = row[k].status /\ row'[k].decision = row[k].decision
                              /\ row[k].overdue => row'[k].overdue
    BY <1>0, <1>5 DEF Overdue, Row
  <2>2. \A k \in Interviews : RowAgrees(row[k])'  BY <1>0, <2>1 DEF RowAgrees
  <2>3. \A k \in Interviews : Active(k)' <=> Active(k)  BY <2>1 DEF Active, Exists, Ended
  <2>4. UNCHANGED revived  BY <1>5 DEF Overdue
  <2>5. QED  BY <1>0, <2>2, <2>3, <2>4 DEF Agreement, OneActive
<1>6. QED  BY <1>1, <1>2, <1>3, <1>4, <1>5, Steps DEF vars

\* Everything that holds of the rows and of the requests under way.
Columns == Typed /\ ConsentKept /\ Sequential /\ Agreement

LEMMA ColumnsInit == ASSUME ParametersOK PROVE Init => Columns
<1> SUFFICES ASSUME Init PROVE Columns  OBVIOUS
<1>1. None \notin NeedsConsent /\ None \notin Statuses
  BY StatusesAreNamed DEF ParametersOK, NeedsConsent, DECIDABLE
<1>2. Idle.op = "idle" /\ "idle" \notin OnRow  BY DEF Idle, OnRow, Operations, Decisions
<1>3. ConsentKept  BY <1>1, <1>2 DEF Init, ConsentKept, NoRow
<1>4. Sequential  BY <1>2 DEF Init, Sequential
<1>5. RowAgrees(NoRow)  BY <1>1, StatusesAreNamed DEF RowAgrees, NoRow
<1>6. OneActive  BY DEF Init, OneActive, Active, Exists, NoRow
<1>7. Agreement  BY <1>5, <1>6 DEF Init, Agreement
<1>8. QED  BY TypeInit, <1>3, <1>4, <1>7 DEF Columns

LEMMA ColumnsStep == ASSUME ParametersOK, Columns, [Next]_vars PROVE Columns'
BY TypeStep, ConsentStep, SequentialStep, AgreementStep DEF Columns

\* The status, the decision and the expiry of a row agree and a candidate has one active interview,
\* for any number of rows and requests (candidates/service.py, reports/service.py).
THEOREM ColumnsAlwaysAgree == ASSUME ParametersOK PROVE Spec => []ColumnsAgree
<1>1. Init => Columns  BY ColumnsInit
<1>2. Columns /\ [Next]_vars => Columns'  BY ColumnsStep
<1>3. Columns => ColumnsAgree
  BY DEF Columns, Typed, Agreement, RowAgrees, OneActive, ColumnsAgree, DecisionMatches,
         ExpiredIsOverdue, OneActiveUnlessRevived
<1>4. QED  BY <1>1, <1>2, <1>3, PTL DEF Spec

LEMMA WrittenAlongTransitions ==
    ASSUME ParametersOK, Typed, Sequential, overlaps = 0, NEW r \in Requests, req[r].op \in OnRow,
           NEW new \in Row, Changes(r, row[req[r].i], new), new.status # row[req[r].i].status
    PROVE  \/ new.status \in TRANSITIONS[row[req[r].i].status]
           \/ row[req[r].i].status = "invited" /\ new.status = "consented"
<1> DEFINE old == row[req[r].i]
           loaded == req[r].loaded
           op == req[r].op
<1>1. old.status = loaded.status /\ loaded.status \in Statuses /\ Permitted(op, loaded)
  BY DEF Sequential, Typed, RequestsPermitted
<1>2. CASE op = "resend" /\ old.status = "expired" /\ new.status = "invited"
  BY <1>1, <1>2 DEF TRANSITIONS
<1>3. CASE op = "cancel" /\ new.status = "cancelled"
  BY <1>1, <1>3 DEF Permitted
<1>4. CASE op = "expire" /\ new.status = "expired"
  BY <1>1, <1>4 DEF Permitted, TRANSITIONS
<1>5. CASE op = "open" /\ new.status = "opened"
  BY <1>1, <1>5 DEF Permitted, TRANSITIONS
<1>6. CASE op = "consent" /\ new.status = "consented"
  BY <1>1, <1>6 DEF Permitted, TRANSITIONS
<1>7. CASE op = "start" /\ new.status = "in_progress"
  BY <1>1, <1>7 DEF Permitted, TRANSITIONS
<1>8. CASE op = "work" /\ new.status = Following(old.status)
  <2>1. old.status \in {"in_progress", "completed", "processing", "evaluated"}
    BY <1>1, <1>8 DEF Permitted
  <2>2. new.status \in TRANSITIONS[old.status]
    BY <1>1, <1>8, <2>1 DEF Following, TRANSITIONS
  <2>3. QED  BY <2>2
<1>9. CASE op \in Decisions /\ Follows(loaded, op) /\ new.status = Target(op)
  <2>1. old.status \in {"evaluated", "reviewed", "advanced", "rejected"}
    BY <1>1, <1>9 DEF Permitted, Follows, DECIDABLE
  <2>2. op = "hold" => old.status = "evaluated"
    BY <1>1, <1>9 DEF Follows
  <2>3. new.status \in TRANSITIONS[old.status]
    BY <1>1, <1>9, <2>1, <2>2 DEF Target, Decisions, TRANSITIONS
  <2>4. QED  BY <2>3
<1>10. QED
  BY <1>1, <1>2, <1>3, <1>4, <1>5, <1>6, <1>7, <1>8, <1>9 DEF Changes

\* As long as no two requests overlap, no handler takes a status back: every change is one that
\* TRANSITIONS allows (candidates/models.py).
THEOREM StatusGoesAlongTransitions == ASSUME ParametersOK PROVE Spec => NeverBack
<1> DEFINE Along == \A i \in Interviews : AlongTransitions(i)
<1>1. Init => Columns  BY ColumnsInit
<1>2. Columns /\ [Next]_vars => Columns'  BY ColumnsStep
<1>3. ASSUME Columns, [Next]_vars PROVE Along
  <2> SUFFICES ASSUME NEW i \in Interviews, overlaps = 0, Exists(i), row'[i].status # row[i].status
               PROVE  \/ row'[i].status \in TRANSITIONS[row[i].status]
                      \/ row[i].status = "invited" /\ row'[i].status = "consented"
    BY DEF AlongTransitions
  <2>0. row \in [Interviews -> Row]  BY <1>3 DEF Columns, Typed, TypeOK
  <2>1. ASSUME NEW r \in Requests, BeginInvite(r) \/ Begins(r) PROVE UNCHANGED row
    BY <2>1 DEF BeginInvite, Begins, Begin
  <2>2. ASSUME NEW r \in Requests, invite(r) PROVE row'[i] = row[i]
    BY <2>0, <2>2 DEF invite
  <2>3. ASSUME NEW k \in Interviews, Overdue(k) PROVE row'[i].status = row[i].status
    BY <2>0, <2>3 DEF Overdue, Row
  <2>4. PICK r \in Requests : Writes(r)
    BY <1>3, <2>1, <2>2, <2>3, Steps DEF Columns, vars
  <2>5. PICK new \in Row : /\ req[r].op \in OnRow /\ req[r].i \in Interviews
                           /\ Commit(r, req[r].op, new) /\ Changes(r, row[req[r].i], new)
    BY <1>3, <2>4, WritesChange DEF Columns
  <2>6. row' = [row EXCEPT ![req[r].i] = new]  BY <2>5 DEF Commit
  <2>7. req[r].i = i /\ row'[i] = new  BY <2>0, <2>5, <2>6
  <2>8. QED  BY <1>3, <2>5, <2>7, WrittenAlongTransitions DEF Columns
<1>4. Columns /\ [Next]_vars => [Along]_vars  BY <1>3
<1>5. QED  BY <1>1, <1>2, <1>4, PTL DEF Spec, NeverBack
-----------------------------------------------------------------------------
(* The hand-over to Huntflow: the part "huntflow" of MCCandidates. *)

PCs == {"idle", "loaded", "search", "create", "share", "attach", "record", "return", "raise"}
Busy(e) == exec[e].pc # "idle"

\* An execution was claimed for the row there is or an older one; what it is about to attach or to
\* record is an applicant, and attached before it is recorded.
Claimed(e) ==
    /\ exec[e].of <= applicant.made
    /\ exec[e].pc \in {"share", "attach", "record"} => exec[e].applicant \in H!Applicants
    /\ exec[e].pc = "record" => exec[e].applicant \in huntflow.attached
Prepared == H!TypeOK /\ job.of <= applicant.made /\ \A e \in Executions : Claimed(e)

\* Until two executions overlap, the one at work on the row has the job, and nobody else is at work.
Single == \A e, f \in Executions : Busy(e) /\ Busy(f) => e = f
Owns(e) == job.status = "running" /\ job.owner = e /\ job.of = exec[e].of
Owned == \A e \in Executions : Busy(e) /\ H!Mine(e) => Owns(e)
\* A row that is being handed over is the job's, and unless the worker died somebody carries it on.
CarriesOn(e) == H!Mine(e) /\ exec[e].pc \notin {"idle", "return", "raise"}
Carried ==
    applicant.status = "pushing" =>
        /\ job.of = applicant.made
        /\ past.died \/ \E e \in Executions : CarriesOn(e)
\* Until the answer to a creation was lost, an applicant is only created where there is none.
Created ==
    ~past.unanswered => /\ huntflow.made <= 1
                        /\ \A e \in Executions : exec[e].pc = "create" => huntflow.made = 0

Undisputed == Single /\ Owned /\ Carried /\ Created
HandOver == Prepared /\ H!PushedIsAttached /\ (~past.lost => Undisputed)

LEMMA HandOverHolds == ASSUME HandOver  PROVE H!HandOverIsTrue
<1>1. H!TypeOK /\ H!PushedIsAttached  BY DEF HandOver, Prepared
<1>2. H!OneApplicant  BY DEF HandOver, Undisputed, Created, H!OneApplicant
<1>3. H!PushingHasJob
  <2>1. SUFFICES ASSUME applicant.status = "pushing", ~past.lost, ~past.died
                 PROVE  H!Active(job) /\ job.of = applicant.made
    BY DEF H!PushingHasJob
  <2>2. Owned /\ Carried  BY <2>1 DEF HandOver, Undisputed
  <2>3. PICK e \in Executions : CarriesOn(e)  BY <2>1, <2>2 DEF Carried
  <2>4. Owns(e)  BY <2>2, <2>3 DEF Owned, CarriesOn, Busy
  <2>5. QED  BY <2>1, <2>2, <2>4 DEF Owns, Carried, H!Active
<1>4. QED  BY <1>1, <1>2, <1>3 DEF H!HandOverIsTrue

LEMMA HandOverInit == ASSUME H!Init  PROVE HandOver
<1>1. /\ max_attempts \in Nat /\ MaxApplicants \in Nat \ {0} /\ MaxPushes \in Nat /\ MaxBreaks \in Nat
  BY SizesOK
<1>2. H!Idle \in H!Exec /\ H!Idle.pc = "idle" /\ H!Idle.of = 0
  BY <1>1 DEF H!Idle, H!Exec
<1>3. H!NoRow(0) \in H!Row /\ H!NoRow(0).made = 0 /\ H!NoRow(0).status = "none"
  BY <1>1 DEF H!NoRow, H!Row, H!HuntflowPushStatus
<1>4. /\ applicant = H!NoRow(0) /\ \A e \in Executions : exec[e] = H!Idle
      /\ exec = [e \in Executions |-> H!Idle] /\ huntflow.made \in 0 .. 1 /\ job.of = 0
  BY DEF H!Init
<1>5. H!TypeOK
  <2>1. job \in H!Job  BY <1>1 DEF H!Init, H!Job
  <2>2. past \in H!Past  BY <1>1 DEF H!Init, H!Past
  <2>3. huntflow \in [made : 0 .. MaxApplicants, attached : SUBSET H!Applicants]  BY <1>1 DEF H!Init
  <2>4. QED  BY <1>1, <1>2, <1>3, <1>4, <2>1, <2>2, <2>3 DEF H!Init, H!TypeOK, H!HuntflowConnectionStatus
<1>6. Prepared  BY <1>2, <1>3, <1>4, <1>5 DEF Prepared, Claimed
<1>7. QED
  BY <1>2, <1>3, <1>4, <1>6
  DEF HandOver, H!PushedIsAttached, Undisputed, Single, Owned, Carried, Created, Busy, H!Mine

\* What is known of the types, for one execution.
LEMMA HandTypes ==
    ASSUME H!TypeOK
    PROVE  /\ exec \in [Executions -> H!Exec] /\ job \in H!Job /\ applicant \in H!Row /\ past \in H!Past
           /\ huntflow.made \in 0 .. MaxApplicants /\ huntflow.attached \subseteq H!Applicants
           /\ external_ref \in 0 .. MaxApplicants /\ applicant.made \in Nat /\ job.of \in Nat
           /\ \A e \in Executions : /\ exec[e] \in H!Exec /\ exec[e].pc \in PCs /\ exec[e].of \in Nat
                                    /\ exec[e].known \subseteq H!Applicants
BY DEF H!TypeOK, H!Exec, H!Row, H!Job, PCs

LEMMA IdleIs == H!Idle \in H!Exec /\ H!Idle.pc = "idle" /\ H!Idle.of = 0 /\ H!Idle.applicant = 0
BY SizesOK DEF H!Idle, H!Exec

\* An execution with another point reached.
At(e, pc) == [exec[e] EXCEPT !.pc = pc]
LEMMA AtIs ==
    ASSUME H!TypeOK, NEW e \in Executions, NEW pc \in PCs
    PROVE  /\ At(e, pc) \in H!Exec /\ At(e, pc).pc = pc /\ At(e, pc).of = exec[e].of
           /\ At(e, pc).applicant = exec[e].applicant /\ At(e, pc).known = exec[e].known
<1>1. exec[e] \in H!Exec  BY HandTypes
<1>2. QED  BY <1>1 DEF At, H!Exec, PCs

\* A step of an execution at work: it keeps the row it was claimed for, and the job.
Works(e, now) ==
    /\ exec' = [exec EXCEPT ![e] = now] /\ now \in H!Exec /\ now.of = exec[e].of
    /\ Busy(e) /\ now.pc # "idle" /\ UNCHANGED job
    /\ past' \in H!Past /\ past'.lost = past.lost /\ past'.died = past.died
    /\ applicant' \in H!Row /\ applicant'.made = applicant.made
    /\ applicant'.status = "none" <=> applicant.status = "none"
    /\ applicant'.status = "pushing" =>
         /\ applicant.status = "pushing" \/ H!Mine(e)
         /\ H!Mine(e) => now.pc \notin {"return", "raise"}

LEMMA WorksAlone ==
    ASSUME H!TypeOK, Single, Owned, Carried, NEW e \in Executions, NEW now, Works(e, now)
    PROVE  Single' /\ Owned' /\ Carried'
<1>1. /\ exec'[e] = now /\ Busy(e) /\ Busy(e)' /\ now.of = exec[e].of /\ now.pc # "idle"
      /\ \A f \in Executions : f # e => exec'[f] = exec[f]
  BY HandTypes DEF Works, Busy
<1>2. \A f \in Executions : Busy(f)' => f = e  BY <1>1 DEF Single, Busy
<1>3. Single'  BY <1>2 DEF Single
<1>4. \A f \in Executions : H!Mine(f)' <=> H!Mine(f)  BY <1>1 DEF Works, H!Mine
<1>5. Owned'
  <2>1. ASSUME H!Mine(e)'  PROVE Owns(e)'
    <3>1. Owns(e)  BY <1>1, <1>4, <2>1 DEF Owned
    <3>2. QED  BY <1>1, <3>1 DEF Owns, Works
  <2>2. QED  BY <1>2, <2>1 DEF Owned
<1>6. Carried'
  <2>1. SUFFICES ASSUME applicant'.status = "pushing"
                 PROVE  /\ job'.of = applicant'.made
                        /\ past'.died \/ \E f \in Executions : CarriesOn(f)'
    BY DEF Carried
  <2>2. job.of = applicant.made /\ (past.died \/ H!Mine(e))
    <3>1. CASE H!Mine(e)
      <4>1. Owns(e)  BY <1>1, <3>1 DEF Owned
      <4>2. QED  BY <3>1, <4>1 DEF Owns, H!Mine
    <3>2. CASE ~H!Mine(e)
      <4>1. applicant.status = "pushing"  BY <2>1, <3>2 DEF Works
      <4>2. job.of = applicant.made /\ (past.died \/ \E f \in Executions : CarriesOn(f))  BY <4>1 DEF Carried
      <4>3. \A f \in Executions : CarriesOn(f) => f = e  BY <1>1 DEF Single, CarriesOn, Busy
      <4>4. QED  BY <3>2, <4>2, <4>3 DEF CarriesOn
    <3>3. QED  BY <3>1, <3>2
  <2>3. H!Mine(e) => CarriesOn(e)'  BY <1>1, <1>4, <2>1 DEF CarriesOn, Works
  <2>4. QED  BY <2>2, <2>3 DEF Works
<1>7. QED  BY <1>3, <1>5, <1>6

\* The rest of the invariant after such a step, when it creates no applicant.
LEMMA WorksOn ==
    ASSUME HandOver, NEW e \in Executions, NEW now, Works(e, now),
           connection' \in H!HuntflowConnectionStatus, linked' \in BOOLEAN,
           share' \in {"none", "active", "gone"}, external_ref' \in 0 .. MaxApplicants,
           huntflow' \in [made : 0 .. MaxApplicants, attached : SUBSET H!Applicants],
           huntflow.attached \subseteq huntflow'.attached,
           now.pc \in {"share", "attach", "record"} => now.applicant \in H!Applicants,
           now.pc = "record" => now.applicant \in huntflow'.attached,
           H!PushedIsAttached',
           ~past.lost => Created'
    PROVE  HandOver'
<1>1. H!TypeOK /\ Prepared  BY DEF HandOver, Prepared
<1>2. /\ exec \in [Executions -> H!Exec] /\ exec'[e] = now /\ exec' \in [Executions -> H!Exec]
      /\ \A f \in Executions : f # e => exec'[f] = exec[f]
  BY <1>1, HandTypes DEF Works
<1>3. H!TypeOK'
  <2>1. applicant' \in H!Row /\ past' \in H!Past /\ job' = job  BY DEF Works
  <2>2. QED  BY <1>1, <1>2, <2>1 DEF H!TypeOK
<1>4. Prepared'
  <2>1. ASSUME NEW f \in Executions  PROVE Claimed(f)'
    <3>1. CASE f = e  BY <1>1, <1>2, <3>1 DEF Claimed, Works, Prepared
    <3>2. CASE f # e  BY <1>1, <1>2, <3>2 DEF Claimed, Works, Prepared
    <3>3. QED  BY <3>1, <3>2
  <2>2. job'.of <= applicant'.made  BY <1>1 DEF Prepared, Works
  <2>3. QED  BY <1>3, <2>1, <2>2 DEF Prepared
<1>5. ASSUME ~past'.lost  PROVE Undisputed'
  <2>1. ~past.lost  BY <1>5 DEF Works
  <2>2. Single /\ Owned /\ Carried  BY <2>1 DEF HandOver, Undisputed
  <2>3. Single' /\ Owned' /\ Carried'  BY <1>1, <2>2, WorksAlone
  <2>4. QED  BY <2>1, <2>3 DEF Undisputed
<1>6. QED  BY <1>4, <1>5 DEF HandOver

\* When nothing is created, nobody but e may be about to.
LEMMA CreatedStays ==
    ASSUME H!TypeOK, Created, NEW e \in Executions, NEW now \in H!Exec, exec' = [exec EXCEPT ![e] = now],
           UNCHANGED huntflow, past'.unanswered = past.unanswered, now.pc = "create" => huntflow.made = 0
    PROVE  Created'
<1>1. exec'[e] = now /\ \A f \in Executions : f # e => exec'[f] = exec[f]  BY HandTypes
<1>2. QED  BY <1>1 DEF Created

\* Rows that are written: one column, or two.
InState(rw, status) == [rw EXCEPT !.status = status]
LEMMA RowFacts ==
    ASSUME NEW rw \in H!Row, NEW status \in H!HuntflowPushStatus
    PROVE  /\ InState(rw, status) \in H!Row /\ InState(rw, status).status = status
           /\ InState(rw, status).made = rw.made /\ InState(rw, status).applicant = rw.applicant
BY DEF InState, H!Row

LEMMA StepOf ==
    ASSUME HandOver, NEW e \in Executions, NEW now \in H!Exec, exec' = [exec EXCEPT ![e] = now],
           now.of = exec[e].of, Busy(e), now.pc # "idle", UNCHANGED <<job, huntflow, linked, past>>,
           connection' \in H!HuntflowConnectionStatus, share' \in {"none", "active", "gone"},
           external_ref' \in 0 .. MaxApplicants,
           now.pc = "create" => huntflow.made = 0,
           now.pc \in {"share", "attach", "record"} => now.applicant \in H!Applicants,
           now.pc = "record" => now.applicant \in huntflow.attached,
           applicant' \in H!Row, applicant'.made = applicant.made,
           applicant'.status = "none" <=> applicant.status = "none",
           applicant'.status = "pushing" =>
               /\ applicant.status = "pushing" \/ H!Mine(e)
               /\ H!Mine(e) => now.pc \notin {"return", "raise"},
           applicant'.status = "pushed" => applicant'.applicant \in huntflow.attached
    PROVE  HandOver'
<1>1. H!TypeOK  BY DEF HandOver, Prepared
<1>2. Works(e, now)  BY <1>1, HandTypes DEF Works
<1>3. H!PushedIsAttached'  BY DEF H!PushedIsAttached
<1>4. ~past.lost => Created'
  <2>1. ~past.lost => Created  BY DEF HandOver, Undisputed
  <2>2. QED  BY <1>1, <2>1, CreatedStays
<1>5. linked' \in BOOLEAN /\ huntflow' \in [made : 0 .. MaxApplicants, attached : SUBSET H!Applicants]
      /\ huntflow.attached \subseteq huntflow'.attached
  BY <1>1 DEF H!TypeOK
<1>6. QED  BY <1>2, <1>3, <1>4, <1>5, WorksOn

\* Failing marks the row of the execution.
LEMMA FailedKeeps ==
    ASSUME HandOver, NEW e \in Executions, NEW pc \in {"return", "raise"}, H!Failed(e, pc), Busy(e),
           UNCHANGED <<job, huntflow, linked, past, share, external_ref>>,
           connection' \in H!HuntflowConnectionStatus
    PROVE  HandOver'
<1> DEFINE to == IF H!Mine(e) THEN pc ELSE "raise"
<1>1. H!TypeOK  BY DEF HandOver, Prepared
<1>2. exec' = [exec EXCEPT ![e] = At(e, to)]  BY Zenon DEF H!Failed, H!Go, At
<1>3. applicant' = IF H!Mine(e) THEN InState(applicant, "error") ELSE applicant  BY Zenon DEF H!Failed, InState
<1>4. to \in {"return", "raise"} /\ to \in PCs  BY DEF PCs
<1>5. At(e, to) \in H!Exec /\ At(e, to).pc = to /\ At(e, to).of = exec[e].of  BY <1>1, <1>4, AtIs
<1> HIDE DEF to
<1>6. applicant \in H!Row /\ share \in {"none", "active", "gone"} /\ external_ref \in 0 .. MaxApplicants
  BY <1>1 DEF H!TypeOK
<1>7. /\ InState(applicant, "error") \in H!Row /\ InState(applicant, "error").status = "error"
      /\ InState(applicant, "error").made = applicant.made
  BY <1>6, RowFacts DEF H!HuntflowPushStatus
<1>8. H!Mine(e) => applicant.status # "none"  BY DEF H!Mine
<1>9. applicant.status = "pushed" => applicant.applicant \in huntflow.attached
  BY DEF HandOver, H!PushedIsAttached
<1>10. CASE H!Mine(e)  BY <1>2, <1>3, <1>4, <1>5, <1>6, <1>7, <1>8, <1>10, StepOf
<1>11. CASE ~H!Mine(e)  BY <1>2, <1>3, <1>4, <1>5, <1>6, <1>9, <1>11, StepOf
<1>12. QED  BY <1>10, <1>11

LEMMA StartKeeps == ASSUME HandOver, NEW e \in Executions, H!Start(e)  PROVE HandOver'
<1>1. /\ H!TypeOK /\ Busy(e) /\ exec[e].pc = "loaded"
      /\ UNCHANGED <<connection, linked, share, external_ref, job, huntflow, past>>
  BY DEF HandOver, Prepared, H!Start, H!At, Busy
<1>2. /\ connection' \in H!HuntflowConnectionStatus /\ share' \in {"none", "active", "gone"}
      /\ external_ref' \in 0 .. MaxApplicants /\ applicant \in H!Row /\ external_ref \in 0 .. MaxApplicants
      /\ applicant.status = "pushed" => applicant.applicant \in huntflow.attached
  BY <1>1 DEF H!TypeOK, HandOver, H!PushedIsAttached
<1>3. CASE ~H!Mine(e)
  <2>1. exec' = [exec EXCEPT ![e] = At(e, "return")] /\ UNCHANGED applicant
    BY <1>3, Zenon DEF H!Start, H!Go, At
  <2>2. At(e, "return") \in H!Exec /\ At(e, "return").pc = "return" /\ At(e, "return").of = exec[e].of
    BY <1>1, AtIs DEF PCs
  <2>3. QED  BY <1>1, <1>2, <1>3, <2>1, <2>2, StepOf
<1>4. CASE H!Mine(e) /\ ~H!Pushable
  <2>1. H!Failed(e, "return")  BY <1>4, Zenon DEF H!Start
  <2>2. QED  BY <1>1, <1>2, <2>1, FailedKeeps
<1>5. CASE H!Mine(e) /\ H!Pushable
  <2> DEFINE now == [exec[e] EXCEPT !.pc = "search", !.shared = applicant.share,
                                    !.known = {applicant.applicant, external_ref} \ {0}]
  <2>1. exec' = [exec EXCEPT ![e] = now] /\ applicant' = InState(applicant, "pushing")
    BY <1>5, Zenon DEF H!Start, H!Go, InState
  <2>2. now \in H!Exec /\ now.pc = "search" /\ now.of = exec[e].of
    <3>1. exec[e] \in H!Exec  BY <1>1, HandTypes
    <3>2. {applicant.applicant, external_ref} \ {0} \subseteq H!Applicants
      <4>1. applicant.applicant \in 0 .. MaxApplicants  BY <1>2 DEF H!Row
      <4>2. \A n \in 0 .. MaxApplicants : n # 0 => n \in 1 .. MaxApplicants  BY SizesOK
      <4>3. QED  BY <1>2, <4>1, <4>2 DEF H!Applicants
    <3>3. applicant.share \in BOOLEAN  BY <1>2 DEF H!Row
    <3>4. QED  BY <3>1, <3>2, <3>3 DEF H!Exec
  <2> HIDE DEF now
  <2>3. /\ InState(applicant, "pushing") \in H!Row /\ InState(applicant, "pushing").status = "pushing"
        /\ InState(applicant, "pushing").made = applicant.made
    BY <1>2, RowFacts DEF H!HuntflowPushStatus
  <2>4. applicant.status # "none"  BY <1>5 DEF H!Mine
  <2>5. QED  BY <1>1, <1>2, <1>5, <2>1, <2>2, <2>3, <2>4, StepOf
<1>6. QED  BY <1>3, <1>4, <1>5

LEMMA CallFailsKeeps == ASSUME HandOver, NEW e \in Executions, H!CallFails(e)  PROVE HandOver'
<1>1. H!TypeOK /\ Busy(e) /\ UNCHANGED <<linked, share, external_ref, job, huntflow, past>>
  BY DEF HandOver, Prepared, H!CallFails, Busy
<1>2. H!Failed(e, "return") \/ H!Failed(e, "raise")  BY Zenon DEF H!CallFails
<1>3. connection' \in H!HuntflowConnectionStatus
  <2>1. connection' = "error" \/ connection' = connection  BY Zenon DEF H!CallFails
  <2>2. QED  BY <1>1, <2>1 DEF H!TypeOK, H!HuntflowConnectionStatus
<1>4. QED  BY <1>1, <1>2, <1>3, FailedKeeps

\* Steps that change nothing but what the execution knows, or the share and the status of its row.
LEMMA OwnStep ==
    ASSUME HandOver, NEW e \in Executions, NEW now \in H!Exec, exec' = [exec EXCEPT ![e] = now],
           now.of = exec[e].of, Busy(e), now.pc \notin {"idle", "return", "raise"} \/ ~H!Mine(e), now.pc # "idle",
           UNCHANGED <<job, huntflow, linked, past, connection, external_ref>>,
           share' \in {"none", "active", "gone"},
           now.pc = "create" => huntflow.made = 0,
           now.pc \in {"share", "attach", "record"} => now.applicant \in H!Applicants,
           now.pc = "record" => now.applicant \in huntflow.attached,
           applicant' \in H!Row, applicant'.made = applicant.made, applicant'.status = applicant.status,
           applicant'.applicant = applicant.applicant
    PROVE  HandOver'
<1>1. connection' \in H!HuntflowConnectionStatus /\ external_ref' \in 0 .. MaxApplicants
  BY DEF HandOver, Prepared, H!TypeOK
<1>2. applicant'.status = "pushed" => applicant'.applicant \in huntflow.attached
  BY DEF HandOver, H!PushedIsAttached
<1>3. QED  BY <1>1, <1>2, StepOf

LEMMA EnsureApplicantKeeps == ASSUME HandOver, NEW e \in Executions, H!_ensure_applicant(e)  PROVE HandOver'
<1>1. /\ H!TypeOK /\ Busy(e) /\ exec[e].pc = "search"
      /\ UNCHANGED <<connection, linked, applicant, share, external_ref, job, huntflow, past>>
  BY DEF HandOver, Prepared, H!_ensure_applicant, H!At, Busy
<1>2. /\ exec[e] \in H!Exec /\ applicant \in H!Row /\ share \in {"none", "active", "gone"}
      /\ huntflow.made \in 0 .. MaxApplicants /\ exec[e].known \subseteq H!Applicants
  BY <1>1, HandTypes DEF H!TypeOK
<1>3. CASE H!Found(exec[e].known) = {}
  <2>1. exec' = [exec EXCEPT ![e] = At(e, "create")]  BY <1>3, Zenon DEF H!_ensure_applicant, H!Go, At
  <2>2. At(e, "create") \in H!Exec /\ At(e, "create").pc = "create" /\ At(e, "create").of = exec[e].of
    BY <1>1, AtIs DEF PCs
  <2>3. huntflow.made = 0
    <3>1. 1 .. huntflow.made = {}  BY <1>3 DEF H!Found
    <3>2. QED  BY <1>2, <3>1
  <2>4. QED  BY <1>1, <1>2, <2>1, <2>2, <2>3, OwnStep
<1>4. ASSUME NEW a \in H!Found(exec[e].known), exec' = [exec EXCEPT ![e] = [exec[e] EXCEPT !.pc = "share", !.applicant = a]]
      PROVE  HandOver'
  <2> DEFINE now == [exec[e] EXCEPT !.pc = "share", !.applicant = a]
  <2>1. a \in H!Applicants /\ a \in 0 .. MaxApplicants
    <3>1. 1 .. huntflow.made \subseteq 1 .. MaxApplicants  BY <1>2, SizesOK
    <3>2. a \in H!Applicants  BY <1>2, <3>1 DEF H!Found, H!Applicants
    <3>3. QED  BY <3>2, SizesOK DEF H!Applicants
  <2>2. now \in H!Exec /\ now.pc = "share" /\ now.of = exec[e].of /\ now.applicant = a
    BY <1>2, <2>1 DEF H!Exec
  <2>3. exec' = [exec EXCEPT ![e] = now]  BY <1>4
  <2> HIDE DEF now
  <2>4. QED  BY <1>1, <1>2, <2>1, <2>2, <2>3, OwnStep
<1>5. \/ H!Found(exec[e].known) = {}
      \/ \E a \in H!Found(exec[e].known) : exec' = [exec EXCEPT ![e] = [exec[e] EXCEPT !.pc = "share", !.applicant = a]]
  BY Zenon DEF H!_ensure_applicant, H!Go
<1>6. QED  BY <1>3, <1>4, <1>5

\* Steps of an execution that make or attach an applicant: the row stays as it is.
LEMMA ApplicantStep ==
    ASSUME HandOver, NEW e \in Executions, NEW now \in H!Exec, exec' = [exec EXCEPT ![e] = now],
           now.of = exec[e].of, Busy(e), now.pc \notin {"idle", "return", "raise"},
           UNCHANGED <<connection, linked, applicant, share, external_ref, job>>,
           huntflow'.made \in 0 .. MaxApplicants, huntflow'.attached \subseteq H!Applicants,
           huntflow' \in [made : 0 .. MaxApplicants, attached : SUBSET H!Applicants],
           huntflow.attached \subseteq huntflow'.attached,
           now.pc \in {"share", "attach", "record"} => now.applicant \in H!Applicants,
           now.pc = "record" => now.applicant \in huntflow'.attached,
           past' \in H!Past, past'.lost = past.lost, past'.died = past.died,
           ~past.lost => Created'
    PROVE  HandOver'
<1>1. H!TypeOK /\ H!PushedIsAttached  BY DEF HandOver, Prepared
<1>2. Works(e, now)  BY <1>1 DEF Works, H!TypeOK
<1>3. H!PushedIsAttached'  BY <1>1 DEF H!PushedIsAttached
<1>4. /\ connection' \in H!HuntflowConnectionStatus /\ linked' \in BOOLEAN
      /\ share' \in {"none", "active", "gone"} /\ external_ref' \in 0 .. MaxApplicants
  BY <1>1 DEF H!TypeOK
<1>5. QED  BY <1>2, <1>3, <1>4, WorksOn

\* One applicant more.
Made(n) == [huntflow EXCEPT !.made = n]
LEMMA MadeFacts ==
    ASSUME H!TypeOK, huntflow.made < MaxApplicants
    PROVE  /\ huntflow.made + 1 \in H!Applicants /\ huntflow.made + 1 \in 0 .. MaxApplicants
           /\ Made(huntflow.made + 1) \in [made : 0 .. MaxApplicants, attached : SUBSET H!Applicants]
           /\ Made(huntflow.made + 1).made = huntflow.made + 1
           /\ Made(huntflow.made + 1).attached = huntflow.attached /\ huntflow.attached \subseteq H!Applicants
<1>1. huntflow \in [made : 0 .. MaxApplicants, attached : SUBSET H!Applicants]  BY DEF H!TypeOK
<1>2. huntflow.made + 1 \in 1 .. MaxApplicants /\ huntflow.made + 1 \in 0 .. MaxApplicants  BY <1>1, SizesOK
<1>3. QED  BY <1>1, <1>2 DEF Made, H!Applicants

LEMMA CreateApplicantKeeps == ASSUME HandOver, NEW e \in Executions, H!create_applicant(e)  PROVE HandOver'
<1> DEFINE now == [exec[e] EXCEPT !.pc = "share", !.applicant = huntflow.made + 1]
<1>1. /\ H!TypeOK /\ Busy(e) /\ exec[e].pc = "create" /\ huntflow.made < MaxApplicants
      /\ UNCHANGED <<connection, linked, applicant, share, external_ref, job, past>>
  BY DEF HandOver, Prepared, H!create_applicant, H!At, Busy
<1>2. huntflow' = Made(huntflow.made + 1) /\ exec' = [exec EXCEPT ![e] = now]
  BY Zenon DEF H!create_applicant, H!Go, Made
<1>3. huntflow.made + 1 \in H!Applicants /\ huntflow.made + 1 \in 0 .. MaxApplicants  BY <1>1, MadeFacts
<1>4. now \in H!Exec /\ now.pc = "share" /\ now.of = exec[e].of /\ now.applicant = huntflow.made + 1
  <2>1. exec[e] \in H!Exec  BY <1>1, HandTypes
  <2>2. QED  BY <1>3, <2>1 DEF H!Exec
<1> HIDE DEF now
<1>5. /\ huntflow' \in [made : 0 .. MaxApplicants, attached : SUBSET H!Applicants]
      /\ huntflow'.made = huntflow.made + 1 /\ huntflow'.attached = huntflow.attached
      /\ huntflow.attached \subseteq H!Applicants
  BY <1>1, <1>2, MadeFacts
<1>6. past' \in H!Past  BY <1>1 DEF H!TypeOK
<1>7. ASSUME ~past.lost  PROVE Created'
  <2>1. Single /\ Created  BY <1>7 DEF HandOver, Undisputed
  <2>2. exec'[e] = now /\ \A f \in Executions : f # e => exec'[f] = exec[f]  BY <1>1, <1>2, HandTypes
  <2>3. \A f \in Executions : exec'[f].pc # "create"
    BY <1>1, <1>4, <2>1, <2>2 DEF Single, Busy
  <2>4. ~past.unanswered => huntflow.made = 0  BY <1>1, <2>1 DEF Created
  <2>5. ~past'.unanswered => huntflow'.made <= 1  BY <1>1, <1>5, <2>4
  <2>6. QED  BY <2>3, <2>5 DEF Created
<1>8. huntflow'.made \in 0 .. MaxApplicants /\ huntflow'.attached \subseteq H!Applicants  BY <1>3, <1>5
<1>9. QED  BY <1>1, <1>2, <1>3, <1>4, <1>5, <1>6, <1>7, <1>8, ApplicantStep

LEMMA CreatedUnansweredKeeps == ASSUME HandOver, NEW e \in Executions, H!CreatedUnanswered(e)  PROVE HandOver'
<1> DEFINE after == [past EXCEPT !.unanswered = TRUE]
<1>1. /\ H!TypeOK /\ Busy(e) /\ exec[e].pc = "create" /\ huntflow.made < MaxApplicants
      /\ UNCHANGED <<connection, linked, applicant, share, external_ref, job, exec>>
  BY DEF HandOver, Prepared, H!CreatedUnanswered, H!At, Busy
<1>2. huntflow' = Made(huntflow.made + 1) /\ past' = after  BY Zenon DEF H!CreatedUnanswered, Made
<1>3. after \in H!Past /\ after.lost = past.lost /\ after.died = past.died /\ after.unanswered
  BY <1>1, HandTypes DEF H!Past
<1> HIDE DEF after
<1>4. exec' = [exec EXCEPT ![e] = exec[e]] /\ exec[e] \in H!Exec  BY <1>1, HandTypes
<1>5. /\ huntflow' \in [made : 0 .. MaxApplicants, attached : SUBSET H!Applicants]
      /\ huntflow'.made = huntflow.made + 1 /\ huntflow'.attached = huntflow.attached
      /\ huntflow.attached \subseteq H!Applicants /\ huntflow.made + 1 \in 0 .. MaxApplicants
  BY <1>1, <1>2, MadeFacts
<1>6. Created'  BY <1>2, <1>3 DEF Created
<1>7. huntflow'.made \in 0 .. MaxApplicants /\ huntflow'.attached \subseteq H!Applicants  BY <1>5
<1>8. QED  BY <1>1, <1>2, <1>3, <1>4, <1>5, <1>6, <1>7, ApplicantStep

\* The share of the row.
Shared(rw) == [rw EXCEPT !.share = TRUE]
LEMMA SharedFacts ==
    ASSUME NEW rw \in H!Row
    PROVE  /\ Shared(rw) \in H!Row /\ Shared(rw).status = rw.status
           /\ Shared(rw).made = rw.made /\ Shared(rw).applicant = rw.applicant
BY DEF Shared, H!Row

LEMMA EnsureShareKeeps == ASSUME HandOver, NEW e \in Executions, H!_ensure_share(e)  PROVE HandOver'
<1> DEFINE to == IF H!Reusable(e) \/ H!Mine(e) THEN "attach" ELSE "raise"
<1>1. /\ H!TypeOK /\ Busy(e) /\ exec[e].pc = "share"
      /\ UNCHANGED <<connection, linked, external_ref, job, huntflow, past>>
  BY DEF HandOver, Prepared, H!_ensure_share, H!At, Busy
<1>2. exec' = [exec EXCEPT ![e] = At(e, to)]
  <2>1. CASE H!Reusable(e)  BY <2>1, Zenon DEF H!_ensure_share, H!Go, At
  <2>2. CASE ~H!Reusable(e) /\ H!Mine(e)  BY <2>2, Zenon DEF H!_ensure_share, H!Go, At
  <2>3. CASE ~H!Reusable(e) /\ ~H!Mine(e)  BY <2>3, Zenon DEF H!_ensure_share, H!Go, At
  <2>4. QED  BY <2>1, <2>2, <2>3
<1>3. applicant' = applicant \/ applicant' = Shared(applicant)  BY Zenon DEF H!_ensure_share, Shared
<1>4. share' = share \/ share' = "active"  BY Zenon DEF H!_ensure_share
<1>5. to \in PCs /\ to \in {"attach", "raise"} /\ (H!Mine(e) => to = "attach")  BY DEF PCs
<1> HIDE DEF to
<1>6. /\ At(e, to) \in H!Exec /\ At(e, to).pc = to /\ At(e, to).of = exec[e].of
      /\ At(e, to).applicant = exec[e].applicant
  BY <1>1, <1>5, AtIs
<1>7. applicant \in H!Row /\ share' \in {"none", "active", "gone"}  BY <1>1, <1>4 DEF H!TypeOK
<1>8. /\ applicant' \in H!Row /\ applicant'.made = applicant.made /\ applicant'.status = applicant.status
      /\ applicant'.applicant = applicant.applicant
  BY <1>3, <1>7, SharedFacts
<1>9. exec[e].applicant \in H!Applicants  BY <1>1 DEF HandOver, Prepared, Claimed
<1>10. QED  BY <1>1, <1>2, <1>5, <1>6, <1>7, <1>8, <1>9, OwnStep

LEMMA AttachVacancyKeeps == ASSUME HandOver, NEW e \in Executions, H!attach_vacancy(e)  PROVE HandOver'
<1> DEFINE after == [huntflow EXCEPT !.attached = @ \cup {exec[e].applicant}]
<1>1. /\ H!TypeOK /\ Busy(e) /\ exec[e].pc = "attach"
      /\ UNCHANGED <<connection, linked, applicant, share, external_ref, job, past>>
  BY DEF HandOver, Prepared, H!attach_vacancy, H!At, Busy
<1>2. huntflow' = after /\ (exec' = exec \/ exec' = [exec EXCEPT ![e] = At(e, "record")])
  BY Zenon DEF H!attach_vacancy, At
<1>3. exec[e].applicant \in H!Applicants  BY <1>1 DEF HandOver, Prepared, Claimed
<1>4. /\ after \in [made : 0 .. MaxApplicants, attached : SUBSET H!Applicants]
      /\ after.made = huntflow.made /\ huntflow.attached \subseteq after.attached
      /\ exec[e].applicant \in after.attached
      /\ after.made \in 0 .. MaxApplicants /\ after.attached \subseteq H!Applicants
  BY <1>1, <1>3 DEF H!TypeOK
<1> HIDE DEF after
<1>5. /\ At(e, "record") \in H!Exec /\ At(e, "record").pc = "record" /\ At(e, "record").of = exec[e].of
      /\ At(e, "record").applicant = exec[e].applicant
  BY <1>1, AtIs DEF PCs
<1>6. exec[e] \in H!Exec /\ exec = [exec EXCEPT ![e] = exec[e]] /\ past' \in H!Past
  BY <1>1, HandTypes
<1>7. ASSUME ~past.lost  PROVE Created'
  <2>1. Created  BY <1>7 DEF HandOver, Undisputed
  <2>2. \A f \in Executions : exec'[f].pc = "create" => exec[f].pc = "create"
    <3>1. CASE exec' = exec  BY <3>1
    <3>2. CASE exec' = [exec EXCEPT ![e] = At(e, "record")]
      BY <1>1, <1>5, <3>2, HandTypes
    <3>3. QED  BY <1>2, <3>1, <3>2
  <2>3. QED  BY <1>1, <1>2, <1>4, <2>1, <2>2 DEF Created
<1>8. CASE exec' = exec  BY <1>1, <1>2, <1>3, <1>4, <1>6, <1>7, <1>8, ApplicantStep
<1>9. CASE exec' = [exec EXCEPT ![e] = At(e, "record")]
  BY <1>1, <1>2, <1>3, <1>4, <1>5, <1>6, <1>7, <1>9, ApplicantStep
<1>10. QED  BY <1>2, <1>8, <1>9

\* A row that is recorded.
RecordedAs(rw, a) == [rw EXCEPT !.status = "pushed", !.applicant = a]
LEMMA RecordedFacts ==
    ASSUME NEW rw \in H!Row, NEW a \in H!Applicants
    PROVE  /\ RecordedAs(rw, a) \in H!Row /\ RecordedAs(rw, a).status = "pushed"
           /\ RecordedAs(rw, a).made = rw.made /\ RecordedAs(rw, a).applicant = a
<1>1. a \in 0 .. MaxApplicants  BY SizesOK DEF H!Applicants
<1>2. QED  BY <1>1 DEF RecordedAs, H!Row, H!HuntflowPushStatus

LEMMA RecordKeeps == ASSUME HandOver, NEW e \in Executions, H!Record(e)  PROVE HandOver'
<1>1. /\ H!TypeOK /\ Busy(e) /\ exec[e].pc = "record"
      /\ UNCHANGED <<connection, linked, share, job, huntflow, past>>
  BY DEF HandOver, Prepared, H!Record, H!At, Busy
<1>2. exec[e].applicant \in H!Applicants /\ exec[e].applicant \in huntflow.attached
  BY <1>1 DEF HandOver, Prepared, Claimed
<1>3. /\ connection' \in H!HuntflowConnectionStatus /\ share' \in {"none", "active", "gone"}
      /\ applicant \in H!Row /\ external_ref \in 0 .. MaxApplicants
      /\ applicant.status = "pushed" => applicant.applicant \in huntflow.attached
  BY <1>1 DEF H!TypeOK, HandOver, H!PushedIsAttached
<1>4. CASE H!Mine(e)
  <2>1. exec' = [exec EXCEPT ![e] = At(e, "return")] /\ applicant' = RecordedAs(applicant, exec[e].applicant)
    BY <1>4, Zenon DEF H!Record, H!Go, H!Pushed, At, RecordedAs
  <2>2. external_ref' \in {external_ref, exec[e].applicant}
    <3>1. external_ref' = IF exec[e].known = {} THEN exec[e].applicant
                          ELSE H!Ref(external_ref, exec[e].applicant)
      BY <1>4, Zenon DEF H!Record
    <3>2. QED  BY <3>1 DEF H!Ref
  <2>3. external_ref' \in 0 .. MaxApplicants  BY <1>2, <1>3, <2>2, SizesOK DEF H!Applicants
  <2>4. At(e, "return") \in H!Exec /\ At(e, "return").pc = "return" /\ At(e, "return").of = exec[e].of
    BY <1>1, AtIs DEF PCs
  <2>5. /\ applicant' \in H!Row /\ applicant'.status = "pushed" /\ applicant'.made = applicant.made
        /\ applicant'.applicant = exec[e].applicant
    BY <1>2, <1>3, <2>1, RecordedFacts
  <2>6. applicant.status # "none"  BY <1>4 DEF H!Mine
  <2>7. QED  BY <1>1, <1>2, <1>3, <1>4, <2>1, <2>3, <2>4, <2>5, <2>6, StepOf
<1>5. CASE ~H!Mine(e)
  <2>1. exec' = [exec EXCEPT ![e] = At(e, "raise")] /\ UNCHANGED <<applicant, external_ref>>
    BY <1>5, Zenon DEF H!Record, H!Go, At
  <2>2. At(e, "raise") \in H!Exec /\ At(e, "raise").pc = "raise" /\ At(e, "raise").of = exec[e].of
    BY <1>1, AtIs DEF PCs
  <2>3. QED  BY <1>1, <1>3, <1>5, <2>1, <2>2, StepOf
<1>6. QED  BY <1>4, <1>5

\* The job, and what it is like after a step of the queue.
JobIn(status, attempts, owner) == [job EXCEPT !.status = status, !.attempts = attempts, !.owner = owner]
LEMMA JobFacts ==
    ASSUME H!TypeOK, NEW status \in {"queued", "running", "succeeded", "failed"},
           NEW attempts \in 0 .. max_attempts, NEW owner \in Executions \cup {0}
    PROVE  /\ JobIn(status, attempts, owner) \in H!Job /\ JobIn(status, attempts, owner).of = job.of
           /\ JobIn(status, attempts, owner).status = status /\ JobIn(status, attempts, owner).owner = owner
<1>1. job \in H!Job  BY DEF H!TypeOK
<1>2. QED  BY <1>1 DEF JobIn, H!Job

\* The queue does not touch the row, nor Huntflow.
Rest == UNCHANGED <<connection, linked, applicant, share, external_ref, huntflow>>
LEMMA QueueStep ==
    ASSUME H!TypeOK, HandOver, Rest, job' \in H!Job, job'.of = job.of, past' \in H!Past,
           exec' \in [Executions -> H!Exec], \A f \in Executions : Claimed(f)',
           ~past'.lost => Undisputed'
    PROVE  HandOver'
<1>1. H!TypeOK'  BY DEF Rest, H!TypeOK
<1>2. Prepared'  BY <1>1 DEF Prepared, HandOver, Rest
<1>3. H!PushedIsAttached'  BY DEF HandOver, H!PushedIsAttached, Rest
<1>4. QED  BY <1>2, <1>3 DEF HandOver

\* An execution that is over has nothing claimed.
LEMMA IdleClaimed ==
    ASSUME HandOver, Rest, NEW f \in Executions, exec'[f] = exec[f] \/ exec'[f] = H!Idle
    PROVE  Claimed(f)'
<1>1. Claimed(f) /\ applicant.made \in Nat  BY HandTypes DEF HandOver, Prepared
<1>2. CASE exec'[f] = exec[f]  BY <1>1, <1>2 DEF Claimed, Rest
<1>3. CASE exec'[f] = H!Idle  BY <1>1, <1>3, IdleIs DEF Claimed, Rest
<1>4. QED  BY <1>2, <1>3

LEMMA EndKeeps == ASSUME HandOver, NEW e \in Executions, H!End(e)  PROVE HandOver'
<1>1. /\ H!TypeOK /\ Busy(e) /\ exec[e].pc \in {"return", "raise"} /\ Rest /\ UNCHANGED past
      /\ exec' = [exec EXCEPT ![e] = H!Idle]
  BY DEF HandOver, Prepared, H!End, H!Go, Busy, Rest
<1>2. job' \in H!Job /\ job'.of = job.of
  <2>1. job \in H!Job /\ job.attempts \in 0 .. max_attempts  BY <1>1 DEF H!TypeOK, H!Job
  <2>2. \/ job' = job
        \/ \E status \in {"queued", "succeeded", "failed"} : job' = [job EXCEPT !.status = status, !.owner = 0]
    BY Zenon DEF H!End
  <2>3. QED  BY <2>1, <2>2 DEF H!Job
<1>3. /\ exec'[e] = H!Idle /\ exec' \in [Executions -> H!Exec]
      /\ \A f \in Executions : f # e => exec'[f] = exec[f]
  BY <1>1, HandTypes, IdleIs
<1>4. \A f \in Executions : Claimed(f)'  BY <1>1, <1>3, IdleClaimed
<1>5. ASSUME ~past'.lost  PROVE Undisputed'
  <2>1. Undisputed  BY <1>1, <1>5 DEF HandOver
  <2>2. \A f \in Executions : ~Busy(f)'
    BY <1>1, <1>3, <2>1, IdleIs DEF Undisputed, Single, Busy
  <2>3. Single' /\ Owned'  BY <2>2 DEF Single, Owned
  <2>4. Carried'
    <3>1. \A f \in Executions : ~CarriesOn(f)
      BY <1>1, <2>1 DEF Undisputed, Single, Busy, CarriesOn
    <3>2. QED  BY <1>1, <1>2, <2>1, <3>1 DEF Undisputed, Carried, Rest
  <2>5. Created'  BY <1>1, <2>1, <2>2 DEF Undisputed, Created, Rest, Busy
  <2>6. QED  BY <2>3, <2>4, <2>5 DEF Undisputed
<1>6. past' \in H!Past  BY <1>1 DEF H!TypeOK
<1>7. QED  BY <1>1, <1>2, <1>3, <1>4, <1>5, <1>6, QueueStep

LEMMA DieKeeps == ASSUME HandOver, H!Die  PROVE HandOver'
<1> DEFINE after == [past EXCEPT !.breaks = @ + 1, !.died = TRUE]
<1>1. /\ H!TypeOK /\ Rest /\ UNCHANGED job /\ past.breaks < MaxBreaks
      /\ \A f \in Executions : exec'[f] = H!Idle
      /\ exec' = [e \in Executions |-> H!Idle] /\ past' = after
  BY DEF HandOver, Prepared, H!Die, Rest
<1>2. after \in H!Past /\ after.died /\ after.lost = past.lost /\ after.unanswered = past.unanswered
  <2>1. past \in H!Past  BY <1>1 DEF H!TypeOK
  <2>2. past.breaks \in 0 .. MaxBreaks  BY <2>1 DEF H!Past
  <2>3. past.breaks + 1 \in 0 .. MaxBreaks  BY <1>1, <2>2, SizesOK
  <2>4. QED  BY <2>1, <2>3 DEF H!Past
<1> HIDE DEF after
<1>3. job' \in H!Job /\ job'.of = job.of  BY <1>1 DEF H!TypeOK
<1>4. exec' \in [Executions -> H!Exec]  BY <1>1, IdleIs
<1>5. \A f \in Executions : Claimed(f)'  BY <1>1, IdleClaimed
<1>6. ASSUME ~past'.lost  PROVE Undisputed'
  <2>1. Undisputed  BY <1>1, <1>2, <1>6 DEF HandOver
  <2>2. \A f \in Executions : ~Busy(f)'  BY <1>1, IdleIs DEF Busy
  <2>3. Single' /\ Owned'  BY <2>2 DEF Single, Owned
  <2>4. Carried'  BY <1>1, <1>2, <2>1 DEF Undisputed, Carried, Rest
  <2>5. Created'  BY <1>1, <1>2, <2>1, <2>2 DEF Undisputed, Created, Rest, Busy
  <2>6. QED  BY <2>3, <2>4, <2>5 DEF Undisputed
<1>7. QED  BY <1>1, <1>2, <1>3, <1>4, <1>5, <1>6, QueueStep

\* The job that is claimed, and the execution of it.
Loaded == [H!Idle EXCEPT !.pc = "loaded", !.of = job.of]
LEMMA LoadedIs ==
    ASSUME H!TypeOK
    PROVE  Loaded \in H!Exec /\ Loaded.pc = "loaded" /\ Loaded.of = job.of
BY HandTypes, IdleIs DEF Loaded, H!Idle, H!Exec

LEMMA ClaimKeeps == ASSUME HandOver, NEW e \in Executions, H!Claim(e)  PROVE HandOver'
<1>1. H!TypeOK /\ ~Busy(e) /\ Rest /\ job \in H!Job /\ past \in H!Past
  BY DEF HandOver, Prepared, H!Claim, H!At, Busy, Rest, H!TypeOK
<1>2. job.attempts \in 0 .. max_attempts /\ job.of <= applicant.made
  BY <1>1 DEF H!Job, HandOver, Prepared
<1>3. H!Running = {} => \A f \in Executions : ~Busy(f)  BY DEF H!Running, Busy
<1>4. CASE H!AttemptsLeft
  <2> DEFINE after == [past EXCEPT !.lost = @ \/ H!Running # {}, !.died = FALSE]
  <2>1. /\ job' = JobIn("running", job.attempts + 1, e) /\ exec' = [exec EXCEPT ![e] = Loaded]
        /\ past' = after
    BY <1>4, Zenon DEF H!Claim, H!Go, JobIn, Loaded
  <2>2. job.attempts + 1 \in 0 .. max_attempts  BY <1>2, <1>4, SizesOK DEF H!AttemptsLeft
  <2>3. job' \in H!Job /\ job'.of = job.of /\ job'.status = "running" /\ job'.owner = e
    BY <1>1, <2>1, <2>2, JobFacts
  <2>4. /\ after \in H!Past /\ (~after.lost => ~past.lost /\ H!Running = {})
        /\ after.unanswered = past.unanswered
    BY <1>1 DEF H!Past
  <2> HIDE DEF after
  <2>5. /\ exec'[e] = Loaded /\ exec' \in [Executions -> H!Exec]
        /\ \A f \in Executions : f # e => exec'[f] = exec[f]
    BY <1>1, <2>1, HandTypes, LoadedIs
  <2>6. \A f \in Executions : Claimed(f)'
    <3>1. Claimed(e)'  BY <1>1, <1>2, <2>5, LoadedIs DEF Claimed, Rest
    <3>2. QED  BY <1>1, <2>5, <3>1, IdleClaimed
  <2>7. ASSUME ~past'.lost  PROVE Undisputed'
    <3>1. Undisputed /\ \A f \in Executions : ~Busy(f)  BY <1>3, <2>1, <2>4, <2>7 DEF HandOver
    <3>2. \A f \in Executions : Busy(f)' => f = e  BY <2>5, <3>1 DEF Busy
    <3>3. Single'  BY <3>2 DEF Single
    <3>4. exec'[e].pc = "loaded" /\ exec'[e].of = job.of  BY <1>1, <2>5, LoadedIs
    <3>5. Owns(e)'  BY <2>3, <3>4 DEF Owns
    <3>6. Owned'  BY <3>2, <3>5 DEF Owned
    <3>7. Carried'
      <4>1. SUFFICES ASSUME applicant'.status = "pushing"
                     PROVE  job'.of = applicant'.made /\ CarriesOn(e)'
        BY DEF Carried
      <4>2. applicant' = applicant /\ applicant.status = "pushing"  BY <1>1, <4>1 DEF Rest
      <4>3. job.of = applicant.made  BY <3>1, <4>2 DEF Undisputed, Carried
      <4>4. QED  BY <2>3, <3>4, <4>2, <4>3 DEF CarriesOn, H!Mine
    <3>8. Created'
      <4>1. \A f \in Executions : exec'[f].pc # "create"  BY <2>5, <3>1, <3>4 DEF Busy
      <4>2. QED  BY <1>1, <2>1, <2>4, <3>1, <4>1 DEF Undisputed, Created, Rest
    <3>9. QED  BY <3>3, <3>6, <3>7, <3>8 DEF Undisputed
  <2>8. past' \in H!Past  BY <2>1, <2>4
  <2>9. QED  BY <1>1, <2>3, <2>5, <2>6, <2>7, <2>8, QueueStep
<1>5. CASE ~H!AttemptsLeft
  <2> DEFINE after == [past EXCEPT !.lost = @ \/ H!Running # {}]
  <2>1. job' = JobIn("failed", job.attempts, 0) /\ exec' = exec /\ past' = after
    <3>1. job' = [job EXCEPT !.status = "failed", !.owner = 0] /\ exec' = exec /\ past' = after
      BY <1>5, Zenon DEF H!Claim
    <3>2. [job EXCEPT !.status = "failed", !.owner = 0] = JobIn("failed", job.attempts, 0)
      BY <1>1 DEF JobIn, H!Job
    <3>3. QED  BY <3>1, <3>2
  <2>2. job' \in H!Job /\ job'.of = job.of  BY <1>1, <1>2, <2>1, JobFacts
  <2>3. /\ after \in H!Past /\ (~after.lost => ~past.lost /\ H!Running = {})
        /\ after.unanswered = past.unanswered /\ after.died = past.died
    BY <1>1 DEF H!Past
  <2> HIDE DEF after
  <2>4. \A f \in Executions : Claimed(f)'  BY <1>1, <2>1, IdleClaimed
  <2>5. ASSUME ~past'.lost  PROVE Undisputed'
    <3>1. Undisputed /\ \A f \in Executions : ~Busy(f)  BY <1>3, <2>1, <2>3, <2>5 DEF HandOver
    <3>2. \A f \in Executions : ~Busy(f)'  BY <2>1, <3>1 DEF Busy
    <3>3. Single' /\ Owned'  BY <3>2 DEF Single, Owned
    <3>4. \A f \in Executions : ~CarriesOn(f)  BY <3>1 DEF CarriesOn, Busy
    <3>5. Carried'  BY <1>1, <2>1, <2>2, <2>3, <3>1, <3>4 DEF Undisputed, Carried, Rest
    <3>6. Created'  BY <1>1, <2>1, <2>3, <3>1 DEF Undisputed, Created, Rest
    <3>7. QED  BY <3>3, <3>5, <3>6 DEF Undisputed
  <2>6. past' \in H!Past /\ exec' \in [Executions -> H!Exec]  BY <1>1, <2>1, <2>3, HandTypes
  <2>7. QED  BY <1>1, <2>2, <2>4, <2>5, <2>6, QueueStep
<1>6. QED  BY <1>4, <1>5

\* The cabinet: no execution gets a row by it, the one at work keeps its job, and nothing begins to be
\* handed over.
SameHistory ==
    /\ past' \in H!Past /\ past'.lost = past.lost /\ past'.died = past.died
    /\ past'.unanswered = past.unanswered
LEMMA CabinetStep ==
    ASSUME HandOver, UNCHANGED <<exec, huntflow>>, SameHistory,
           connection' \in H!HuntflowConnectionStatus, linked' \in BOOLEAN,
           share' \in {"none", "active", "gone"}, external_ref' \in 0 .. MaxApplicants,
           job' \in H!Job, applicant' \in H!Row,
           applicant.made <= applicant'.made, job'.of <= applicant'.made,
           H!PushedIsAttached',
           \A f \in Executions : H!Mine(f)' => H!Mine(f) /\ (Owns(f) => Owns(f)'),
           applicant'.status = "pushing" =>
               applicant.status = "pushing" /\ applicant'.made = applicant.made /\ UNCHANGED job
    PROVE  HandOver'
<1>1. H!TypeOK /\ Prepared  BY DEF HandOver, Prepared
<1>2. H!TypeOK'  BY <1>1 DEF H!TypeOK, SameHistory
<1>3. applicant.made \in Nat /\ applicant'.made \in Nat /\ \A f \in Executions : exec[f].of \in Nat
  BY <1>1, HandTypes DEF H!Row
<1>4. Prepared'
  <2>1. ASSUME NEW f \in Executions  PROVE Claimed(f)'
    <3>1. Claimed(f) /\ exec[f].of \in Nat  BY <1>1, <1>3 DEF Prepared
    <3>2. QED  BY <1>3, <3>1 DEF Claimed
  <2>2. QED  BY <1>2, <2>1 DEF Prepared
<1>5. ASSUME ~past'.lost  PROVE Undisputed'
  <2>1. Undisputed  BY <1>5 DEF HandOver, SameHistory
  <2>2. Single' /\ Created'  BY <2>1 DEF Undisputed, Single, Created, Busy, SameHistory
  <2>3. Owned'  BY <2>1 DEF Undisputed, Owned, Busy
  <2>4. Carried'
    <3>1. SUFFICES ASSUME applicant'.status = "pushing"
                   PROVE  /\ job'.of = applicant'.made
                          /\ past'.died \/ \E f \in Executions : CarriesOn(f)'
      BY DEF Carried
    <3>2. /\ job.of = applicant.made
          /\ past.died \/ \E f \in Executions : CarriesOn(f)
      BY <2>1, <3>1 DEF Undisputed, Carried
    <3>3. \A f \in Executions : CarriesOn(f) => CarriesOn(f)'  BY <3>1 DEF CarriesOn, H!Mine
    <3>4. QED  BY <3>1, <3>2, <3>3 DEF SameHistory
  <2>5. QED  BY <2>2, <2>3, <2>4 DEF Undisputed
<1>6. QED  BY <1>4, <1>5 DEF HandOver

LEMMA SwitchIs == ASSUME H!TypeOK, H!Switch \/ UNCHANGED past  PROVE SameHistory
<1>1. past \in H!Past  BY DEF H!TypeOK
<1>2. CASE H!Switch
  <2>1. past.breaks \in 0 .. MaxBreaks /\ past.breaks < MaxBreaks  BY <1>1, <1>2 DEF H!Past, H!Switch
  <2>2. past.breaks + 1 \in 0 .. MaxBreaks  BY <2>1, SizesOK
  <2>3. past' = [past EXCEPT !.breaks = past.breaks + 1]  BY <1>2 DEF H!Switch
  <2>4. QED  BY <1>1, <2>2, <2>3 DEF SameHistory, H!Past
<1>3. CASE UNCHANGED past  BY <1>1, <1>3 DEF SameHistory
<1>4. QED  BY <1>2, <1>3

\* Connecting, selecting an account, linking the vacancy, and the life of the share.
LEMMA SettingsKeep ==
    ASSUME HandOver, H!connect \/ H!select_account \/ H!link_vacancy \/ H!unlink_vacancy \/ H!ShareChanges
    PROVE  HandOver'
<1>1. /\ H!TypeOK /\ UNCHANGED <<exec, huntflow, job, applicant, external_ref>>
      /\ H!Switch \/ UNCHANGED past
  BY DEF HandOver, Prepared, H!connect, H!select_account, H!link_vacancy, H!unlink_vacancy, H!ShareChanges
<1>2. /\ connection' \in H!HuntflowConnectionStatus /\ linked' \in BOOLEAN
      /\ share' \in {"none", "active", "gone"}
  BY <1>1 DEF H!TypeOK, H!HuntflowConnectionStatus,
              H!connect, H!select_account, H!link_vacancy, H!unlink_vacancy, H!ShareChanges
<1>3. SameHistory  BY <1>1, SwitchIs
<1>4. /\ external_ref' \in 0 .. MaxApplicants /\ job' \in H!Job /\ applicant' \in H!Row
      /\ applicant.made \in Nat /\ job.of <= applicant.made /\ H!PushedIsAttached
  BY <1>1, HandTypes DEF HandOver, Prepared
<1>5. \A f \in Executions : H!Mine(f)' => H!Mine(f) /\ (Owns(f) => Owns(f)')  BY <1>1 DEF H!Mine, Owns
<1>6. H!PushedIsAttached'  BY <1>1, <1>4 DEF H!PushedIsAttached
<1>7. applicant'.made = applicant.made /\ job'.of <= applicant'.made /\ applicant.made <= applicant'.made
  BY <1>1, <1>4
<1>8. QED  BY <1>1, <1>2, <1>3, <1>4, <1>5, <1>6, <1>7, CabinetStep

LEMMA NoRowIs ==
    ASSUME NEW n \in Nat
    PROVE  H!NoRow(n) \in H!Row /\ H!NoRow(n).status = "none" /\ H!NoRow(n).made = n /\ H!NoRow(n).applicant = 0
BY SizesOK DEF H!NoRow, H!Row, H!HuntflowPushStatus

LEMMA DisconnectKeeps == ASSUME HandOver, H!disconnect  PROVE HandOver'
<1>1. /\ H!TypeOK /\ H!Switch /\ UNCHANGED <<exec, huntflow, job, share, external_ref>>
      /\ applicant' = H!NoRow(applicant.made) /\ connection' = "none" /\ linked' = FALSE
  BY DEF HandOver, Prepared, H!disconnect
<1>2. /\ connection' \in H!HuntflowConnectionStatus /\ linked' \in BOOLEAN
      /\ share' \in {"none", "active", "gone"} /\ external_ref' \in 0 .. MaxApplicants /\ job' \in H!Job
  BY <1>1 DEF H!TypeOK, H!HuntflowConnectionStatus
<1>3. SameHistory  BY <1>1, SwitchIs
<1>4. applicant.made \in Nat /\ job.of <= applicant.made  BY <1>1, HandTypes DEF HandOver, Prepared
<1>5. applicant' \in H!Row /\ applicant'.status = "none" /\ applicant'.made = applicant.made
  BY <1>1, <1>4, NoRowIs
<1>6. \A f \in Executions : ~H!Mine(f)'  BY <1>5 DEF H!Mine
<1>7. H!PushedIsAttached'  BY <1>5 DEF H!PushedIsAttached
<1>8. job'.of <= applicant'.made /\ applicant.made <= applicant'.made  BY <1>1, <1>4, <1>5
<1>9. QED  BY <1>1, <1>2, <1>3, <1>5, <1>6, <1>7, <1>8, CabinetStep

\* The row as import_applicants makes it, and with another applicant.
LinkedRow(n, a) == [H!NoRow(n) EXCEPT !.status = "linked", !.applicant = a]
WithApplicant(rw, a) == [rw EXCEPT !.applicant = a]
LEMMA ImportedRows ==
    ASSUME NEW n \in Nat, NEW a \in 0 .. MaxApplicants, NEW rw \in H!Row
    PROVE  /\ LinkedRow(n, a) \in H!Row /\ LinkedRow(n, a).status = "linked" /\ LinkedRow(n, a).made = n
           /\ WithApplicant(rw, a) \in H!Row /\ WithApplicant(rw, a).status = rw.status
           /\ WithApplicant(rw, a).made = rw.made /\ WithApplicant(rw, a).applicant = a
BY SizesOK DEF LinkedRow, WithApplicant, H!NoRow, H!Row, H!HuntflowPushStatus

LEMMA ImportKeeps == ASSUME HandOver, H!import_applicants  PROVE HandOver'
<1>1. /\ H!TypeOK /\ UNCHANGED <<connection, linked, share, job, exec, huntflow, past>>
  BY DEF HandOver, Prepared, H!import_applicants
<1>2. /\ applicant \in H!Row /\ applicant.made \in Nat /\ applicant.applicant \in 0 .. MaxApplicants
      /\ external_ref \in 0 .. MaxApplicants /\ job \in H!Job /\ job.of \in Nat
      /\ huntflow.made \in 0 .. MaxApplicants /\ huntflow.attached \subseteq H!Applicants
      /\ \A f \in Executions : exec[f].of \in Nat
  BY <1>1, HandTypes DEF H!Row
<1>3. /\ job.of <= applicant.made /\ \A f \in Executions : exec[f].of <= applicant.made
      /\ H!PushedIsAttached
  BY DEF HandOver, Prepared, Claimed
<1>4. PICK a \in huntflow.attached \cup (IF huntflow.made = 0 THEN {} ELSE {1}) :
         /\ external_ref' = H!Ref(external_ref, a)
         /\ applicant' = IF applicant.status = "none" THEN LinkedRow(applicant.made + 1, a)
                         ELSE WithApplicant(applicant, H!Ref(applicant.applicant, a))
  BY Zenon DEF H!import_applicants, LinkedRow, WithApplicant
<1>5. a \in 0 .. MaxApplicants  BY <1>2, SizesOK DEF H!Applicants
<1>6. external_ref' \in 0 .. MaxApplicants /\ H!Ref(applicant.applicant, a) \in 0 .. MaxApplicants
  BY <1>2, <1>4, <1>5 DEF H!Ref
<1>7. /\ connection' \in H!HuntflowConnectionStatus /\ linked' \in BOOLEAN
      /\ share' \in {"none", "active", "gone"} /\ job' \in H!Job /\ SameHistory
  BY <1>1, SwitchIs DEF H!TypeOK
<1>8. CASE applicant.status = "none"
  <2>1. /\ applicant' \in H!Row /\ applicant'.status = "linked" /\ applicant'.made = applicant.made + 1
    <3>1. applicant' = LinkedRow(applicant.made + 1, a)  BY <1>4, <1>8
    <3>2. applicant.made + 1 \in Nat  BY <1>2
    <3>3. QED  BY <1>2, <1>5, <3>1, <3>2, ImportedRows
  <2>2. \A f \in Executions : ~H!Mine(f)'
    <3>1. ASSUME NEW f \in Executions  PROVE exec'[f].of # applicant'.made
      <4>1. exec'[f] = exec[f] /\ exec[f].of \in Nat /\ exec[f].of <= applicant.made  BY <1>1, <1>2, <1>3
      <4>2. QED  BY <1>2, <2>1, <4>1
    <3>2. QED  BY <3>1 DEF H!Mine
  <2>3. H!PushedIsAttached'  BY <2>1 DEF H!PushedIsAttached
  <2>4. job'.of <= applicant'.made /\ applicant.made <= applicant'.made  BY <1>1, <1>2, <1>3, <2>1
  <2>5. QED  BY <1>1, <1>6, <1>7, <2>1, <2>2, <2>3, <2>4, CabinetStep
<1>9. CASE applicant.status # "none"
  <2>1. /\ applicant' \in H!Row /\ applicant'.status = applicant.status /\ applicant'.made = applicant.made
        /\ applicant'.applicant = H!Ref(applicant.applicant, a)
    BY <1>2, <1>4, <1>6, <1>9, ImportedRows
  <2>2. \A f \in Executions : H!Mine(f)' => H!Mine(f) /\ (Owns(f) => Owns(f)')
    BY <1>1, <2>1 DEF H!Mine, Owns
  <2>3. H!PushedIsAttached'
    <3>1. SUFFICES ASSUME applicant'.status = "pushed"  PROVE applicant'.applicant \in huntflow'.attached
      BY DEF H!PushedIsAttached
    <3>2. applicant.applicant \in huntflow.attached  BY <1>3, <2>1, <3>1 DEF H!PushedIsAttached
    <3>3. applicant.applicant # 0
      <4>1. applicant.applicant \in 1 .. MaxApplicants  BY <1>2, <3>2 DEF H!Applicants
      <4>2. QED  BY <4>1, SizesOK
    <3>4. QED  BY <1>1, <2>1, <3>2, <3>3 DEF H!Ref
  <2>4. job'.of <= applicant'.made /\ applicant.made <= applicant'.made  BY <1>1, <1>2, <1>3, <2>1
  <2>5. UNCHANGED job  BY <1>1
  <2>6. QED  BY <1>1, <1>6, <1>7, <2>1, <2>2, <2>3, <2>4, <2>5, CabinetStep
<1>10. QED  BY <1>8, <1>9

\* A click on the button.
QueuedFor(n) == [status |-> "queued", attempts |-> 0, owner |-> 0, of |-> n]
LEMMA QueuedIs == ASSUME NEW n \in Nat  PROVE QueuedFor(n) \in H!Job /\ QueuedFor(n).of = n
BY SizesOK DEF QueuedFor, H!Job

LEMMA PushKeeps == ASSUME HandOver, H!push_candidate  PROVE HandOver'
<1> DEFINE now == IF applicant.status = "none" THEN H!NoRow(applicant.made + 1) ELSE applicant
           after == [past EXCEPT !.pushes = @ + 1]
<1>1. /\ H!TypeOK /\ UNCHANGED <<connection, linked, share, external_ref, exec, huntflow>>
      /\ past.pushes < MaxPushes /\ past' = after
  BY DEF HandOver, Prepared, H!push_candidate
<1>2. /\ applicant \in H!Row /\ applicant.made \in Nat /\ job \in H!Job /\ job.of \in Nat
      /\ \A f \in Executions : exec[f].of \in Nat
  BY <1>1, HandTypes
<1>3. job.of <= applicant.made /\ \A f \in Executions : exec[f].of <= applicant.made
  BY DEF HandOver, Prepared, Claimed
<1>4. /\ applicant' = InState(now, "queued")
      /\ job' = IF H!Active(job) /\ job.of = now.made THEN job ELSE QueuedFor(now.made)
  BY Zenon DEF H!push_candidate, InState, QueuedFor
<1>5. after \in H!Past /\ after.lost = past.lost /\ after.died = past.died /\ after.unanswered = past.unanswered
  <2>1. past \in H!Past  BY <1>1 DEF H!TypeOK
  <2>2. past.pushes \in 0 .. MaxPushes  BY <2>1 DEF H!Past
  <2>3. past.pushes + 1 \in 0 .. MaxPushes  BY <1>1, <2>2, SizesOK
  <2>4. QED  BY <2>1, <2>3 DEF H!Past
<1>6. /\ now \in H!Row /\ now.made \in Nat
      /\ applicant.status = "none" => now.made = applicant.made + 1
      /\ applicant.status # "none" => now.made = applicant.made
  <2>1. applicant.made + 1 \in Nat  BY <1>2
  <2>2. CASE applicant.status = "none"  BY <1>2, <2>1, <2>2, NoRowIs
  <2>3. CASE applicant.status # "none"  BY <1>2, <2>3
  <2>4. QED  BY <2>2, <2>3
<1> HIDE DEF now, after
<1>7. SameHistory  BY <1>1, <1>5 DEF SameHistory
<1>8. /\ applicant' \in H!Row /\ applicant'.status = "queued" /\ applicant'.made = now.made
  BY <1>4, <1>6, RowFacts DEF H!HuntflowPushStatus
<1>9. job' \in H!Job /\ (job' = job \/ job'.of = now.made)  BY <1>2, <1>4, <1>6, QueuedIs
<1>10. applicant.made <= now.made  BY <1>2, <1>6
<1>11. job'.of <= applicant'.made /\ applicant.made <= applicant'.made
  BY <1>2, <1>3, <1>6, <1>8, <1>9, <1>10
<1>12. ASSUME NEW f \in Executions, H!Mine(f)'  PROVE H!Mine(f) /\ (Owns(f) => Owns(f)')
  <2>1. exec'[f] = exec[f] /\ exec[f].of = now.made  BY <1>1, <1>8, <1>12 DEF H!Mine
  <2>2. applicant.status # "none"
    <3>1. exec[f].of <= applicant.made /\ exec[f].of \in Nat  BY <1>2, <1>3
    <3>2. QED  BY <1>2, <1>6, <2>1, <3>1
  <2>3. H!Mine(f)  BY <1>6, <2>1, <2>2 DEF H!Mine
  <2>4. ASSUME Owns(f)  PROVE Owns(f)'
    <3>1. job' = job  BY <1>4, <2>1, <2>4 DEF Owns, H!Active
    <3>2. QED  BY <2>1, <2>4, <3>1 DEF Owns
  <2>5. QED  BY <2>3, <2>4
<1>13. H!PushedIsAttached'  BY <1>8 DEF H!PushedIsAttached
<1>14. /\ connection' \in H!HuntflowConnectionStatus /\ linked' \in BOOLEAN
       /\ share' \in {"none", "active", "gone"} /\ external_ref' \in 0 .. MaxApplicants
  BY <1>1 DEF H!TypeOK
<1>15. QED  BY <1>1, <1>7, <1>8, <1>9, <1>11, <1>12, <1>13, <1>14, CabinetStep

LEMMA HandOverNext == ASSUME HandOver, H!Next  PROVE HandOver'
<1>1. CASE H!connect \/ H!select_account \/ H!link_vacancy \/ H!unlink_vacancy \/ H!ShareChanges
  BY <1>1, SettingsKeep
<1>2. CASE H!disconnect  BY <1>2, DisconnectKeeps
<1>3. CASE H!import_applicants  BY <1>3, ImportKeeps
<1>4. CASE H!push_candidate  BY <1>4, PushKeeps
<1>5. CASE H!Die  BY <1>5, DieKeeps
<1>6. ASSUME NEW e \in Executions,
             \/ H!Claim(e) \/ H!Start(e) \/ H!CallFails(e) \/ H!_ensure_applicant(e) \/ H!create_applicant(e)
             \/ H!CreatedUnanswered(e) \/ H!_ensure_share(e) \/ H!attach_vacancy(e) \/ H!Record(e) \/ H!End(e)
      PROVE  HandOver'
  BY <1>6, ClaimKeeps, StartKeeps, CallFailsKeeps, EnsureApplicantKeeps, CreateApplicantKeeps,
     CreatedUnansweredKeeps, EnsureShareKeeps, AttachVacancyKeeps, RecordKeeps, EndKeeps
<1>7. QED  BY <1>1, <1>2, <1>3, <1>4, <1>5, <1>6, Zenon DEF H!Next

LEMMA HandOverRests == ASSUME HandOver, UNCHANGED OfHuntflow  PROVE HandOver'
<1>1. /\ UNCHANGED <<connection, linked, applicant, share, external_ref>>
      /\ UNCHANGED <<job, exec, huntflow, past>>
  BY DEF OfHuntflow
<1>2. H!TypeOK' /\ H!PushedIsAttached'
  BY <1>1 DEF HandOver, Prepared, H!TypeOK, H!PushedIsAttached
<1>3. Prepared'  BY <1>1, <1>2 DEF HandOver, Prepared, Claimed
<1>4. ~past'.lost => Undisputed'
  BY <1>1 DEF HandOver, Undisputed, Single, Owned, Carried, Created, CarriesOn, Owns, Busy, H!Mine
<1>5. QED  BY <1>2, <1>3, <1>4 DEF HandOver

\* What is shown as handed over to Huntflow is attached to the vacancy there; unless two executions of
\* the job have overlapped (or the answer to a creation was lost) the candidate is one applicant; and a
\* row that is being handed over has an active job, unless the worker died: perform_push and its job
\* (huntflow/service.py), however pushes, disconnecting, imports, failures and restarts interleave.
THEOREM HandOverStaysTrue == MCSpec => []HandOverIsTrue
<1> DEFINE Inv == part = "huntflow" => HandOver
<1>1. ASSUME MCInit  PROVE Inv
  BY <1>1, HandOverInit DEF MCInit
<1>2. ASSUME Inv, [MCNext]_all_vars  PROVE Inv'
  <2>1. CASE NextInvitations  BY <1>2, <2>1, HandOverRests DEF NextInvitations
  <2>2. CASE NextHuntflow  BY <1>2, <2>2, HandOverNext DEF NextHuntflow
  <2>3. CASE NextPerimeter  BY <1>2, <2>3, HandOverRests DEF NextPerimeter
  <2>4. CASE UNCHANGED all_vars  BY <1>2, <2>4, HandOverRests DEF all_vars
  <2>5. QED  BY <1>2, <2>1, <2>2, <2>3, <2>4 DEF MCNext
<1>3. Inv => HandOverIsTrue  BY HandOverHolds DEF HandOverIsTrue
<1>4. QED  BY <1>1, <1>2, <1>3, PTL DEF MCSpec
-----------------------------------------------------------------------------
(* Who is shown what: the part "perimeter" of MCCandidates. *)

FinishedOf(v) ==
    {i \in P!Numbers : interviews[i].vacancy = v /\ interviews[i].status \in P!FINISHED_STATUSES}

\* A candidate that has an interview is one of the organization whose vacancy it is for, and a summary
\* between its statements has counted what is there still.
Enclosed ==
    /\ P!TypeOK
    /\ \A i \in P!Numbers : /\ interviews[i].candidate \in people
                            /\ interviews[i].candidate[1] = P!OrganizationOf(interviews[i].vacancy)
    /\ reading # null /\ ~reading.stale =>
         reading.finished = Cardinality(FinishedOf(reading.vacancy)) /\ reading.finished <= reading.total
    /\ answer \notin {"refused", "unequal"}

Shows == {"vacancy.read", "candidate.read", "interview.read", "report.read"}

LEMMA RolesAre ==
    ASSUME NEW role \in {"owner", "recruiter", "hiring_manager"}
    PROVE  Shows \cup {"report.decide"} \subseteq P!_ROLE_ACTIONS(role)
BY DEF Shows, P!_ROLE_ACTIONS, P!_OWNER_ACTIONS, P!_RECRUITER_ACTIONS, P!_HIRING_MANAGER_ACTIONS

LEMMA StaffIs ==
    ASSUME NEW r \in P!StaffRights
    PROVE  /\ Shows \cup {"report.decide"} \subseteq r.actions
           /\ r.scopes = {} /\ (r.scope # null => r.scope \subseteq Own)
<1>1. PICK m \in Members : r = [actions |-> P!_ROLE_ACTIONS(m.role), scope |-> m.scope, scopes |-> {}]
  BY DEF P!StaffRights, P!MemberRights
<1>2. \A x \in Members : /\ x.role \in {"owner", "recruiter", "hiring_manager"}
                         /\ x.scope # null => x.scope \subseteq Own
  BY SizesOK, Zenon DEF P!ParametersOK
<1>3. /\ r.actions = P!_ROLE_ACTIONS(m.role) /\ r.scope = m.scope /\ r.scopes = {}  BY <1>1
<1>4. Shows \cup {"report.decide"} \subseteq P!_ROLE_ACTIONS(m.role)  BY <1>2, RolesAre
<1>5. m.scope # null => m.scope \subseteq Own  BY <1>2
<1>6. QED  BY <1>3, <1>4, <1>5

LEMMA ApiIs ==
    ASSUME NEW r \in P!ApiRights
    PROVE  /\ r.scope = null /\ \A s \in r.scopes : P!SCOPE_ACTIONS(s) \subseteq r.actions
           /\ r.scopes = {} => r.actions = {}
<1>1. PICK t \in Tokens : r = [actions |-> UNION {P!SCOPE_ACTIONS(s) : s \in t}, scope |-> null, scopes |-> t]
  BY DEF P!ApiRights, P!build_api_actor
<1>2. QED  BY <1>1

\* The tools a member has.
LEMMA ToolsAre ==
    ASSUME NEW r \in P!StaffRights
    PROVE  /\ {"list_vacancies", "get_vacancy", "list_candidates", "get_candidate", "get_interview",
               "vacancy_summary", "decide_candidate"} \subseteq P!_available(r)
           /\ "invite_candidate" \in P!_available(r) => P!can(r, "candidate.write")
BY StaffIs DEF P!_available, P!_build_tools, P!can, Shows

LEMMA OwnIs ==
    /\ \A v : P!Mine(v) <=> v \in Own
    /\ null \notin Own /\ null \notin Other /\ null \notin P!Candidates
BY SizesOK DEF P!Mine, P!OrganizationOf, P!ParametersOK

LEMMA EnclosedTypes ==
    ASSUME Enclosed
    PROVE  /\ vacancy \in [Own -> {"published", "archived"}] /\ people \subseteq P!Candidates
           /\ interviews \in Seq(P!Interview) /\ Len(interviews) \in Nat /\ Len(interviews) <= MaxInterviews + 1
           /\ P!Numbers = 1 .. Len(interviews) /\ MaxInterviews \in Nat
           /\ \A i \in P!Numbers : /\ interviews[i] \in P!Interview
                                   /\ interviews[i].vacancy \in Own \cup Other
                                   /\ interviews[i].candidate \in P!Candidates
                                   /\ interviews[i].candidate \in people
                                   /\ interviews[i].candidate[1] = "own" => interviews[i].vacancy \in Own
<1>1. P!TypeOK  BY DEF Enclosed
<1>2. P!Numbers = 1 .. Len(interviews)  BY DEF P!Numbers
<1>3. MaxInterviews \in Nat  BY SizesOK DEF P!ParametersOK
<1>4. \A i \in P!Numbers : interviews[i] \in P!Interview  BY <1>1, <1>2 DEF P!TypeOK
<1>5. \A i \in P!Numbers : interviews[i].candidate[1] = "own" => interviews[i].vacancy \in Own
  BY DEF Enclosed, P!OrganizationOf
<1>6. QED  BY <1>1, <1>2, <1>3, <1>4, <1>5 DEF Enclosed, P!TypeOK, P!Interview

\* What the tool shows of the candidates that the service has found, and how many it says there are.
LEMMA ListsAre ==
    ASSUME NEW r, NEW list \in P!list_candidates(r)
    PROVE  /\ \E shown \in SUBSET {c \in P!CandidateService_list(r) : "list_candidates" \in P!_available(r)} :
                 /\ list.lines = {[candidate |-> c, interviews |-> P!Counted(r, c)] : c \in shown}
                 /\ \/ /\ shown = {c \in P!CandidateService_list(r) : "list_candidates" \in P!_available(r)}
                       /\ P!Cardinality(shown) <= MaxListed
                    \/ P!Cardinality(shown) = MaxListed
           /\ list.found = P!Cardinality(P!CandidateService_list(r))
           /\ \A line \in list.lines : /\ line.candidate \in P!CandidateService_list(r)
                                        /\ line.interviews = P!Counted(r, line.candidate)
<1> DEFINE found == {c \in P!CandidateService_list(r) : "list_candidates" \in P!_available(r)}
           Lines(S) == {[candidate |-> c, interviews |-> P!Counted(r, c)] : c \in S}
<1>1. PICK shown \in SUBSET found :
         /\ list = [lines |-> Lines(shown), found |-> P!Cardinality(P!CandidateService_list(r))]
         /\ \/ shown = found /\ P!Cardinality(found) <= MaxListed
            \/ P!Cardinality(shown) = MaxListed
  <2>1. PICK shown \in P!Newest(found) :
           list = [lines |-> Lines(shown), found |-> P!Cardinality(P!CandidateService_list(r))]
    BY DEF P!list_candidates
  <2> HIDE DEF found
  <2>2. /\ shown \in SUBSET found
        /\ \/ shown = found /\ P!Cardinality(found) <= MaxListed
           \/ P!Cardinality(shown) = MaxListed
    BY DEF P!Newest
  <2>3. QED  BY <2>1, <2>2
<1>2. list.lines = Lines(shown) /\ list.found = P!Cardinality(P!CandidateService_list(r))  BY <1>1
<1>3. \A line \in list.lines : /\ line.candidate \in P!CandidateService_list(r)
                               /\ line.interviews = P!Counted(r, line.candidate)
  BY <1>2
<1>4. QED  BY <1>1, <1>2, <1>3

LEMMA ShownWithin == ASSUME Enclosed  PROVE P!ShownIsWithin
<1> SUFFICES ASSUME NEW r \in P!AllRights
             PROVE  /\ \A v \in P!VacancyService_list(r) \cup P!list_vacancies(r) : P!Within(r, v)
                    /\ \A c \in P!CandidateService_list(r) :
                         \/ r.scope = null /\ c[1] = "own"
                         \/ \E i \in P!InterviewsOf(c) : P!Within(r, interviews[i].vacancy)
                    /\ \A list \in P!list_candidates(r), i \in P!Numbers :
                         (\E line \in list.lines : i \in line.interviews) => P!Within(r, interviews[i].vacancy)
                    /\ \A c \in people : \A i \in P!get_candidate(r, c) : P!Within(r, interviews[i].vacancy)
                    /\ \A i \in P!Numbers : P!InterviewService_get(r, i) \/ P!get_interview(r, i) =>
                         P!Within(r, interviews[i].vacancy)
                    /\ \A v \in Own \cup Other : P!ranking(r, v) # {} => P!Within(r, v)
  BY DEF P!ShownIsWithin
<1>1. r.scope # null => r.scope \subseteq Own  BY StaffIs, ApiIs DEF P!AllRights
<1>2. \A v \in P!VacancyService_list(r) \cup P!list_vacancies(r) : P!Within(r, v)
  BY OwnIs DEF P!list_vacancies, P!VacancyService_list, P!visible_vacancy_ids, P!Within
<1>3. \A c \in P!CandidateService_list(r) :
        \/ r.scope = null /\ c[1] = "own"
        \/ \E i \in P!InterviewsOf(c) : P!Within(r, interviews[i].vacancy)
  BY <1>1 DEF P!CandidateService_list, P!Within
<1>4. \A list \in P!list_candidates(r), i \in P!Numbers :
        (\E line \in list.lines : i \in line.interviews) => P!Within(r, interviews[i].vacancy)
  <2> SUFFICES ASSUME NEW list \in P!list_candidates(r), NEW i \in P!Numbers, NEW line \in list.lines,
                      i \in line.interviews
               PROVE  P!Within(r, interviews[i].vacancy)
    OBVIOUS
  <2>0. PICK c \in P!CandidateService_list(r) : i \in P!Counted(r, c)
    BY ListsAre
  <2>1. /\ i \in P!Numbers /\ interviews[i].candidate = c /\ c[1] = "own"
        /\ r.scope # null => interviews[i].vacancy \in r.scope
    BY <2>0 DEF P!Counted, P!InterviewsOf, P!CandidateService_list
  <2>2. QED  BY <2>1, EnclosedTypes DEF P!Within
<1>5. \A c \in people : \A i \in P!get_candidate(r, c) : P!Within(r, interviews[i].vacancy)
  BY OwnIs DEF P!get_candidate, P!InterviewService_list, P!visible_vacancy_ids, P!Within
<1>6. \A i \in P!Numbers : P!InterviewService_get(r, i) \/ P!get_interview(r, i) => P!Within(r, interviews[i].vacancy)
  BY OwnIs DEF P!InterviewService_get, P!get_interview, P!answers_for_staff, P!canFor, P!Within
<1>7. \A v \in Own \cup Other : P!ranking(r, v) # {} => P!Within(r, v)
  BY OwnIs DEF P!ranking, P!canFor, P!Within
<1>8. QED  BY <1>2, <1>3, <1>4, <1>5, <1>6, <1>7

LEMMA ToolsShowThePages == ASSUME Enclosed  PROVE P!ToolsAreThePages
<1> SUFFICES ASSUME NEW r \in P!StaffRights
             PROVE  /\ P!list_vacancies(r) = {v \in Own \cup Other : P!VacancyService_get(r, v, "vacancy.read")}
                    /\ \A list \in P!list_candidates(r) :
                         LET listed == {line.candidate : line \in list.lines}
                             page == {c \in people : P!CandidateService_get(r, c)}
                         IN  /\ listed \subseteq page /\ P!Cardinality(listed) <= MaxListed
                             /\ listed # page => P!Cardinality(listed) = MaxListed
                             /\ list.found = P!Cardinality(page)
                             /\ \A line \in list.lines :
                                  line.interviews = P!InterviewService_list(r, null, line.candidate)
                    /\ \A c \in people : P!CandidateService_get(r, c) =>
                         P!get_candidate(r, c) = {i \in P!InterviewsOf(c) : P!InterviewService_get(r, i)}
                    /\ \A i \in P!Numbers : P!get_interview(r, i) <=> P!InterviewService_get(r, i)
  BY DEF P!ToolsAreThePages
<1>1. /\ \A action \in Shows : P!can(r, action)
      /\ r.scope # null => r.scope \subseteq Own
  BY StaffIs DEF P!can
<1>2. P!list_vacancies(r) = {v \in Own \cup Other : P!VacancyService_get(r, v, "vacancy.read")}
  BY <1>1, OwnIs, ToolsAre DEF P!list_vacancies, P!VacancyService_list, P!VacancyService_get, P!visible_vacancy_ids,
                               P!canFor, Shows
<1>3. P!CandidateService_list(r) = {c \in people : P!CandidateService_get(r, c)}
  BY DEF P!CandidateService_list, P!CandidateService_get
<1>4. {c \in P!CandidateService_list(r) : "list_candidates" \in P!_available(r)} = P!CandidateService_list(r)
  BY ToolsAre
<1>5. ASSUME NEW list \in P!list_candidates(r)
      PROVE  LET listed == {line.candidate : line \in list.lines}
                 page == {c \in people : P!CandidateService_get(r, c)}
             IN  /\ listed \subseteq page /\ P!Cardinality(listed) <= MaxListed
                 /\ listed # page => P!Cardinality(listed) = MaxListed
                 /\ list.found = P!Cardinality(page)
  <2> DEFINE page == P!CandidateService_list(r)
             listed == {line.candidate : line \in list.lines}
  <2>1. PICK shown \in SUBSET page :
          /\ list.lines = {[candidate |-> c, interviews |-> P!Counted(r, c)] : c \in shown}
          /\ (shown = page /\ P!Cardinality(shown) <= MaxListed) \/ P!Cardinality(shown) = MaxListed
    BY <1>4, ListsAre
  <2>2. listed = shown
    <3>1. \A line \in list.lines : line.candidate \in shown  BY <2>1
    <3>2. ASSUME NEW c \in shown PROVE \E line \in list.lines : line.candidate = c
      <4>1. [candidate |-> c, interviews |-> P!Counted(r, c)] \in list.lines  BY <2>1
      <4>2. QED  BY <4>1
    <3>3. QED  BY <3>1, <3>2
  <2>3. MaxListed \in Nat  BY SizesOK DEF P!ParametersOK
  <2>4. P!Cardinality(listed) <= MaxListed /\ (listed # page => P!Cardinality(listed) = MaxListed)
    <3> HIDE DEF listed, page
    <3>1. QED  BY <2>1, <2>2, <2>3
  <2>5. list.found = P!Cardinality(page)  BY ListsAre
  <2> HIDE DEF listed
  <2>6. listed \subseteq page  BY <2>2
  <2>7. page = {c \in people : P!CandidateService_get(r, c)}  BY <1>3
  <2>8. QED  BY <2>4, <2>5, <2>6, <2>7 DEF listed
<1>6. \A i \in P!Numbers : P!InterviewService_get(r, i) <=>
        interviews[i].vacancy \in Own /\ (r.scope # null => interviews[i].vacancy \in r.scope)
  BY <1>1, OwnIs DEF P!InterviewService_get, P!canFor, Shows
<1>7. \A c \in P!Candidates : P!InterviewService_list(r, null, c) =
        {i \in P!InterviewsOf(c) : P!InterviewService_get(r, i)}
  BY <1>1, <1>6, OwnIs DEF P!InterviewService_list, P!InterviewsOf, P!visible_vacancy_ids, Shows
<1>8. ASSUME NEW c \in people, c[1] = "own"
      PROVE  P!Counted(r, c) = P!InterviewService_list(r, null, c)
  <2>1. P!Counted(r, c) = {i \in P!InterviewsOf(c) : P!InterviewService_get(r, i)}
    BY <1>6, <1>8, EnclosedTypes DEF P!Counted, P!InterviewsOf
  <2>2. QED  BY <1>7, <2>1, EnclosedTypes
<1>9. \A list \in P!list_candidates(r) : \A line \in list.lines :
        line.interviews = P!InterviewService_list(r, null, line.candidate)
  BY <1>8, ListsAre DEF P!CandidateService_list
<1>10. \A c \in people : P!CandidateService_get(r, c) =>
         P!get_candidate(r, c) = {i \in P!InterviewsOf(c) : P!InterviewService_get(r, i)}
  BY <1>7, EnclosedTypes, ToolsAre DEF P!get_candidate
<1>11. \A i \in P!Numbers : P!get_interview(r, i) <=> P!InterviewService_get(r, i)
  BY <1>1, <1>6, ToolsAre DEF P!get_interview, P!answers_for_staff, P!list_notes, P!canFor, Shows
<1>12. QED  BY <1>2, <1>5, <1>9, <1>10, <1>11

LEMMA ProposalsAreAccepted == ASSUME Enclosed  PROVE P!ProposalsWork
<1>1. ASSUME NEW r \in P!StaffRights, NEW v \in Own \cup Other, NEW e \in Emails, P!invite_candidate(r, v, e)
      PROVE  P!InviteAccepted(r, v, e)
  <2>1. P!Active(v, <<"own", e>>) => <<"own", e>> \in people
    BY EnclosedTypes DEF P!Active, P!InterviewsOf
  <2>2. QED  BY <1>1, <2>1, ToolsAre DEF P!invite_candidate, P!InviteAccepted, P!VacancyService_get
<1>2. ASSUME NEW r \in P!StaffRights, NEW i \in P!Numbers, P!decide_candidate(r, i)  PROVE P!DecideAccepted(r, i)
  BY <1>2 DEF P!decide_candidate, P!DecideAccepted
<1>3. QED  BY <1>1, <1>2 DEF P!ProposalsWork

LEMMA ScopesOpen ==
    ASSUME NEW r \in P!ApiRights, NEW e \in DOMAIN P!EndpointScope, P!require_scope(r, P!EndpointScope[e])
    PROVE  P!PublicApiService[e] \subseteq r.actions
<1>1. P!SCOPE_ACTIONS(P!EndpointScope[e]) \subseteq r.actions  BY ApiIs DEF P!require_scope
<1>2. P!PublicApiService[e] \subseteq P!SCOPE_ACTIONS(P!EndpointScope[e])
  BY DEF P!EndpointScope, P!PublicApiService, P!SCOPE_ACTIONS
<1>3. QED  BY <1>1, <1>2

LEMMA EnclosedHolds == ASSUME Enclosed  PROVE P!PerimeterIsKept
<1>1. P!ScopesSuffice  BY ScopesOpen DEF P!ScopesSuffice, Enclosed
<1>2. QED
  BY <1>1, ShownWithin, ToolsShowThePages, ProposalsAreAccepted
     DEF P!PerimeterIsKept, P!SummaryAgrees, Enclosed

LEMMA EnclosedInit == ASSUME P!Init  PROVE Enclosed
<1> DEFINE e == CHOOSE x \in Emails : TRUE
<1>1. e \in Emails
  <2>1. \E x \in Emails : TRUE  BY SizesOK DEF P!ParametersOK
  <2>2. QED  BY <2>1
<1>2. PICK v \in Other : /\ people = {<<"other", e>>}
                         /\ interviews = <<[vacancy |-> v, candidate |-> <<"other", e>>, status |-> "evaluated"]>>
  BY DEF P!Init
<1> HIDE DEF e
<1> DEFINE first == [vacancy |-> v, candidate |-> <<"other", e>>, status |-> "evaluated"]
<1>3. /\ first \in P!Interview /\ first.candidate = <<"other", e>> /\ first.vacancy = v
      /\ first.candidate[1] = "other" /\ first.candidate \in people /\ <<"other", e>> \in P!Candidates
  BY <1>1, <1>2 DEF P!Interview, P!Candidates
<1>4. P!OrganizationOf(first.vacancy) = "other"  BY <1>3, SizesOK DEF P!OrganizationOf, P!ParametersOK
<1>5. interviews = <<first>>  BY <1>2
<1> HIDE DEF first
<1>6. /\ interviews \in Seq(P!Interview) /\ Len(interviews) = 1 /\ interviews[1] = first /\ P!Numbers = {1}
  BY <1>3, <1>5 DEF P!Numbers
<1>7. MaxInterviews \in Nat /\ 1 <= MaxInterviews + 1  BY SizesOK DEF P!ParametersOK
<1>8. /\ vacancy \in [Own -> {"published", "archived"}] /\ reading = null /\ answer = "true"
      /\ people \subseteq P!Candidates
  BY <1>2, <1>3 DEF P!Init
<1>9. P!TypeOK  BY <1>6, <1>7, <1>8 DEF P!TypeOK, P!Answers
<1>10. QED  BY <1>3, <1>4, <1>6, <1>8, <1>9 DEF Enclosed

\* A commit makes what a summary has counted old.
LEMMA CommitsAre ==
    ASSUME Enclosed, P!Commits
    PROVE  reading' \in P!Reading \cup {null} /\ (reading' # null => reading'.stale)
<1>1. CASE reading = null  BY <1>1 DEF P!Commits
<1>2. CASE reading # null
  <2>1. reading.vacancy \in Own  BY <1>2 DEF Enclosed, P!TypeOK, P!Reading
  <2>2. reading' = [vacancy |-> reading.vacancy, stale |-> TRUE]  BY <1>2 DEF P!Commits
  <2>3. QED  BY <2>1, <2>2 DEF P!Reading
<1>3. QED  BY <1>1, <1>2

Reported == {"true", "partial"}

\* A request that commits and adds interviews, or none, of candidates of the organization.
LEMMA RowsJoin ==
    ASSUME Enclosed, P!Commits, vacancy' = vacancy,
           people \subseteq people', people' \subseteq P!Candidates,
           NEW n \in Nat, NEW added \in [1..n -> P!Interview],
           interviews' = interviews \o added, Len(interviews) + n <= MaxInterviews + 1,
           \A k \in 1..n : /\ added[k].candidate \in people'
                           /\ added[k].candidate[1] = P!OrganizationOf(added[k].vacancy),
           answer' \in Reported \cup {answer}
    PROVE  Enclosed'
<1>1. /\ interviews \in Seq(P!Interview) /\ Len(interviews) \in Nat /\ P!Numbers = 1 .. Len(interviews)
      /\ MaxInterviews \in Nat
  BY EnclosedTypes
<1>2. added \in Seq(P!Interview) /\ Len(added) = n  OBVIOUS
<1>3. /\ interviews' \in Seq(P!Interview) /\ Len(interviews') = Len(interviews) + n
      /\ \A i \in 1 .. Len(interviews) : interviews'[i] = interviews[i]
      /\ \A i \in 1 .. Len(interviews') : i \notin 1 .. Len(interviews) =>
           i - Len(interviews) \in 1..n /\ interviews'[i] = added[i - Len(interviews)]
  <2> DEFINE old == interviews
             new == interviews'
  <2>1. old \in Seq(P!Interview) /\ new = old \o added  BY <1>1
  <2> HIDE DEF old, new
  <2>2. new \in Seq(P!Interview) /\ Len(new) = Len(old) + n  BY <1>2, <2>1, ConcatProperties
  <2>3. \A i \in 1 .. Len(old) + n : new[i] = IF i <= Len(old) THEN old[i] ELSE added[i - Len(old)]
    BY <1>2, <2>1
  <2>4. Len(old) \in Nat  BY <2>1
  <2>5. \A i \in 1 .. Len(old) : new[i] = old[i]  BY <2>3, <2>4
  <2>6. \A i \in 1 .. Len(new) : i \notin 1 .. Len(old) => i - Len(old) \in 1..n /\ new[i] = added[i - Len(old)]
    BY <2>2, <2>3, <2>4
  <2>7. QED  BY <2>2, <2>5, <2>6 DEF old, new
<1>4. reading' \in P!Reading \cup {null} /\ (reading' # null => reading'.stale)  BY CommitsAre
<1>5. answer' \in P!Answers /\ answer' \notin {"refused", "unequal"}
  BY DEF Enclosed, P!TypeOK, P!Answers, Reported
<1>6. P!TypeOK'  BY <1>3, <1>4, <1>5 DEF Enclosed, P!TypeOK
<1>7. ASSUME NEW i \in 1 .. Len(interviews')
      PROVE  /\ interviews'[i].candidate \in people'
             /\ interviews'[i].candidate[1] = P!OrganizationOf(interviews'[i].vacancy)
  <2>1. CASE i \in 1 .. Len(interviews)
    <3>1. interviews'[i] = interviews[i]  BY <1>3, <2>1
    <3>2. interviews[i].candidate \in people /\ interviews[i].candidate[1] = P!OrganizationOf(interviews[i].vacancy)
      BY <1>1, <2>1 DEF Enclosed
    <3>3. QED  BY <3>1, <3>2
  <2>2. CASE i \notin 1 .. Len(interviews)
    <3>1. i - Len(interviews) \in 1..n /\ interviews'[i] = added[i - Len(interviews)]  BY <1>3, <2>2
    <3>2. QED  BY <3>1
  <2>3. QED  BY <2>1, <2>2
<1>8. QED  BY <1>4, <1>5, <1>6, <1>7 DEF Enclosed, P!Numbers, P!OrganizationOf

LEMMA NewInterviewIs ==
    ASSUME NEW v \in Own, NEW e \in Emails
    PROVE  /\ <<"own", e>> \in P!Candidates
           /\ P!NewInterview(v, e) \in P!Interview /\ P!NewInterview(v, e).candidate = <<"own", e>>
           /\ P!NewInterview(v, e).candidate[1] = P!OrganizationOf(P!NewInterview(v, e).vacancy)
BY DEF P!NewInterview, P!Interview, P!Candidates, P!OrganizationOf

LEMMA EnclosedInvite ==
    ASSUME Enclosed, NEW r \in P!AllRights, NEW v \in Own, NEW e \in Emails, P!invite(r, v, e)
    PROVE  Enclosed'
<1>1. /\ r.scopes # {} => P!require_scope(r, "candidates:write")
      /\ Len(interviews) < MaxInterviews + 1
      /\ P!InviteAccepted(r, v, e)
      /\ people' = people \cup {<<"own", e>>}
      /\ interviews' = Append(interviews, P!NewInterview(v, e))
      /\ answer' = IF P!canFor(r, "interview.read", v) THEN "true" ELSE "refused"
      /\ P!Commits /\ vacancy' = vacancy
  BY Zenon DEF P!invite
<1>2. P!canFor(r, "interview.read", v)
  <2>1. "candidate.write" \in r.actions /\ (r.scope # null => v \in r.scope)
    BY <1>1 DEF P!InviteAccepted, P!canFor, P!can
  <2>2. CASE r \in P!StaffRights  BY <2>1, <2>2, StaffIs DEF P!canFor, P!can, Shows
  <2>3. CASE r \in P!ApiRights
    <3>1. r.scopes # {}  BY <2>1, <2>3, ApiIs
    <3>2. P!SCOPE_ACTIONS("candidates:write") \subseteq r.actions  BY <1>1, <2>3, <3>1, ApiIs DEF P!require_scope
    <3>3. "interview.read" \in P!SCOPE_ACTIONS("candidates:write")  BY DEF P!SCOPE_ACTIONS
    <3>4. QED  BY <2>1, <3>2, <3>3 DEF P!canFor, P!can
  <2>4. QED  BY <2>2, <2>3 DEF P!AllRights
<1> DEFINE new == P!NewInterview(v, e)
           added == [k \in 1..1 |-> new]
<1>3. new \in P!Interview /\ new.candidate = <<"own", e>> /\ new.candidate[1] = P!OrganizationOf(new.vacancy)
      /\ <<"own", e>> \in P!Candidates
  BY NewInterviewIs
<1>4. interviews' = Append(interviews, new)  BY <1>1
<1> HIDE DEF new
<1>5. added \in [1..1 -> P!Interview] /\ added[1] = new  BY <1>3
<1>6. interviews' = interviews \o added
  BY <1>3, <1>4, <1>5, EnclosedTypes
<1> HIDE DEF added
<1>7. Len(interviews) + 1 <= MaxInterviews + 1  BY <1>1, EnclosedTypes
<1>8. \A k \in 1..1 : /\ added[k].candidate \in people'
                      /\ added[k].candidate[1] = P!OrganizationOf(added[k].vacancy)
  BY <1>1, <1>3, <1>5
<1>9. answer' \in Reported \cup {answer}  BY <1>1, <1>2 DEF Reported
<1>10. people \subseteq people' /\ people' \subseteq P!Candidates  BY <1>1, <1>3, EnclosedTypes
<1>11. 1 \in Nat  OBVIOUS
<1>12. QED  BY <1>1, <1>5, <1>6, <1>7, <1>8, <1>9, <1>10, <1>11, RowsJoin, Zenon

LEMMA EnclosedCreate ==
    ASSUME Enclosed, NEW r \in P!AllRights, NEW e \in Emails, P!create_candidate(r, e)
    PROVE  Enclosed'
<1>1. /\ people' = people \cup {<<"own", e>>} /\ P!Commits
      /\ vacancy' = vacancy /\ interviews' = interviews /\ answer' = answer
  BY Zenon DEF P!create_candidate
<1>2. people' \subseteq P!Candidates  BY <1>1, EnclosedTypes DEF P!Candidates
<1>3. reading' \in P!Reading \cup {null} /\ (reading' # null => reading'.stale)  BY <1>1, CommitsAre
<1>4. P!TypeOK'  BY <1>1, <1>2, <1>3 DEF Enclosed, P!TypeOK
<1>5. QED  BY <1>1, <1>3, <1>4 DEF Enclosed, P!Numbers, P!OrganizationOf

\* A line of a list before the first that is refused.
LEMMA FirstRefused ==
    ASSUME NEW free, NEW first,
           first = IF free = {1, 2} THEN 3 ELSE CHOOSE k \in {1, 2} \ free : \A j \in {1, 2} \ free : k <= j,
           free \subseteq {1, 2}
    PROVE  first \in 1..3 /\ (first = 3 \/ first \in {1, 2} \ free)
<1>1. CASE free = {1, 2}  BY <1>1
<1>2. CASE free # {1, 2}
  <2>1. \E k \in {1, 2} \ free : \A j \in {1, 2} \ free : k <= j
    <3>1. CASE 1 \notin free  BY <3>1
    <3>2. CASE 1 \in free
      <4>1. 2 \notin free  BY <1>2, <3>2
      <4>2. {1, 2} \ free = {2}  BY <3>2, <4>1
      <4>3. QED  BY <4>2
    <3>3. QED  BY <3>1, <3>2
  <2>2. first = CHOOSE k \in {1, 2} \ free : \A j \in {1, 2} \ free : k <= j  BY <1>2
  <2>3. first \in {1, 2} \ free  BY <2>1, <2>2, Zenon
  <2>4. QED  BY <2>3
<1>3. QED  BY <1>1, <1>2

LEMMA EnclosedBulk ==
    ASSUME Enclosed, NEW r \in P!StaffRights, NEW v \in Own, NEW e \in Emails, NEW f \in Emails,
           P!bulk_create_candidates(r, v, <<e, f>>)
    PROVE  Enclosed'
<1> DEFINE line == <<e, f>>
           free == {k \in DOMAIN line : P!InviteAccepted(r, v, line[k])}
           first == IF free = DOMAIN line THEN Len(line) + 1
                    ELSE CHOOSE k \in DOMAIN line \ free : \A j \in DOMAIN line \ free : k <= j
           invited == [k \in 1..(first - 1) |-> P!NewInterview(v, line[k])]
<1>1. /\ Len(interviews) + first - 1 <= MaxInterviews + 1
      /\ people' = people \cup {<<"own", line[k]>> : k \in DOMAIN line}
      /\ interviews' = interviews \o invited
      /\ answer' \in {"true", "partial"}
      /\ P!Commits /\ vacancy' = vacancy
  BY Zenon DEF P!bulk_create_candidates
<1>2. DOMAIN line = {1, 2} /\ Len(line) = 2 /\ \A k \in {1, 2} : line[k] \in Emails
  OBVIOUS
<1> HIDE DEF line
<1>3. free \subseteq {1, 2}  BY <1>2
<1>4. first = IF free = {1, 2} THEN 3 ELSE CHOOSE k \in {1, 2} \ free : \A j \in {1, 2} \ free : k <= j
  BY <1>2
<1> HIDE DEF free, first
<1>5. first \in 1..3  BY <1>3, <1>4, FirstRefused
<1> DEFINE n == first - 1
<1>6. n \in Nat /\ n \in 0..2 /\ \A k \in 1..n : k \in {1, 2}  BY <1>5
<1>7. \A k \in 1..n : /\ invited[k] = P!NewInterview(v, line[k]) /\ line[k] \in Emails
                      /\ <<"own", line[k]>> \in people'
  BY <1>1, <1>2, <1>6
<1>8. \A k \in 1..n : /\ invited[k] \in P!Interview /\ invited[k].candidate \in people'
                      /\ invited[k].candidate[1] = P!OrganizationOf(invited[k].vacancy)
  BY <1>7, NewInterviewIs
<1>9. invited \in [1..n -> P!Interview]  BY <1>8
<1>10. answer' \in Reported  BY <1>1 DEF Reported
<1>11. people \subseteq people' /\ people' \subseteq P!Candidates
  BY <1>1, <1>2, EnclosedTypes DEF P!Candidates
<1> HIDE DEF invited
<1>12. interviews' = interviews \o invited  BY <1>1
<1>13. Len(interviews) + n <= MaxInterviews + 1  BY <1>1, <1>5, EnclosedTypes
<1>14. P!Commits /\ vacancy' = vacancy /\ answer' \in Reported \cup {answer}  BY <1>1, <1>10
<1> HIDE DEF n
<1>15. QED  BY <1>6, <1>8, <1>9, <1>11, <1>12, <1>13, <1>14, RowsJoin, Zenon

LEMMA EnclosedMove ==
    ASSUME Enclosed, NEW i \in P!Numbers, NEW status \in {"completed", "evaluated", "rejected", "expired"},
           P!Move(i, status)
    PROVE  Enclosed'
<1>1. /\ interviews' = [interviews EXCEPT ![i].status = status] /\ P!Commits
      /\ vacancy' = vacancy /\ people' = people /\ answer' = answer
  BY Zenon DEF P!Move
<1> DEFINE old == interviews
           new == interviews'
<1>2. old \in Seq(P!Interview) /\ i \in 1 .. Len(old) /\ new = [old EXCEPT ![i].status = status]
      /\ P!Numbers = 1 .. Len(old) /\ P!Numbers' = 1 .. Len(new)
  BY <1>1, EnclosedTypes DEF P!Numbers
<1> HIDE DEF old, new
<1>3. \A k \in 1 .. Len(old) : old[k] \in P!Interview  BY <1>2
<1>4. [old[i] EXCEPT !.status = status] \in P!Interview  BY <1>2, <1>3 DEF P!Interview
<1>5. /\ new \in Seq(P!Interview) /\ Len(new) = Len(old)
      /\ \A k \in 1 .. Len(old) : new[k] = IF k = i THEN [old[i] EXCEPT !.status = status] ELSE old[k]
  BY <1>2, <1>4
<1>6. \A k \in 1 .. Len(old) : new[k].candidate = old[k].candidate /\ new[k].vacancy = old[k].vacancy
  BY <1>3, <1>5 DEF P!Interview
<1>7. reading' \in P!Reading \cup {null} /\ (reading' # null => reading'.stale)  BY <1>1, CommitsAre
<1>8. P!TypeOK'  BY <1>1, <1>5, <1>7 DEF Enclosed, P!TypeOK, old, new
<1>9. \A k \in P!Numbers' : new[k].candidate \in people' /\ new[k].candidate[1] = P!OrganizationOf(new[k].vacancy)
  BY <1>1, <1>2, <1>5, <1>6 DEF Enclosed, old
<1>10. QED  BY <1>1, <1>7, <1>8, <1>9 DEF Enclosed, new, P!OrganizationOf

LEMMA EnclosedArchive ==
    ASSUME Enclosed, NEW v \in Own, P!archive(v)
    PROVE  Enclosed'
<1>1. /\ vacancy' = [vacancy EXCEPT ![v] = "archived"] /\ P!Commits
      /\ people' = people /\ interviews' = interviews /\ answer' = answer
  BY Zenon DEF P!archive
<1>2. vacancy' \in [Own -> {"published", "archived"}]  BY <1>1, EnclosedTypes
<1>3. reading' \in P!Reading \cup {null} /\ (reading' # null => reading'.stale)  BY <1>1, CommitsAre
<1>4. P!TypeOK'  BY <1>1, <1>2, <1>3 DEF Enclosed, P!TypeOK
<1>5. QED  BY <1>1, <1>3, <1>4 DEF Enclosed, P!Numbers, P!OrganizationOf

LEMMA CountsAre ==
    ASSUME Enclosed, NEW v \in Own
    PROVE  LET total == {i \in P!Numbers : interviews[i].vacancy = v}
           IN  /\ Cardinality(total) \in Nat /\ Cardinality(FinishedOf(v)) \in Nat
               /\ Cardinality(FinishedOf(v)) <= Cardinality(total)
<1> DEFINE total == {i \in P!Numbers : interviews[i].vacancy = v}
<1>1. IsFiniteSet(P!Numbers)  BY EnclosedTypes, FS_Interval
<1>2. IsFiniteSet(total) /\ Cardinality(total) \in Nat  BY <1>1, FS_Subset, FS_CardinalityType
<1>3. FinishedOf(v) \subseteq total  BY DEF FinishedOf
<1>4. QED  BY <1>2, <1>3, FS_Subset, FS_CardinalityType

LEMMA EnclosedBegins ==
    ASSUME Enclosed, NEW r \in P!StaffRights, NEW v \in Own, P!BeginSummary(r, v)
    PROVE  Enclosed'
<1> DEFINE shown == P!InterviewService_list(r, v, null)
           total == {i \in P!Numbers : interviews[i].vacancy = v}
<1>1. /\ P!canFor(r, "report.read", v)
      /\ reading' = [vacancy |-> v, total |-> Cardinality(shown), stale |-> FALSE,
                     finished |-> Cardinality({i \in shown : interviews[i].status \in P!FINISHED_STATUSES})]
      /\ vacancy' = vacancy /\ people' = people /\ interviews' = interviews /\ answer' = answer
  <2>1. /\ P!canFor(r, "report.read", v)
        /\ vacancy' = vacancy /\ people' = people /\ interviews' = interviews /\ answer' = answer
    BY DEF P!BeginSummary
  <2>2. reading' = [vacancy |-> v, total |-> Cardinality(shown), stale |-> FALSE,
                    finished |-> Cardinality({i \in shown : interviews[i].status \in P!FINISHED_STATUSES})]
    BY Zenon DEF P!BeginSummary, P!Cardinality, Cardinality
  <2>3. QED  BY <2>1, <2>2
<1>2. shown = total
  <2>1. P!can(r, "interview.read") /\ (r.scope # null => v \in r.scope)
    BY <1>1, StaffIs DEF P!can, P!canFor, Shows
  <2>2. P!Mine(v) /\ v # null  BY OwnIs
  <2>3. QED  BY <2>1, <2>2 DEF P!InterviewService_list, P!canFor, P!visible_vacancy_ids
<1>3. {i \in shown : interviews[i].status \in P!FINISHED_STATUSES} = FinishedOf(v)
  BY <1>2 DEF FinishedOf
<1> DEFINE t == Cardinality(total)
           n == Cardinality(FinishedOf(v))
<1>4. reading' = [vacancy |-> v, total |-> t, stale |-> FALSE, finished |-> n]  BY <1>1, <1>2, <1>3
<1>5. t \in Nat /\ n \in Nat /\ n <= t  BY CountsAre
<1>6. FinishedOf(v)' = FinishedOf(v)  BY <1>1 DEF FinishedOf, P!Numbers
<1>7. n = Cardinality(FinishedOf(v)')  BY <1>6
<1> HIDE DEF t, n
<1>8. /\ reading' \in P!Reading /\ reading'.vacancy = v /\ reading'.finished = n /\ reading'.total = t
  BY <1>4, <1>5 DEF P!Reading
<1>9. P!TypeOK'  BY <1>1, <1>8 DEF Enclosed, P!TypeOK
<1>10. reading'.finished = Cardinality(FinishedOf(reading.vacancy)') /\ reading'.finished <= reading'.total
  BY <1>5, <1>7, <1>8 DEF FinishedOf
<1>11. QED  BY <1>1, <1>9, <1>10 DEF Enclosed, P!Numbers, P!OrganizationOf

LEMMA EnclosedSummary ==
    ASSUME Enclosed, NEW r \in P!StaffRights, P!vacancy_summary(r)
    PROVE  Enclosed'
<1> DEFINE finished == {i \in P!ranking(r, reading.vacancy) : interviews[i].status \in P!FINISHED_STATUSES}
<1>1. /\ reading # null /\ P!canFor(r, "report.read", reading.vacancy)
      /\ answer' = IF reading.stale \/ (Cardinality(finished) = reading.finished /\ reading.finished <= reading.total)
                   THEN "true" ELSE "unequal"
      /\ reading' = null /\ vacancy' = vacancy /\ people' = people /\ interviews' = interviews
  <2>1. /\ reading # null /\ P!canFor(r, "report.read", reading.vacancy) /\ reading' = null
        /\ vacancy' = vacancy /\ people' = people /\ interviews' = interviews
    BY DEF P!vacancy_summary
  <2>2. answer' = IF reading.stale \/ (Cardinality(finished) = reading.finished /\ reading.finished <= reading.total)
                  THEN "true" ELSE "unequal"
    BY Zenon DEF P!vacancy_summary, P!Cardinality, Cardinality
  <2>3. QED  BY <2>1, <2>2
<1>2. P!Mine(reading.vacancy)  BY <1>1, OwnIs DEF Enclosed, P!TypeOK, P!Reading
<1>3. finished = FinishedOf(reading.vacancy)
  BY <1>1, <1>2 DEF P!ranking, P!FINISHED_STATUSES, FinishedOf
<1>4. ~reading.stale => Cardinality(finished) = reading.finished /\ reading.finished <= reading.total
  BY <1>1, <1>3 DEF Enclosed
<1>5. answer' = "true"  BY <1>1, <1>4
<1>6. P!TypeOK'  BY <1>1, <1>5 DEF Enclosed, P!TypeOK, P!Answers
<1>7. QED  BY <1>1, <1>5, <1>6 DEF Enclosed, P!Numbers, P!OrganizationOf

LEMMA EnclosedNext == ASSUME Enclosed, P!Next  PROVE Enclosed'
<1>1. ASSUME NEW r \in P!AllRights, NEW v \in Own, NEW e \in Emails, P!invite(r, v, e)  PROVE Enclosed'
  BY <1>1, EnclosedInvite
<1>2. ASSUME NEW r \in P!AllRights, NEW e \in Emails, P!create_candidate(r, e)  PROVE Enclosed'
  BY <1>2, EnclosedCreate
<1>3. ASSUME NEW r \in P!StaffRights, NEW v \in Own, NEW e \in Emails, NEW f \in Emails,
             P!bulk_create_candidates(r, v, <<e, f>>)
      PROVE  Enclosed'
  BY <1>3, EnclosedBulk
<1>4. ASSUME NEW i \in P!Numbers, NEW status \in {"completed", "evaluated", "rejected", "expired"}, P!Move(i, status)
      PROVE  Enclosed'
  BY <1>4, EnclosedMove
<1>5. ASSUME NEW v \in Own, P!archive(v)  PROVE Enclosed'
  BY <1>5, EnclosedArchive
<1>6. ASSUME NEW r \in P!StaffRights, NEW v \in Own, P!BeginSummary(r, v)  PROVE Enclosed'
  BY <1>6, EnclosedBegins
<1>7. ASSUME NEW r \in P!StaffRights, P!vacancy_summary(r)  PROVE Enclosed'
  BY <1>7, EnclosedSummary
<1>8. QED  BY <1>1, <1>2, <1>3, <1>4, <1>5, <1>6, <1>7 DEF P!Next

LEMMA EnclosedRests == ASSUME Enclosed, UNCHANGED OfPerimeter  PROVE Enclosed'
<1>1. P!TypeOK'  BY DEF Enclosed, P!TypeOK, OfPerimeter
<1>2. QED  BY <1>1 DEF Enclosed, OfPerimeter, P!Numbers, P!OrganizationOf, FinishedOf

\* Whatever members, tokens, vacancies and candidates an organization has: what the pages, the public
\* API and the tools of the assistant show someone lies within that one's rights and is the same on
\* every way (a list of candidates ends at its limit, and says how many there are), what the assistant proposes can be done, no token is refused after a commit, and a summary that
\* is answered agrees with itself.
THEOREM PerimeterStaysKept == MCSpec => []PerimeterIsKept
<1> DEFINE Inv == part = "perimeter" => Enclosed
<1>1. ASSUME MCInit  PROVE Inv
  BY <1>1, EnclosedInit DEF MCInit
<1>2. ASSUME Inv, [MCNext]_all_vars  PROVE Inv'
  <2>1. CASE NextInvitations  BY <1>2, <2>1, EnclosedRests DEF NextInvitations
  <2>2. CASE NextHuntflow  BY <1>2, <2>2, EnclosedRests DEF NextHuntflow
  <2>3. CASE NextPerimeter  BY <1>2, <2>3, EnclosedNext DEF NextPerimeter
  <2>4. CASE UNCHANGED all_vars  BY <1>2, <2>4, EnclosedRests DEF all_vars
  <2>5. QED  BY <1>2, <2>1, <2>2, <2>3, <2>4 DEF MCNext
<1>3. Inv => PerimeterIsKept  BY EnclosedHolds DEF PerimeterIsKept
<1>4. QED  BY <1>1, <1>2, <1>3, PTL DEF MCSpec
=============================================================================
