--------------------------- MODULE JobQueue_proofs ---------------------------
(***************************************************************************)
(* Theorems about JobQueue for every number of workers, slots, rows and    *)
(* attempts.                                                               *)
(***************************************************************************)
EXTENDS JobQueue, FiniteSetTheorems, TLAPS

\* A busy task names a job; the type invariant does not say so on its own.
BusyNamesJob ==
    \A w \in Workers, s \in Slots : exec[w][s].phase # "idle" => exec[w][s].j \in Jobs

Typed == TypeOK /\ BusyNamesJob

\* Stated for the provers, which do not find it inside a record.
LEMMA ZeroIsNumber == 0 \in Nat /\ 0 \in Int  OBVIOUS

LEMMA RecordedType ==
    ASSUME NEW row \in Row, NEW p \in RecordPhases, NEW seen \in Nat
    PROVE  Recorded(row, p, seen) \in Row
<1>1. CASE p = "completing"
  BY <1>1, ConstantsOK, ZeroIsNumber DEF Recorded, Row, Status
<1>2. CASE p = "failing" /\ seen < MaxAttempts
  <2>1. Backoff[seen] \in Int  BY <1>2, ConstantsOK
  <2>2. QED  BY <1>2, <2>1, ConstantsOK DEF Recorded, Row, Status
<1>3. CASE p = "failing" /\ ~(seen < MaxAttempts)
  BY <1>3, ConstantsOK, ZeroIsNumber DEF Recorded, Row, Status
<1>4. CASE p = "releasing"
  <2>1. (IF seen > 0 THEN seen - 1 ELSE 0) \in Nat  OBVIOUS
  <2>2. QED  BY <1>4, <2>1, ZeroIsNumber DEF Recorded, Row, Status
<1>5. CASE p = "rejecting"
  BY <1>5, ConstantsOK, ZeroIsNumber DEF Recorded, Row, Status
<1>6. QED  BY <1>1, <1>2, <1>3, <1>4, <1>5 DEF RecordPhases

LEMMA RowTypes ==
    ASSUME NEW row \in Row
    PROVE  /\ Buried(row) \in Row
           /\ Aged(row) \in Row
           /\ \A w \in Workers : Claimed(row, w) \in Row
           /\ \A read \in Call : Retried(row, read) \in Row
           /\ [row EXCEPT !.key = None] \in Row
           /\ [row EXCEPT !.status = "cancelled"] \in Row
           /\ [row EXCEPT !.lease = LeaseTicks] \in Row
<1>1. Buried(row) \in Row
  BY ZeroIsNumber DEF Buried, Row, Status
<1>2. Aged(row) \in Row
  <2>1. (IF row.due > -AgeCap THEN row.due - 1 ELSE row.due) \in Int
    BY ConstantsOK DEF Row
  <2>2. (IF row.lease > 0 THEN row.lease - 1 ELSE 0) \in Nat
    BY DEF Row
  <2>3. QED  BY <2>1, <2>2 DEF Aged, Row
<1>3. ASSUME NEW w \in Workers PROVE Claimed(row, w) \in Row
  <2>1. row.attempts + 1 \in Nat /\ LeaseTicks \in Nat  BY ConstantsOK DEF Row
  <2>2. QED  BY <2>1 DEF Claimed, Row, Status
<1>4. ASSUME NEW read \in Call PROVE Retried(row, read) \in Row
  <2>1. (IF read.attempts = 0 THEN row.attempts ELSE 0) \in Nat  BY DEF Row
  <2>2. (IF read.owner = None THEN row.lease ELSE 0) \in Nat  BY DEF Row
  <2>3. (IF read.owner = None THEN row.owner ELSE None) \in Workers \cup {None}  BY DEF Row
  <2>4. QED  BY <2>1, <2>2, <2>3, ZeroIsNumber DEF Retried, Row, Status
<1>5. [row EXCEPT !.key = None] \in Row  BY DEF Row
<1>6. [row EXCEPT !.status = "cancelled"] \in Row  BY DEF Row, Status
<1>7. [row EXCEPT !.lease = LeaseTicks] \in Row  BY ConstantsOK DEF Row
<1>8. QED  BY <1>1, <1>2, <1>3, <1>4, <1>5, <1>6, <1>7

LEMMA InsertedType ==
    ASSUME NEW key \in Entities \cup {None}, NEW kind \in Kinds, NEW delay \in Delays
    PROVE  Inserted(key, kind, delay) \in Row
<1>1. delay \in Int  BY ConstantsOK
<1>2. QED  BY <1>1, ZeroIsNumber DEF Inserted, Row, Status

LEMMA NoCallType == NoCall \in Call  BY ZeroIsNumber DEF NoCall, Call
LEMMA IdleType == Idle \in Exec  BY ZeroIsNumber DEF Idle, Exec, Phases

LEMMA FreeType ==
    ASSUME Typed, NEW w \in Workers, NEW s \in Slots, Free(w, s)
    PROVE  /\ exec' \in [Workers -> [Slots -> Exec]]
           /\ BusyNamesJob'
<1>1. exec' \in [Workers -> [Slots -> Exec]]
  BY IdleType DEF Typed, TypeOK, Free
<1>2. ASSUME NEW v \in Workers, NEW t \in Slots
      PROVE  exec'[v][t].phase # "idle" => exec'[v][t].j \in Jobs
  <2>1. CASE v = w /\ t = s
    BY <2>1 DEF Typed, TypeOK, Free, Idle
  <2>2. CASE ~(v = w /\ t = s)
    BY <2>2 DEF Typed, TypeOK, BusyNamesJob, Free
  <2>3. QED  BY <2>1, <2>2
<1>3. QED  BY <1>1, <1>2 DEF BusyNamesJob

\* The type invariant is inductive.
LEMMA TypeStep == ASSUME Typed, [Next]_vars PROVE Typed'
<1> USE DEF Typed
<1>1. CASE Enqueue
  <2>1. PICK key \in Entities \cup {None}, kind \in Kinds, delay \in Delays :
               enqueue(key, kind, delay)
    BY <1>1 DEF Enqueue
  <2>2. job' \in [Jobs -> Row]
    BY <2>1, InsertedType, RowTypes DEF enqueue, TypeOK
  <2>3. QED  BY <2>1, <2>2 DEF enqueue, TypeOK, BusyNamesJob
<1>2. CASE Tick
  <2>1. job' \in [Jobs -> Row]
    BY <1>2, RowTypes DEF Tick, TypeOK
  <2>2. QED  BY <1>2, <2>1 DEF Tick, TypeOK, BusyNamesJob
<1>3. ASSUME NEW j \in Jobs, cancel(j) PROVE Typed'
  <2>1. job' \in [Jobs -> Row]
    BY <1>3, RowTypes DEF cancel, TypeOK
  <2>2. QED  BY <1>3, <2>1, NoCallType DEF cancel, TypeOK, BusyNamesJob
<1>4. ASSUME NEW j \in Jobs, retry(j) PROVE Typed'
  <2>1. job' \in [Jobs -> Row]
    BY <1>4, RowTypes DEF retry, TypeOK
  <2>2. QED  BY <1>4, <2>1, NoCallType DEF retry, TypeOK, BusyNamesJob
<1>5. ASSUME NEW j \in Jobs, NEW op \in {"cancel", "retry"}, BeginCall(j, op) PROVE Typed'
  BY <1>5 DEF BeginCall, TypeOK, BusyNamesJob, Row, Call
<1>6. ASSUME NEW w \in Workers, NEW s \in Slots, NEW j \in Jobs, claim_next(w, s, j) PROVE Typed'
  <2>1. job' \in [Jobs -> Row]
    BY <1>6, RowTypes DEF claim_next, TypeOK
  <2>2. exec' \in [Workers -> [Slots -> Exec]] /\ BusyNamesJob'
    <3>1. [phase |-> "handler", j |-> j, seen |-> 0, fresh |-> TRUE] \in Exec
      BY <1>6, ZeroIsNumber DEF Exec, Phases
    <3>2. ASSUME NEW e \in Exec, NEW b \in BOOLEAN PROVE [e EXCEPT !.fresh = b] \in Exec
      BY DEF Exec
    <3>3. \A v \in Workers, t \in Slots :
             exec[v][t] \in Exec /\ (exec[v][t].fresh /\ exec[v][t].j # j) \in BOOLEAN
      BY DEF TypeOK, Exec
    <3>4. exec' \in [Workers -> [Slots -> Exec]]
      BY <1>6, <3>1, <3>2, <3>3 DEF claim_next
    <3>5. ASSUME NEW v \in Workers, NEW t \in Slots
          PROVE  exec'[v][t].phase # "idle" => exec'[v][t].j \in Jobs
      BY <1>6 DEF claim_next, TypeOK, BusyNamesJob, Exec
    <3>6. QED  BY <3>4, <3>5 DEF BusyNamesJob
  <2>3. QED  BY <1>6, <2>1, <2>2 DEF claim_next, TypeOK
<1>7. ASSUME NEW w \in Workers, BuryZombies(w) PROVE Typed'
  <2>1. job' \in [Jobs -> Row]
    BY <1>7, RowTypes DEF BuryZombies, TypeOK
  <2>2. QED  BY <1>7, <2>1 DEF BuryZombies, TypeOK, BusyNamesJob
<1>8. ASSUME NEW w \in Workers, NEW s \in Slots, heartbeat(w, s) PROVE Typed'
  <2>1. exec[w][s].j \in Jobs
    BY <1>8 DEF heartbeat, HasHandler, InPhase, BusyNamesJob
  <2>2. job' \in [Jobs -> Row]
    BY <1>8, <2>1, RowTypes DEF heartbeat, TypeOK
  <2>3. QED  BY <1>8, <2>2 DEF heartbeat, TypeOK, BusyNamesJob
<1>9. ASSUME NEW w \in Workers, NEW s \in Slots, LeaseLost(w, s) \/ RecordFails(w, s) PROVE Typed'
  BY <1>9, FreeType DEF LeaseLost, RecordFails, TypeOK
<1>10. ASSUME NEW w \in Workers, NEW s \in Slots, NEW p \in RecordPhases, BeginRecord(w, s, p)
       PROVE  Typed'
  <2>1. exec[w][s].phase = "handler" /\ exec[w][s].j \in Jobs
    BY <1>10 DEF BeginRecord, InPhase, BusyNamesJob
  <2>2. job[exec[w][s].j].attempts \in Nat
    BY <2>1 DEF TypeOK, Row
  <2>3. CASE Held(w, s)
    <3> DEFINE seen == IF p \in {"failing", "releasing"} THEN job[exec[w][s].j].attempts ELSE 0
               e == [exec[w][s] EXCEPT !.phase = p, !.seen = seen]
    <3>1. seen \in Nat  BY <2>2
    <3>2. exec[w][s] \in Exec /\ p \in Phases  BY DEF TypeOK, Phases
    <3>3. e \in Exec /\ e.j = exec[w][s].j
      <4> HIDE DEF seen
      <4> QED  BY <3>1, <3>2 DEF Exec
    <3>4. exec' = [exec EXCEPT ![w] = [exec[w] EXCEPT ![s] = e]]
      BY <1>10, <2>3, <3>2, ZenonT(30) DEF BeginRecord, TypeOK, Exec
    <3> HIDE DEF e
    <3>5. exec' \in [Workers -> [Slots -> Exec]]
      BY <3>3, <3>4 DEF TypeOK
    <3>6. ASSUME NEW v \in Workers, NEW t \in Slots
          PROVE  exec'[v][t].phase # "idle" => exec'[v][t].j \in Jobs
      <4>1. CASE v = w /\ t = s
        BY <4>1, <2>1, <3>3, <3>4 DEF TypeOK
      <4>2. CASE ~(v = w /\ t = s)
        BY <4>2, <3>4 DEF TypeOK, BusyNamesJob
      <4>3. QED  BY <4>1, <4>2
    <3>7. QED  BY <1>10, <3>5, <3>6 DEF BeginRecord, TypeOK, BusyNamesJob
  <2>4. CASE ~Held(w, s)
    BY <1>10, <2>4, FreeType DEF BeginRecord, TypeOK
  <2>5. QED  BY <2>3, <2>4
<1>11. ASSUME NEW w \in Workers, NEW s \in Slots, Record(w, s) PROVE Typed'
  <2>1. exec[w][s].j \in Jobs
    BY <1>11 DEF Record, RecordPhases, BusyNamesJob
  <2>2. Recorded(job[exec[w][s].j], exec[w][s].phase, exec[w][s].seen) \in Row
    BY <1>11, <2>1, RecordedType DEF Record, TypeOK, Exec
  <2>3. job' \in [Jobs -> Row]
    BY <1>11, <2>1, <2>2 DEF Record, TypeOK
  <2>4. QED  BY <1>11, <2>3, FreeType DEF Record, TypeOK
<1>12. ASSUME NEW w \in Workers, request_stop(w) \/ Exit(w) \/ Restart(w) PROVE Typed'
  <2>1. mode' \in [Workers -> {"up", "stopping", "down"}]
    BY <1>12 DEF request_stop, Exit, Restart, TypeOK
  <2>2. stops' \in Nat
    BY <1>12 DEF request_stop, Exit, Restart, TypeOK
  <2>3. UNCHANGED <<job, exec, api, edits>>
    BY <1>12 DEF request_stop, Exit, Restart
  <2>4. QED  BY <2>1, <2>2, <2>3 DEF TypeOK, BusyNamesJob
<1>13. ASSUME NEW w \in Workers, Crash(w) PROVE Typed'
  <2>1. exec' \in [Workers -> [Slots -> Exec]]
    BY <1>13, IdleType DEF Crash, TypeOK
  <2>2. ASSUME NEW v \in Workers, NEW t \in Slots
        PROVE  exec'[v][t].phase # "idle" => exec'[v][t].j \in Jobs
    BY <1>13 DEF Crash, TypeOK, BusyNamesJob, Idle
  <2>3. QED  BY <1>13, <2>1, <2>2 DEF Crash, TypeOK, BusyNamesJob
<1>14. CASE UNCHANGED vars
  BY <1>14 DEF vars, TypeOK, BusyNamesJob
<1>15. QED
  BY <1>1, <1>2, <1>3, <1>4, <1>5, <1>6, <1>7, <1>8, <1>9, <1>10, <1>11, <1>12, <1>13, <1>14
  DEF Next, Poll, Step

LEMMA TypeInit == Init => Typed
BY ConstantsOK, ZeroIsNumber DEF Init, Typed, TypeOK, BusyNamesJob, Row, Status, Exec, Idle, Phases, Call, NoCall

\* The table, the tasks and the workers keep their types, whatever interleaves.
THEOREM TypeCorrect == Spec => []TypeOK
<1>1. Typed /\ [Next]_vars => Typed'  BY TypeStep
<1>2. Typed => TypeOK  BY DEF Typed
<1>3. QED  BY TypeInit, <1>1, <1>2, PTL DEF Spec
-----------------------------------------------------------------------------
(* LeaseHeld is a predicate of one row, and inductive once types are known. *)

RowHeld(row) ==
    /\ row.status = "running" => row.owner \in Workers /\ row.attempts >= 1
    /\ row.status \in {"absent", "succeeded", "failed"} => row.owner = None /\ row.lease = 0

LEMMA RowsHeld ==
    ASSUME NEW row \in Row, RowHeld(row)
    PROVE  /\ RowHeld(Buried(row))
           /\ RowHeld(Aged(row))
           /\ \A w \in Workers : RowHeld(Claimed(row, w))
           /\ \A read \in Call : RowHeld(Retried(row, read))
           /\ \A p \in RecordPhases, seen \in Nat : RowHeld(Recorded(row, p, seen))
           /\ RowHeld([row EXCEPT !.key = None])
           /\ RowHeld([row EXCEPT !.status = "cancelled"])
           /\ row.status = "running" => RowHeld([row EXCEPT !.lease = LeaseTicks])
<1>1. RowHeld(Buried(row))  BY DEF RowHeld, Buried, Row
<1>2. RowHeld(Aged(row))  BY DEF RowHeld, Aged, Row, Active
<1>3. \A w \in Workers : RowHeld(Claimed(row, w))  BY DEF RowHeld, Claimed, Row
<1>4. \A read \in Call : RowHeld(Retried(row, read))  BY DEF RowHeld, Retried, Row
<1>5. ASSUME NEW p \in RecordPhases, NEW seen \in Nat PROVE RowHeld(Recorded(row, p, seen))
  <2>1. CASE p = "completing"  BY <2>1 DEF RowHeld, Recorded, Row
  <2>2. CASE p = "failing" /\ seen < MaxAttempts  BY <2>2 DEF RowHeld, Recorded, Row
  <2>3. CASE p = "failing" /\ ~(seen < MaxAttempts)  BY <2>3 DEF RowHeld, Recorded, Row
  <2>4. CASE p = "releasing"  BY <2>4 DEF RowHeld, Recorded, Row
  <2>5. CASE p = "rejecting"  BY <2>5 DEF RowHeld, Recorded, Row
  <2>6. QED  BY <2>1, <2>2, <2>3, <2>4, <2>5 DEF RecordPhases
<1>6. RowHeld([row EXCEPT !.key = None])  BY DEF RowHeld, Row
<1>7. RowHeld([row EXCEPT !.status = "cancelled"])  BY DEF RowHeld, Row
<1>8. row.status = "running" => RowHeld([row EXCEPT !.lease = LeaseTicks])  BY DEF RowHeld, Row
<1>9. QED  BY <1>1, <1>2, <1>3, <1>4, <1>5, <1>6, <1>7, <1>8

LEMMA HeldStep == ASSUME Typed, LeaseHeld, [Next]_vars PROVE LeaseHeld'
<1>1. \A j \in Jobs : job[j] \in Row /\ RowHeld(job[j])
  BY DEF Typed, TypeOK, LeaseHeld, RowHeld
<1>2. SUFFICES ASSUME NEW i \in Jobs PROVE RowHeld(job'[i])
  BY DEF LeaseHeld, RowHeld
<1>3. job \in [Jobs -> Row]  BY DEF Typed, TypeOK
<1>4. CASE Enqueue
  <2>1. PICK key \in Entities \cup {None}, kind \in Kinds, delay \in Delays :
               enqueue(key, kind, delay)
    BY <1>4 DEF Enqueue
  <2>2. job'[i] \in {Inserted(key, kind, delay), [job[i] EXCEPT !.key = None], job[i]}
    BY <2>1, <1>3 DEF enqueue
  <2>3. RowHeld(Inserted(key, kind, delay))  BY DEF RowHeld, Inserted
  <2>4. QED  BY <1>1, <2>2, <2>3, RowsHeld
<1>5. CASE Tick
  BY <1>1, <1>5, RowsHeld DEF Tick
<1>6. ASSUME NEW j \in Jobs, cancel(j) PROVE RowHeld(job'[i])
  <2>1. job'[i] \in {[job[i] EXCEPT !.status = "cancelled"], job[i]}  BY <1>3, <1>6 DEF cancel
  <2>2. QED  BY <1>1, <2>1, RowsHeld
<1>7. ASSUME NEW j \in Jobs, retry(j) PROVE RowHeld(job'[i])
  <2>1. api[j] \in Call  BY DEF Typed, TypeOK
  <2>2. job'[i] \in {Retried(job[i], api[j]), job[i]}  BY <1>3, <1>7 DEF retry
  <2>3. QED  BY <1>1, <2>1, <2>2, RowsHeld
<1>8. ASSUME NEW w \in Workers, NEW s \in Slots, NEW j \in Jobs, claim_next(w, s, j)
      PROVE  RowHeld(job'[i])
  <2>1. job'[i] \in {Claimed(job[i], w), Buried(job[i]), job[i]}  BY <1>8 DEF claim_next
  <2>2. QED  BY <1>1, <2>1, RowsHeld
<1>9. ASSUME NEW w \in Workers, BuryZombies(w) PROVE RowHeld(job'[i])
  <2>1. job'[i] \in {Buried(job[i]), job[i]}  BY <1>9 DEF BuryZombies
  <2>2. QED  BY <1>1, <2>1, RowsHeld
<1>10. ASSUME NEW w \in Workers, NEW s \in Slots, heartbeat(w, s) PROVE RowHeld(job'[i])
  <2>1. job[exec[w][s].j].status = "running"  BY <1>10 DEF heartbeat, Held
  <2>2. \/ job'[i] = job[i]
        \/ job[i].status = "running" /\ job'[i] = [job[i] EXCEPT !.lease = LeaseTicks]
    BY <1>3, <1>10, <2>1 DEF heartbeat
  <2>3. QED  BY <1>1, <2>2, RowsHeld
<1>11. ASSUME NEW w \in Workers, NEW s \in Slots, Record(w, s) PROVE RowHeld(job'[i])
  <2>1. exec[w][s].phase \in RecordPhases /\ exec[w][s].seen \in Nat
    BY <1>11 DEF Record, Typed, TypeOK, Exec
  <2>2. job'[i] \in {Recorded(job[i], exec[w][s].phase, exec[w][s].seen), job[i]}
    BY <1>3, <1>11 DEF Record
  <2>3. QED  BY <1>1, <2>1, <2>2, RowsHeld
<1>12. CASE UNCHANGED job
  BY <1>1, <1>12
<1>13. QED
  BY <1>4, <1>5, <1>6, <1>7, <1>8, <1>9, <1>10, <1>11, <1>12, ZenonT(30)
  DEF Next, Poll, Step, BeginCall, LeaseLost, BeginRecord, RecordFails,
      request_stop, Exit, Crash, Restart, vars

\* Whatever stale UPDATE lands when, a running job has an owner and a spent attempt and a
\* finished one is held by nobody.
THEOREM LeasesHeld == Spec => []LeaseHeld
<1>1. Init => LeaseHeld  BY DEF Init, LeaseHeld
<1>2. Typed /\ LeaseHeld /\ [Next]_vars => LeaseHeld'  BY HeldStep
<1>3. Typed /\ [Next]_vars => Typed'  BY TypeStep
<1>4. QED  BY TypeInit, <1>1, <1>2, <1>3, PTL DEF Spec
-----------------------------------------------------------------------------
(* The table grows by one row at a time, and what is named is there:       *)
(* a busy task and a call by hand never name an absent row.                *)

Dense == \E n \in 0 .. MaxJobs : \A j \in Jobs : job[j].status # "absent" <=> j <= n

Present ==
    /\ Dense
    /\ \A w \in Workers, s \in Slots : exec[w][s].phase # "idle" => job[exec[w][s].j].status # "absent"
    /\ \A j \in Jobs : api[j].op # "none" => job[j].status # "absent"

\* The row a new job takes is the first that is absent.
LEMMA NextIsAbsent ==
    ASSUME NEW n \in 0 .. MaxJobs, \A j \in Jobs : job[j].status # "absent" <=> j <= n
    PROVE  NextId = n + 1
<1>1. {j \in Jobs : job[j].status # "absent"} = 1 .. n  BY ConstantsOK DEF Jobs
<1>2. Cardinality(1 .. n) = n  BY FS_Interval
<1>3. NextId = 1 + Cardinality(1 .. n)  BY <1>1, Zenon DEF NextId
<1>4. QED  BY <1>2, <1>3

\* What a step does to one row, as far as its status, its attempts, its owner and its kind
\* are concerned.
Same(i) ==
    /\ job'[i].status = job[i].status /\ job'[i].attempts = job[i].attempts
    /\ job'[i].owner = job[i].owner

LEMMA RowChanges ==
    ASSUME Typed, Present, [Next]_vars, NEW i \in Jobs
    PROVE  \/ Same(i) /\ job'[i].kind = job[i].kind
           \/ /\ job[i].status = "absent" /\ i = NextId
              /\ \A j \in Jobs \ {i} : Same(j)
              /\ \E key \in Entities \cup {None}, kind \in Kinds, delay \in Delays :
                     enqueue(key, kind, delay) /\ job'[i] = Inserted(key, kind, delay)
           \/ /\ job[i].status # "absent" /\ job'[i].status # "absent" /\ job'[i].kind = job[i].kind
              /\ \/ cancel(i) /\ job'[i] = [job[i] EXCEPT !.status = "cancelled"]
                 \/ retry(i) /\ job'[i] = Retried(job[i], api[i])
                 \/ \E w \in Workers, s \in Slots :
                      claim_next(w, s, i) /\ Ready(i) /\ job'[i] = Claimed(job[i], w)
                 \/ \E w \in Workers : Poll(w) /\ OutOfAttempts(i) /\ job'[i] = Buried(job[i])
                 \/ \E w \in Workers, s \in Slots :
                      /\ Record(w, s) /\ exec[w][s].j = i
                      /\ job'[i] = Recorded(job[i], exec[w][s].phase, exec[w][s].seen)
<1> DEFINE Goal == \/ Same(i) /\ job'[i].kind = job[i].kind
                   \/ /\ job[i].status = "absent" /\ i = NextId
                      /\ \A j \in Jobs \ {i} : Same(j)
                      /\ \E key \in Entities \cup {None}, kind \in Kinds, delay \in Delays :
                             enqueue(key, kind, delay) /\ job'[i] = Inserted(key, kind, delay)
                   \/ /\ job[i].status # "absent" /\ job'[i].status # "absent"
                      /\ job'[i].kind = job[i].kind
                      /\ \/ cancel(i) /\ job'[i] = [job[i] EXCEPT !.status = "cancelled"]
                         \/ retry(i) /\ job'[i] = Retried(job[i], api[i])
                         \/ \E w \in Workers, s \in Slots :
                              claim_next(w, s, i) /\ Ready(i) /\ job'[i] = Claimed(job[i], w)
                         \/ \E w \in Workers :
                              Poll(w) /\ OutOfAttempts(i) /\ job'[i] = Buried(job[i])
                         \/ \E w \in Workers, s \in Slots :
                              /\ Record(w, s) /\ exec[w][s].j = i
                              /\ job'[i] = Recorded(job[i], exec[w][s].phase, exec[w][s].seen)
<1>0. job \in [Jobs -> Row] /\ \A j \in Jobs : job[j] \in Row  BY DEF Typed, TypeOK
<1>1. CASE Enqueue
  <2>1. PICK key \in Entities \cup {None}, kind \in Kinds, delay \in Delays :
               enqueue(key, kind, delay)
    BY <1>1 DEF Enqueue
  <2>2. PICK n \in 0 .. MaxJobs : \A j \in Jobs : job[j].status # "absent" <=> j <= n
    BY DEF Present, Dense
  <2>3. NextId = n + 1 /\ NextId \in Jobs  BY <2>1, <2>2, NextIsAbsent DEF enqueue
  <2>4. \A j \in Jobs \ {NextId} : Same(j) /\ job'[j].kind = job[j].kind
    BY <1>0, <2>1 DEF enqueue, Same, Row
  <2>5. job[NextId].status = "absent"  BY <2>2, <2>3
  <2>6. job'[NextId] = Inserted(key, kind, delay)  BY <2>1, <2>3 DEF enqueue
  <2>7. QED  BY <2>1, <2>3, <2>4, <2>5, <2>6
<1>2. CASE Tick
  BY <1>0, <1>2 DEF Tick, Aged, Same, Row
<1>3. ASSUME NEW j \in Jobs, cancel(j) PROVE Goal
  <2>1. CASE i = j
    <3>1. job[i].status # "absent"  BY <1>3, <2>1 DEF cancel, Present
    <3>2. job'[i] = [job[i] EXCEPT !.status = "cancelled"]  BY <1>0, <1>3, <2>1 DEF cancel
    <3>3. QED  BY <1>0, <1>3, <2>1, <3>1, <3>2 DEF Row
  <2>2. CASE i # j  BY <1>0, <1>3, <2>2 DEF cancel, Same
  <2>3. QED  BY <2>1, <2>2
<1>4. ASSUME NEW j \in Jobs, retry(j) PROVE Goal
  <2>1. CASE i = j
    <3>1. job[i].status # "absent"  BY <1>4, <2>1 DEF retry, Present
    <3>2. job'[i] = Retried(job[i], api[i])  BY <1>0, <1>4, <2>1 DEF retry
    <3>3. job'[i].status = "queued" /\ job'[i].kind = job[i].kind  BY <1>0, <3>2 DEF Retried, Row
    <3>4. QED  BY <1>4, <2>1, <3>1, <3>2, <3>3
  <2>2. CASE i # j  BY <1>0, <1>4, <2>2 DEF retry, Same
  <2>3. QED  BY <2>1, <2>2
<1>5. ASSUME NEW w \in Workers, Poll(w), OutOfAttempts(i), job'[i] = Buried(job[i]) PROVE Goal
  BY <1>0, <1>5 DEF OutOfAttempts, Expired, Buried, Row
<1>6. ASSUME NEW w \in Workers, NEW s \in Slots, NEW j \in Jobs, claim_next(w, s, j) PROVE Goal
  <2>1. CASE i = j
    <3>1. Ready(i)  BY <1>6, <2>1 DEF claim_next, Candidates
    <3>2. job'[i] = Claimed(job[i], w)  BY <1>6, <2>1 DEF claim_next
    <3>3. job[i].status # "absent"  BY <3>1 DEF Ready, Expired
    <3>4. job'[i].status = "running" /\ job'[i].kind = job[i].kind  BY <1>0, <3>2 DEF Claimed, Row
    <3>5. QED  BY <1>6, <2>1, <3>1, <3>2, <3>3, <3>4
  <2>2. CASE i # j
    <3>1. Poll(w)  BY <1>6 DEF Poll
    <3>2. job'[i] = job[i] \/ (OutOfAttempts(i) /\ job'[i] = Buried(job[i]))
      BY <1>6, <2>2 DEF claim_next
    <3>3. QED  BY <1>5, <3>1, <3>2 DEF Same
  <2>3. QED  BY <2>1, <2>2
<1>7. ASSUME NEW w \in Workers, BuryZombies(w) PROVE Goal
  <2>1. Poll(w)  BY <1>7 DEF Poll
  <2>2. job'[i] = job[i] \/ (OutOfAttempts(i) /\ job'[i] = Buried(job[i]))
    BY <1>7 DEF BuryZombies
  <2>3. QED  BY <1>5, <2>1, <2>2 DEF Same
<1>8. ASSUME NEW w \in Workers, NEW s \in Slots, heartbeat(w, s) PROVE Goal
  <2>1. job'[i] \in {job[i], [job[i] EXCEPT !.lease = LeaseTicks]}  BY <1>0, <1>8 DEF heartbeat
  <2>2. QED  BY <1>0, <2>1 DEF Same, Row
<1>9. ASSUME NEW w \in Workers, NEW s \in Slots, Record(w, s) PROVE Goal
  <2>1. CASE i = exec[w][s].j
    <3> DEFINE p == exec[w][s].phase
               seen == exec[w][s].seen
    <3>1. job'[i] = Recorded(job[i], p, seen)  BY <1>0, <1>9, <2>1 DEF Record
    <3>2. job[i].status # "absent"  BY <1>9, <2>1 DEF Record, RecordPhases, Present
    <3>3. p \in RecordPhases /\ seen \in Nat  BY <1>9 DEF Record, Typed, TypeOK, Exec
    <3> HIDE DEF p, seen
    <3>4. Recorded(job[i], p, seen).status # "absent"
      <4>1. CASE p = "completing"  BY <1>0, <4>1 DEF Recorded, Row
      <4>2. CASE p = "failing" /\ seen < MaxAttempts  BY <1>0, <4>2 DEF Recorded, Row
      <4>3. CASE p = "failing" /\ ~(seen < MaxAttempts)  BY <1>0, <4>3 DEF Recorded, Row
      <4>4. CASE p = "releasing"  BY <1>0, <4>4 DEF Recorded, Row
      <4>5. CASE p = "rejecting"  BY <1>0, <4>5 DEF Recorded, Row
      <4>6. QED  BY <3>3, <4>1, <4>2, <4>3, <4>4, <4>5 DEF RecordPhases
    <3>5. Recorded(job[i], p, seen).kind = job[i].kind
      <4>1. CASE p = "completing"  BY <1>0, <4>1 DEF Recorded, Row
      <4>2. CASE p = "failing" /\ seen < MaxAttempts  BY <1>0, <4>2 DEF Recorded, Row
      <4>3. CASE p = "failing" /\ ~(seen < MaxAttempts)  BY <1>0, <4>3 DEF Recorded, Row
      <4>4. CASE p = "releasing"  BY <1>0, <4>4 DEF Recorded, Row
      <4>5. CASE p = "rejecting"  BY <1>0, <4>5 DEF Recorded, Row
      <4>6. QED  BY <3>3, <4>1, <4>2, <4>3, <4>4, <4>5 DEF RecordPhases
    <3>6. QED  BY <1>9, <2>1, <3>1, <3>2, <3>4, <3>5 DEF p, seen
  <2>2. CASE i # exec[w][s].j  BY <1>0, <1>9, <2>2 DEF Record, Same
  <2>3. QED  BY <2>1, <2>2
<1>10. CASE UNCHANGED job  BY <1>10 DEF Same
<1>11. QED
  BY <1>1, <1>2, <1>3, <1>4, <1>6, <1>7, <1>8, <1>9, <1>10, ZenonT(30)
  DEF Next, Poll, Step, BeginCall, LeaseLost, BeginRecord, RecordFails,
      request_stop, Exit, Crash, Restart, vars

\* A task that is busy after a step was busy with the same job before it, or has claimed one.
LEMMA BusyTasks ==
    ASSUME Typed, [Next]_vars, NEW w \in Workers, NEW s \in Slots, exec'[w][s].phase # "idle"
    PROVE  \/ exec[w][s].phase # "idle" /\ exec'[w][s].j = exec[w][s].j
           \/ \E j \in Jobs : claim_next(w, s, j) /\ exec'[w][s].j = j
<1> DEFINE Goal == \/ exec[w][s].phase # "idle" /\ exec'[w][s].j = exec[w][s].j
                   \/ \E j \in Jobs : claim_next(w, s, j) /\ exec'[w][s].j = j
<1>0. exec \in [Workers -> [Slots -> Exec]]  BY DEF Typed, TypeOK
<1>1. ASSUME NEW v \in Workers, NEW t \in Slots, Free(v, t) PROVE Goal
  BY <1>0, <1>1 DEF Free, Idle
<1>2. ASSUME NEW v \in Workers, NEW t \in Slots, NEW j \in Jobs, claim_next(v, t, j) PROVE Goal
  <2>1. CASE v = w /\ t = s
    <3>1. exec'[w][s].j = j  BY <1>2, <2>1 DEF claim_next
    <3>2. QED  BY <1>2, <2>1, <3>1
  <2>2. CASE ~(v = w /\ t = s)  BY <1>0, <1>2, <2>2 DEF claim_next, Exec
  <2>3. QED  BY <2>1, <2>2
<1>3. ASSUME NEW v \in Workers, NEW t \in Slots, NEW p \in RecordPhases, BeginRecord(v, t, p),
             Held(v, t)
      PROVE  Goal
  <2>1. CASE v = w /\ t = s  BY <1>0, <1>3, <2>1 DEF BeginRecord, InPhase, Exec
  <2>2. CASE ~(v = w /\ t = s)  BY <1>0, <1>3, <2>2 DEF BeginRecord
  <2>3. QED  BY <2>1, <2>2
<1>4. ASSUME NEW v \in Workers, NEW t \in Slots, NEW p \in RecordPhases, BeginRecord(v, t, p),
             ~Held(v, t)
      PROVE  Goal
  BY <1>1, <1>4 DEF BeginRecord
<1>5. ASSUME NEW v \in Workers, Crash(v) PROVE Goal
  BY <1>0, <1>5 DEF Crash, Idle
<1>6. CASE UNCHANGED exec
  BY <1>6
<1>7. QED
  BY <1>1, <1>2, <1>3, <1>4, <1>5, <1>6
  DEF Next, Poll, Step, Enqueue, enqueue, Tick, cancel, retry, BeginCall, BuryZombies, heartbeat,
      LeaseLost, Record, RecordFails, request_stop, Exit, Restart, vars

\* A call by hand that is under way after a step was so before it, or has just read the row.
LEMMA OpenCalls ==
    ASSUME Typed, [Next]_vars, NEW i \in Jobs, api'[i].op # "none"
    PROVE  \/ api'[i] = api[i]
           \/ \E op \in {"cancel", "retry"} : BeginCall(i, op) /\ api'[i].op = op
<1>0. api \in [Jobs -> Call]  BY DEF Typed, TypeOK
<1>1. ASSUME NEW j \in Jobs, NEW op \in {"cancel", "retry"}, BeginCall(j, op)
      PROVE  api'[i] = api[i] \/ (i = j /\ api'[i].op = op)
  BY <1>0, <1>1 DEF BeginCall
<1>2. ASSUME NEW j \in Jobs, cancel(j) \/ retry(j) PROVE api'[i] = api[i]
  BY <1>0, <1>2 DEF cancel, retry, NoCall
<1>3. ASSUME NEW w \in Workers,
             \/ Poll(w) \/ request_stop(w) \/ Exit(w) \/ Crash(w) \/ Restart(w)
             \/ \E s \in Slots : Step(w, s)
      PROVE  UNCHANGED api
  BY <1>3 DEF Poll, Step, claim_next, BuryZombies, heartbeat, LeaseLost, BeginRecord, Record,
              RecordFails, request_stop, Exit, Crash, Restart
<1>4. Enqueue \/ Tick \/ UNCHANGED vars => UNCHANGED api
  BY DEF Enqueue, enqueue, Tick, vars
<1>5. QED  BY <1>1, <1>2, <1>3, <1>4 DEF Next

LEMMA PresentStep == ASSUME Typed, Present, [Next]_vars PROVE Present'
<1>1. \A i \in Jobs : job[i].status # "absent" => job'[i].status # "absent"
  BY RowChanges DEF Same
<1>2. Dense'
  <2>1. PICK n \in 0 .. MaxJobs : \A j \in Jobs : job[j].status # "absent" <=> j <= n
    BY DEF Present, Dense
  <2>2. CASE \E i \in Jobs : i = NextId /\ job'[i].status # "absent" /\ \A j \in Jobs \ {i} : Same(j)
    <3>1. NextId = n + 1  BY <2>1, NextIsAbsent
    <3>2. n + 1 \in 0 .. MaxJobs  BY <2>2, <3>1 DEF Jobs
    <3>3. \A j \in Jobs : job'[j].status # "absent" <=> j <= n + 1
      BY <2>1, <2>2, <3>1 DEF Jobs, Same
    <3>4. QED  BY <3>2, <3>3 DEF Dense
  <2>3. CASE \A i \in Jobs : job'[i].status = "absent" <=> job[i].status = "absent"
    BY <2>1, <2>3 DEF Dense
  <2>4. ASSUME NEW i \in Jobs, job[i].status = "absent", job'[i].status # "absent"
        PROVE  i = NextId /\ \A j \in Jobs \ {i} : Same(j)
    BY <2>4, RowChanges DEF Same
  <2>5. QED  BY <1>1, <2>2, <2>3, <2>4
<1>3. ASSUME NEW w \in Workers, NEW s \in Slots, exec'[w][s].phase # "idle"
      PROVE  job'[exec'[w][s].j].status # "absent"
  <2>1. CASE exec[w][s].phase # "idle" /\ exec'[w][s].j = exec[w][s].j
    <3>1. exec[w][s].j \in Jobs  BY <2>1 DEF Typed, BusyNamesJob
    <3>2. QED  BY <1>1, <2>1, <3>1 DEF Present
  <2>2. ASSUME NEW j \in Jobs, claim_next(w, s, j), exec'[w][s].j = j
        PROVE  job'[exec'[w][s].j].status # "absent"
    <3>1. job[j].status # "absent"
      BY <2>2 DEF claim_next, Candidates, Ready, Expired
    <3>2. QED  BY <1>1, <2>2, <3>1
  <2>3. QED  BY <1>3, <2>1, <2>2, BusyTasks
<1>4. ASSUME NEW i \in Jobs, api'[i].op # "none" PROVE job'[i].status # "absent"
  <2>1. CASE api'[i] = api[i]  BY <1>1, <1>4, <2>1 DEF Present
  <2>2. ASSUME NEW op \in {"cancel", "retry"}, BeginCall(i, op) PROVE job'[i].status # "absent"
    BY <1>1, <2>2 DEF BeginCall
  <2>3. QED  BY <1>4, <2>1, <2>2, OpenCalls
<1>5. QED  BY <1>2, <1>3, <1>4 DEF Present

LEMMA PresentInit == Init => Present
<1>1. ASSUME Init PROVE Dense
  <2>1. \A j \in Jobs : job[j].status # "absent" <=> j <= 0  BY <1>1 DEF Init, Jobs
  <2>2. 0 \in 0 .. MaxJobs  BY ConstantsOK
  <2>3. QED  BY <2>1, <2>2 DEF Dense
<1>2. QED  BY <1>1 DEF Init, Present, Idle, NoCall
-----------------------------------------------------------------------------
(* Prompt recording.  What a SELECT read still holds when its UPDATE runs: *)
(* the row is that of a running job with a lease, which only its owner     *)
(* changes, or one that a call by hand may still take.  So a queued job    *)
(* has attempts left and only the owner records.                           *)

RecordsCurrent ==
    \A w \in Workers, s \in Slots :
        exec[w][s].phase \in RecordPhases =>
            /\ job[exec[w][s].j].status = "running" /\ job[exec[w][s].j].owner = w
            /\ exec[w][s].phase \in {"failing", "releasing"} =>
                 exec[w][s].seen = job[exec[w][s].j].attempts

CallsCurrent == \A j \in Jobs : api[j].op # "none" => api[j].attempts = job[j].attempts

\* The row still has the status with which the call by hand was accepted.
CallsFit ==
    \A j \in Jobs :
        /\ api[j].op = "cancel" => job[j].status = "queued"
        /\ api[j].op = "retry" => job[j].status \in {"failed", "cancelled"}

AttemptsLeft ==
    \A j \in Jobs :
        /\ job[j].attempts <= MaxAttempts
        /\ job[j].status = "queued" => job[j].attempts < MaxAttempts

PromptInv ==
    /\ Typed /\ LeaseHeld /\ Present
    /\ RecordsCurrent /\ OneRecordOfAJob /\ CallsCurrent /\ CallsFit /\ AttemptsLeft

\* While a task records, nobody else changes the row: a claim or a burial needs a lease that
\* has run out, a call by hand another status, and another record the same owner.
LEMMA RecordsUndisturbed ==
    ASSUME PromptInv, PromptNext, NEW w \in Workers, NEW s \in Slots,
           exec[w][s].phase \in RecordPhases, exec'[w][s].phase = exec[w][s].phase
    PROVE  Same(exec[w][s].j)
<1> DEFINE i == exec[w][s].j
<1>1. i \in Jobs  BY DEF PromptInv, Typed, BusyNamesJob, RecordPhases
<1>2. job[i].status = "running" /\ job[i].owner = w  BY DEF PromptInv, RecordsCurrent
<1>3. Typed /\ Present /\ Next  BY DEF PromptInv, PromptNext
<1>4. SUFFICES ASSUME ~Same(i) PROVE FALSE  OBVIOUS
<1>5. job[i].lease > 0 \/ ~ \E v \in Workers : Poll(v)
  BY DEF PromptNext, Prompt, LeaseInTime
<1>6. ~cancel(i) /\ ~retry(i)
  BY <1>1, <1>2 DEF PromptInv, CallsFit, cancel, retry
<1>7. ASSUME NEW v \in Workers, NEW t \in Slots, claim_next(v, t, i), Ready(i) PROVE FALSE
  <2>1. Poll(v)  BY <1>1, <1>7 DEF Poll
  <2>2. job[i].lease = 0  BY <1>2, <1>7 DEF Ready, Expired
  <2>3. QED  BY <1>5, <2>1, <2>2
<1>8. ASSUME NEW v \in Workers, Poll(v), OutOfAttempts(i) PROVE FALSE
  BY <1>5, <1>8 DEF OutOfAttempts, Expired
<1>9. ASSUME NEW v \in Workers, NEW t \in Slots, Record(v, t), exec[v][t].j = i PROVE FALSE
  <2>1. v = w  BY <1>2, <1>9 DEF Record, PromptInv, RecordsCurrent
  <2>2. CASE t = s
    <3>1. exec'[w][s] = Idle  BY <1>3, <1>9, <2>1, <2>2 DEF Record, Free, Typed, TypeOK
    <3>2. QED  BY <3>1 DEF Idle, RecordPhases
  <2>3. CASE t # s
    <3>1. exec[w][t].phase \in RecordPhases  BY <1>9, <2>1 DEF Record
    <3>2. QED  BY <1>9, <2>1, <2>3, <3>1 DEF PromptInv, OneRecordOfAJob
  <2>4. QED  BY <2>2, <2>3
<1>10. job[i].status # "absent"  BY <1>2
<1> HIDE DEF i
<1>11. QED  BY <1>1, <1>3, <1>4, <1>6, <1>7, <1>8, <1>9, <1>10, RowChanges

\* Between the two statements of a call by hand nobody else changes the row: only a claim
\* could, and a claim passes by what is being cancelled.
LEMMA CallsUndisturbed ==
    ASSUME PromptInv, PromptNext, NEW i \in Jobs, api[i].op # "none", api'[i] = api[i]
    PROVE  Same(i)
<1>1. Typed /\ Present /\ Next  BY DEF PromptInv, PromptNext
<1>2. SUFFICES ASSUME ~Same(i) PROVE FALSE  OBVIOUS
<1>3. \/ api[i].op = "cancel" /\ job[i].status = "queued"
      \/ api[i].op = "retry" /\ job[i].status \in {"failed", "cancelled"}
  BY <1>1 DEF PromptInv, CallsFit, Typed, TypeOK, Call
<1>4. ~cancel(i) /\ ~retry(i)
  BY <1>1 DEF cancel, retry, NoCall, Typed, TypeOK
<1>5. ASSUME NEW v \in Workers, NEW t \in Slots, claim_next(v, t, i), Ready(i) PROVE FALSE
  <2>1. api[i].op # "cancel"  BY <1>5 DEF PromptNext, Prompt, ClaimsNoCancelled
  <2>2. QED  BY <1>3, <1>5, <2>1 DEF Ready, Expired
<1>6. ~OutOfAttempts(i)  BY <1>3 DEF OutOfAttempts, Expired
<1>7. ASSUME NEW v \in Workers, NEW t \in Slots, Record(v, t), exec[v][t].j = i PROVE FALSE
  BY <1>3, <1>7 DEF Record, PromptInv, RecordsCurrent
<1>8. job[i].status # "absent"  BY <1>3
<1>9. QED  BY <1>1, <1>2, <1>4, <1>5, <1>6, <1>7, <1>8, RowChanges

\* A task that is recording after a step was recording before it, or has just read the row.
LEMMA RecordingTasks ==
    ASSUME Typed, [Next]_vars, NEW w \in Workers, NEW s \in Slots,
           exec'[w][s].phase \in RecordPhases
    PROVE  \/ /\ exec'[w][s].phase = exec[w][s].phase
              /\ exec'[w][s].j = exec[w][s].j /\ exec'[w][s].seen = exec[w][s].seen
           \/ /\ Held(w, s) /\ UNCHANGED job /\ exec'[w][s].j = exec[w][s].j
              /\ exec[w][s].phase = "handler"
              /\ exec'[w][s].phase \in {"failing", "releasing"} =>
                   exec'[w][s].seen = job[exec[w][s].j].attempts
<1> DEFINE SameExec == /\ exec'[w][s].phase = exec[w][s].phase
                       /\ exec'[w][s].j = exec[w][s].j /\ exec'[w][s].seen = exec[w][s].seen
<1>0. exec \in [Workers -> [Slots -> Exec]]  BY DEF Typed, TypeOK
<1>1. ASSUME NEW v \in Workers, NEW t \in Slots, Free(v, t) PROVE SameExec
  BY <1>0, <1>1 DEF Free, Idle, RecordPhases
<1>2. ASSUME NEW v \in Workers, NEW t \in Slots, NEW j \in Jobs, claim_next(v, t, j) PROVE SameExec
  BY <1>0, <1>2 DEF claim_next, RecordPhases, Exec
<1>3. ASSUME NEW v \in Workers, NEW t \in Slots, NEW p \in RecordPhases, BeginRecord(v, t, p),
             Held(v, t), v = w /\ t = s
      PROVE  /\ Held(w, s) /\ UNCHANGED job /\ exec'[w][s].j = exec[w][s].j
             /\ exec[w][s].phase = "handler"
             /\ exec'[w][s].phase \in {"failing", "releasing"} =>
                  exec'[w][s].seen = job[exec[w][s].j].attempts
  BY <1>0, <1>3 DEF BeginRecord, InPhase, Exec
<1>4. ASSUME NEW v \in Workers, NEW t \in Slots, NEW p \in RecordPhases, BeginRecord(v, t, p),
             Held(v, t), ~(v = w /\ t = s)
      PROVE  SameExec
  BY <1>0, <1>4 DEF BeginRecord
<1>5. ASSUME NEW v \in Workers, NEW t \in Slots, NEW p \in RecordPhases, BeginRecord(v, t, p),
             ~Held(v, t)
      PROVE  SameExec
  BY <1>1, <1>5 DEF BeginRecord
<1>6. ASSUME NEW v \in Workers, Crash(v) PROVE SameExec
  BY <1>0, <1>6 DEF Crash, Idle, RecordPhases
<1>7. CASE UNCHANGED exec
  BY <1>7
<1>8. QED
  BY <1>1, <1>2, <1>3, <1>4, <1>5, <1>6, <1>7
  DEF Next, Poll, Step, Enqueue, enqueue, Tick, cancel, retry, BeginCall, BuryZombies, heartbeat,
      LeaseLost, Record, RecordFails, request_stop, Exit, Restart, vars

LEMMA RecordsStep ==
    ASSUME PromptInv, PromptNext
    PROVE  RecordsCurrent'
<1> SUFFICES ASSUME NEW w \in Workers, NEW s \in Slots, exec'[w][s].phase \in RecordPhases
             PROVE  /\ job'[exec'[w][s].j].status = "running" /\ job'[exec'[w][s].j].owner = w
                    /\ exec'[w][s].phase \in {"failing", "releasing"} =>
                         exec'[w][s].seen = job'[exec'[w][s].j].attempts
  BY DEF RecordsCurrent
<1>1. Typed /\ [Next]_vars  BY DEF PromptInv, PromptNext
<1>2. CASE /\ exec'[w][s].phase = exec[w][s].phase
           /\ exec'[w][s].j = exec[w][s].j /\ exec'[w][s].seen = exec[w][s].seen
  <2>1. Same(exec[w][s].j)  BY <1>2, RecordsUndisturbed
  <2>2. QED  BY <1>2, <2>1 DEF PromptInv, RecordsCurrent, Same
<1>3. CASE /\ Held(w, s) /\ UNCHANGED job /\ exec'[w][s].j = exec[w][s].j
           /\ exec'[w][s].phase \in {"failing", "releasing"} =>
                exec'[w][s].seen = job[exec[w][s].j].attempts
  BY <1>3 DEF Held
<1>4. QED  BY <1>1, <1>2, <1>3, RecordingTasks

LEMMA CallsStep ==
    ASSUME PromptInv, PromptNext
    PROVE  CallsCurrent' /\ CallsFit'
<1>1. Typed /\ Next /\ [Next]_vars /\ api \in [Jobs -> Call] /\ api' \in [Jobs -> Call]
  BY TypeStep DEF PromptInv, PromptNext, Typed, TypeOK
<1>2. ASSUME NEW i \in Jobs, api'[i].op # "none"
      PROVE  /\ api'[i].attempts = job'[i].attempts
             /\ api'[i].op = "cancel" => job'[i].status = "queued"
             /\ api'[i].op = "retry" => job'[i].status \in {"failed", "cancelled"}
  <2>1. CASE api'[i] = api[i]
    <3>1. Same(i)  BY <1>2, <2>1, CallsUndisturbed
    <3>2. QED  BY <1>2, <2>1, <3>1 DEF PromptInv, CallsCurrent, CallsFit, Same
  <2>2. ASSUME NEW op \in {"cancel", "retry"}, BeginCall(i, op), api'[i].op = op
        PROVE  /\ api'[i].attempts = job'[i].attempts
               /\ api'[i].op = "cancel" => job'[i].status = "queued"
               /\ api'[i].op = "retry" => job'[i].status \in {"failed", "cancelled"}
    BY <1>1, <2>2 DEF BeginCall
  <2>3. QED  BY <1>1, <1>2, <2>1, <2>2, OpenCalls
<1>3. QED  BY <1>1, <1>2 DEF CallsCurrent, CallsFit

LEMMA AttemptsStep ==
    ASSUME PromptInv, [Next]_vars
    PROVE  AttemptsLeft'
<1> DEFINE Left(row) == /\ row.attempts <= MaxAttempts
                        /\ row.status = "queued" => row.attempts < MaxAttempts
<1> USE DEF PromptInv
<1>1. \A j \in Jobs : job[j] \in Row /\ Left(job[j])
  BY DEF Typed, TypeOK, AttemptsLeft
<1>2. SUFFICES ASSUME NEW i \in Jobs PROVE Left(job'[i])
  BY DEF AttemptsLeft
<1>3. job \in [Jobs -> Row]  BY DEF Typed, TypeOK
<1>4. MaxAttempts \in Nat /\ MaxAttempts >= 1  BY ConstantsOK
<1>5. CASE Enqueue
  <2>1. PICK key \in Entities \cup {None}, kind \in Kinds, delay \in Delays :
               enqueue(key, kind, delay)
    BY <1>5 DEF Enqueue
  <2>2. job'[i] \in {Inserted(key, kind, delay), [job[i] EXCEPT !.key = None], job[i]}
    BY <2>1, <1>3 DEF enqueue
  <2>3. Left(Inserted(key, kind, delay))  BY <1>4 DEF Inserted
  <2>4. Left([job[i] EXCEPT !.key = None])  BY <1>1 DEF Row
  <2>5. QED  BY <1>1, <2>2, <2>3, <2>4
<1>6. CASE Tick
  <2>1. Left(Aged(job[i]))  BY <1>1 DEF Aged, Row
  <2>2. QED  BY <1>6, <2>1 DEF Tick
<1>7. ASSUME NEW j \in Jobs, cancel(j) PROVE Left(job'[i])
  <2>1. job'[i] \in {[job[i] EXCEPT !.status = "cancelled"], job[i]}  BY <1>3, <1>7 DEF cancel
  <2>2. QED  BY <1>1, <2>1 DEF Row
<1>8. ASSUME NEW j \in Jobs, retry(j) PROVE Left(job'[i])
  <2>1. CASE i = j
    <3>1. api[j].attempts = job[j].attempts  BY <1>8 DEF retry, CallsCurrent
    <3>2. Retried(job[j], api[j]).attempts = 0  BY <1>1, <3>1 DEF Retried, Row
    <3>3. job'[i] = Retried(job[j], api[j])  BY <1>3, <1>8, <2>1 DEF retry
    <3>4. QED  BY <1>4, <3>2, <3>3
  <2>2. CASE i # j
    <3>1. job'[i] = job[i]  BY <1>3, <1>8, <2>2 DEF retry
    <3>2. QED  BY <1>1, <3>1
  <2>3. QED  BY <2>1, <2>2
<1>9. ASSUME NEW w \in Workers, NEW s \in Slots, NEW j \in Jobs, claim_next(w, s, j)
      PROVE  Left(job'[i])
  <2>1. CASE i = j
    <3>1. Ready(j)  BY <1>9 DEF claim_next, Candidates
    <3>2. job[j].attempts < MaxAttempts
      BY <1>1, <1>4, <3>1 DEF Ready, OutOfAttempts, Expired, Row
    <3>3. job'[i] = Claimed(job[j], w)  BY <1>9, <2>1 DEF claim_next
    <3>4. QED  BY <1>1, <1>4, <3>2, <3>3 DEF Claimed, Row
  <2>2. CASE i # j
    <3>1. job'[i] \in {Buried(job[i]), job[i]}  BY <1>9, <2>2 DEF claim_next
    <3>2. QED  BY <1>1, <3>1 DEF Buried, Row
  <2>3. QED  BY <2>1, <2>2
<1>10. ASSUME NEW w \in Workers, BuryZombies(w) PROVE Left(job'[i])
  <2>1. job'[i] \in {Buried(job[i]), job[i]}  BY <1>10 DEF BuryZombies
  <2>2. QED  BY <1>1, <2>1 DEF Buried, Row
<1>11. ASSUME NEW w \in Workers, NEW s \in Slots, heartbeat(w, s) PROVE Left(job'[i])
  <2>1. job'[i] \in {[job[i] EXCEPT !.lease = LeaseTicks], job[i]}
    BY <1>3, <1>11 DEF heartbeat
  <2>2. QED  BY <1>1, <2>1 DEF Row
<1>12. ASSUME NEW w \in Workers, NEW s \in Slots, Record(w, s) PROVE Left(job'[i])
  <2> DEFINE k == exec[w][s].j
             p == exec[w][s].phase
             seen == exec[w][s].seen
  <2>1. k \in Jobs /\ p \in RecordPhases /\ seen \in Nat
    BY <1>12 DEF Record, RecordPhases, Typed, TypeOK, BusyNamesJob, Exec
  <2>2. CASE i = k
    <3>1. job'[i] = Recorded(job[k], p, seen)  BY <1>3, <1>12, <2>1, <2>2 DEF Record
    <3>2. job[k].attempts >= 1 /\ job[k].attempts <= MaxAttempts /\ job[k] \in Row
      BY <1>1, <2>1 DEF RecordsCurrent, LeaseHeld
    <3>3. p \in {"failing", "releasing"} => seen = job[k].attempts
      BY <2>1 DEF RecordsCurrent
    <3> HIDE DEF k, p, seen
    <3>4. CASE p = "completing"  BY <3>1, <3>2, <3>4 DEF Recorded, Row
    <3>5. CASE p = "rejecting"  BY <3>1, <3>2, <3>5 DEF Recorded, Row
    <3>6. CASE p = "failing" /\ seen < MaxAttempts
      BY <3>1, <3>2, <3>3, <3>6 DEF Recorded, Row
    <3>7. CASE p = "failing" /\ ~(seen < MaxAttempts)
      BY <3>1, <3>2, <3>7 DEF Recorded, Row
    <3>8. CASE p = "releasing"
      <4>1. (IF seen > 0 THEN seen - 1 ELSE 0) < MaxAttempts
        BY <1>4, <2>1, <3>2, <3>3, <3>8
      <4>2. Recorded(job[k], p, seen).attempts = IF seen > 0 THEN seen - 1 ELSE 0
        BY <3>2, <3>8 DEF Recorded, Row
      <4>3. QED  BY <1>4, <2>1, <3>1, <4>1, <4>2
    <3>9. QED  BY <2>1, <3>4, <3>5, <3>6, <3>7, <3>8 DEF RecordPhases
  <2>3. CASE i # k
    <3>1. job'[i] = job[i]  BY <1>3, <1>12, <2>3 DEF Record
    <3>2. QED  BY <1>1, <3>1
  <2>4. QED  BY <2>2, <2>3
<1>13. CASE UNCHANGED job
  BY <1>1, <1>13
<1> HIDE DEF Left
<1>14. QED
  BY <1>5, <1>6, <1>7, <1>8, <1>9, <1>10, <1>11, <1>12, <1>13, ZenonT(30)
  DEF Next, Poll, Step, BeginCall, LeaseLost, BeginRecord, RecordFails,
      request_stop, Exit, Crash, Restart, vars

LEMMA PromptInvariant == PromptSpec => []PromptInv
<1>1. Init => PromptInv
  <2>1. Init => RecordsCurrent /\ CallsCurrent /\ CallsFit /\ OneRecordOfAJob
    BY DEF Init, RecordsCurrent, CallsCurrent, CallsFit, OneRecordOfAJob, Idle, NoCall, RecordPhases
  <2>2. Init => AttemptsLeft  BY ConstantsOK DEF Init, AttemptsLeft
  <2>3. Init => LeaseHeld  BY DEF Init, LeaseHeld
  <2>4. QED  BY <2>1, <2>2, <2>3, TypeInit, PresentInit DEF PromptInv
<1>2. PromptInv /\ [PromptNext]_vars => PromptInv'
  <2>1. ASSUME PromptInv, PromptNext PROVE PromptInv'
    <3>1. Typed /\ LeaseHeld /\ Present /\ [Next]_vars  BY <2>1 DEF PromptInv, PromptNext
    <3>2. Typed' /\ LeaseHeld' /\ Present'  BY <3>1, TypeStep, HeldStep, PresentStep
    <3>3. OneRecordOfAJob'  BY <2>1 DEF PromptNext, Prompt
    <3>4. RecordsCurrent' /\ CallsCurrent' /\ CallsFit' /\ AttemptsLeft'
      BY <2>1, <3>1, RecordsStep, CallsStep, AttemptsStep
    <3>5. QED  BY <3>2, <3>3, <3>4 DEF PromptInv
  <2>2. ASSUME PromptInv, UNCHANGED vars PROVE PromptInv'
    <3>1. Typed /\ LeaseHeld /\ Present /\ [Next]_vars  BY <2>2 DEF PromptInv
    <3>2. Typed' /\ LeaseHeld' /\ Present'  BY <3>1, TypeStep, HeldStep, PresentStep
    <3>3. RecordsCurrent' /\ OneRecordOfAJob' /\ CallsCurrent' /\ CallsFit' /\ AttemptsLeft'
      BY <2>2 DEF vars, PromptInv, RecordsCurrent, OneRecordOfAJob, CallsCurrent, CallsFit, AttemptsLeft
    <3>4. QED  BY <3>2, <3>3 DEF PromptInv
  <2>3. QED  BY <2>1, <2>2
<1>3. QED  BY <1>1, <1>2, PTL DEF PromptSpec

\* When recording is prompt, no job is started more often than max_attempts allows.
THEOREM AttemptsAreBounded == PromptSpec => []AttemptsBounded
<1>1. PromptInv => AttemptsBounded
  BY DEF PromptInv, AttemptsLeft, AttemptsBounded
<1>2. QED  BY PromptInvariant, <1>1, PTL

\* As long as no worker polls while a recording has outlived its lease, no worker records one
\* job twice at once and no claim meets a call that cancels, the outcome of a job is written by
\* the worker that holds it: the row is still the one its SELECT has checked.
THEOREM OwnersRecord == PromptSpec => OnlyOwnerRecords
<1> DEFINE ByOwner == \A w \in Workers, s \in Slots :
             Record(w, s) => LET row == job[exec[w][s].j]
                             IN row.status = "running" /\ row.owner = w
<1>1. PromptInv => ByOwner
  BY DEF PromptInv, RecordsCurrent, Record
<1>2. PromptInv => [ByOwner]_vars
  BY <1>1
<1>3. QED  BY PromptInvariant, <1>2, PTL DEF OnlyOwnerRecords
-----------------------------------------------------------------------------
(* The semaphores. *)

\* The tasks of a worker that hold a permit of a resource.
Holding(w, r) == {s \in Slots : exec[w][s].phase # "idle" /\ ResourceOf[job[exec[w][s].j].kind] = r}

LEMMA CapacityStep ==
    ASSUME Typed, Present, CapacityRespected, [Next]_vars PROVE CapacityRespected'
<1> SUFFICES ASSUME NEW w \in Workers, NEW r \in Resources
             PROVE  Cardinality(Holding(w, r)') <= Capacity[r]
  BY Zenon DEF CapacityRespected, Inflight, Holding
<1>0. IsFiniteSet(Slots) /\ IsFiniteSet(Holding(w, r)) /\ Cardinality(Holding(w, r)) \in Nat
  <2>1. IsFiniteSet(Slots)  BY ConstantsOK
  <2>2. Holding(w, r) \in SUBSET Slots  BY DEF Holding
  <2>3. IsFiniteSet(Holding(w, r))  BY <2>1, <2>2, FS_Subset
  <2>4. QED  BY <2>1, <2>3, FS_CardinalityType
<1>1. Inflight(w, r) = Cardinality(Holding(w, r))  BY Zenon DEF Inflight, Holding
<1>2. Capacity[r] \in Nat  BY ConstantsOK
<1>3. Cardinality(Holding(w, r)) <= Capacity[r]  BY <1>1 DEF CapacityRespected
\* The kind of a job that is there never changes.
<1>4. \A i \in Jobs : job[i].status # "absent" => job'[i].kind = job[i].kind
  BY RowChanges
<1>5. ASSUME NEW s \in Slots, exec[w][s].phase # "idle", exec'[w][s].j = exec[w][s].j,
             s \in Holding(w, r)'
      PROVE  s \in Holding(w, r)
  <2>1. exec[w][s].j \in Jobs /\ job[exec[w][s].j].status # "absent"
    BY <1>5 DEF Typed, BusyNamesJob, Present
  <2>2. QED  BY <1>4, <1>5, <2>1 DEF Holding
<1>6. CASE \E s \in Slots, j \in Jobs : claim_next(w, s, j)
  <2>1. PICK s \in Slots, j \in Jobs : claim_next(w, s, j)  BY <1>6
  <2>2. \A t \in Slots \ {s} : t \in Holding(w, r)' => t \in Holding(w, r)
    <3>1. ASSUME NEW t \in Slots \ {s}, exec'[w][t].phase # "idle"
          PROVE  exec[w][t].phase # "idle" /\ exec'[w][t].j = exec[w][t].j
      BY <2>1, <3>1 DEF claim_next, Typed, TypeOK, Exec
    <3>2. QED  BY <1>5, <3>1 DEF Holding
  <2>3. job[j].kind \in claimable_kinds(w) /\ job[j].status # "absent"
    BY <2>1 DEF claim_next, Candidates, Ready, Expired
  <2>4. CASE ResourceOf[job[j].kind] = r
    <3>1. Inflight(w, r) < Capacity[r]
      BY <2>3, <2>4 DEF claimable_kinds
    <3>2. Cardinality(Holding(w, r) \cup {s}) <= Cardinality(Holding(w, r)) + 1
          /\ IsFiniteSet(Holding(w, r) \cup {s}) /\ Cardinality(Holding(w, r) \cup {s}) \in Nat
      <4>1. /\ IsFiniteSet(Holding(w, r) \cup {s})
            /\ Cardinality(Holding(w, r) \cup {s}) =
                 IF s \in Holding(w, r) THEN Cardinality(Holding(w, r)) ELSE Cardinality(Holding(w, r)) + 1
        BY <1>0, FS_AddElement
      <4>2. QED  BY <1>0, <4>1, FS_CardinalityType
    <3>3. Holding(w, r)' \in SUBSET (Holding(w, r) \cup {s})  BY <2>2 DEF Holding
    <3>4. Cardinality(Holding(w, r)') <= Cardinality(Holding(w, r) \cup {s})
          /\ IsFiniteSet(Holding(w, r)')
      BY <3>2, <3>3, FS_Subset
    <3>5. Cardinality(Holding(w, r)') \in Nat  BY <3>4, FS_CardinalityType
    <3>6. QED  BY <1>0, <1>1, <1>2, <3>1, <3>2, <3>4, <3>5
  <2>5. CASE ResourceOf[job[j].kind] # r
    <3>1. exec'[w][s].j = j  BY <2>1 DEF claim_next
    <3>2. s \notin Holding(w, r)'  BY <1>4, <2>3, <2>5, <3>1 DEF Holding
    <3>3. Holding(w, r)' \in SUBSET Holding(w, r)  BY <2>2, <3>2 DEF Holding
    <3>4. Cardinality(Holding(w, r)') <= Cardinality(Holding(w, r)) /\ IsFiniteSet(Holding(w, r)')
      BY <1>0, <3>3, FS_Subset
    <3>5. Cardinality(Holding(w, r)') \in Nat  BY <3>4, FS_CardinalityType
    <3>6. QED  BY <1>0, <1>2, <1>3, <3>4, <3>5
  <2>6. QED  BY <2>4, <2>5
<1>7. CASE ~ \E s \in Slots, j \in Jobs : claim_next(w, s, j)
  <2>1. \A s \in Slots : s \in Holding(w, r)' => s \in Holding(w, r)
    <3>1. ASSUME NEW s \in Slots, exec'[w][s].phase # "idle"
          PROVE  exec[w][s].phase # "idle" /\ exec'[w][s].j = exec[w][s].j
      BY <1>7, <3>1, BusyTasks
    <3>2. QED  BY <1>5, <3>1 DEF Holding
  <2>2. Holding(w, r)' \in SUBSET Holding(w, r)  BY <2>1 DEF Holding
  <2>3. Cardinality(Holding(w, r)') <= Cardinality(Holding(w, r)) /\ IsFiniteSet(Holding(w, r)')
    BY <1>0, <2>2, FS_Subset
  <2>4. Cardinality(Holding(w, r)') \in Nat  BY <2>3, FS_CardinalityType
  <2>5. QED  BY <1>0, <1>2, <1>3, <2>3, <2>4
<1>8. QED  BY <1>6, <1>7

\* Whatever interleaves, a worker never runs more tasks of a resource than its semaphore admits.
THEOREM CapacityIsRespected == Spec => []CapacityRespected
<1>1. Init => CapacityRespected
  <2> SUFFICES ASSUME Init, NEW w \in Workers, NEW r \in Resources
               PROVE  Inflight(w, r) <= Capacity[r]
    BY DEF CapacityRespected
  <2>1. Inflight(w, r) = Cardinality({})
    <3>1. {s \in Slots : exec[w][s].phase # "idle" /\ ResourceOf[job[exec[w][s].j].kind] = r} = {}
      BY DEF Init, Idle
    <3>2. QED  BY <3>1, Zenon DEF Inflight
  <2>2. QED  BY <2>1, FS_EmptySet, ConstantsOK
<1>2. Typed /\ Present /\ CapacityRespected /\ [Next]_vars => CapacityRespected'
  BY CapacityStep
<1>3. Typed /\ Present /\ [Next]_vars => Present'  BY PresentStep
<1>4. Typed /\ [Next]_vars => Typed'  BY TypeStep
<1>5. QED  BY TypeInit, PresentInit, <1>1, <1>2, <1>3, <1>4, PTL DEF Spec
-----------------------------------------------------------------------------
(* The life cycle.  With what was read still true of the row, each step of *)
(* a row is one that JobLifecycle allows.                                  *)

\* What a row becomes when an outcome is recorded that the row allows.
LEMMA RecordedSteps ==
    ASSUME NEW r \in Row, NEW p \in RecordPhases, NEW seen \in Nat,
           r.attempts >= 1, p \in {"failing", "releasing"} => seen = r.attempts
    PROVE  LET q == Recorded(r, p, seen) IN
           \/ q.status = "succeeded" /\ q.attempts = r.attempts
           \/ q.status = "failed" /\ q.attempts = r.attempts
           \/ q.status = "queued" /\ r.attempts < MaxAttempts /\ q.attempts = r.attempts
           \/ q.status = "queued" /\ q.attempts = r.attempts - 1
<1>1. CASE p = "completing"  BY <1>1 DEF Recorded, Row
<1>2. CASE p = "failing" /\ seen < MaxAttempts  BY <1>2 DEF Recorded, Row
<1>3. CASE p = "failing" /\ ~(seen < MaxAttempts)  BY <1>3 DEF Recorded, Row
<1>4. CASE p = "releasing"
  <2>1. seen > 0 /\ seen = r.attempts  BY <1>4 DEF Row
  <2>2. QED  BY <1>4, <2>1 DEF Recorded, Row
<1>5. CASE p = "rejecting"  BY <1>5 DEF Recorded, Row
<1>6. QED  BY <1>1, <1>2, <1>3, <1>4, <1>5 DEF RecordPhases

LEMMA LifecycleStep ==
    ASSUME PromptInv, [PromptNext]_vars
    PROVE  Lifecycle!Next
<1> SUFFICES ASSUME NEW i \in Jobs
             PROVE  Lifecycle!Step(i) \/ progress'[i] = progress[i]
  BY DEF Lifecycle!Next, progress
<1>0. Typed /\ Present /\ CallsFit /\ job[i] \in Row /\ [Next]_vars
  BY DEF PromptInv, Typed, TypeOK, PromptNext
<1>1. /\ progress[i] = [status |-> job[i].status, attempts |-> job[i].attempts]
      /\ progress'[i] = [status |-> job'[i].status, attempts |-> job'[i].attempts]
  BY DEF progress
<1> USE DEF Lifecycle!Step, Lifecycle!Becomes
<1>2. CASE Same(i)
  BY <1>1, <1>2 DEF Same
<1>3. ASSUME NEW key, NEW kind, NEW delay, job[i].status = "absent",
             job'[i] = Inserted(key, kind, delay)
      PROVE  Lifecycle!Step(i)
  BY <1>1, <1>3 DEF Lifecycle!Submit, Inserted
<1>4. CASE cancel(i) /\ job'[i] = [job[i] EXCEPT !.status = "cancelled"]
  <2>1. job[i].status = "queued"  BY <1>0, <1>4 DEF cancel, CallsFit
  <2>2. QED  BY <1>0, <1>1, <1>4, <2>1 DEF Lifecycle!Cancel, Row
<1>5. CASE retry(i) /\ job'[i] = Retried(job[i], api[i])
  <2>1. job[i].status \in {"failed", "cancelled"}  BY <1>0, <1>5 DEF retry, CallsFit
  <2>2. api[i].attempts = job[i].attempts  BY <1>5 DEF retry, PromptInv, CallsCurrent
  <2>3. job'[i].status = "queued" /\ job'[i].attempts = 0  BY <1>0, <1>5, <2>2 DEF Retried, Row
  <2>4. QED  BY <1>1, <2>1, <2>3 DEF Lifecycle!Retry
<1>6. ASSUME NEW w \in Workers, Ready(i), job'[i] = Claimed(job[i], w) PROVE Lifecycle!Step(i)
  <2>1. job[i].status \in {"queued", "running"}  BY <1>6 DEF Ready, Expired
  <2>2. job[i].attempts < MaxAttempts
    BY <1>0, <1>6, ConstantsOK DEF Ready, OutOfAttempts, Expired, PromptInv, AttemptsLeft, Row
  <2>3. job'[i].status = "running" /\ job'[i].attempts = job[i].attempts + 1
    BY <1>0, <1>6 DEF Claimed, Row
  <2>4. QED  BY <1>1, <2>1, <2>2, <2>3 DEF Lifecycle!Start
<1>7. CASE OutOfAttempts(i) /\ job'[i] = Buried(job[i])
  BY <1>0, <1>1, <1>7 DEF OutOfAttempts, Expired, Buried, Row, Lifecycle!GiveUp
<1>8. ASSUME NEW w \in Workers, NEW s \in Slots, Record(w, s), exec[w][s].j = i,
             job'[i] = Recorded(job[i], exec[w][s].phase, exec[w][s].seen)
      PROVE  Lifecycle!Step(i)
  <2> DEFINE p == exec[w][s].phase
             seen == exec[w][s].seen
  <2>1. p \in RecordPhases /\ seen \in Nat  BY <1>0, <1>8 DEF Record, Typed, TypeOK, Exec
  <2>2. /\ job[i].status = "running"
        /\ p \in {"failing", "releasing"} => seen = job[i].attempts
    BY <1>8, <2>1 DEF PromptInv, RecordsCurrent
  <2>3. job[i].attempts >= 1  BY <2>2 DEF PromptInv, LeaseHeld
  <2>4. job'[i] = Recorded(job[i], p, seen)  BY <1>8
  <2> HIDE DEF p, seen
  <2>5. \/ job'[i].status = "succeeded" /\ job'[i].attempts = job[i].attempts
        \/ job'[i].status = "failed" /\ job'[i].attempts = job[i].attempts
        \/ /\ job'[i].status = "queued" /\ job[i].attempts < MaxAttempts
           /\ job'[i].attempts = job[i].attempts
        \/ job'[i].status = "queued" /\ job'[i].attempts = job[i].attempts - 1
    BY <1>0, <2>1, <2>2, <2>3, <2>4, RecordedSteps
  <2>6. QED
    BY <1>1, <2>2, <2>5 DEF Lifecycle!Succeed, Lifecycle!GiveUp, Lifecycle!GiveBack
<1>9. QED
  BY <1>0, <1>2, <1>3, <1>4, <1>5, <1>6, <1>7, <1>8, RowChanges DEF PromptInv

\* When recording is prompt, a job goes through the life cycle that callers rely on.
THEOREM LifecycleIsImplemented == PromptSpec => ImplementsLifecycle
<1>1. Init => Lifecycle!Init
  BY DEF Init, Lifecycle!Init, progress
<1>2. PromptInv /\ [PromptNext]_vars => [Lifecycle!Next]_progress
  BY LifecycleStep
<1>3. QED
  BY PromptInvariant, <1>1, <1>2, PTL DEF PromptSpec, ImplementsLifecycle, Lifecycle!Spec
-----------------------------------------------------------------------------
(* Dedupe keys. *)

\* The column is unique, and an active job has the key of its entity until somebody retries one.
KeysUnique == \A i, j \in Jobs : job[i].key = job[j].key /\ job[i].key # None => i = j

KeysKept ==
    edits = 0 => \A j \in Jobs : /\ job[j].status \in Active => job[j].key = job[j].entity
                                 /\ api[j].op = "none"

\* What a step does to the keys.
LEMMA KeyChanges ==
    ASSUME Typed, [Next]_vars, ~Enqueue, NEW i \in Jobs
    PROVE  job'[i].key = job[i].key /\ job'[i].entity = job[i].entity
<1> DEFINE Goal == job'[i].key = job[i].key /\ job'[i].entity = job[i].entity
<1>0. job \in [Jobs -> Row] /\ \A j \in Jobs : job[j] \in Row  BY DEF Typed, TypeOK
<1>1. CASE Tick  BY <1>0, <1>1 DEF Tick, Aged, Row
<1>2. ASSUME NEW j \in Jobs, cancel(j) PROVE Goal  BY <1>0, <1>2 DEF cancel, Row
<1>3. ASSUME NEW j \in Jobs, retry(j) PROVE Goal
  <2>1. job'[i] \in {job[i], Retried(job[i], api[j])}  BY <1>0, <1>3 DEF retry
  <2>2. QED  BY <1>0, <2>1 DEF Retried, Row
<1>4. ASSUME NEW w \in Workers, NEW s \in Slots, NEW j \in Jobs, claim_next(w, s, j) PROVE Goal
  <2>1. job'[i] \in {Claimed(job[i], w), Buried(job[i]), job[i]}  BY <1>4 DEF claim_next
  <2>2. QED  BY <1>0, <2>1 DEF Claimed, Buried, Row
<1>5. ASSUME NEW w \in Workers, BuryZombies(w) PROVE Goal
  BY <1>0, <1>5 DEF BuryZombies, Buried, Row
<1>6. ASSUME NEW w \in Workers, NEW s \in Slots, heartbeat(w, s) PROVE Goal
  BY <1>0, <1>6 DEF heartbeat, Row
<1>7. ASSUME NEW w \in Workers, NEW s \in Slots, Record(w, s) PROVE Goal
  <2> DEFINE p == exec[w][s].phase
             seen == exec[w][s].seen
             r == job[i]
  <2>1. job'[i] = r \/ job'[i] = Recorded(r, p, seen)  BY <1>0, <1>7 DEF Record
  <2>2. p \in RecordPhases  BY <1>7 DEF Record
  <2>3. r \in Row  BY <1>0
  <2> HIDE DEF p, seen, r
  <2>4. Recorded(r, p, seen).key = r.key /\ Recorded(r, p, seen).entity = r.entity
    <3>1. CASE p = "completing"  BY <2>3, <3>1 DEF Recorded, Row
    <3>2. CASE p = "failing" /\ seen < MaxAttempts  BY <2>3, <3>2 DEF Recorded, Row
    <3>3. CASE p = "failing" /\ ~(seen < MaxAttempts)  BY <2>3, <3>3 DEF Recorded, Row
    <3>4. CASE p = "releasing"  BY <2>3, <3>4 DEF Recorded, Row
    <3>5. CASE p = "rejecting"  BY <2>3, <3>5 DEF Recorded, Row
    <3>6. QED  BY <2>2, <3>1, <3>2, <3>3, <3>4, <3>5 DEF RecordPhases
  <2>5. QED  BY <2>1, <2>4 DEF r
<1>8. CASE UNCHANGED job  BY <1>8
<1>9. QED
  BY <1>1, <1>2, <1>3, <1>4, <1>5, <1>6, <1>7, <1>8, ZenonT(30)
  DEF Next, Poll, Step, BeginCall, LeaseLost, BeginRecord, RecordFails,
      request_stop, Exit, Crash, Restart, vars

LEMMA KeysStep ==
    ASSUME PromptInv, KeysUnique, KeysKept, [PromptNext]_vars
    PROVE  KeysUnique' /\ KeysKept'
<1>0. Typed /\ Present /\ [Next]_vars /\ job \in [Jobs -> Row] /\ \A j \in Jobs : job[j] \in Row
  BY DEF PromptInv, PromptNext, Typed, TypeOK
<1>1. CASE Enqueue
  <2>1. PICK key \in Entities \cup {None}, kind \in Kinds, delay \in Delays :
               enqueue(key, kind, delay)
    BY <1>1 DEF Enqueue
  <2>2. job'[NextId] = Inserted(key, kind, delay) /\ NextId \in Jobs
    BY <2>1 DEF enqueue
  <2>3. \A j \in Jobs \ {NextId} :
            job'[j] = IF job[j].key = key THEN [job[j] EXCEPT !.key = None] ELSE job[j]
    BY <2>1 DEF enqueue
  <2>4. \A j \in Jobs \ {NextId} :
            /\ job[j].key = key => job'[j].key = None
            /\ job[j].key # key => job'[j].key = job[j].key
            /\ job'[j].status = job[j].status /\ job'[j].entity = job[j].entity
    BY <1>0, <2>3 DEF Row
  <2>5. job'[NextId].key = key /\ job'[NextId].entity = key  BY <2>2 DEF Inserted
  <2>6. KeysUnique'
    BY <2>2, <2>4, <2>5 DEF KeysUnique
  <2>7. ASSUME edits' = 0, NEW j \in Jobs \ {NextId}, job'[j].status \in Active
        PROVE  job'[j].key = job'[j].entity
    <3>1. edits = 0  BY <2>1, <2>7 DEF enqueue
    <3>2. job[j].status \in Active /\ job[j].key = job[j].entity
      BY <2>4, <2>7, <3>1 DEF KeysKept
    <3>3. job[j].key = key => key = None
      BY <2>1, <3>2 DEF enqueue, Active, TERMINAL_STATUSES
    <3>4. QED  BY <2>4, <3>2, <3>3
  <2>8. api' = api /\ edits' = edits  BY <2>1 DEF enqueue
  <2>9. KeysKept'
    BY <2>2, <2>5, <2>7, <2>8 DEF KeysKept
  <2>10. QED  BY <2>6, <2>9
<1>2. CASE ~Enqueue
  <2>1. \A i \in Jobs : job'[i].key = job[i].key /\ job'[i].entity = job[i].entity
    BY <1>0, <1>2, KeyChanges
  <2>2. KeysUnique'  BY <2>1 DEF KeysUnique
  <2>3. SUFFICES ASSUME edits' = 0, NEW i \in Jobs
                 PROVE  /\ job'[i].status \in Active => job'[i].key = job'[i].entity
                        /\ api'[i].op = "none"
    BY <2>2 DEF KeysKept
  <2>4. edits = 0 /\ \A j \in Jobs, op \in {"cancel", "retry"} : ~BeginCall(j, op)
    <3>1. edits \in Nat  BY <1>0 DEF Typed, TypeOK
    <3>2. ASSUME NEW j \in Jobs, NEW op \in {"cancel", "retry"}, BeginCall(j, op) PROVE FALSE
      BY <2>3, <3>1, <3>2 DEF BeginCall
    <3>3. UNCHANGED edits
      <4>1. ASSUME NEW j \in Jobs, cancel(j) \/ retry(j) PROVE UNCHANGED edits
        BY <4>1 DEF cancel, retry
      <4>2. ASSUME NEW w \in Workers,
                   \/ Poll(w) \/ request_stop(w) \/ Exit(w) \/ Crash(w) \/ Restart(w)
                   \/ \E s \in Slots : Step(w, s)
            PROVE  UNCHANGED edits
        BY <4>2 DEF Poll, Step, claim_next, BuryZombies, heartbeat, LeaseLost, BeginRecord, Record,
                    RecordFails, request_stop, Exit, Crash, Restart
      <4>3. Tick \/ UNCHANGED vars => UNCHANGED edits  BY DEF Tick, vars
      <4>4. QED  BY <1>0, <1>2, <3>2, <4>1, <4>2, <4>3 DEF Next
    <3>4. QED  BY <2>3, <3>2, <3>3
  <2>5. api'[i].op = "none"
    <3>1. api[i].op = "none"  BY <2>4 DEF KeysKept
    <3>2. QED  BY <1>0, <2>4, <3>1, OpenCalls
  <2>6. job'[i].status \in Active => job[i].status \in Active
    <3>1. ~retry(i)  BY <2>4 DEF KeysKept, retry
    <3>2. CASE Same(i)  BY <3>2 DEF Same
    <3>3. CASE cancel(i) /\ job'[i] = [job[i] EXCEPT !.status = "cancelled"]
      BY <1>0, <3>3 DEF Active, Row
    <3>4. ASSUME Ready(i) PROVE job[i].status \in Active
      BY <3>4 DEF Ready, Expired, Active
    <3>5. ASSUME OutOfAttempts(i) PROVE job[i].status \in Active
      BY <3>5 DEF OutOfAttempts, Expired, Active
    <3>6. ASSUME NEW w \in Workers, NEW s \in Slots, Record(w, s), exec[w][s].j = i
          PROVE  job[i].status \in Active
      BY <3>6 DEF Record, PromptInv, RecordsCurrent, Active
    <3>7. \/ Same(i)
          \/ cancel(i) /\ job'[i] = [job[i] EXCEPT !.status = "cancelled"]
          \/ retry(i)
          \/ Ready(i) \/ OutOfAttempts(i)
          \/ \E w \in Workers, s \in Slots : Record(w, s) /\ exec[w][s].j = i
      BY <1>0, <1>2, RowChanges DEF Enqueue
    <3>8. QED  BY <3>1, <3>2, <3>3, <3>4, <3>5, <3>6, <3>7
  <2>7. QED  BY <2>1, <2>4, <2>5, <2>6 DEF KeysKept
<1>3. QED  BY <1>1, <1>2

\* While nobody retries a job by hand, the rows of one entity hold at most one active job.
THEOREM OneActiveJobPerEntity == PromptSpec => []OneActivePerEntity
<1>1. Init => KeysUnique /\ KeysKept
  BY DEF Init, KeysUnique, KeysKept, Active, NoCall
<1>2. PromptInv /\ KeysUnique /\ KeysKept /\ [PromptNext]_vars
      => KeysUnique' /\ KeysKept'
  BY KeysStep
<1>3. PromptInv /\ KeysUnique /\ KeysKept => OneActivePerEntity
  <2>1. SUFFICES ASSUME PromptInv, KeysUnique, KeysKept, edits = 0, NEW i \in Jobs, NEW j \in Jobs,
                        i # j, job[i].entity = job[j].entity, job[i].entity # None,
                        job[i].status \in Active, job[j].status \in Active
                 PROVE  FALSE
    <3>1. ASSUME PromptInv, NEW k \in Jobs, job[k].status \notin TERMINAL_STATUSES \cup {"absent"}
          PROVE  job[k].status \in Active
      <4>1. job[k] \in Row  BY <3>1 DEF PromptInv, Typed, TypeOK
      <4>2. QED  BY <3>1, <4>1 DEF Row, Status, Active, TERMINAL_STATUSES
    <3>2. QED  BY <3>1 DEF OneActivePerEntity
  <2>2. job[i].key = job[i].entity /\ job[j].key = job[j].entity  BY <2>1 DEF KeysKept
  <2>3. QED  BY <2>1, <2>2 DEF KeysUnique
<1>4. QED  BY PromptInvariant, <1>1, <1>2, <1>3, PTL DEF PromptSpec
=============================================================================
