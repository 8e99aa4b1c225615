------------------------- MODULE ModelGateway_proofs -------------------------
(***************************************************************************)
(* Theorems about ModelGateway for every number of callers, threshold,     *)
(* attempts and repairs; and about the parts of MCCabinet: the members of  *)
(* an organization (Organization), for every number of members, the thread *)
(* of the assistant that calls the gateway (AssistantThread), for every    *)
(* number of turns, tools and presses, the limits on requests              *)
(* (RateLimiter), for every set of keys, budget and window, the links and  *)
(* tokens handed out (Grants), for any requests, times and file sizes, the *)
(* documents of the knowledge base (Knowledge), for any documents, texts   *)
(* and requests, and the demo data (DemoSeed), for any story and number of *)
(* runs.                                                                   *)
(***************************************************************************)
EXTENDS ModelGateway, CabinetInvariants, FiniteSetTheorems, SequenceTheorems, WellFoundedInduction, TLAPS

\* Stated for the provers, which do not find it inside a record.
LEMMA ZeroIsNumber == 0 \in Nat /\ 1 \in Nat  OBVIOUS

LEMMA Parameters ==
    /\ failure_threshold \in Nat /\ failure_threshold > 0
    /\ recovery_timeout_s \in Nat /\ recovery_timeout_s > 0
    /\ half_open_max_calls \in Nat /\ half_open_max_calls > 0
    /\ max_attempts \in Nat /\ max_attempts > 0
    /\ max_repairs \in Nat
BY ParametersOK

-----------------------------------------------------------------------------
(* Type correctness. *)

\* The operations of the breaker give a breaker.
LEMMA BreakerTypes ==
    ASSUME NEW b \in Breaker
    PROVE  /\ Observed(b) \in Breaker
           /\ Allowed(b) => Taken(b) \in Breaker
           /\ record_success(b) \in Breaker
           /\ record_failure(b) \in Breaker
           /\ release_probe(b) \in Breaker
<1>. USE Parameters DEF Breaker
<1>0. 0 \in 0..failure_threshold /\ 0 \in 0..half_open_max_calls  OBVIOUS
<1>1. Observed(b) \in Breaker  BY <1>0 DEF Observed
<1>2. ASSUME Allowed(b) PROVE Taken(b) \in Breaker
  <2>1. CASE b.state = "half_open"
    <3>1. b.half_open_calls + 1 \in 0..half_open_max_calls  BY <1>2, <2>1 DEF Allowed
    <3>2. QED  BY <2>1, <3>1 DEF Taken
  <2>2. QED  BY <2>1 DEF Taken
<1>3. record_success(b) \in Breaker  BY <1>0 DEF record_success
<1>4. Counted(b) \in 0..failure_threshold  BY DEF Counted
<1>5. record_failure(b) \in Breaker  BY <1>4 DEF record_failure
<1>6. release_probe(b) \in Breaker  BY DEF release_probe
<1>7. QED  BY <1>1, <1>2, <1>3, <1>5, <1>6

\* The next request of a call is a call.
LEMMA CallTypes ==
    ASSUME NEW call \in Call
    PROVE  /\ Idle \in Call
           /\ Again(call) \in Call
           /\ \A p \in {"idle", "send", "sleep", "read"} : [call EXCEPT !.pc = p] \in Call
           /\ _effective_format \in {"json_schema", "json_object"}
<1>1. Idle \in Call  BY ZeroIsNumber DEF Idle, Call
<1>2. call.sent + 1 \in Nat  BY DEF Call
<1>3. Again(call) \in Call  BY <1>2, ZeroIsNumber DEF Again, Call
<1>4. \A p \in {"idle", "send", "sleep", "read"} : [call EXCEPT !.pc = p] \in Call  BY DEF Call
<1>5. _effective_format \in {"json_schema", "json_object"}  BY DEF _effective_format
<1>6. QED  BY <1>1, <1>3, <1>4, <1>5

LEMMA GoTypes ==
    ASSUME calls \in [Callers -> Call], NEW c \in Callers, NEW call \in Call, NEW b \in Breaker,
           Go(c, call, b)
    PROVE  breaker' \in Breaker /\ calls' \in [Callers -> Call]
<1>1. \A x \in Call : [x EXCEPT !.probe = @ /\ b.state = "half_open"] \in Call
  <2>. SUFFICES ASSUME NEW x \in Call PROVE [x EXCEPT !.probe = @ /\ b.state = "half_open"] \in Call
    OBVIOUS
  <2>1. (x.probe /\ b.state = "half_open") \in BOOLEAN  OBVIOUS
  <2>2. QED  BY <2>1 DEF Call
<1>2. QED  BY <1>1 DEF Go

\* What a call is admitted with.
Started(kind, format, probe) ==
    [Idle EXCEPT !.pc = "send", !.kind = kind, !.attempt = 1, !.sent = 1, !.format = format, !.probe = probe]

LEMMA InitTyped == Init => TypeOK
<1>. SUFFICES ASSUME Init PROVE TypeOK  OBVIOUS
<1>1. Closed \in Breaker  BY ParametersOK, ZeroIsNumber DEF Closed, Breaker
<1>2. Idle \in Call  BY ZeroIsNumber DEF Idle, Call
<1>3. QED  BY <1>1, <1>2 DEF Init, TypeOK

LEMMA NextTyped == TypeOK /\ [Next]_vars => TypeOK'
<1>. SUFFICES ASSUME TypeOK, [Next]_vars PROVE TypeOK'  OBVIOUS
<1>. USE DEF TypeOK
<1>1. ASSUME NEW c \in Callers, NEW kind \in Kinds, Begin(c, kind) PROVE TypeOK'
  <2>. DEFINE b == Observed(breaker)
              format == IF kind = "structured" THEN _effective_format ELSE "json_object"
              probe == b.state = "half_open"
  <2>0. b \in Breaker /\ (Allowed(b) => Taken(b) \in Breaker)  BY BreakerTypes
  <2>1. format \in {"json_schema", "json_object"} /\ probe \in BOOLEAN  BY DEF _effective_format
  <2>. HIDE DEF format, probe
  <2>2. Started(kind, format, probe) \in Call
    BY <2>1, ZeroIsNumber, ParametersOK DEF Started, Idle, Call
  <2>3. IF Allowed(b) THEN Go(c, Started(kind, format, probe), Taken(b)) ELSE Go(c, Idle, b)
    BY <1>1 DEF Begin, Started, format, probe, Idle
  <2>4. Idle \in Call  BY ZeroIsNumber DEF Idle, Call
  <2>5. breaker' \in Breaker /\ calls' \in [Callers -> Call]
    <3>1. CASE Allowed(b)  BY <3>1, <2>0, <2>2, <2>3, GoTypes
    <3>2. CASE ~Allowed(b)  BY <3>2, <2>0, <2>3, <2>4, GoTypes
    <3>3. QED  BY <3>1, <3>2
  <2>6. QED  BY <2>5, <1>1 DEF Begin
<1>2. ASSUME NEW c \in Callers, Unavailable(c) PROVE TypeOK'
  <2>1. record_failure(breaker) \in Breaker  BY BreakerTypes
  <2>2. calls[c] \in Call  OBVIOUS
  <2>3. Idle \in Call /\ [calls[c] EXCEPT !.pc = "sleep"] \in Call  BY <2>2, CallTypes
  <2>4. breaker' \in Breaker /\ calls' \in [Callers -> Call]
    <3>1. CASE calls[c].attempt < max_attempts
      <4>1. Go(c, [calls[c] EXCEPT !.pc = "sleep"], breaker)  BY <1>2, <3>1 DEF Unavailable
      <4>2. QED  BY <4>1, <2>3, GoTypes
    <3>2. CASE ~(calls[c].attempt < max_attempts)
      <4>1. Go(c, Idle, record_failure(breaker))  BY <1>2, <3>2 DEF Unavailable
      <4>2. QED  BY <4>1, <2>1, <2>3, GoTypes
    <3>3. QED  BY <3>1, <3>2
  <2>5. QED  BY <2>4, <1>2 DEF Unavailable
<1>3. ASSUME NEW c \in Callers, Retry(c) PROVE TypeOK'
  <2>. DEFINE call == [calls[c] EXCEPT !.pc = "send", !.attempt = @ + 1, !.sent = @ + 1]
  <2>1. calls[c] \in Call  OBVIOUS
  <2>2. calls[c].attempt + 1 \in Nat /\ calls[c].sent + 1 \in Nat  BY <2>1 DEF Call
  <2>3. call \in Call  BY <2>1, <2>2 DEF Call
  <2>4. Go(c, call, breaker)  BY <1>3 DEF Retry
  <2>5. breaker' \in Breaker /\ calls' \in [Callers -> Call]
    <3>. HIDE DEF call
    <3>1. QED  BY <2>3, <2>4, GoTypes
  <2>6. QED  BY <2>5, <1>3 DEF Retry
<1>4. ASSUME NEW c \in Callers, Refused(c) PROVE TypeOK'
  <2>1. record_success(breaker) \in Breaker  BY BreakerTypes
  <2>2. Idle \in Call  BY ZeroIsNumber DEF Idle, Call
  <2>3. breaker' \in Breaker /\ calls' \in [Callers -> Call]  BY <1>4, <2>1, <2>2, GoTypes DEF Refused
  <2>4. QED  BY <2>3, <1>4 DEF Refused
<1>5. ASSUME NEW c \in Callers, chat_fallback(c) PROVE TypeOK'
  <2>1. record_success(breaker) \in Breaker  BY BreakerTypes
  <2>2. calls[c] \in Call  OBVIOUS
  <2>a. \A x \in Call : [x EXCEPT !.format = "json_object"] \in Call  BY DEF Call
  <2>3. [Again(calls[c]) EXCEPT !.format = "json_object"] \in Call  BY <2>2, <2>a, CallTypes
  <2>4. Go(c, [Again(calls[c]) EXCEPT !.format = "json_object"], record_success(breaker))
    BY <1>5 DEF chat_fallback
  <2>5. breaker' \in Breaker /\ calls' \in [Callers -> Call]  BY <2>1, <2>3, <2>4, GoTypes
  <2>6. QED  BY <2>5, <1>5 DEF chat_fallback, Learned
<1>6. ASSUME NEW c \in Callers, Answered(c) PROVE TypeOK'
  <2>. DEFINE call == IF calls[c].kind = "stream" THEN [calls[c] EXCEPT !.pc = "read"] ELSE Idle
  <2>1. record_success(breaker) \in Breaker  BY BreakerTypes
  <2>2. calls[c] \in Call  OBVIOUS
  <2>3. call \in Call  BY <2>2, CallTypes
  <2>4. Go(c, call, record_success(breaker))  BY <1>6 DEF Answered
  <2>5. breaker' \in Breaker /\ calls' \in [Callers -> Call]
    <3>. HIDE DEF call
    <3>1. QED  BY <2>1, <2>3, <2>4, GoTypes
  <2>6. QED  BY <2>5, <1>6 DEF Answered
<1>7. ASSUME NEW c \in Callers, Invalid(c) PROVE TypeOK'
  <2>. DEFINE call == IF calls[c].repairs < max_repairs
                      THEN [Again(calls[c]) EXCEPT !.repairs = @ + 1, !.format = _effective_format]
                      ELSE Idle
  <2>1. record_success(breaker) \in Breaker  BY BreakerTypes
  <2>2. calls[c] \in Call  OBVIOUS
  <2>3. Again(calls[c]) \in Call /\ Idle \in Call /\ _effective_format \in {"json_schema", "json_object"}
    BY <2>2, CallTypes
  <2>4. Again(calls[c]).repairs + 1 \in Nat  BY <2>3 DEF Call
  <2>5. call \in Call  BY <2>3, <2>4 DEF Call
  <2>6. Go(c, call, record_success(breaker))  BY <1>7 DEF Invalid
  <2>7. breaker' \in Breaker /\ calls' \in [Callers -> Call]
    <3>. HIDE DEF call
    <3>1. QED  BY <2>1, <2>5, <2>6, GoTypes
  <2>8. QED  BY <2>7, <1>7 DEF Invalid
<1>8. ASSUME NEW c \in Callers, StreamEnds(c) PROVE TypeOK'
  <2>1. (IF provider = "up" THEN breaker ELSE record_failure(breaker)) \in Breaker  BY BreakerTypes
  <2>2. Idle \in Call  BY ZeroIsNumber DEF Idle, Call
  <2>3. breaker' \in Breaker /\ calls' \in [Callers -> Call]  BY <1>8, <2>1, <2>2, GoTypes DEF StreamEnds
  <2>4. QED  BY <2>3, <1>8 DEF StreamEnds
<1>9. ASSUME NEW c \in Callers, Cancel(c) PROVE TypeOK'
  <2>1. (IF calls[c].pc = "read" THEN breaker ELSE release_probe(breaker)) \in Breaker  BY BreakerTypes
  <2>2. Idle \in Call  BY ZeroIsNumber DEF Idle, Call
  <2>3. breaker' \in Breaker /\ calls' \in [Callers -> Call]  BY <1>9, <2>1, <2>2, GoTypes DEF Cancel
  <2>4. QED  BY <2>3, <1>9 DEF Cancel
<1>10. ASSUME Change PROVE TypeOK'
  BY <1>10 DEF Change
<1>11. ASSUME Tick PROVE TypeOK'
  <2>1. breaker.age + 1 \in 0..recovery_timeout_s  BY <1>11, Parameters DEF Tick, Breaker
  <2>2. QED  BY <2>1, <1>11 DEF Tick, Breaker
<1>12. CASE UNCHANGED vars
  BY <1>12 DEF vars
<1>13. QED
  BY <1>1, <1>2, <1>3, <1>4, <1>5, <1>6, <1>7, <1>8, <1>9, <1>10, <1>11, <1>12 DEF Next

\* Every state is one the declarations of the code allow; in particular no more probes are let
\* through than half_open_max_calls, and no failure is counted past the threshold.
THEOREM TypeCorrect == Spec => []TypeOK
BY InitTyped, NextTyped, PTL DEF Spec
-----------------------------------------------------------------------------
(* The breaker. *)

\* The callers that have been let through and have not reported yet.
Waiting == {c \in Callers : calls[c].pc \in {"send", "sleep"}}

\* The slots that are taken are the slots of some who wait: a cancelled call of another period may
\* give back a slot it never took, so that there may be fewer, never more.
SlotsTaken ==
    /\ breaker.state # "half_open" => breaker.half_open_calls = 0
    /\ breaker.half_open_calls <= Cardinality(Waiting)

BreakerInv == TypeOK /\ SlotsTaken /\ ClosedBelowThreshold

LEMMA WaitingFinite == IsFiniteSet(Waiting) /\ Cardinality(Waiting) \in Nat
BY ParametersOK, FS_Subset, FS_CardinalityType DEF Waiting

\* How the set of those who wait changes when one caller goes on.
LEMMA GoWaiting ==
    ASSUME calls \in [Callers -> Call], NEW c \in Callers, NEW call \in Call, NEW b, Go(c, call, b)
    PROVE  Waiting' = IF call.pc \in {"send", "sleep"} THEN Waiting \cup {c} ELSE Waiting \ {c}
<1>1. \A d \in Callers : calls'[d].pc = IF d = c THEN call.pc ELSE calls[d].pc
  <2>. SUFFICES ASSUME NEW d \in Callers PROVE calls'[d].pc = IF d = c THEN call.pc ELSE calls[d].pc
    OBVIOUS
  <2>1. calls'[d] = [(IF d = c THEN call ELSE calls[d]) EXCEPT !.probe = @ /\ b.state = "half_open"]
    BY DEF Go
  <2>2. (IF d = c THEN call ELSE calls[d]) \in Call  OBVIOUS
  <2>3. \A x \in Call : \A p : [x EXCEPT !.probe = p].pc = x.pc  BY DEF Call
  <2>4. QED  BY <2>1, <2>2, <2>3
<1>2. QED  BY <1>1 DEF Waiting

\* A breaker that holds no slot is in order whoever waits.
LEMMA NoSlots ==
    ASSUME IsFiniteSet(Waiting'), breaker'.half_open_calls = 0
    PROVE  SlotsTaken'
BY FS_CardinalityType DEF SlotsTaken

LEMMA WaitingFinitePrime == IsFiniteSet(Waiting')
BY ParametersOK, FS_Subset DEF Waiting

\* After a success, and after a failure, no slot is taken.
LEMMA Reported ==
    ASSUME BreakerInv, NEW b, b \in {record_success(breaker), record_failure(breaker)}
    PROVE  b.half_open_calls = 0 /\ (b.state = "closed" => b.failures < failure_threshold)
<1>. USE Parameters DEF BreakerInv, TypeOK, SlotsTaken, ClosedBelowThreshold
<1>1. CASE b = record_success(breaker)
  BY <1>1 DEF record_success, Breaker
<1>2. CASE b = record_failure(breaker)
  <2>1. CASE breaker.state = "half_open" \/ Counted(breaker) >= failure_threshold
    BY <1>2, <2>1 DEF record_failure
  <2>2. CASE ~(breaker.state = "half_open" \/ Counted(breaker) >= failure_threshold)
    <3>1. Counted(breaker) \in Int  BY DEF Counted, Breaker
    <3>2. b = [breaker EXCEPT !.failures = Counted(breaker)]  BY <1>2, <2>2 DEF record_failure
    <3>3. b.failures = Counted(breaker) /\ b.half_open_calls = breaker.half_open_calls  BY <3>2 DEF Breaker
    <3>4. QED  BY <3>1, <3>3, <2>2
  <2>3. QED  BY <2>1, <2>2
<1>3. QED  BY <1>1, <1>2

LEMMA BreakerInit == Init => BreakerInv
<1>. SUFFICES ASSUME Init PROVE BreakerInv  OBVIOUS
<1>1. TypeOK  BY InitTyped
<1>2. breaker.half_open_calls = 0 /\ breaker.failures = 0  BY DEF Init, Closed
<1>3. QED  BY <1>1, <1>2, WaitingFinite, Parameters DEF BreakerInv, SlotsTaken, ClosedBelowThreshold

LEMMA BreakerNext == BreakerInv /\ [Next]_vars => BreakerInv'
<1>. SUFFICES ASSUME BreakerInv, [Next]_vars PROVE BreakerInv'  OBVIOUS
<1>0. TypeOK /\ TypeOK'  BY NextTyped DEF BreakerInv
<1>. USE Parameters, WaitingFinite, WaitingFinitePrime
<1>a. ASSUME breaker' \in {record_success(breaker), record_failure(breaker)} PROVE BreakerInv'
  BY <1>0, <1>a, Reported, NoSlots DEF BreakerInv, ClosedBelowThreshold
<1>b. ASSUME breaker' = breaker, Waiting' = Waiting PROVE BreakerInv'
  BY <1>0, <1>b DEF BreakerInv, SlotsTaken, ClosedBelowThreshold
<1>1. ASSUME NEW c \in Callers, NEW kind \in Kinds, Begin(c, kind) PROVE BreakerInv'
  <2>. DEFINE b == Observed(breaker)
              format == IF kind = "structured" THEN _effective_format ELSE "json_object"
              probe == b.state = "half_open"
  <2>1. format \in {"json_schema", "json_object"} /\ probe \in BOOLEAN  BY DEF _effective_format
  <2>. HIDE DEF format, probe
  <2>2. Started(kind, format, probe) \in Call /\ Started(kind, format, probe).pc = "send"
    BY <2>1, ZeroIsNumber DEF Started, Idle, Call
  <2>3. IF Allowed(b) THEN Go(c, Started(kind, format, probe), Taken(b)) ELSE Go(c, Idle, b)
    BY <1>1 DEF Begin, Started, format, probe, Idle
  <2>4. Idle \in Call /\ Idle.pc = "idle"  BY ZeroIsNumber DEF Idle, Call
  <2>5. c \notin Waiting  BY <1>1 DEF Begin, Waiting
  <2>6. /\ b \in Breaker
        /\ b.state # "half_open" => b.half_open_calls = 0
        /\ b.half_open_calls <= Cardinality(Waiting)
        /\ b.state = "closed" => b.failures < failure_threshold
    <3>1. b \in Breaker  BY <1>0, BreakerTypes DEF TypeOK
    <3>2. QED  BY <1>0, <3>1 DEF BreakerInv, SlotsTaken, ClosedBelowThreshold, Observed, TypeOK, Breaker
  <2>7. CASE Allowed(b)
    <3>1. breaker' = Taken(b)  BY <2>3, <2>7 DEF Go
    <3>2. Waiting' = Waiting \cup {c}  BY <2>2, <2>3, <2>7, <1>0, GoWaiting DEF TypeOK
    <3>3. Cardinality(Waiting') = Cardinality(Waiting) + 1  BY <3>2, <2>5, FS_AddElement
    <3>4. SlotsTaken'  BY <3>1, <3>3, <2>6 DEF SlotsTaken, Taken, Breaker
    <3>5. ClosedBelowThreshold'  BY <3>1, <2>6 DEF ClosedBelowThreshold, Taken, Breaker
    <3>6. QED  BY <1>0, <3>4, <3>5 DEF BreakerInv
  <2>8. CASE ~Allowed(b)
    <3>1. breaker' = b  BY <2>3, <2>8 DEF Go
    <3>2. Waiting' = Waiting  BY <2>3, <2>4, <2>5, <2>8, <1>0, GoWaiting DEF TypeOK
    <3>3. QED  BY <1>0, <3>1, <3>2, <2>6 DEF BreakerInv, SlotsTaken, ClosedBelowThreshold
  <2>9. QED  BY <2>7, <2>8
<1>2. ASSUME NEW c \in Callers, Unavailable(c) PROVE BreakerInv'
  <2>1. CASE calls[c].attempt < max_attempts
    <3>1. Go(c, [calls[c] EXCEPT !.pc = "sleep"], breaker) /\ calls[c].pc = "send"
      BY <1>2, <2>1 DEF Unavailable
    <3>2. [calls[c] EXCEPT !.pc = "sleep"] \in Call /\ [calls[c] EXCEPT !.pc = "sleep"].pc = "sleep"
      BY <1>0 DEF TypeOK, Call
    <3>3. Waiting' = Waiting  BY <3>1, <3>2, <1>0, GoWaiting DEF TypeOK, Waiting
    <3>4. QED  BY <3>1, <3>3, <1>b DEF Go
  <2>2. CASE ~(calls[c].attempt < max_attempts)
    BY <1>2, <2>2, <1>a DEF Unavailable, Go
  <2>3. QED  BY <2>1, <2>2
<1>3. ASSUME NEW c \in Callers, Retry(c) PROVE BreakerInv'
  <2>. DEFINE call == [calls[c] EXCEPT !.pc = "send", !.attempt = @ + 1, !.sent = @ + 1]
  <2>1. calls[c].attempt + 1 \in Nat /\ calls[c].sent + 1 \in Nat  BY <1>0 DEF TypeOK, Call
  <2>2. call \in Call /\ call.pc = "send"  BY <2>1, <1>0, ZenonT(30) DEF TypeOK, Call
  <2>3. Go(c, call, breaker) /\ calls[c].pc = "sleep"  BY <1>3 DEF Retry
  <2>. HIDE DEF call
  <2>4. Waiting' = Waiting  BY <2>2, <2>3, <1>0, GoWaiting DEF TypeOK, Waiting
  <2>5. QED  BY <2>3, <2>4, <1>b DEF Go
<1>4. ASSUME NEW c \in Callers, Refused(c) \/ chat_fallback(c) \/ Answered(c) \/ Invalid(c)
      PROVE  BreakerInv'
  BY <1>4, <1>a DEF Refused, chat_fallback, Answered, Invalid, Go
<1>5. ASSUME NEW c \in Callers, StreamEnds(c) PROVE BreakerInv'
  <2>1. CASE provider = "up"
    <3>1. Go(c, Idle, breaker) /\ calls[c].pc = "read"  BY <1>5, <2>1 DEF StreamEnds
    <3>2. Idle \in Call /\ Idle.pc = "idle"  BY ZeroIsNumber DEF Idle, Call
    <3>3. Waiting' = Waiting  BY <3>1, <3>2, <1>0, GoWaiting DEF TypeOK, Waiting
    <3>4. QED  BY <3>1, <3>3, <1>b DEF Go
  <2>2. CASE provider # "up"
    BY <1>5, <2>2, <1>a DEF StreamEnds, Go
  <2>3. QED  BY <2>1, <2>2
<1>6. ASSUME NEW c \in Callers, Cancel(c) PROVE BreakerInv'
  <2>1. Idle \in Call /\ Idle.pc = "idle"  BY ZeroIsNumber DEF Idle, Call
  <2>2. Waiting' = Waiting \ {c}
    <3>1. PICK b \in {breaker, release_probe(breaker)} : Go(c, Idle, b)  BY <1>6 DEF Cancel
    <3>2. QED  BY <3>1, <2>1, <1>0, GoWaiting DEF TypeOK
  <2>3. CASE calls[c].pc = "read"
    <3>1. Waiting' = Waiting  BY <2>2, <2>3 DEF Waiting
    <3>2. QED  BY <3>1, <1>6, <2>3, <1>b DEF Cancel, Go
  <2>4. CASE calls[c].pc # "read"
    <3>1. calls[c].pc \in {"send", "sleep"}  BY <1>0, <1>6, <2>4 DEF Cancel, TypeOK, Call
    <3>2. Cardinality(Waiting') = Cardinality(Waiting) - 1
      BY <2>2, <3>1, FS_RemoveElement DEF Waiting
    <3>3. breaker' = release_probe(breaker)  BY <1>6, <2>4 DEF Cancel, Go
    <3>4. Cardinality(Waiting') \in Nat  BY FS_CardinalityType
    <3>5. SlotsTaken'
      BY <1>0, <3>2, <3>3, <3>4 DEF BreakerInv, SlotsTaken, release_probe, TypeOK, Breaker
    <3>6. ClosedBelowThreshold'
      BY <1>0, <3>3 DEF BreakerInv, ClosedBelowThreshold, release_probe, TypeOK, Breaker
    <3>7. QED  BY <1>0, <3>5, <3>6 DEF BreakerInv
  <2>5. QED  BY <2>3, <2>4
<1>7. ASSUME Change PROVE BreakerInv'
  BY <1>7, <1>b DEF Change, Waiting
<1>8. ASSUME Tick PROVE BreakerInv'
  <2>1. Waiting' = Waiting  BY <1>8 DEF Tick, Waiting
  <2>2. /\ breaker'.state = breaker.state /\ breaker'.failures = breaker.failures
        /\ breaker'.half_open_calls = breaker.half_open_calls
    BY <1>0, <1>8 DEF Tick, TypeOK, Breaker
  <2>3. QED  BY <1>0, <2>1, <2>2 DEF BreakerInv, SlotsTaken, ClosedBelowThreshold
<1>9. CASE UNCHANGED vars
  BY <1>9, <1>b DEF vars, Waiting
<1>10. QED
  BY <1>1, <1>2, <1>3, <1>4, <1>5, <1>6, <1>7, <1>8, <1>9 DEF Next

LEMMA BreakerImplies == BreakerInv => NotJammed /\ ClosedBelowThreshold
<1>. SUFFICES ASSUME BreakerInv, breaker.state = "half_open",
                     breaker.half_open_calls = half_open_max_calls
              PROVE  Busy # {}
  BY DEF BreakerInv, NotJammed
<1>1. Cardinality(Waiting) > 0
  BY Parameters, WaitingFinite DEF BreakerInv, SlotsTaken, TypeOK, Breaker
<1>2. Waiting # {}  BY <1>1, FS_EmptySet
<1>3. Waiting \subseteq Busy  BY DEF Waiting, Busy
<1>4. QED  BY <1>2, <1>3

\* The breaker never refuses everybody with nobody out who could still close or open it.
THEOREM NeverJammed == Spec => []NotJammed
BY BreakerInit, BreakerNext, BreakerImplies, PTL DEF Spec

\* The failure that reaches the threshold opens the breaker, whichever of the callers reports it.
THEOREM TripsInTime == Spec => []ClosedBelowThreshold
BY BreakerInit, BreakerNext, BreakerImplies, PTL DEF Spec
-----------------------------------------------------------------------------
(* The price of a completion. *)

\* What a call may have cost: a full round of attempts for each repair, one more once the simpler
\* format has been asked for, and the attempts of the present round.
Priced(call, unsupported) ==
    /\ call.attempt <= max_attempts /\ (call.pc = "sleep" => call.attempt < max_attempts)
    /\ call.repairs <= max_repairs
    /\ call.sent <= (call.repairs + (IF unsupported THEN 1 ELSE 0)) * max_attempts + call.attempt
    /\ call.format = "json_schema" => call.sent <= call.repairs * max_attempts + call.attempt

PriceInv == TypeOK /\ \A c \in Callers : Priced(calls[c], json_schema_unsupported)

LEMMA Rounds ==
    ASSUME NEW m \in Nat
    PROVE  /\ \A a \in Nat : a * m \in Nat /\ (a + 1) * m = a * m + m /\ (a + 0) * m = a * m
           /\ \A a, b \in Nat : a <= b => a * m <= b * m
OBVIOUS

\* A call that goes on within its price leaves the others within theirs.
LEMMA GoPriced ==
    ASSUME PriceInv, TypeOK', NEW c \in Callers, NEW call \in Call, NEW b, Go(c, call, b),
           Priced(call, json_schema_unsupported'),
           json_schema_unsupported => json_schema_unsupported'
    PROVE  PriceInv'
<1>. DEFINE u == json_schema_unsupported
<1>1. ASSUME NEW d \in Callers PROVE Priced(calls'[d], u')
  <2>. DEFINE x == IF d = c THEN call ELSE calls[d]
  <2>1. x \in Call  BY DEF PriceInv, TypeOK
  <2>2. Priced(x, u')
    <3>1. CASE d = c  BY <3>1
    <3>2. CASE d # c
      <4>1. calls[d] \in Call /\ Priced(calls[d], u)  BY DEF PriceInv, TypeOK
      <4>2. calls[d].repairs * max_attempts <= (calls[d].repairs + 1) * max_attempts
        BY <4>1, Rounds, Parameters DEF Call
      <4>3. (calls[d].repairs + 0) * max_attempts = calls[d].repairs * max_attempts
        BY <4>1, Rounds, Parameters DEF Call
      <4>4. /\ calls[d].repairs * max_attempts \in Nat
            /\ (calls[d].repairs + 1) * max_attempts \in Nat
        BY <4>1, Rounds, Parameters DEF Call
      <4>5. CASE u = u'  BY <4>1, <4>5, <3>2
      <4>6. CASE ~u /\ u'
        BY <4>1, <4>2, <4>3, <4>4, <4>6, <3>2 DEF Priced, Call
      <4>7. u \in BOOLEAN /\ u' \in BOOLEAN  BY DEF PriceInv, TypeOK
      <4>8. QED  BY <4>5, <4>6, <4>7
    <3>3. QED  BY <3>1, <3>2
  <2>3. calls'[d] = [x EXCEPT !.probe = @ /\ b.state = "half_open"]  BY DEF Go
  <2>. HIDE DEF x
  <2>4. /\ calls'[d].attempt = x.attempt /\ calls'[d].repairs = x.repairs
        /\ calls'[d].sent = x.sent /\ calls'[d].format = x.format /\ calls'[d].pc = x.pc
    BY <2>1, <2>3 DEF Call
  <2>5. QED  BY <2>2, <2>4 DEF Priced
<1>2. QED  BY <1>1 DEF PriceInv

LEMMA IdlePriced == \A u \in BOOLEAN : Idle \in Call /\ Priced(Idle, u)
BY ZeroIsNumber, Parameters DEF Idle, Call, Priced

LEMMA PriceNext == PriceInv /\ [Next]_vars => PriceInv'
<1>. SUFFICES ASSUME PriceInv, [Next]_vars PROVE PriceInv'  OBVIOUS
<1>. DEFINE u == json_schema_unsupported
            m == max_attempts
<1>0. TypeOK /\ TypeOK' /\ u \in BOOLEAN /\ u' \in BOOLEAN
  <2>1. TypeOK /\ TypeOK'  BY NextTyped DEF PriceInv
  <2>2. QED  BY <2>1 DEF TypeOK
<1>. USE Parameters
<1>a. ASSUME NEW c \in Callers, NEW b, Go(c, Idle, b), u' = u PROVE PriceInv'
  BY <1>0, <1>a, IdlePriced, GoPriced
<1>1. ASSUME NEW c \in Callers, NEW kind \in Kinds, Begin(c, kind) PROVE PriceInv'
  <2>. DEFINE b == Observed(breaker)
              format == IF kind = "structured" THEN _effective_format ELSE "json_object"
              probe == b.state = "half_open"
              call == Started(kind, format, probe)
  <2>1. format \in {"json_schema", "json_object"} /\ probe \in BOOLEAN  BY DEF _effective_format
  <2>. HIDE DEF format, probe
  <2>2. IF Allowed(b) THEN Go(c, call, Taken(b)) ELSE Go(c, Idle, b)
    BY <1>1 DEF Begin, Started, format, probe, Idle
  <2>3. call \in Call /\ call.attempt = 1 /\ call.repairs = 0 /\ call.sent = 1 /\ call.pc = "send"
    BY <2>1, ZeroIsNumber DEF Started, Idle, Call
  <2>. HIDE DEF call
  <2>4. Priced(call, u)
    <3>1. 0 * m = 0 /\ (0 + 1) * m = m /\ (0 + 0) * m = 0  OBVIOUS
    <3>2. QED  BY <2>3, <3>1 DEF Priced
  <2>5. u' = u  BY <1>1 DEF Begin
  <2>6. CASE Allowed(b)  BY <1>0, <2>2, <2>3, <2>4, <2>5, <2>6, GoPriced
  <2>7. CASE ~Allowed(b)  BY <2>2, <2>5, <2>7, <1>a
  <2>8. QED  BY <2>6, <2>7
<1>2. ASSUME NEW c \in Callers, Unavailable(c) PROVE PriceInv'
  <2>1. u' = u  BY <1>2 DEF Unavailable
  <2>2. CASE calls[c].attempt < max_attempts
    <3>. DEFINE call == [calls[c] EXCEPT !.pc = "sleep"]
    <3>1. calls[c] \in Call /\ Priced(calls[c], u)  BY DEF PriceInv, TypeOK
    <3>2. /\ call \in Call /\ call.attempt = calls[c].attempt /\ call.repairs = calls[c].repairs
          /\ call.sent = calls[c].sent /\ call.format = calls[c].format
      BY <3>1 DEF Call
    <3>b. call.attempt < max_attempts  BY <2>2, <3>2
    <3>3. Go(c, call, breaker)  BY <1>2, <2>2 DEF Unavailable
    <3>. HIDE DEF call
    <3>4. Priced(call, u)  BY <3>1, <3>2, <3>b DEF Priced
    <3>5. QED  BY <1>0, <2>1, <3>2, <3>3, <3>4, GoPriced
  <2>3. CASE ~(calls[c].attempt < max_attempts)
    BY <1>2, <2>1, <2>3, <1>a DEF Unavailable
  <2>4. QED  BY <2>2, <2>3
<1>3. ASSUME NEW c \in Callers, Retry(c) PROVE PriceInv'
  <2>. DEFINE call == [calls[c] EXCEPT !.pc = "send", !.attempt = @ + 1, !.sent = @ + 1]
              rounds == calls[c].repairs * m
              more == (calls[c].repairs + (IF u THEN 1 ELSE 0)) * m
  <2>1. calls[c] \in Call /\ Priced(calls[c], u) /\ calls[c].pc = "sleep"
    BY <1>3 DEF PriceInv, TypeOK, Retry
  <2>2. calls[c].attempt + 1 \in Nat /\ calls[c].sent + 1 \in Nat  BY <2>1 DEF Call
  <2>3. /\ call \in Call /\ call.attempt = calls[c].attempt + 1 /\ call.sent = calls[c].sent + 1
        /\ call.repairs = calls[c].repairs /\ call.format = calls[c].format /\ call.pc = "send"
    BY <2>1, <2>2 DEF Call
  <2>4. Go(c, call, breaker) /\ u' = u  BY <1>3 DEF Retry
  <2>5. rounds \in Nat /\ more \in Nat  BY <2>1, Rounds DEF Call
  <2>. HIDE DEF call
  <2>6. Priced(call, u)
    <3>1. /\ calls[c].sent <= more + calls[c].attempt /\ calls[c].attempt < m
          /\ calls[c].format = "json_schema" => calls[c].sent <= rounds + calls[c].attempt
          /\ calls[c].repairs <= max_repairs
      BY <2>1 DEF Priced
    <3>2. /\ call.sent <= more + call.attempt /\ call.attempt <= m
          /\ call.format = "json_schema" => call.sent <= rounds + call.attempt
      <4>. HIDE DEF rounds, more
      <4>1. QED  BY <2>1, <2>3, <2>5, <3>1 DEF Call
    <3>3. QED  BY <2>3, <3>1, <3>2 DEF Priced
  <2>7. QED  BY <1>0, <2>3, <2>4, <2>6, GoPriced
<1>4. ASSUME NEW c \in Callers, Refused(c) PROVE PriceInv'
  BY <1>4, <1>a DEF Refused
<1>5. ASSUME NEW c \in Callers, chat_fallback(c) PROVE PriceInv'
  <2>. DEFINE call == [Again(calls[c]) EXCEPT !.format = "json_object"]
              rounds == calls[c].repairs * m
  <2>1. calls[c] \in Call /\ Priced(calls[c], u) /\ calls[c].format = "json_schema"
    BY <1>5 DEF PriceInv, TypeOK, chat_fallback
  <2>2. calls[c].sent + 1 \in Nat  BY <2>1 DEF Call
  <2>3. /\ call \in Call /\ call.attempt = 1 /\ call.sent = calls[c].sent + 1 /\ call.pc = "send"
        /\ call.repairs = calls[c].repairs /\ call.format = "json_object"
    BY <2>1, <2>2, ZeroIsNumber DEF Again, Call
  <2>4. Go(c, call, record_success(breaker)) /\ u' = TRUE  BY <1>5 DEF chat_fallback, Learned
  <2>5. rounds \in Nat /\ (calls[c].repairs + 1) * m = rounds + m  BY <2>1, Rounds DEF Call
  <2>. HIDE DEF call
  <2>6. Priced(call, TRUE)
    <3>1. /\ calls[c].sent <= rounds + calls[c].attempt /\ calls[c].attempt <= m
          /\ calls[c].repairs <= max_repairs
      BY <2>1 DEF Priced
    <3>2. call.sent <= (rounds + m) + 1
      <4>. HIDE DEF rounds
      <4>1. QED  BY <2>1, <2>3, <2>5, <3>1 DEF Call
    <3>3. call.sent <= (call.repairs + 1) * m + 1  BY <2>3, <2>5, <3>2
    <3>4. QED  BY <2>3, <3>1, <3>3 DEF Priced
  <2>7. QED  BY <1>0, <2>3, <2>4, <2>6, GoPriced
<1>6. ASSUME NEW c \in Callers, Answered(c) PROVE PriceInv'
  <2>1. u' = u  BY <1>6 DEF Answered
  <2>2. CASE calls[c].kind = "stream"
    <3>. DEFINE call == [calls[c] EXCEPT !.pc = "read"]
    <3>1. calls[c] \in Call /\ Priced(calls[c], u)  BY DEF PriceInv, TypeOK
    <3>2. /\ call \in Call /\ call.attempt = calls[c].attempt /\ call.repairs = calls[c].repairs
          /\ call.sent = calls[c].sent /\ call.format = calls[c].format /\ call.pc = "read"
      BY <3>1 DEF Call
    <3>3. Go(c, call, record_success(breaker))  BY <1>6, <2>2 DEF Answered
    <3>. HIDE DEF call
    <3>4. Priced(call, u)  BY <3>1, <3>2 DEF Priced
    <3>5. QED  BY <1>0, <2>1, <3>2, <3>3, <3>4, GoPriced
  <2>3. CASE calls[c].kind # "stream"
    BY <1>6, <2>1, <2>3, <1>a DEF Answered
  <2>4. QED  BY <2>2, <2>3
<1>7. ASSUME NEW c \in Callers, Invalid(c) PROVE PriceInv'
  <2>1. u' = u  BY <1>7 DEF Invalid
  <2>2. CASE calls[c].repairs < max_repairs
    <3>. DEFINE call == [Again(calls[c]) EXCEPT !.repairs = @ + 1, !.format = _effective_format]
                l == IF u THEN 1 ELSE 0
                more == (calls[c].repairs + l) * m
    <3>1. calls[c] \in Call /\ Priced(calls[c], u)  BY DEF PriceInv, TypeOK
    <3>2. calls[c].sent + 1 \in Nat /\ calls[c].repairs + 1 \in Nat  BY <3>1 DEF Call
    <3>3. _effective_format \in {"json_schema", "json_object"} /\ (_effective_format = "json_schema" => ~u)
      BY DEF _effective_format
    <3>4. /\ call \in Call /\ call.attempt = 1 /\ call.sent = calls[c].sent + 1 /\ call.pc = "send"
          /\ call.repairs = calls[c].repairs + 1 /\ call.format = _effective_format
      BY <3>1, <3>2, <3>3, ZeroIsNumber DEF Again, Call
    <3>5. Go(c, call, record_success(breaker))  BY <1>7, <2>2 DEF Invalid
    <3>6. calls[c].repairs + l \in Nat /\ l \in Nat  BY <3>1 DEF Call
    <3>7. more \in Nat /\ ((calls[c].repairs + l) + 1) * m = more + m  BY <3>6, Rounds
    <3>8. (calls[c].repairs + 1) + l = (calls[c].repairs + l) + 1  BY <3>1, <3>6 DEF Call
    <3>. HIDE DEF call, l
    <3>9. Priced(call, u)
      <4>1. /\ calls[c].sent <= more + calls[c].attempt /\ calls[c].attempt <= m
            /\ calls[c].repairs <= max_repairs
        BY <3>1 DEF Priced, l
      <4>2. call.sent <= (more + m) + 1
        <5>. HIDE DEF more
        <5>1. QED  BY <3>1, <3>4, <3>7, <4>1 DEF Call
      <4>3. call.sent <= (call.repairs + l) * m + 1  BY <3>4, <3>7, <3>8, <4>2
      <4>4. call.format = "json_schema" => call.sent <= call.repairs * m + 1
        <5>. SUFFICES ASSUME ~u PROVE call.sent <= call.repairs * m + 1  BY <3>3, <3>4
        <5>1. l = 0 /\ call.repairs + l = call.repairs  BY <3>4 DEF l, Call
        <5>2. QED  BY <4>3, <5>1
      <4>5. call.repairs <= max_repairs  BY <2>2, <3>1, <3>4 DEF Call
      <4>6. QED  BY <3>4, <4>3, <4>4, <4>5 DEF Priced, l
    <3>10. QED  BY <1>0, <2>1, <3>4, <3>5, <3>9, GoPriced
  <2>3. CASE ~(calls[c].repairs < max_repairs)
    BY <1>7, <2>1, <2>3, <1>a DEF Invalid
  <2>4. QED  BY <2>2, <2>3
<1>8. ASSUME NEW c \in Callers, StreamEnds(c) \/ Cancel(c) PROVE PriceInv'
  BY <1>8, <1>a DEF StreamEnds, Cancel
<1>9. ASSUME Change \/ Tick \/ UNCHANGED vars PROVE PriceInv'
  BY <1>0, <1>9 DEF Change, Tick, vars, PriceInv
<1>10. QED
  BY <1>1, <1>2, <1>3, <1>4, <1>5, <1>6, <1>7, <1>8, <1>9 DEF Next

LEMMA PriceInit == Init => PriceInv
<1>. SUFFICES ASSUME Init PROVE PriceInv  OBVIOUS
<1>1. TypeOK  BY InitTyped
<1>2. \A c \in Callers : calls[c] = Idle /\ json_schema_unsupported = FALSE  BY DEF Init
<1>3. QED  BY <1>1, <1>2, IdlePriced DEF PriceInv

LEMMA PriceImplies == PriceInv => RequestsBounded
<1>. SUFFICES ASSUME PriceInv, NEW c \in Callers PROVE calls[c].sent <= (max_repairs + 2) * max_attempts
  BY DEF RequestsBounded
<1>. DEFINE m == max_attempts
            n == calls[c].repairs + (IF json_schema_unsupported THEN 1 ELSE 0)
<1>1. calls[c] \in Call /\ Priced(calls[c], json_schema_unsupported)  BY DEF PriceInv, TypeOK
<1>2. n \in Nat /\ n <= max_repairs + 1 /\ max_repairs + 1 \in Nat
  BY <1>1, Parameters DEF Priced, Call
<1>3. n * m <= (max_repairs + 1) * m /\ n * m \in Nat /\ (max_repairs + 1) * m \in Nat
  BY <1>2, Parameters, Rounds
<1>4. ((max_repairs + 1) + 1) * m = (max_repairs + 1) * m + m /\ (max_repairs + 1) + 1 = max_repairs + 2
  BY <1>2, Parameters, Rounds
<1>5. calls[c].sent <= n * m + calls[c].attempt /\ calls[c].attempt <= m  BY <1>1 DEF Priced
<1>6. calls[c].sent <= (max_repairs + 1) * m + m
  <2>1. n * m \in Int /\ (max_repairs + 1) * m \in Int /\ calls[c].sent \in Int /\ calls[c].attempt \in Int
    BY <1>1, <1>3 DEF Call
  <2>. DEFINE x == n * m
              y == (max_repairs + 1) * m
  <2>2. x \in Int /\ y \in Int /\ x <= y /\ calls[c].sent <= x + calls[c].attempt  BY <2>1, <1>3, <1>5
  <2>. HIDE DEF x, y
  <2>3. calls[c].sent <= y + m  BY <2>1, <2>2, <1>5, Parameters
  <2>4. QED  BY <2>3 DEF y
<1>7. QED  BY <1>4, <1>6

\* Whatever the provider answers and whoever else calls, one completion sends no more requests than
\* a full round of attempts for each repair, one for the first answer and one for the simpler format.
THEOREM CompletionsAreBounded == Spec => []RequestsBounded
BY PriceInit, PriceNext, PriceImplies, PTL DEF Spec
-----------------------------------------------------------------------------
(* The members of an organization: the part "organization" of MCCabinet. *)

LEMMA CabinetConstants ==
    /\ \A S : A!Cardinality(S) = Cardinality(S)
    /\ IsFiniteSet(Users) /\ founder \in Users
    /\ MaxUses \in Nat /\ MaxUses >= 1 /\ MaxVersion \in Nat /\ MaxInvites \in Nat /\ MaxAtOnce \in Nat
<1>1. \A S : A!Cardinality(S) = Cardinality(S)  BY Zenon DEF A!Cardinality, Cardinality
<1>2. QED  BY <1>1, SizesOK

LEMMA OrgHolds == ASSUME OrgInv  PROVE A!OrganizationIsKept
<1>1. A!TypeOK /\ A!StaysOut  BY DEF OrgInv, A!StaysOut
<1>2. A!OwnerRemains /\ A!ScopeFits  BY DEF OrgInv, A!OwnerRemains, A!ScopeFits, A!Alone, Scoped
<1>3. A!InviteIsLimited
  <2>1. past.joined \subseteq Users /\ invite.uses_count \in Nat
    BY DEF OrgInv, A!TypeOK, A!Past, A!Invite
  <2>2. Cardinality(past.joined) \in Nat  BY <2>1, CabinetConstants, FS_Subset, FS_CardinalityType
  <2>3. QED  BY <2>1, <2>2, CabinetConstants DEF OrgInv, Counted1, A!InviteIsLimited, A!Alone
<1>4. A!SessionsAreCurrent  BY DEF OrgInv, Fresh1, A!SessionsAreCurrent, A!Alone
<1>5. QED  BY <1>1, <1>2, <1>3, <1>4 DEF A!OrganizationIsKept

LEMMA OrgInit == ASSUME A!Init  PROVE OrgInv
<1> DEFINE first == [A!Stranger EXCEPT !.joined = TRUE, !.role = "owner"]
           zero == [u \in Users |-> 0]
<1>1. /\ member = [u \in Users |-> IF u = founder THEN first ELSE A!Stranger]
      /\ invite = [number |-> 0, role |-> "hiring_manager", scoped |-> FALSE, uses_count |-> MaxUses, revoked |-> TRUE]
      /\ session = A!None
      /\ request = [u \in Users |-> A!NoRequest]
      /\ past = [overlapped |-> FALSE, out |-> {}, joined |-> {}, changed |-> zero]
  BY Zenon DEF A!Init
<1>2. /\ first \in A!Membership /\ A!Stranger \in A!Membership
      /\ first.joined /\ first.role = "owner" /\ first.is_active /\ ~first.scoped /\ ~A!Stranger.scoped
  BY DEF A!Stranger, A!Membership, A!MembershipRole
<1>3. A!NoRequest \in A!Request /\ A!NoRequest.op = "none"
  BY <1>2, CabinetConstants DEF A!NoRequest, A!Request, A!Operations, A!MembershipRole
<1>4. zero \in [Users -> Nat]  OBVIOUS
<1> HIDE DEF first, zero
<1>5. /\ member \in [Users -> A!Membership] /\ member[founder] = first
      /\ \A u \in Users : ~member[u].scoped
  BY <1>1, <1>2, CabinetConstants
<1>6. invite \in A!Invite /\ ~invite.scoped /\ invite.uses_count = MaxUses
  BY <1>1, CabinetConstants DEF A!Invite, A!MembershipRole
<1>7. past \in A!Past /\ past.out = {} /\ past.joined = {}  BY <1>1, <1>4 DEF A!Past
<1>8. request \in [Users -> A!Request] /\ \A u \in Users : request[u].op = "none"  BY <1>1, <1>3
<1>9. A!TypeOK  BY <1>1, <1>5, <1>6, <1>7, <1>8 DEF A!TypeOK
<1>10. A!_active_owner_count >= 1
  <2> DEFINE S == {u \in Users : member[u].joined /\ member[u].role = "owner" /\ member[u].is_active}
  <2>1. founder \in S  BY <1>2, <1>5, CabinetConstants
  <2>2. IsFiniteSet(S) /\ Cardinality(S) \in Nat  BY CabinetConstants, FS_Subset, FS_CardinalityType
  <2>3. Cardinality(S) # 0  BY <2>1, <2>2, FS_EmptySet
  <2>4. A!_active_owner_count = Cardinality(S)  BY CabinetConstants DEF A!_active_owner_count
  <2> HIDE DEF S
  <2>5. QED  BY <2>2, <2>3, <2>4
<1>11. Counted1  BY <1>6, <1>7, FS_EmptySet, CabinetConstants DEF Counted1
<1>12. QED  BY <1>1, <1>5, <1>6, <1>7, <1>8, <1>9, <1>10, <1>11 DEF OrgInv, Asked, Current, Fresh1, Scoped

LEMMA BeginIs ==
    ASSUME NEW u \in Users, NEW op, NEW target, NEW to, NEW flag, A!Begin(u, op, target, to, flag)
    PROVE  /\ request[u].op = "none"
           /\ request' = [request EXCEPT ![u] = [op |-> op, target |-> target, to |-> to, flag |-> flag,
                                                 read |-> member[target], uses |-> invite.uses_count,
                                                 number |-> invite.number]]
           /\ IF \E v \in Users : request[v].op # "none"
              THEN /\ past' = [overlapped |-> TRUE, out |-> past.out, joined |-> {}, changed |-> [v \in Users |-> 0]]
                   /\ session' = A!None
              ELSE past' = past /\ session' = session
           /\ member' = member /\ invite' = invite
BY Zenon DEF A!Begin, A!Idle

LEMMA BeginLoads ==
    ASSUME OrgInv, NEW u \in Users, NEW op \in A!Operations \ {"none"}, NEW target \in Users,
           NEW to \in A!MembershipRole, NEW flag \in BOOLEAN, A!Begin(u, op, target, to, flag),
           op \in {"register", "invite"} => (flag => to = "hiring_manager"),
           op = "register" => invite.uses_count < MaxUses,
           op \in Changing => member[target].joined,
           op = "scope" => (flag => member[target].role = "hiring_manager"),
           op = "deactivate" => member[target].is_active,
           op = "reactivate" => ~member[target].is_active,
           op \in {"role", "deactivate"} => A!_guard_last_owner(member[target])
    PROVE  \E q : Loads(u, q)
<1> DEFINE q == [op |-> op, target |-> target, to |-> to, flag |-> flag, read |-> member[target],
                 uses |-> invite.uses_count, number |-> invite.number]
<1>1. /\ q.op = op /\ q.target = target /\ q.to = to /\ q.flag = flag /\ q.read = member[target]
      /\ q.uses = invite.uses_count /\ q.number = invite.number
  OBVIOUS
<1>2. q \in A!Request
  <2>1. member[target] \in A!Membership /\ invite.uses_count \in Nat /\ invite.number \in Nat
    BY DEF OrgInv, A!TypeOK, A!Invite
  <2>2. QED  BY <2>1 DEF A!Request
<1>3. /\ request[u].op = "none" /\ request' = [request EXCEPT ![u] = q]
      /\ IF \E v \in Users : request[v].op # "none"
         THEN /\ past' = [overlapped |-> TRUE, out |-> past.out, joined |-> {}, changed |-> [v \in Users |-> 0]]
              /\ session' = A!None
         ELSE past' = past /\ session' = session
      /\ member' = member /\ invite' = invite
  BY Zenon DEF A!Begin, A!Idle
<1> HIDE DEF q
<1>4. Fits(q)  BY <1>1 DEF Fits
<1>5. Guarded(q)  BY <1>1 DEF Guarded
<1>6. Reads(q)  BY <1>1 DEF Reads
<1>7. Loads(u, q)  BY <1>1, <1>2, <1>3, <1>4, <1>5, <1>6, Zenon DEF Loads
<1>8. QED  BY <1>7

LEMMA LoadLoads ==
    ASSUME OrgInv, NEW u \in Users, A!Load(u)
    PROVE  \E q : Loads(u, q)
<1>1. /\ member \in [Users -> A!Membership] /\ invite \in A!Invite
      /\ \A v \in Users : member[v].role \in A!MembershipRole
      /\ invite.role \in A!MembershipRole /\ invite.scoped \in BOOLEAN
      /\ invite.scoped => invite.role = "hiring_manager"
  BY DEF OrgInv, A!TypeOK, A!Membership, A!Invite
<1>2. CASE A!register(u)
  <2>1. invite.uses_count < MaxUses /\ A!Begin(u, "register", u, invite.role, invite.scoped)
    BY <1>2, Zenon DEF A!register, A!invite_active
  <2>2. QED  BY <1>1, <2>1, BeginLoads DEF A!Operations, Changing
<1>3. CASE A!logout_everywhere(u)
  <2>1. member[u].joined /\ A!Begin(u, "logout", u, member[u].role, FALSE)  BY <1>3, Zenon DEF A!logout_everywhere
  <2>2. QED  BY <1>1, <2>1, BeginLoads DEF A!Operations, Changing
<1>4. CASE A!revoke_invite(u)
  <2>1. A!Begin(u, "revoke", u, "owner", FALSE)  BY <1>4, Zenon DEF A!revoke_invite
  <2>2. QED  BY <1>1, <2>1, BeginLoads DEF A!Operations, A!MembershipRole, Changing
<1>5. ASSUME NEW role \in A!MembershipRole, NEW scoped \in BOOLEAN, A!create_invite(u, role, scoped)
      PROVE  \E q : Loads(u, q)
  <2>1. (scoped => role = "hiring_manager") /\ A!Begin(u, "invite", u, role, scoped)
    BY <1>5, Zenon DEF A!create_invite
  <2>2. QED  BY <1>1, <2>1, BeginLoads DEF A!Operations, Changing
<1>6. ASSUME NEW target \in Users, A!deactivate_member(u, target)  PROVE \E q : Loads(u, q)
  <2>1. /\ member[target].joined /\ member[target].is_active /\ A!_guard_last_owner(member[target])
        /\ A!Begin(u, "deactivate", target, member[target].role, FALSE)
    BY <1>6, Zenon DEF A!deactivate_member
  <2>2. QED  BY <1>1, <2>1, BeginLoads DEF A!Operations, Changing
<1>7. ASSUME NEW target \in Users, A!reactivate_member(u, target)  PROVE \E q : Loads(u, q)
  <2>1. /\ member[target].joined /\ ~member[target].is_active
        /\ A!Begin(u, "reactivate", target, member[target].role, FALSE)
    BY <1>7, Zenon DEF A!reactivate_member
  <2>2. QED  BY <1>1, <2>1, BeginLoads DEF A!Operations, Changing
<1>8. ASSUME NEW target \in Users, NEW to \in A!MembershipRole, A!update_role(u, target, to)
      PROVE  \E q : Loads(u, q)
  <2>1. /\ member[target].joined /\ A!_guard_last_owner(member[target]) /\ A!Begin(u, "role", target, to, FALSE)
    BY <1>8, Zenon DEF A!update_role
  <2>2. QED  BY <1>1, <2>1, BeginLoads DEF A!Operations, Changing
<1>9. ASSUME NEW target \in Users, NEW flag \in BOOLEAN, A!update_scope(u, target, flag)
      PROVE  \E q : Loads(u, q)
  <2>1. /\ member[target].joined /\ (flag => member[target].role = "hiring_manager")
        /\ A!Begin(u, "scope", target, member[target].role, flag)
    BY <1>9, Zenon DEF A!update_scope
  <2>2. QED  BY <1>1, <2>1, BeginLoads DEF A!Operations, Changing
<1>10. QED  BY <1>2, <1>3, <1>4, <1>5, <1>6, <1>7, <1>8, <1>9, Zenon DEF A!Load

LEMMA OrgLoads ==
    ASSUME OrgInv, NEW u \in Users, NEW q, Loads(u, q)
    PROVE  OrgInv'
<1>1. /\ q \in A!Request /\ q.op # "none" /\ Fits(q) /\ Guarded(q) /\ Reads(q)
      /\ request[u].op = "none" /\ request' = [request EXCEPT ![u] = q]
      /\ member' = member /\ invite' = invite
  BY DEF Loads
<1>2. /\ request \in [Users -> A!Request] /\ member \in [Users -> A!Membership] /\ invite \in A!Invite
      /\ session \in A!Session \cup {A!None} /\ past \in A!Past
  BY DEF OrgInv, A!TypeOK
<1>3. /\ request' \in [Users -> A!Request] /\ request'[u] = q
      /\ \A v \in Users \ {u} : request'[v] = request[v]
  BY <1>1, <1>2
<1>4. /\ past' \in A!Past /\ past'.out = past.out /\ session' \in A!Session \cup {A!None}
      /\ ~past'.overlapped => /\ ~past.overlapped /\ past' = past /\ session' = session
                              /\ \A v \in Users : request[v].op = "none"
  <2>1. CASE \E v \in Users : request[v].op # "none"
    <3> DEFINE zero == [v \in Users |-> 0]
    <3>1. past' = [overlapped |-> TRUE, out |-> past.out, joined |-> {}, changed |-> zero] /\ session' = A!None
      BY <2>1, Zenon DEF Loads
    <3>2. zero \in [Users -> Nat]  OBVIOUS
    <3> HIDE DEF zero
    <3>3. QED  BY <1>2, <3>1, <3>2 DEF A!Past
  <2>2. CASE ~(\E v \in Users : request[v].op # "none")
    <3>1. past' = past /\ session' = session  BY <2>2, Zenon DEF Loads
    <3>2. QED  BY <1>2, <2>2, <3>1
  <2>3. QED  BY <2>1, <2>2
<1>5. A!TypeOK'  BY <1>1, <1>2, <1>3, <1>4 DEF A!TypeOK
<1>6. Asked'
  <2>1. q.op \in Changing => member[q.target].joined  BY <1>1 DEF Fits, Reads
  <2> SUFFICES ASSUME NEW v \in Users, request'[v].op # "none"
               PROVE  /\ Fits(request'[v])
                      /\ request'[v].op \in Changing => member'[request'[v].target].joined
    BY DEF Asked, Fits, Changing
  <2>2. CASE v = u  BY <1>1, <1>3, <2>1, <2>2
  <2>3. CASE v # u  BY <1>1, <1>3, <2>3 DEF OrgInv, Asked
  <2>4. QED  BY <2>2, <2>3
<1>7. ASSUME ~past'.overlapped
      PROVE  Current' /\ A!_active_owner_count' >= 1 /\ Counted1' /\ Fresh1' /\ Scoped'
  <2>1. ~past.overlapped /\ past' = past /\ session' = session /\ \A v \in Users : request[v].op = "none"
    BY <1>4, <1>7
  <2>2. A!_active_owner_count' = A!_active_owner_count  BY <1>1 DEF A!_active_owner_count
  <2>3. Guarded(q)' /\ Reads(q)'
    BY <1>1, <2>2 DEF Guarded, Reads, A!_guard_last_owner
  <2>4. Current'
    <3> SUFFICES ASSUME NEW v \in Users, request'[v].op # "none"
                 PROVE  /\ Reads(request[v])' /\ Guarded(request[v])'
                        /\ \A w \in Users \ {v} : request'[w].op = "none"
      BY DEF Current
    <3>1. v = u  BY <1>3, <2>1
    <3>2. request'[v] = q  BY <1>3, <3>1
    <3>3. QED  BY <1>3, <2>1, <2>3, <3>1, <3>2 DEF Reads, Guarded, A!_guard_last_owner
  <2>5. Counted1' /\ Fresh1' /\ Scoped'  BY <1>1, <2>1 DEF OrgInv, Counted1, Fresh1, Scoped
  <2>6. QED  BY <2>1, <2>2, <2>4, <2>5 DEF OrgInv
<1>8. QED  BY <1>1, <1>4, <1>5, <1>6, <1>7 DEF OrgInv

\* What a change writes, column by column.
LEMMA WrittenIs ==
    ASSUME NEW q \in A!Request, NEW now0 \in A!Membership
    PROVE  /\ A!Written(q, now0) \in A!Membership
           /\ A!Written(q, now0).joined = now0.joined
           /\ A!Written(q, now0).role = IF q.op = "role" THEN q.to ELSE now0.role
           /\ (q.op = "deactivate" /\ q.read.is_active) => ~A!Written(q, now0).is_active
           /\ q.op \notin {"deactivate", "reactivate"} => A!Written(q, now0).is_active = now0.is_active
           /\ (q.op = "reactivate" /\ ~q.read.is_active) => A!Written(q, now0).is_active
           /\ q.op \in A!Bumps => A!Written(q, now0).version = q.read.version + 1
           /\ q.op \notin A!Bumps => A!Written(q, now0).version = now0.version
           /\ q.op \notin {"role", "scope"} => A!Written(q, now0).scoped = now0.scoped
           /\ (q.op = "scope" /\ ~q.flag /\ q.read = now0) => ~A!Written(q, now0).scoped
           /\ (q.op = "role" /\ q.to # "hiring_manager" /\ q.read = now0) => ~A!Written(q, now0).scoped
           /\ (q.op = "role" /\ q.to = "hiring_manager") => A!Written(q, now0).scoped = now0.scoped
<1> DEFINE scoped == CASE q.op = "scope" -> q.flag
                       [] q.op = "role" /\ q.to # "hiring_manager" -> FALSE
                       [] OTHER -> q.read.scoped
           version == IF q.op \in A!Bumps THEN q.read.version + 1 ELSE q.read.version
           active == CASE q.op = "deactivate" -> FALSE [] q.op = "reactivate" -> TRUE [] OTHER -> q.read.is_active
           role1 == IF q.op = "role" THEN q.to ELSE now0.role
           scoped1 == IF scoped = q.read.scoped THEN now0.scoped ELSE scoped
           active1 == IF active = q.read.is_active THEN now0.is_active ELSE active
           version1 == IF version = q.read.version THEN now0.version ELSE version
           W == A!Written(q, now0)
<1>1. W = [now0 EXCEPT !.role = role1, !.scoped = scoped1, !.is_active = active1, !.version = version1]
  BY Zenon DEF A!Written, A!Column
<1>2. /\ q.read \in A!Membership /\ q.to \in A!MembershipRole /\ q.flag \in BOOLEAN
      /\ q.read.version \in Nat /\ q.read.scoped \in BOOLEAN /\ q.read.is_active \in BOOLEAN
      /\ now0.version \in Nat /\ now0.scoped \in BOOLEAN /\ now0.is_active \in BOOLEAN /\ now0.joined \in BOOLEAN
      /\ now0.role \in A!MembershipRole
  BY DEF A!Request, A!Membership
<1>3. role1 \in A!MembershipRole  BY <1>2
<1>4. /\ scoped1 \in BOOLEAN
      /\ q.op \notin {"role", "scope"} => scoped1 = now0.scoped
      /\ (q.op = "scope" /\ ~q.flag /\ q.read = now0) => ~scoped1
      /\ (q.op = "role" /\ q.to # "hiring_manager" /\ q.read = now0) => ~scoped1
      /\ (q.op = "role" /\ q.to = "hiring_manager") => scoped1 = now0.scoped
  BY <1>2
<1>5. /\ active1 \in BOOLEAN
      /\ (q.op = "deactivate" /\ q.read.is_active) => ~active1
      /\ q.op \notin {"deactivate", "reactivate"} => active1 = now0.is_active
      /\ (q.op = "reactivate" /\ ~q.read.is_active) => active1
  BY <1>2
<1>6. /\ version1 \in Nat
      /\ q.op \in A!Bumps => version1 = q.read.version + 1
      /\ q.op \notin A!Bumps => version1 = now0.version
  BY <1>2
<1> HIDE DEF scoped, version, active, scoped1, active1, version1
<1>7. W.joined = now0.joined /\ W.role = role1 /\ W.scoped = scoped1 /\ W.is_active = active1 /\ W.version = version1
  BY <1>1 DEF A!Membership
<1>8. W \in A!Membership  BY <1>1, <1>2, <1>3, <1>4, <1>5, <1>6 DEF A!Membership
<1> HIDE DEF W
<1>9. /\ W \in A!Membership
      /\ W.joined = now0.joined
      /\ W.role = IF q.op = "role" THEN q.to ELSE now0.role
      /\ (q.op = "deactivate" /\ q.read.is_active) => ~W.is_active
      /\ q.op \notin {"deactivate", "reactivate"} => W.is_active = now0.is_active
      /\ (q.op = "reactivate" /\ ~q.read.is_active) => W.is_active
      /\ q.op \in A!Bumps => W.version = q.read.version + 1
      /\ q.op \notin A!Bumps => W.version = now0.version
      /\ q.op \notin {"role", "scope"} => W.scoped = now0.scoped
      /\ (q.op = "scope" /\ ~q.flag /\ q.read = now0) => ~W.scoped
      /\ (q.op = "role" /\ q.to # "hiring_manager" /\ q.read = now0) => ~W.scoped
      /\ (q.op = "role" /\ q.to = "hiring_manager") => W.scoped = now0.scoped
  BY <1>4, <1>5, <1>6, <1>7, <1>8
<1>10. QED  BY <1>9, Zenon DEF W

LEMMA OwnersCount ==
    IsFiniteSet(Owners) /\ Cardinality(Owners) \in Nat /\ A!_active_owner_count = Cardinality(Owners)
<1>1. A!_active_owner_count = Cardinality(Owners)  BY CabinetConstants DEF A!_active_owner_count, Owners
<1>2. Owners \subseteq Users  BY DEF Owners
<1>3. QED  BY <1>1, <1>2, CabinetConstants, FS_Subset, FS_CardinalityType

\* A set that loses at most one of more than one member keeps one; one that loses none keeps its own.
LEMMA OneRemains ==
    ASSUME NEW S, NEW R, IsFiniteSet(S), IsFiniteSet(R), NEW x, S \ {x} \subseteq R,
           Cardinality(S) >= 1, x \in S => (x \in R \/ Cardinality(S) > 1)
    PROVE  Cardinality(R) >= 1
<1>1. Cardinality(S) \in Nat /\ Cardinality(R) \in Nat  BY FS_CardinalityType
<1>2. CASE S \subseteq R
  <2>1. Cardinality(S) <= Cardinality(R)  BY <1>2, FS_Subset
  <2>2. QED  BY <1>1, <2>1
<1>3. CASE ~(S \subseteq R)
  <2>1. x \in S /\ Cardinality(S) > 1  BY <1>3
  <2>2. IsFiniteSet(S \ {x}) /\ Cardinality(S \ {x}) = Cardinality(S) - 1  BY <2>1, FS_RemoveElement
  <2>3. Cardinality(S \ {x}) <= Cardinality(R)  BY FS_Subset
  <2>4. QED  BY <1>1, <2>1, <2>2, <2>3
<1>4. QED  BY <1>2, <1>3

\* What the commit of a request leaves of the rest.
LEMMA CommitEnds ==
    ASSUME OrgInv, NEW u \in Users, request[u].op # "none", request' = [request EXCEPT ![u] = A!NoRequest],
           member' \in [Users -> A!Membership], \A v \in Users : member[v].joined => member'[v].joined
    PROVE  /\ request' \in [Users -> A!Request] /\ Asked'
           /\ ~past.overlapped => \A v \in Users : request'[v].op = "none"
<1>1. request \in [Users -> A!Request]  BY DEF OrgInv, A!TypeOK
<1>2. A!NoRequest \in A!Request /\ A!NoRequest.op = "none"
  BY CabinetConstants DEF A!NoRequest, A!Request, A!Operations, A!MembershipRole, A!Stranger, A!Membership
<1>3. request' \in [Users -> A!Request] /\ \A v \in Users : request'[v] = IF v = u THEN A!NoRequest ELSE request[v]
  BY <1>1, <1>2
<1>4. Asked'
  <2> SUFFICES ASSUME NEW v \in Users, request'[v].op # "none"
               PROVE  /\ Fits(request'[v])
                      /\ request'[v].op \in Changing => member'[request'[v].target].joined
    BY DEF Asked, Fits, Changing
  <2>1. v # u /\ request'[v] = request[v]  BY <1>2, <1>3
  <2>2. request[v].target \in Users  BY <1>1 DEF A!Request
  <2>3. QED  BY <2>1, <2>2 DEF OrgInv, Asked
<1>5. ASSUME ~past.overlapped, NEW v \in Users  PROVE request'[v].op = "none"
  <2>1. CASE v = u  BY <1>2, <1>3, <2>1
  <2>2. CASE v # u  BY <1>3, <1>5, <2>2 DEF OrgInv, Current
  <2>3. QED  BY <2>1, <2>2
<1>6. QED  BY <1>3, <1>4, <1>5

LEMMA OrgRegisters ==
    ASSUME OrgInv, NEW u \in Users, request[u].op = "register", A!Accepts(u),
           request' = [request EXCEPT ![u] = A!NoRequest], session' = session
    PROVE  OrgInv'
<1> DEFINE q == request[u]
           new == [A!Stranger EXCEPT !.joined = TRUE, !.role = q.to, !.scoped = q.flag]
<1>1. /\ member \in [Users -> A!Membership] /\ invite \in A!Invite /\ past \in A!Past
      /\ session \in A!Session \cup {A!None} /\ request \in [Users -> A!Request] /\ q \in A!Request
  BY DEF OrgInv, A!TypeOK
<1>2. CASE member[u].joined
  <2>1. member' = member /\ invite' = invite /\ past' = past  BY <1>2, Zenon DEF A!Accepts
  <2>2. request' \in [Users -> A!Request] /\ Asked' /\ (~past.overlapped => \A v \in Users : request'[v].op = "none")
    BY <1>1, <2>1, CommitEnds
  <2>3. A!TypeOK'  BY <1>1, <2>1, <2>2 DEF A!TypeOK
  <2>4. A!_active_owner_count' = A!_active_owner_count  BY <2>1 DEF A!_active_owner_count
  <2>5. QED  BY <2>1, <2>2, <2>3, <2>4 DEF OrgInv, Current, Counted1, Fresh1, Scoped
<1>3. CASE ~member[u].joined
  <2>1. /\ member' = [member EXCEPT ![u] = new]
        /\ invite' = IF q.number = invite.number THEN [invite EXCEPT !.uses_count = q.uses + 1] ELSE invite
        /\ past' = IF ~past.overlapped THEN [past EXCEPT !.joined = past.joined \cup {u}] ELSE past
    BY <1>3, Zenon DEF A!Accepts, A!Alone
  <2>2. /\ new \in A!Membership /\ new.joined /\ new.scoped = q.flag /\ new.role = q.to
    BY <1>1 DEF A!Stranger, A!Membership, A!MembershipRole, A!Request
  <2> HIDE DEF new
  <2>3. member' \in [Users -> A!Membership] /\ \A v \in Users : member'[v] = IF v = u THEN new ELSE member[v]
    BY <1>1, <2>1, <2>2
  <2>4. /\ invite' \in A!Invite /\ invite'.scoped = invite.scoped /\ invite'.role = invite.role
        /\ q.number = invite.number => invite'.uses_count = q.uses + 1
    BY <1>1, <2>1 DEF A!Invite, A!Request
  <2>5. /\ past' \in A!Past /\ past'.out = past.out /\ past'.overlapped = past.overlapped
        /\ past'.changed = past.changed
        /\ ~past.overlapped => past'.joined = past.joined \cup {u}
    BY <1>1, <2>1 DEF A!Past
  <2>6. request' \in [Users -> A!Request] /\ Asked' /\ (~past.overlapped => \A v \in Users : request'[v].op = "none")
    BY <2>2, <2>3, CommitEnds
  <2>7. A!TypeOK'  BY <1>1, <2>3, <2>4, <2>5, <2>6 DEF A!TypeOK
  <2>8. \A v \in past'.out : member'[v].joined /\ ~member'[v].is_active
    BY <1>1, <1>3, <2>3, <2>5 DEF OrgInv, A!Past
  <2>9. ASSUME ~past'.overlapped
        PROVE  Current' /\ A!_active_owner_count' >= 1 /\ Counted1' /\ Fresh1' /\ Scoped'
    <3>1. Reads(q) /\ Fits(q)  BY <2>5, <2>9 DEF OrgInv, Current, Asked
    <3>2. Current'  BY <2>5, <2>6, <2>9 DEF Current
    <3>3. A!_active_owner_count' >= 1
      <4>1. Owners \subseteq Owners'  BY <1>3, <2>3 DEF Owners
      <4>2. IsFiniteSet(Owners)' /\ A!_active_owner_count' = Cardinality(Owners')
        <5>1. A!_active_owner_count' = Cardinality(Owners')
          BY CabinetConstants DEF A!_active_owner_count, Owners
        <5>2. Owners' \subseteq Users  BY DEF Owners
        <5>3. QED  BY <5>1, <5>2, CabinetConstants, FS_Subset
      <4>3. Cardinality(Owners) >= 1  BY <2>5, <2>9, OwnersCount DEF OrgInv
      <4>4. Cardinality(Owners) <= Cardinality(Owners') /\ Cardinality(Owners') \in Nat
        BY <4>1, <4>2, FS_Subset, FS_CardinalityType
      <4>5. QED  BY <4>2, <4>3, <4>4, OwnersCount
    <3>4. Counted1'
      <4>1. /\ q.uses = invite.uses_count /\ q.uses < MaxUses /\ invite'.uses_count = invite.uses_count + 1
        BY <2>4, <3>1 DEF Reads, Fits
      <4>2. invite.uses_count \in Nat /\ past.joined \subseteq Users  BY <1>1 DEF A!Invite, A!Past
      <4>3. IsFiniteSet(past.joined) /\ Cardinality(past.joined) \in Nat
        BY <4>2, CabinetConstants, FS_Subset, FS_CardinalityType
      <4>4. Cardinality(past'.joined) \in Nat /\ Cardinality(past'.joined) <= Cardinality(past.joined) + 1
        <5>1. past'.joined = past.joined \cup {u}  BY <2>5, <2>9
        <5>2. Cardinality(past.joined \cup {u}) =
                IF u \in past.joined THEN Cardinality(past.joined) ELSE Cardinality(past.joined) + 1
          BY <4>3, FS_AddElement, Zenon
        <5>3. QED  BY <4>3, <5>1, <5>2
      <4>5. Cardinality(past.joined) <= invite.uses_count  BY <2>5, <2>9 DEF OrgInv, Counted1
      <4>6. QED  BY <4>1, <4>2, <4>3, <4>4, <4>5, CabinetConstants DEF Counted1
    <3>5. Fresh1'
      <4>1. ASSUME session # A!None  PROVE session.user # u
        BY <1>3, <2>5, <2>9, <4>1 DEF OrgInv, Fresh1
      <4>2. ASSUME session # A!None  PROVE session.user \in Users  BY <1>1, <4>2 DEF A!Session
      <4>3. A!None' = A!None  BY DEF A!None
      <4>4. QED  BY <2>3, <2>5, <2>9, <4>1, <4>2, <4>3 DEF OrgInv, Fresh1
    <3>6. Scoped'  BY <2>2, <2>3, <2>5, <2>9, <3>1 DEF OrgInv, Scoped, Fits
    <3>7. QED  BY <3>2, <3>3, <3>4, <3>5, <3>6
  <2>10. QED  BY <2>4, <2>6, <2>7, <2>8, <2>9 DEF OrgInv
<1>4. QED  BY <1>2, <1>3

LEMMA OrgChanges ==
    ASSUME OrgInv, NEW u \in Users, request[u].op \in Changing, A!Changes(u),
           request' = [request EXCEPT ![u] = A!NoRequest], session' = session
    PROVE  OrgInv'
<1> DEFINE q == request[u]
           t == q.target
           new == A!Written(q, member[t])
           out1 == CASE q.op = "deactivate" -> past.out \cup {t}
                     [] q.op = "reactivate" -> past.out \ {t} [] OTHER -> past.out
           often == IF ~past.overlapped /\ q.op # "reactivate" THEN past.changed[t] + 1 ELSE past.changed[t]
<1>1. /\ member \in [Users -> A!Membership] /\ invite \in A!Invite /\ past \in A!Past
      /\ session \in A!Session \cup {A!None} /\ request \in [Users -> A!Request] /\ q \in A!Request
      /\ t \in Users /\ member[t] \in A!Membership
  BY DEF OrgInv, A!TypeOK, A!Request
<1>2. /\ member' = [member EXCEPT ![t] = new] /\ invite' = invite
      /\ past' = [past EXCEPT !.out = out1, !.changed[t] = often]
  BY Zenon DEF A!Changes, A!Alone
<1>3. Fits(q) /\ member[t].joined /\ q.op # "none"  BY DEF OrgInv, Asked, Changing
<1>4. past' \in A!Past /\ past'.out = out1 /\ past'.overlapped = past.overlapped /\ past'.joined = past.joined
      /\ past'.changed = [past.changed EXCEPT ![t] = often]
  <2>1. out1 \subseteq Users /\ often \in Nat /\ past.changed \in [Users -> Nat]  BY <1>1 DEF A!Past
  <2> HIDE DEF out1, often
  <2>2. QED  BY <1>1, <1>2, <2>1 DEF A!Past
<1>5. /\ new \in A!Membership /\ new.joined = member[t].joined
      /\ new.role = IF q.op = "role" THEN q.to ELSE member[t].role
      /\ (q.op = "deactivate" /\ q.read.is_active) => ~new.is_active
      /\ q.op \notin {"deactivate", "reactivate"} => new.is_active = member[t].is_active
      /\ (q.op = "reactivate" /\ ~q.read.is_active) => new.is_active
      /\ q.op \in A!Bumps => new.version = q.read.version + 1
      /\ q.op \notin A!Bumps => new.version = member[t].version
      /\ q.op \notin {"role", "scope"} => new.scoped = member[t].scoped
      /\ (q.op = "scope" /\ ~q.flag /\ q.read = member[t]) => ~new.scoped
      /\ (q.op = "role" /\ q.to # "hiring_manager" /\ q.read = member[t]) => ~new.scoped
      /\ (q.op = "role" /\ q.to = "hiring_manager") => new.scoped = member[t].scoped
  BY <1>1, WrittenIs, ZenonT(60)
<1> HIDE DEF new
<1>6. member' \in [Users -> A!Membership] /\ \A v \in Users : member'[v] = IF v = t THEN new ELSE member[v]
  BY <1>1, <1>2, <1>5
<1>7. request' \in [Users -> A!Request] /\ Asked' /\ (~past.overlapped => \A v \in Users : request'[v].op = "none")
  BY <1>3, <1>5, <1>6, CommitEnds
<1>8. A!TypeOK'  BY <1>1, <1>2, <1>4, <1>6, <1>7 DEF A!TypeOK
<1>9. \A v \in past'.out : member'[v].joined /\ ~member'[v].is_active
  <2>1. past.out \subseteq Users /\ out1 \subseteq Users  BY <1>1 DEF A!Past
  <2>2. \A v \in past.out : member[v].joined /\ ~member[v].is_active  BY DEF OrgInv
  <2>3. CASE q.op = "deactivate"
    <3>1. past'.out = past.out \cup {t}  BY <1>4, <2>3
    <3>2. new.joined /\ ~new.is_active  BY <1>3, <1>5, <2>3 DEF Fits
    <3> SUFFICES ASSUME NEW v \in past'.out  PROVE member'[v].joined /\ ~member'[v].is_active
      OBVIOUS
    <3>3. CASE v = t  BY <1>1, <1>6, <3>2, <3>3
    <3>4. CASE v # t
      <4>1. v \in past.out /\ v \in Users  BY <2>1, <3>1, <3>4
      <4>2. member'[v] = member[v]  BY <1>6, <3>4, <4>1
      <4>3. QED  BY <2>2, <4>1, <4>2
    <3>5. QED  BY <3>3, <3>4
  <2>4. CASE q.op = "reactivate"  BY <1>3, <1>4, <1>5, <1>6, <2>1, <2>2, <2>4 DEF Fits
  <2>5. CASE q.op \notin {"deactivate", "reactivate"}  BY <1>3, <1>4, <1>5, <1>6, <2>1, <2>2, <2>5
  <2>6. QED  BY <2>3, <2>4, <2>5
<1>10. ASSUME ~past'.overlapped
       PROVE  Current' /\ A!_active_owner_count' >= 1 /\ Counted1' /\ Fresh1' /\ Scoped'
  <2>1. ~past.overlapped /\ q.read = member[t] /\ Guarded(q)  BY <1>3, <1>4, <1>10 DEF OrgInv, Current, Reads
  <2>2. Current'  BY <1>4, <1>7, <1>10 DEF Current
  <2>3. A!_active_owner_count' >= 1
    <3>1. IsFiniteSet(Owners') /\ A!_active_owner_count' = Cardinality(Owners')
      <4>1. A!_active_owner_count' = Cardinality(Owners')
        BY CabinetConstants DEF A!_active_owner_count, Owners
      <4>2. Owners' \subseteq Users  BY DEF Owners
      <4>3. QED  BY <4>1, <4>2, CabinetConstants, FS_Subset
    <3>2. Owners \ {t} \subseteq Owners'  BY <1>6 DEF Owners
    <3>3. Cardinality(Owners) >= 1  BY <2>1, OwnersCount DEF OrgInv
    <3>4. t \in Owners => (t \in Owners' \/ Cardinality(Owners) > 1)
      <4>1. CASE q.op \in {"role", "deactivate"}
        <5>1. A!_guard_last_owner(member[t])  BY <2>1, <4>1 DEF Guarded
        <5>2. QED  BY <5>1, OwnersCount DEF A!_guard_last_owner, Owners
      <4>2. CASE q.op \notin {"role", "deactivate"}
        BY <1>1, <1>3, <1>5, <1>6, <2>1, <4>2 DEF Owners, Fits
      <4>3. QED  BY <4>1, <4>2
    <3>5. Cardinality(Owners') >= 1  BY <3>1, <3>2, <3>3, <3>4, OwnersCount, OneRemains
    <3>6. QED  BY <3>1, <3>5
  <2>4. Counted1'  BY <1>2, <1>4, <2>1 DEF OrgInv, Counted1
  <2>5. Fresh1'
    <3> SUFFICES ASSUME session # A!None
                 PROVE  /\ member'[session.user].joined /\ session.version <= member'[session.user].version
                        /\ session.version = member'[session.user].version
                             => session.since = past'.changed[session.user]
      BY DEF Fresh1, A!None
    <3>1. /\ session.user \in Users /\ session.version \in Nat
          /\ member[session.user].joined /\ session.version <= member[session.user].version
          /\ session.version = member[session.user].version => session.since = past.changed[session.user]
      BY <1>1, <2>1 DEF OrgInv, Fresh1, A!Session
    <3>2. past.changed \in [Users -> Nat]  BY <1>1 DEF A!Past
    <3>3. CASE session.user # t  BY <1>4, <1>6, <3>1, <3>2, <3>3
    <3>4. CASE session.user = t
      <4>1. member'[t] = new /\ member[t].version \in Nat  BY <1>1, <1>6 DEF A!Membership
      <4>2. CASE q.op = "reactivate"
        <5>1. new.version = member[t].version  BY <1>5, <4>2 DEF A!Bumps
        <5>2. past'.changed[t] = past.changed[t]  BY <1>1, <1>4, <3>2, <4>2
        <5>3. QED  BY <1>5, <3>1, <3>4, <4>1, <5>1, <5>2
      <4>3. CASE q.op # "reactivate"
        <5>1. new.version = member[t].version + 1  BY <1>5, <2>1, <4>3 DEF A!Bumps, Changing
        <5>2. QED  BY <1>5, <3>1, <3>4, <4>1, <5>1
      <4>4. QED  BY <4>2, <4>3
    <3>5. QED  BY <3>3, <3>4
  <2>6. Scoped'
    <3> SUFFICES ASSUME NEW v \in Users, member'[v].scoped  PROVE member'[v].role = "hiring_manager"
      BY DEF Scoped
    <3>1. member[v].scoped => member[v].role = "hiring_manager"  BY <2>1 DEF OrgInv, Scoped
    <3>2. CASE v # t  BY <1>6, <3>1, <3>2
    <3>3. CASE v = t
      <4>1. member'[v] = new /\ new.scoped  BY <1>6, <3>3
      <4>2. CASE q.op = "role"  BY <1>5, <2>1, <3>3, <4>1, <4>2
      <4>3. CASE q.op = "scope"
        <5>1. q.flag /\ member[t].role = "hiring_manager"  BY <1>3, <1>5, <2>1, <4>1, <4>3 DEF Fits
        <5>2. QED  BY <1>5, <4>1, <4>3, <5>1
      <4>4. CASE q.op \notin {"role", "scope"}  BY <1>5, <3>1, <3>3, <4>1, <4>4
      <4>5. QED  BY <4>2, <4>3, <4>4
    <3>4. QED  BY <3>2, <3>3
  <2>7. QED  BY <2>2, <2>3, <2>4, <2>5, <2>6
<1>11. QED  BY <1>2, <1>4, <1>7, <1>8, <1>9, <1>10 DEF OrgInv

LEMMA OrgCommits ==
    ASSUME OrgInv, NEW u \in Users, A!Commit(u)
    PROVE  OrgInv'
<1> DEFINE q == request[u]
<1>1. /\ member \in [Users -> A!Membership] /\ invite \in A!Invite /\ past \in A!Past
      /\ session \in A!Session \cup {A!None} /\ request \in [Users -> A!Request] /\ q \in A!Request
  BY DEF OrgInv, A!TypeOK
<1>2. q.op # "none" /\ request' = [request EXCEPT ![u] = A!NoRequest] /\ session' = session
  BY Zenon DEF A!Commit, A!Idle
<1>3. CASE q.op = "register"
  <2>1. A!Accepts(u)  BY <1>3, Zenon DEF A!Commit
  <2>2. QED  BY <1>2, <1>3, <2>1, OrgRegisters
<1>4. CASE q.op = "revoke"
  <2>1. invite' = [invite EXCEPT !.revoked = TRUE] /\ member' = member /\ past' = past
    BY <1>4, Zenon DEF A!Commit
  <2>2. invite' \in A!Invite /\ invite'.scoped = invite.scoped /\ invite'.role = invite.role
        /\ invite'.uses_count = invite.uses_count
    BY <1>1, <2>1 DEF A!Invite
  <2>3. request' \in [Users -> A!Request] /\ Asked' /\ (~past.overlapped => \A v \in Users : request'[v].op = "none")
    BY <1>1, <1>2, <2>1, CommitEnds
  <2>4. A!TypeOK'  BY <1>1, <1>2, <2>1, <2>2, <2>3 DEF A!TypeOK
  <2>5. A!_active_owner_count' = A!_active_owner_count  BY <2>1 DEF A!_active_owner_count
  <2>6. QED  BY <1>2, <2>1, <2>2, <2>3, <2>4, <2>5 DEF OrgInv, Current, Counted1, Fresh1, Scoped, A!None
<1>5. CASE q.op = "invite"
  <2>1. /\ invite' = [number |-> invite.number + 1, role |-> q.to, scoped |-> q.flag,
                      uses_count |-> 0, revoked |-> FALSE]
        /\ past' = [past EXCEPT !.joined = {}] /\ member' = member
    BY <1>5, Zenon DEF A!Commit
  <2>2. /\ invite' \in A!Invite /\ invite'.uses_count = 0
        /\ invite'.scoped => invite'.role = "hiring_manager"
    BY <1>1, <1>2, <1>5, <2>1 DEF A!Invite, A!Request, OrgInv, Asked, Fits
  <2>3. past' \in A!Past /\ past'.out = past.out /\ past'.overlapped = past.overlapped
        /\ past'.changed = past.changed /\ past'.joined = {}
    BY <1>1, <2>1 DEF A!Past
  <2>4. request' \in [Users -> A!Request] /\ Asked' /\ (~past.overlapped => \A v \in Users : request'[v].op = "none")
    BY <1>1, <1>2, <2>1, CommitEnds
  <2>5. A!TypeOK'  BY <1>1, <1>2, <2>1, <2>2, <2>3, <2>4 DEF A!TypeOK
  <2>6. A!_active_owner_count' = A!_active_owner_count  BY <2>1 DEF A!_active_owner_count
  <2>7. Counted1'  BY <2>2, <2>3, CabinetConstants, FS_EmptySet DEF Counted1
  <2>8. QED  BY <1>2, <2>1, <2>2, <2>3, <2>4, <2>5, <2>6, <2>7 DEF OrgInv, Current, Fresh1, Scoped, A!None
<1>6. CASE q.op \notin {"register", "revoke", "invite"}
  <2>1. A!Changes(u)
    <3>1. q.op # "register" /\ q.op # "revoke" /\ q.op # "invite"  BY <1>6
    <3>2. QED  BY <3>1, Zenon DEF A!Commit
  <2>2. q.op \in Changing  BY <1>1, <1>2, <1>6 DEF A!Request, A!Operations, Changing
  <2>3. QED  BY <1>2, <2>1, <2>2, OrgChanges
<1>7. QED  BY <1>3, <1>4, <1>5, <1>6

\* A token is new when it is issued.
LEMMA OrgLogsIn ==
    ASSUME OrgInv, NEW u \in Users, A!login(u)
    PROVE  OrgInv'
<1>1. /\ ~past.overlapped /\ member[u].joined
      /\ session' = [user |-> u, version |-> member[u].version, since |-> past.changed[u]]
      /\ member' = member /\ invite' = invite /\ request' = request /\ past' = past
  BY Zenon DEF A!login, A!Alone
<1>2. member \in [Users -> A!Membership] /\ past \in A!Past  BY DEF OrgInv, A!TypeOK
<1>3. member[u].version \in Nat /\ past.changed[u] \in Nat  BY <1>2 DEF A!Membership, A!Past
<1>4. session' \in A!Session  BY <1>1, <1>3 DEF A!Session
<1>5. A!TypeOK'  BY <1>1, <1>4 DEF OrgInv, A!TypeOK
<1>6. Fresh1'  BY <1>1, <1>3 DEF Fresh1
<1>7. Current' /\ Asked' /\ Counted1' /\ Scoped'
  BY <1>1 DEF OrgInv, Current, Asked, Counted1, Scoped, Reads, Guarded, Fits, Changing,
              A!_guard_last_owner, A!_active_owner_count
<1>8. A!_active_owner_count' = A!_active_owner_count  BY <1>1 DEF A!_active_owner_count
<1>9. QED  BY <1>1, <1>5, <1>6, <1>7, <1>8 DEF OrgInv

LEMMA OrgNext == ASSUME OrgInv, A!Next  PROVE OrgInv'
<1>1. PICK u \in Users : A!Load(u) \/ A!Commit(u) \/ A!login(u)  BY Zenon DEF A!Next
<1>2. CASE A!Load(u)  BY <1>2, LoadLoads, OrgLoads
<1>3. CASE A!Commit(u)  BY <1>3, OrgCommits
<1>4. CASE A!login(u)  BY <1>4, OrgLogsIn
<1>5. QED  BY <1>1, <1>2, <1>3, <1>4

LEMMA OrgRests ==
    ASSUME OrgInv, member' = member, invite' = invite, session' = session, request' = request, past' = past
    PROVE  OrgInv'
BY DEF OrgInv, A!TypeOK, Asked, Current, Counted1, Fresh1, Scoped, Reads, Guarded, Fits, Changing,
       A!_guard_last_owner, A!_active_owner_count, A!None

\* In the part of the composition about the organization, withdrawn access stays withdrawn, and as
\* long as no two requests are under way at once an owner with access remains, no more people come by
\* an invite than it admits, only hiring managers are restricted to vacancies, and a session that is
\* accepted is younger than the last change of its member (accounts/service.py).
THEOREM OrganizationStaysKept == MCSpec => []OrganizationIsKept
<1> DEFINE Inv == part = "organization" => OrgInv
<1>1. MCInit => Inv
  <2> SUFFICES ASSUME MCInit, part = "organization"  PROVE OrgInv
    OBVIOUS
  <2>1. A!Init  BY Zenon DEF MCInit
  <2>2. QED  BY <2>1, OrgInit
<1>2. Inv /\ [MCNext]_all_vars => Inv'
  <2> SUFFICES ASSUME Inv, [MCNext]_all_vars, part' = "organization"  PROVE OrgInv'
    OBVIOUS
  <2>1. CASE NextOrganization
    <3>1. part = "organization" /\ A!Next  BY <2>1, Zenon DEF NextOrganization
    <3>2. QED  BY <3>1, OrgNext
  <2>2. CASE NextLimiter \/ NextThread \/ NextGrants \/ NextKnowledge \/ NextSeed
    <3>1. part' = part /\ part # "organization"
      BY <2>2 DEF NextLimiter, NextThread, NextGrants, NextKnowledge, NextSeed
    <3>2. QED  BY <3>1
  <2>3. CASE UNCHANGED all_vars
    <3>1. /\ part' = part /\ member' = member /\ invite' = invite /\ session' = session
          /\ request' = request /\ past' = past
      BY <2>3 DEF all_vars, OfOrganization
    <3>2. QED  BY <3>1, OrgRests
  <2>4. QED  BY <2>1, <2>2, <2>3, Zenon DEF MCNext
<1>3. Inv => OrganizationIsKept  BY OrgHolds DEF OrganizationIsKept
<1>4. QED  BY <1>1, <1>2, <1>3, PTL DEF MCSpec
-----------------------------------------------------------------------------
(* The thread of the assistant: the part "thread" of MCCabinet. *)

LEMMA ThreadConstants ==
    /\ \A S : T!Cardinality(S) = Cardinality(S)
    /\ MaxTurns \in Nat /\ MaxPresses \in Nat /\ MaxTroubles \in Nat
    /\ max_steps \in Nat \ {0} /\ MaxCalls \in Nat \ {0}
<1>1. \A S : T!Cardinality(S) = Cardinality(S)  BY Zenon DEF T!Cardinality, Cardinality
<1>2. QED  BY <1>1, SizesOK

LEMMA ThreadHolds == ASSUME ThreadInv  PROVE T!ThreadIsKept
<1>1. T!TypeOK
  <2>1. /\ page \in Panel /\ past \in ThreadPast /\ marking \in SUBSET Mark
    BY DEF ThreadInv, ThreadTyped
  <2>2. DOMAIN page = {"streaming", "confirmed", "captured", "view", "busy"} /\ page.streaming \in 0..MaxTurns
        /\ page.confirmed \cup page.captured \subseteq Proposals /\ page.busy \subseteq T!Refs \X BOOLEAN
    BY <2>1 DEF Panel
  <2>3. \A t \in T!Turns : page.view[t].shown \in BOOLEAN /\ page.view[t].done \subseteq Nat
    BY <2>1 DEF Panel
  <2>4. \A m \in marking : m.ref \in T!Refs /\ m.pc \in {"load", "commit"} /\ m.seen \subseteq Nat
    BY <2>1 DEF Mark
  <2>5. past.executed \in [T!Refs -> 0..MaxPresses] /\ past.presses \in 0..MaxPresses
        /\ past.troubles \in 0..MaxTroubles
    BY <2>1 DEF ThreadPast
  <2>6. archived \in BOOLEAN /\ messages \in Seq(T!Message) /\ turn \in [T!Turns -> T!Turn]
    BY DEF ThreadInv, ThreadTyped
  <2>7. QED  BY <2>2, <2>3, <2>4, <2>5, <2>6, Zenon DEF T!TypeOK
<1>2. T!HistoryInOrder  BY DEF ThreadInv, Places
<1>3. \A i \in DOMAIN messages : messages[i].turn \in T!Turns
  <2>1. messages \in Seq(T!Message)  BY DEF ThreadInv, ThreadTyped
  <2>2. \A i \in DOMAIN messages : messages[i] \in T!Message  BY <2>1
  <2>3. QED  BY <2>2 DEF T!Message
<1>4. T!AnswerIsWhole
  <2>1. \A t \in T!Turns : turn[t].pc = "saved" => T!AnswerOf(t) # {}  BY DEF ThreadInv, Whole, OneAnswer
  <2>2. ASSUME NEW i \in DOMAIN messages, messages[i].role = "assistant"
        PROVE  /\ Cardinality(T!AnswerOf(messages[i].turn)) = 1
               /\ Cardinality(T!ToolsOf(messages[i].turn)) = Len(messages[i].actions)
               /\ \A j \in T!ToolsOf(messages[i].turn) :
                    messages[j].actions[1].proposal = messages[i].actions[T!Place(j)].proposal
    <3> DEFINE t == messages[i].turn
    <3>1. t \in T!Turns  BY <1>3, <2>2
    <3>2. T!AnswerOf(t) = {i}
      <4>1. i \in T!AnswerOf(t)  BY <2>2 DEF T!AnswerOf
      <4>2. \A j \in T!AnswerOf(t) : j = i  BY <3>1, <4>1 DEF ThreadInv, Whole, OneAnswer
      <4>3. QED  BY <4>1, <4>2
    <3>3. Cardinality(T!AnswerOf(t)) = 1  BY <3>2, FS_Singleton
    <3>4. Cardinality(T!ToolsOf(t)) = Len(turn[t].actions) /\ Len(messages[i].actions) = Len(turn[t].actions)
      BY <2>2, <3>1 DEF ThreadInv, Whole, Tools, Answers
    <3>5. ASSUME NEW j \in T!ToolsOf(t)
          PROVE  messages[j].actions[1].proposal = messages[i].actions[T!Place(j)].proposal
      <4>1. messages[j].turn = t  BY DEF T!ToolsOf
      <4> DEFINE R == {l \in T!ToolsOf(t) : l <= j}
      <4>2. T!Place(j) = Cardinality(R)  BY <4>1, ThreadConstants DEF T!Place
      <4>3. messages[j].actions[1].proposal = turn[t].actions[Cardinality(R)]
        BY <3>1 DEF ThreadInv, Whole, Tools
      <4>4. T!ToolsOf(t) \subseteq DOMAIN messages /\ DOMAIN messages = 1..Len(messages) /\ Len(messages) \in Nat
        BY DEF T!ToolsOf, ThreadInv, ThreadTyped
      <4>5. IsFiniteSet(T!ToolsOf(t)) /\ T!ToolsOf(t) \subseteq Nat
        <5>1. IsFiniteSet(1..Len(messages))  BY <4>4, FS_Interval
        <5>2. QED  BY <4>4, <5>1, FS_Subset
      <4>6. R \subseteq T!ToolsOf(t) /\ j \in R  BY <4>5
      <4>7. Cardinality(R) \in 1..Len(turn[t].actions)
        <5>1. Cardinality(R) <= Cardinality(T!ToolsOf(t)) /\ IsFiniteSet(R)  BY <4>5, <4>6, FS_Subset
        <5>2. Cardinality(R) \in Nat /\ Cardinality(R) # 0  BY <4>6, <5>1, FS_CardinalityType, FS_EmptySet
        <5>3. Cardinality(T!ToolsOf(t)) \in Nat  BY <4>5, FS_CardinalityType
        <5> HIDE DEF R
        <5>4. QED  BY <3>4, <5>1, <5>2, <5>3
      <4>8. DOMAIN messages[i].actions = 1..Len(messages[i].actions)
        BY DEF ThreadInv, ThreadTyped, T!Message
      <4> HIDE DEF R
      <4>9. messages[i].actions[Cardinality(R)].proposal = turn[t].actions[Cardinality(R)]
        BY <2>2, <3>4, <4>7, <4>8 DEF ThreadInv, Whole, Answers
      <4>10. QED  BY <4>2, <4>3, <4>9
    <3>6. QED  BY <3>3, <3>4, <3>5
  <2>3. QED  BY <2>1, <2>2, ThreadConstants DEF T!AnswerIsWhole
<1>5. T!MarkIsTrue
  <2> SUFFICES ASSUME NEW t \in T!Turns, NEW i \in T!AnswerOf(t), NEW k \in T!Confirmed(messages[i])
               PROVE  \E ref \in T!Refs : past.executed[ref] > 0 /\ T!Proposal(ref) = messages[i].actions[k].proposal
    BY DEF T!MarkIsTrue
  <2>1. IsDone(turn[t].actions[k])  BY DEF ThreadInv, DoneIsKnown, MarkedTrue
  <2>2. i \in DOMAIN messages /\ messages[i].turn = t /\ messages[i].role = "assistant"  BY DEF T!AnswerOf
  <2>3. k \in DOMAIN messages[i].actions  BY DEF T!Confirmed
  <2>4. messages[i].actions[k].proposal = turn[t].actions[k]  BY <2>2, <2>3 DEF ThreadInv, Whole, Answers
  <2>5. QED  BY <2>1, <2>4 DEF IsDone
<1>6. T!NotRepeated  BY DEF ThreadInv, DoneIsKnown, Once, T!NotRepeated
<1>7. QED  BY <1>1, <1>2, <1>4, <1>5, <1>6 DEF T!ThreadIsKept

LEMMA MessageRows ==
    ASSUME messages \in Seq(T!Message)
    PROVE  /\ Len(messages) \in Nat /\ DOMAIN messages = 1..Len(messages)
           /\ \A i \in DOMAIN messages :
                /\ messages[i] \in T!Message /\ messages[i].turn \in T!Turns /\ messages[i].position \in Nat
                /\ messages[i].role \in {"user", "tool", "assistant"} /\ messages[i].actions \in Seq(T!Action)
<1>1. Len(messages) \in Nat /\ DOMAIN messages = 1..Len(messages)  OBVIOUS
<1>2. \A i \in DOMAIN messages : messages[i] \in T!Message  OBVIOUS
<1>3. QED  BY <1>1, <1>2 DEF T!Message

LEMMA TurnFields ==
    ASSUME turn \in [T!Turns -> T!Turn], NEW t \in T!Turns
    PROVE  /\ turn[t] \in T!Turn
           /\ turn[t].pc \in {"none", "write", "ask", "call", "summary", "finish", "saved", "over"}
           /\ turn[t].position \in Nat /\ turn[t].steps \in 0..max_steps /\ turn[t].left \in 0..MaxCalls
           /\ turn[t].actions \in Seq(Proposals \cup {"none"}) /\ turn[t].failed \in BOOLEAN
BY DEF T!Turn

LEMMA ThreadInit == ASSUME T!Init  PROVE ThreadInv
<1> DEFINE first == [pc |-> "none", position |-> 0, steps |-> 0, left |-> 0, actions |-> <<>>, failed |-> FALSE]
           zero == [r \in T!Refs |-> 0]
           shown == [t \in T!Turns |-> [shown |-> FALSE, done |-> {}]]
<1>1. /\ archived = FALSE /\ messages = <<>> /\ marking = {} /\ turn = [t \in T!Turns |-> first]
      /\ page = [streaming |-> 0, confirmed |-> {}, captured |-> {}, busy |-> {}, view |-> shown]
      /\ past = [met |-> {}, executed |-> zero, presses |-> 0, early |-> FALSE, overlapped |-> FALSE, troubles |-> 0]
  BY Zenon DEF T!Init
<1>2. first \in T!Turn  BY ThreadConstants DEF T!Turn
<1>3. zero \in [T!Refs -> 0..MaxPresses] /\ \A r \in T!Refs : zero[r] = 0  BY ThreadConstants
<1>4. shown \in [T!Turns -> [shown: BOOLEAN, done: SUBSET Nat]]  OBVIOUS
<1> HIDE DEF zero, shown
<1>5. page \in Panel  BY <1>1, <1>4, ThreadConstants DEF Panel
<1>6. past \in ThreadPast  BY <1>1, <1>3, ThreadConstants DEF ThreadPast
<1>7. \A t \in T!Turns : turn[t].pc = "none" /\ turn[t].actions = <<>>  BY <1>1
<1>8. turn \in [T!Turns -> T!Turn]  BY <1>1, <1>2
<1>9. DOMAIN messages = {} /\ messages \in Seq(T!Message)  BY <1>1
<1>10. \A t \in T!Turns : T!AnswerOf(t) = {} /\ T!ToolsOf(t) = {}  BY <1>9 DEF T!AnswerOf, T!ToolsOf
<1>11. ThreadTyped  BY <1>1, <1>5, <1>6, <1>8, <1>9 DEF ThreadTyped
<1>12. Places
  <2>1. Bounded1  BY <1>9 DEF Bounded1
  <2>2. Behind /\ Met  BY <1>7 DEF Behind, Met, Going
  <2>3. QED  BY <1>9, <2>1, <2>2 DEF Places, T!HistoryInOrder
<1>13. Whole
  <2>1. Begun  BY <1>7, <1>9 DEF Begun
  <2>2. OneAnswer  BY <1>7, <1>10 DEF OneAnswer
  <2>3. Tools
    <3> SUFFICES ASSUME NEW t \in T!Turns
                 PROVE  Cardinality(T!ToolsOf(t)) = Len(turn[t].actions) /\ T!ToolsOf(t) = {}
      BY DEF Tools
    <3>1. T!ToolsOf(t) = {} /\ turn[t].actions = <<>>  BY <1>7, <1>10
    <3>2. Cardinality({}) = 0 /\ Len(<<>>) = 0  BY FS_EmptySet
    <3>3. QED  BY <3>1, <3>2
  <2>4. Answers /\ CallsLeft  BY <1>7, <1>9 DEF Answers, CallsLeft
  <2>5. QED  BY <2>1, <2>2, <2>3, <2>4 DEF Whole
<1>14. DoneIsKnown
  <2>1. past.executed = zero /\ past.presses = 0  BY <1>1
  <2>2. ByButton  BY <1>3, <2>1 DEF ByButton
  <2>3. Remembered /\ Pressed  BY <1>1 DEF Remembered, Pressed
  <2>4. ToMark /\ MarkedTrue  BY <1>1, <1>10 DEF ToMark, MarkedTrue
  <2>5. Once  BY <1>3, <2>1 DEF Once
  <2>6. QED  BY <2>2, <2>3, <2>4, <2>5 DEF DoneIsKnown
<1>15. Seen  BY <1>1 DEF Seen
<1>16. QED  BY <1>11, <1>12, <1>13, <1>14, <1>15 DEF ThreadInv

\* The places.

LEMMA SomeLeastPlace ==
    ASSUME NEW S, S \subseteq Nat, S # {}
    PROVE  \E m \in S : \A n \in S : m <= n
<1> DEFINE R == OpToRel(<, Nat)
<1>1. IsWellFoundedOn(R, Nat)  BY NatLessThanWellFounded, Zenon
<1>2. \A x, y \in Nat : x < y => <<x, y>> \in R  BY DEF OpToRel
<1> HIDE DEF R
<1>3. PICK m \in S : \A n \in S : <<n, m>> \notin R  BY <1>1, WFMin
<1>4. m \in Nat /\ \A n \in S : n \in Nat /\ ~(n < m)  BY <1>2, <1>3
<1>5. \A n \in S : m <= n  BY <1>4
<1>6. QED  BY <1>5

\* The next message comes after all there are.
LEMMA NextPlace ==
    ASSUME messages \in Seq(T!Message), Bounded1
    PROVE  /\ T!_next_position(messages) \in Nat
           /\ \A i \in DOMAIN messages : messages[i].position < T!_next_position(messages)
<1> DEFINE S == {0} \cup {messages[i].position : i \in DOMAIN messages}
           B == {c \in Nat : \A n \in S : n <= c}
<1>1. S \subseteq Nat /\ 0 \in S /\ \A i \in DOMAIN messages : messages[i].position \in S  BY MessageRows
<1>2. PICK b \in Nat : \A i \in DOMAIN messages : messages[i].position <= b  BY DEF Bounded1
<1>3. b \in B  BY <1>2
<1> HIDE DEF S
<1>4. B \subseteq Nat  OBVIOUS
<1>5. PICK m \in B : \A c \in B : m <= c  BY <1>3, <1>4, SomeLeastPlace
<1>6. m \in Nat /\ \A n \in S : n <= m  BY <1>5
<1>7. m \in S
  <2> SUFFICES ASSUME m \notin S  PROVE FALSE
    OBVIOUS
  <2>1. \A n \in S : n \in Nat /\ n <= m - 1 /\ n < m
    <3> TAKE n \in S
    <3>1. n \in Nat /\ n <= m /\ n # m  BY <1>1, <1>6
    <3>2. QED  BY <1>6, <3>1
  <2>2. m - 1 \in Nat  BY <1>1, <1>6, <2>1
  <2>3. m - 1 \in B  BY <2>1, <2>2
  <2> HIDE DEF B
  <2>4. m <= m - 1  BY <1>5, <2>3
  <2>5. QED  BY <1>6, <2>4
<1> DEFINE greatest == CHOOSE x \in S : \A y \in S : x >= y
<1>8. greatest \in S /\ \A y \in S : greatest >= y
  <2>1. m \in S /\ \A y \in S : m >= y  BY <1>1, <1>6, <1>7
  <2>2. QED  BY <2>1
<1>9. T!LastPosition(messages) = greatest  BY DEF T!LastPosition, T!Max, S
<1> HIDE DEF greatest
<1>10. T!_next_position(messages) = greatest + 1  BY <1>9 DEF T!_next_position
<1>11. greatest \in Nat  BY <1>1, <1>8
<1>12. \A i \in DOMAIN messages : messages[i].position \in Nat /\ greatest >= messages[i].position  BY <1>1, <1>8
<1>13. QED  BY <1>10, <1>11, <1>12

LEMMA PlacesQuiet ==
    ASSUME ThreadTyped, Places, DOMAIN messages' = DOMAIN messages,
           \A i \in DOMAIN messages : messages'[i].turn = messages[i].turn /\ messages'[i].position = messages[i].position,
           past.met \subseteq past'.met,
           \A t \in T!Turns : turn'[t].pc \in Going => turn[t].pc \in Going /\ turn'[t].position = turn[t].position
    PROVE  Places'
<1>1. Bounded1'  BY DEF Places, Bounded1
<1>2. Behind'
  <2> SUFFICES ASSUME NEW t \in T!Turns, turn'[t].pc \in Going, NEW i \in DOMAIN messages'
               PROVE  /\ messages'[i].turn = t => messages'[i].position <= turn'[t].position
                      /\ messages'[i].turn # t /\ {messages'[i].turn, t} \notin past'.met
                           => messages'[i].position < turn'[t].position
    BY DEF Behind, Going
  <2>1. QED  BY DEF Places, Behind
<1>3. Met'
  <2> SUFFICES ASSUME NEW s \in T!Turns, NEW t \in T!Turns, turn'[s].pc \in Going, turn'[t].pc \in Going, s # t
               PROVE  {s, t} \in past'.met
    BY DEF Met, Going
  <2>1. QED  BY DEF Places, Met
<1>4. T!HistoryInOrder'  BY DEF Places, T!HistoryInOrder
<1>5. QED  BY <1>1, <1>2, <1>3, <1>4 DEF Places

LEMMA PlacesAppend ==
    ASSUME ThreadTyped, Places, NEW t \in T!Turns, turn[t].pc \in Going, NEW row \in T!Message,
           row.turn = t, messages' = Append(messages, row), past'.met = past.met,
           \/ row.position > turn[t].position
           \/ row.position = turn[t].position /\ \A i \in DOMAIN messages : messages[i].turn # t,
           \A s \in T!Turns : s # t => turn'[s] = turn[s],
           turn'[t].pc \in Going => turn'[t].position = row.position
    PROVE  Places'
<1> DEFINE n == Len(messages) + 1
<1>1. /\ messages \in Seq(T!Message) /\ turn \in [T!Turns -> T!Turn]  BY DEF ThreadTyped
<1>2. /\ Len(messages) \in Nat /\ DOMAIN messages = 1..Len(messages)
      /\ \A i \in DOMAIN messages : messages[i].position \in Nat /\ messages[i].turn \in T!Turns
  BY <1>1, MessageRows
<1>3. /\ DOMAIN messages' = 1..n /\ messages'[n] = row /\ \A i \in 1..Len(messages) : messages'[i] = messages[i]
  BY <1>1
<1>4. row.position \in Nat /\ turn[t].position \in Nat  BY <1>1, TurnFields DEF T!Message
<1>5. Bounded1'
  <2>1. PICK b \in Nat : \A i \in DOMAIN messages : messages[i].position <= b  BY DEF Places, Bounded1
  <2> DEFINE c == b + row.position
  <2>2. c \in Nat /\ \A i \in DOMAIN messages' : messages'[i].position <= c
    BY <1>2, <1>3, <1>4, <2>1
  <2>3. QED  BY <2>2 DEF Bounded1
<1>6. \A i \in 1..Len(messages) :
        /\ messages[i].turn = t => messages[i].position < row.position
        /\ messages[i].turn # t /\ {messages[i].turn, t} \notin past.met => messages[i].position < row.position
  <2> TAKE i \in 1..Len(messages)
  <2>1. /\ messages[i].turn = t => messages[i].position <= turn[t].position
        /\ messages[i].turn # t /\ {messages[i].turn, t} \notin past.met => messages[i].position < turn[t].position
    BY <1>2 DEF Places, Behind
  <2>2. messages[i].position \in Nat  BY <1>2
  <2>3. QED  BY <1>2, <1>4, <2>1, <2>2
<1>7. Behind'
  <2> SUFFICES ASSUME NEW s \in T!Turns, turn'[s].pc \in Going, NEW i \in DOMAIN messages'
               PROVE  /\ messages'[i].turn = s => messages'[i].position <= turn'[s].position
                      /\ messages'[i].turn # s /\ {messages'[i].turn, s} \notin past'.met
                           => messages'[i].position < turn'[s].position
    BY DEF Behind, Going
  <2>1. CASE s = t
    <3>1. turn'[s].position = row.position  BY <2>1
    <3>2. CASE i = n  BY <1>3, <1>4, <2>1, <3>1, <3>2
    <3>3. CASE i # n
      <4>1. i \in 1..Len(messages) /\ messages'[i] = messages[i] /\ messages[i].position \in Nat
        BY <1>2, <1>3, <3>3
      <4>2. /\ messages[i].turn = t => messages[i].position < row.position
            /\ messages[i].turn # t /\ {messages[i].turn, t} \notin past.met => messages[i].position < row.position
        BY <1>6, <4>1
      <4>3. messages'[i].position < row.position => messages'[i].position <= row.position  BY <1>4, <4>1
      <4> HIDE DEF n
      <4>4. QED  BY <2>1, <3>1, <4>1, <4>2, <4>3
    <3>4. QED  BY <3>2, <3>3
  <2>2. CASE s # t
    <3>1. turn'[s] = turn[s] /\ turn[s].pc \in Going  BY <2>2
    <3>2. CASE i = n
      <4>1. {t, s} \in past.met  BY <2>2, <3>1 DEF Places, Met
      <4>2. QED  BY <1>3, <2>2, <3>2, <4>1
    <3>3. CASE i # n
      <4>1. i \in DOMAIN messages /\ messages'[i] = messages[i]  BY <1>2, <1>3, <3>3
      <4>2. QED  BY <3>1, <4>1 DEF Places, Behind
    <3>4. QED  BY <3>2, <3>3
  <2>3. QED  BY <2>1, <2>2
<1>8. Met'
  <2> SUFFICES ASSUME NEW s \in T!Turns, NEW u \in T!Turns, turn'[s].pc \in Going, turn'[u].pc \in Going, s # u
               PROVE  {s, u} \in past'.met
    BY DEF Met, Going
  <2>1. turn[s].pc \in Going /\ turn[u].pc \in Going  OBVIOUS
  <2>2. QED  BY <2>1 DEF Places, Met
<1>9. T!HistoryInOrder'
  <2> SUFFICES ASSUME NEW i \in DOMAIN messages', NEW j \in DOMAIN messages', i < j,
                      {messages'[i].turn, messages'[j].turn} \notin past'.met
               PROVE  messages'[i].position < messages'[j].position
    BY DEF T!HistoryInOrder
  <2>1. i \in 1..Len(messages) /\ messages'[i] = messages[i]  BY <1>2, <1>3
  <2>2. CASE j = n
    <3>1. messages'[j] = row  BY <1>3, <2>2
    <3>2. QED  BY <1>6, <2>1, <3>1
  <2>3. CASE j # n
    <3>1. j \in DOMAIN messages /\ messages'[j] = messages[j]  BY <1>2, <1>3, <2>3
    <3>2. QED  BY <1>2, <2>1, <3>1 DEF Places, T!HistoryInOrder
  <2>4. QED  BY <2>2, <2>3
<1>10. QED  BY <1>5, <1>7, <1>8, <1>9 DEF Places

LEMMA PlacesSend ==
    ASSUME ThreadTyped, Places, NEW t \in T!Turns, turn[t].pc = "none", messages' = messages,
           past'.met = past.met \cup {{s, t} : s \in T!Active},
           \A s \in T!Turns : s # t => turn'[s] = turn[s],
           turn'[t].position = T!_next_position(messages)
    PROVE  Places'
<1>1. messages \in Seq(T!Message)  BY DEF ThreadTyped
<1>2. \A i \in DOMAIN messages : messages[i].position < T!_next_position(messages)
  BY <1>1, NextPlace DEF Places
<1>3. /\ T!_next_position(messages) \in Nat
      /\ \A i \in DOMAIN messages : messages[i].position \in Nat
  BY <1>1, NextPlace, MessageRows DEF Places
<1>4. Bounded1'  BY DEF Places, Bounded1
<1>5. Behind'
  <2> SUFFICES ASSUME NEW s \in T!Turns, turn'[s].pc \in Going, NEW i \in DOMAIN messages'
               PROVE  /\ messages'[i].turn = s => messages'[i].position <= turn'[s].position
                      /\ messages'[i].turn # s /\ {messages'[i].turn, s} \notin past'.met
                           => messages'[i].position < turn'[s].position
    BY DEF Behind, Going
  <2>1. CASE s = t  BY <1>2, <1>3, <2>1
  <2>2. CASE s # t  BY <2>2 DEF Places, Behind
  <2>3. QED  BY <2>1, <2>2
<1>6. Met'
  <2> SUFFICES ASSUME NEW s \in T!Turns, NEW u \in T!Turns, turn'[s].pc \in Going, turn'[u].pc \in Going, s # u
               PROVE  {s, u} \in past'.met
    BY DEF Met, Going
  <2>1. CASE s # t /\ u # t  BY <2>1 DEF Places, Met
  <2>2. CASE u = t
    <3>1. s \in T!Active  BY <2>2 DEF T!Active, Going
    <3>2. QED  BY <2>2, <3>1
  <2>3. CASE s = t
    <3>1. u \in T!Active  BY <2>3 DEF T!Active, Going
    <3>2. {s, u} = {u, t}  BY <2>3
    <3>3. QED  BY <3>1, <3>2
  <2>4. QED  BY <2>1, <2>2, <2>3
<1>7. T!HistoryInOrder'  BY DEF Places, T!HistoryInOrder
<1>8. QED  BY <1>4, <1>5, <1>6, <1>7 DEF Places

LEMMA SameRowsKeep ==
    ASSUME SameRows, NEW t
    PROVE  T!AnswerOf(t)' = T!AnswerOf(t) /\ T!ToolsOf(t)' = T!ToolsOf(t)
BY DEF SameRows, T!AnswerOf, T!ToolsOf

LEMMA WholeQuiet ==
    ASSUME ThreadTyped, Whole, SameRows,
           \A t \in T!Turns :
             /\ turn'[t].actions = turn[t].actions
             /\ turn'[t].pc \in Unbegun => turn[t].pc \in Unbegun
             /\ turn[t].pc \in Ended => turn'[t].pc \in Ended
             /\ turn'[t].pc = "saved" => turn[t].pc = "saved"
             /\ turn'[t].pc = "call" => turn'[t].left > 0
    PROVE  Whole'
<1>1. \A i \in DOMAIN messages : messages[i].turn \in T!Turns  BY MessageRows DEF ThreadTyped
<1>2. Begun'
  <2> SUFFICES ASSUME NEW t \in T!Turns, turn'[t].pc \in Unbegun
               PROVE  turn'[t].actions = <<>> /\ \A i \in DOMAIN messages' : messages'[i].turn # t
    BY DEF Begun, Unbegun
  <2>1. QED  BY DEF Whole, Begun, SameRows
<1>3. OneAnswer'
  <2> SUFFICES ASSUME NEW t \in T!Turns
               PROVE  /\ T!AnswerOf(t)' # {} => turn'[t].pc \in Ended
                      /\ turn'[t].pc = "saved" => T!AnswerOf(t)' # {}
                      /\ \A i, j \in T!AnswerOf(t)' : i = j
    BY DEF OneAnswer, Ended
  <2>1. T!AnswerOf(t)' = T!AnswerOf(t)  BY SameRowsKeep
  <2>2. QED  BY <2>1 DEF Whole, OneAnswer
<1>4. Tools'
  <2> SUFFICES ASSUME NEW t \in T!Turns
               PROVE  /\ Cardinality(T!ToolsOf(t)') = Len(turn'[t].actions)
                      /\ \A i \in T!ToolsOf(t)' : messages'[i].actions[1].proposal =
                           turn'[t].actions[Cardinality({j \in T!ToolsOf(t)' : j <= i})]
    BY DEF Tools
  <2>1. T!ToolsOf(t)' = T!ToolsOf(t)  BY SameRowsKeep
  <2>2. \A i \in T!ToolsOf(t) : messages'[i] = messages[i]  BY DEF SameRows, T!ToolsOf
  <2>3. Cardinality(T!ToolsOf(t)') = Len(turn'[t].actions)  BY <2>1 DEF Whole, Tools
  <2>4. ASSUME NEW i \in T!ToolsOf(t)'
        PROVE  messages'[i].actions[1].proposal = turn'[t].actions[Cardinality({j \in T!ToolsOf(t)' : j <= i})]
    <3>1. i \in T!ToolsOf(t) /\ messages'[i] = messages[i]  BY <2>1, <2>2
    <3>2. {j \in T!ToolsOf(t)' : j <= i} = {j \in T!ToolsOf(t) : j <= i}  BY <2>1
    <3>3. messages[i].actions[1].proposal = turn[t].actions[Cardinality({j \in T!ToolsOf(t) : j <= i})]
      BY <3>1 DEF Whole, Tools
    <3>4. QED  BY <3>1, <3>2, <3>3
  <2>5. QED  BY <2>3, <2>4
<1>5. Answers'
  <2> SUFFICES ASSUME NEW i \in DOMAIN messages', messages'[i].role = "assistant"
               PROVE  /\ Len(messages'[i].actions) = Len(turn'[messages'[i].turn].actions)
                      /\ \A k \in DOMAIN messages'[i].actions :
                           messages'[i].actions[k].proposal = turn'[messages'[i].turn].actions[k]
    BY DEF Answers
  <2>1. /\ i \in DOMAIN messages /\ messages[i].role = "assistant" /\ messages'[i].turn = messages[i].turn
        /\ turn'[messages[i].turn].actions = turn[messages[i].turn].actions
        /\ Len(messages'[i].actions) = Len(messages[i].actions)
        /\ DOMAIN messages'[i].actions = DOMAIN messages[i].actions
        /\ \A k \in DOMAIN messages[i].actions : messages'[i].actions[k].proposal = messages[i].actions[k].proposal
    BY <1>1 DEF SameRows
  <2>2. QED  BY <2>1 DEF Whole, Answers
<1>6. CallsLeft'  BY DEF CallsLeft
<1>7. QED  BY <1>2, <1>3, <1>4, <1>5, <1>6 DEF Whole

\* The row that Write appends.
LEMMA WriteAppends ==
    ASSUME ThreadTyped, NEW t \in T!Turns, NEW role \in {"user", "tool", "assistant"}, NEW position \in Nat,
           NEW actions \in Seq(Proposals \cup {"none"}), T!Write(t, role, position, actions)
    PROVE  \E row \in T!Message :
             /\ messages' = Append(messages, row) /\ row.turn = t /\ row.role = role /\ row.position = position
             /\ Len(row.actions) = Len(actions) /\ DOMAIN row.actions = DOMAIN actions
             /\ \A k \in DOMAIN actions : row.actions[k].proposal = actions[k] /\ ~row.actions[k].confirmed
<1> DEFINE marks == [i \in DOMAIN actions |-> [proposal |-> actions[i], confirmed |-> FALSE]]
           row == [turn |-> t, role |-> role, position |-> position, actions |-> marks]
<1>1. messages' = Append(messages, row)  BY Zenon DEF T!Write
<1>2. DOMAIN actions = 1..Len(actions) /\ Len(actions) \in Nat  OBVIOUS
<1>3. marks \in Seq(T!Action)
  <2>1. \A i \in 1..Len(actions) : [proposal |-> actions[i], confirmed |-> FALSE] \in T!Action
    BY DEF T!Action
  <2>2. marks \in [1..Len(actions) -> T!Action]  BY <1>2, <2>1
  <2>3. QED  BY <1>2, <2>2, IsASeq
<1>4. /\ DOMAIN marks = DOMAIN actions
      /\ \A k \in DOMAIN actions : marks[k].proposal = actions[k] /\ ~marks[k].confirmed
  OBVIOUS
<1>5. Len(marks) = Len(actions)  BY <1>2, <1>3, <1>4
<1> HIDE DEF marks
<1>6. row \in T!Message  BY <1>3 DEF T!Message
<1>7. QED  BY <1>1, <1>4, <1>5, <1>6

LEMMA AppendRows ==
    ASSUME ThreadTyped, NEW row \in T!Message, messages' = Append(messages, row)
    PROVE  LET n == Len(messages) + 1 IN
           /\ n \in Nat /\ n \notin DOMAIN messages /\ DOMAIN messages = 1..Len(messages)
           /\ DOMAIN messages' = DOMAIN messages \cup {n} /\ messages'[n] = row
           /\ \A i \in DOMAIN messages : messages'[i] = messages[i] /\ i < n /\ i \in Nat
           /\ messages' \in Seq(T!Message)
           /\ \A s : T!AnswerOf(s)' =
                       IF row.turn = s /\ row.role = "assistant" THEN T!AnswerOf(s) \cup {n} ELSE T!AnswerOf(s)
           /\ \A s : T!ToolsOf(s)' =
                       IF row.turn = s /\ row.role = "tool" THEN T!ToolsOf(s) \cup {n} ELSE T!ToolsOf(s)
<1> DEFINE n == Len(messages) + 1
<1>1. messages \in Seq(T!Message)  BY DEF ThreadTyped
<1>2. /\ n \in Nat /\ n \notin DOMAIN messages /\ DOMAIN messages = 1..Len(messages)
      /\ DOMAIN messages' = DOMAIN messages \cup {n} /\ messages'[n] = row
      /\ \A i \in DOMAIN messages : messages'[i] = messages[i] /\ i < n /\ i \in Nat
      /\ messages' \in Seq(T!Message)
  BY <1>1
<1> HIDE DEF n
<1>3. ASSUME NEW s
      PROVE  T!AnswerOf(s)' = IF row.turn = s /\ row.role = "assistant" THEN T!AnswerOf(s) \cup {n} ELSE T!AnswerOf(s)
  BY <1>2 DEF T!AnswerOf
<1>4. ASSUME NEW s
      PROVE  T!ToolsOf(s)' = IF row.turn = s /\ row.role = "tool" THEN T!ToolsOf(s) \cup {n} ELSE T!ToolsOf(s)
  BY <1>2 DEF T!ToolsOf
<1>5. QED  BY <1>2, <1>3, <1>4 DEF n

\* The user's message is the first of its turn.
LEMMA WholeUser ==
    ASSUME ThreadTyped, Whole, NEW t \in T!Turns, turn[t].pc = "write",
           NEW row \in T!Message, row.turn = t, row.role = "user", messages' = Append(messages, row),
           \A s \in T!Turns : s # t => turn'[s] = turn[s],
           turn'[t].pc = "ask", turn'[t].actions = turn[t].actions
    PROVE  Whole'
<1> DEFINE n == Len(messages) + 1
<1>1. /\ n \notin DOMAIN messages /\ DOMAIN messages' = DOMAIN messages \cup {n} /\ messages'[n] = row
      /\ \A i \in DOMAIN messages : messages'[i] = messages[i]
      /\ \A s : T!AnswerOf(s)' = T!AnswerOf(s) /\ T!ToolsOf(s)' = T!ToolsOf(s)
      /\ \A s : T!AnswerOf(s) \subseteq DOMAIN messages /\ T!ToolsOf(s) \subseteq DOMAIN messages
  BY AppendRows DEF T!AnswerOf, T!ToolsOf
<1> HIDE DEF n
<1>2. \A i \in DOMAIN messages : messages[i].turn \in T!Turns  BY MessageRows DEF ThreadTyped
<1>3. \A s \in T!Turns : turn'[s].actions = turn[s].actions /\ (turn'[s].pc = turn[s].pc \/ s = t)  OBVIOUS
<1>4. Begun'
  <2> SUFFICES ASSUME NEW s \in T!Turns, turn'[s].pc \in Unbegun
               PROVE  turn'[s].actions = <<>> /\ \A i \in DOMAIN messages' : messages'[i].turn # s
    BY DEF Begun, Unbegun
  <2>1. s # t  BY DEF Unbegun
  <2>2. QED  BY <1>1, <2>1 DEF Whole, Begun
<1>5. OneAnswer'
  <2> SUFFICES ASSUME NEW s \in T!Turns
               PROVE  /\ T!AnswerOf(s)' # {} => turn'[s].pc \in Ended
                      /\ turn'[s].pc = "saved" => T!AnswerOf(s)' # {}
                      /\ \A i, j \in T!AnswerOf(s)' : i = j
    BY DEF OneAnswer, Ended
  <2>1. T!AnswerOf(s)' = T!AnswerOf(s)  BY <1>1
  <2>2. CASE s = t  BY <2>1, <2>2 DEF Whole, OneAnswer, Ended
  <2>3. CASE s # t  BY <2>1, <2>3 DEF Whole, OneAnswer
  <2>4. QED  BY <2>2, <2>3
<1>6. Tools'
  <2> SUFFICES ASSUME NEW s \in T!Turns
               PROVE  /\ Cardinality(T!ToolsOf(s)') = Len(turn'[s].actions)
                      /\ \A i \in T!ToolsOf(s)' : messages'[i].actions[1].proposal =
                           turn'[s].actions[Cardinality({j \in T!ToolsOf(s)' : j <= i})]
    BY DEF Tools
  <2>1. T!ToolsOf(s)' = T!ToolsOf(s) /\ turn'[s].actions = turn[s].actions  BY <1>1, <1>3
  <2>2. \A i \in T!ToolsOf(s) : messages'[i] = messages[i]  BY <1>1
  <2>3. Cardinality(T!ToolsOf(s)') = Len(turn'[s].actions)  BY <2>1 DEF Whole, Tools
  <2>4. ASSUME NEW i \in T!ToolsOf(s)'
        PROVE  messages'[i].actions[1].proposal = turn'[s].actions[Cardinality({j \in T!ToolsOf(s)' : j <= i})]
    <3>1. i \in T!ToolsOf(s) /\ messages'[i] = messages[i]  BY <2>1, <2>2
    <3>2. {j \in T!ToolsOf(s)' : j <= i} = {j \in T!ToolsOf(s) : j <= i}  BY <2>1
    <3>3. messages[i].actions[1].proposal = turn[s].actions[Cardinality({j \in T!ToolsOf(s) : j <= i})]
      BY <3>1 DEF Whole, Tools
    <3>4. QED  BY <2>1, <3>1, <3>2, <3>3
  <2>5. QED  BY <2>3, <2>4
<1>7. Answers'
  <2> SUFFICES ASSUME NEW i \in DOMAIN messages', messages'[i].role = "assistant"
               PROVE  /\ Len(messages'[i].actions) = Len(turn'[messages'[i].turn].actions)
                      /\ \A k \in DOMAIN messages'[i].actions :
                           messages'[i].actions[k].proposal = turn'[messages'[i].turn].actions[k]
    BY DEF Answers
  <2>1. i \in DOMAIN messages /\ messages'[i] = messages[i]  BY <1>1
  <2>2. turn'[messages[i].turn].actions = turn[messages[i].turn].actions  BY <1>2, <1>3, <2>1
  <2>3. QED  BY <2>1, <2>2 DEF Whole, Answers
<1>8. CallsLeft'  BY DEF Whole, CallsLeft
<1>9. QED  BY <1>4, <1>5, <1>6, <1>7, <1>8 DEF Whole

\* A tool message is one more, and so is what it says in the turn.
LEMMA WholeExecute ==
    ASSUME ThreadTyped, Whole, NEW t \in T!Turns, turn[t].pc = "call",
           NEW result \in Proposals \cup {"none"},
           NEW row \in T!Message, row.turn = t, row.role = "tool", messages' = Append(messages, row),
           row.actions[1].proposal = result,
           \A s \in T!Turns : s # t => turn'[s] = turn[s],
           turn'[t].pc \in {"call", "ask", "summary"}, turn'[t].pc = "call" => turn'[t].left > 0,
           turn'[t].actions = Append(turn[t].actions, result)
    PROVE  Whole'
<1> DEFINE n == Len(messages) + 1
<1>1. /\ n \notin DOMAIN messages /\ DOMAIN messages' = DOMAIN messages \cup {n} /\ messages'[n] = row
      /\ n \in Nat /\ DOMAIN messages = 1..Len(messages) /\ Len(messages) \in Nat
      /\ \A i \in DOMAIN messages : messages'[i] = messages[i] /\ i < n /\ i \in Nat
      /\ \A s : T!AnswerOf(s)' = T!AnswerOf(s)
      /\ \A s : T!ToolsOf(s)' = IF s = t THEN T!ToolsOf(s) \cup {n} ELSE T!ToolsOf(s)
      /\ \A s : T!AnswerOf(s) \subseteq DOMAIN messages /\ T!ToolsOf(s) \subseteq DOMAIN messages
  BY AppendRows, MessageRows DEF ThreadTyped, T!AnswerOf, T!ToolsOf
<1> HIDE DEF n
<1>2. \A i \in DOMAIN messages : messages[i].turn \in T!Turns  BY MessageRows DEF ThreadTyped
<1>3. turn[t].actions \in Seq(Proposals \cup {"none"})  BY TurnFields DEF ThreadTyped
<1>4. T!AnswerOf(t) = {}  BY DEF Whole, OneAnswer, Ended
<1>5. Begun'
  <2> SUFFICES ASSUME NEW s \in T!Turns, turn'[s].pc \in Unbegun
               PROVE  turn'[s].actions = <<>> /\ \A i \in DOMAIN messages' : messages'[i].turn # s
    BY DEF Begun, Unbegun
  <2>1. s # t  BY DEF Unbegun
  <2>2. turn'[s] = turn[s]  BY <2>1
  <2>3. turn[s].actions = <<>> /\ \A i \in DOMAIN messages : messages[i].turn # s  BY <2>2 DEF Whole, Begun
  <2>4. QED  BY <1>1, <2>1, <2>2, <2>3
<1>6. OneAnswer'
  <2> SUFFICES ASSUME NEW s \in T!Turns
               PROVE  /\ T!AnswerOf(s)' # {} => turn'[s].pc \in Ended
                      /\ turn'[s].pc = "saved" => T!AnswerOf(s)' # {}
                      /\ \A i, j \in T!AnswerOf(s)' : i = j
    BY DEF OneAnswer, Ended
  <2>1. T!AnswerOf(s)' = T!AnswerOf(s)  BY <1>1
  <2>2. CASE s = t  BY <1>4, <2>1, <2>2
  <2>3. CASE s # t  BY <2>1, <2>3 DEF Whole, OneAnswer
  <2>4. QED  BY <2>2, <2>3
<1>7. Tools'
  <2> SUFFICES ASSUME NEW s \in T!Turns
               PROVE  /\ Cardinality(T!ToolsOf(s)') = Len(turn'[s].actions)
                      /\ \A i \in T!ToolsOf(s)' : messages'[i].actions[1].proposal =
                           turn'[s].actions[Cardinality({j \in T!ToolsOf(s)' : j <= i})]
    BY DEF Tools
  <2> DEFINE S == T!ToolsOf(s)
  <2>1. /\ S \subseteq DOMAIN messages /\ \A i \in S : messages'[i] = messages[i] /\ i < n /\ i \in Nat
    BY <1>1
  <2>2. /\ Cardinality(S) = Len(turn[s].actions)
        /\ \A i \in S : messages[i].actions[1].proposal = turn[s].actions[Cardinality({j \in S : j <= i})]
    BY DEF Whole, Tools
  <2>3. IsFiniteSet(S) /\ Cardinality(S) \in Nat
    <3>1. IsFiniteSet(1..Len(messages))  BY <1>1, FS_Interval
    <3>2. QED  BY <1>1, <2>1, <3>1, FS_Subset, FS_CardinalityType
  <2>4. T!ToolsOf(s)' = IF s = t THEN S \cup {n} ELSE S  BY <1>1
  <2>5. CASE s # t
    <3> HIDE DEF S
    <3>1. T!ToolsOf(s)' = S /\ turn'[s] = turn[s]  BY <2>4, <2>5
    <3>2. ASSUME NEW i \in S
          PROVE  messages'[i].actions[1].proposal = turn'[s].actions[Cardinality({j \in S : j <= i})]
      BY <2>1, <2>2, <3>1
    <3>3. QED  BY <2>2, <3>1, <3>2
  <2>6. CASE s = t
    <3> HIDE DEF S
    <3>1. T!ToolsOf(s)' = S \cup {n}  BY <2>4, <2>6
    <3>2. n \notin S  BY <2>1, <1>1
    <3>3. IsFiniteSet(S \cup {n}) /\ Cardinality(S \cup {n}) = Cardinality(S) + 1
      BY <2>3, <3>2, FS_AddElement
    <3>4. /\ Len(turn'[s].actions) = Len(turn[s].actions) + 1
          /\ turn'[s].actions[Len(turn[s].actions) + 1] = result
          /\ \A k \in 1..Len(turn[s].actions) : turn'[s].actions[k] = turn[s].actions[k]
      BY <1>3, <2>6
    <3>5. ASSUME NEW i \in S \cup {n}
          PROVE  messages'[i].actions[1].proposal = turn'[s].actions[Cardinality({j \in S \cup {n} : j <= i})]
      <4>1. CASE i = n
        <5>1. {j \in S \cup {n} : j <= i} = S \cup {n}  BY <1>1, <2>1, <4>1
        <5>2. QED  BY <1>1, <2>2, <2>3, <3>3, <3>4, <4>1, <5>1
      <4>2. CASE i # n
        <5>1. i \in S /\ i < n /\ i \in Nat /\ messages'[i] = messages[i]  BY <2>1, <4>2
        <5>2. {j \in S \cup {n} : j <= i} = {j \in S : j <= i}  BY <1>1, <5>1
        <5> DEFINE R == {j \in S : j <= i}
        <5>3. R \subseteq S /\ i \in R  BY <5>1
        <5>4. Cardinality(R) \in 1..Len(turn[s].actions)
          <6>1. Cardinality(R) <= Cardinality(S) /\ IsFiniteSet(R)  BY <2>3, <5>3, FS_Subset
          <6>2. Cardinality(R) \in Nat /\ Cardinality(R) # 0  BY <5>3, <6>1, FS_CardinalityType, FS_EmptySet
          <6> HIDE DEF R
          <6>3. QED  BY <2>2, <2>3, <6>1, <6>2
        <5>5. messages[i].actions[1].proposal = turn[s].actions[Cardinality(R)]  BY <2>2, <5>1
        <5> HIDE DEF R
        <5>6. turn'[s].actions[Cardinality(R)] = turn[s].actions[Cardinality(R)]  BY <3>4, <5>4
        <5>7. {j \in S \cup {n} : j <= i} = R  BY <5>2 DEF R
        <5>8. QED  BY <5>1, <5>5, <5>6, <5>7
      <4>3. QED  BY <4>1, <4>2
    <3>6. QED  BY <2>2, <3>1, <3>3, <3>4, <3>5
  <2>7. QED  BY <2>5, <2>6
<1>8. Answers'
  <2> SUFFICES ASSUME NEW i \in DOMAIN messages', messages'[i].role = "assistant"
               PROVE  /\ Len(messages'[i].actions) = Len(turn'[messages'[i].turn].actions)
                      /\ \A k \in DOMAIN messages'[i].actions :
                           messages'[i].actions[k].proposal = turn'[messages'[i].turn].actions[k]
    BY DEF Answers
  <2>1. i \in DOMAIN messages /\ messages'[i] = messages[i]  BY <1>1
  <2>2. messages[i].turn # t /\ messages[i].turn \in T!Turns  BY <1>2, <1>4, <2>1 DEF T!AnswerOf
  <2>3. turn'[messages[i].turn] = turn[messages[i].turn]  BY <2>2
  <2>4. QED  BY <2>1, <2>3 DEF Whole, Answers
<1>9. CallsLeft'  BY DEF Whole, CallsLeft
<1>10. QED  BY <1>5, <1>6, <1>7, <1>8, <1>9 DEF Whole

\* The answer holds everything.
LEMMA WholeFinish ==
    ASSUME ThreadTyped, Whole, NEW t \in T!Turns, turn[t].pc = "finish",
           NEW row \in T!Message, row.turn = t, row.role = "assistant", messages' = Append(messages, row),
           Len(row.actions) = Len(turn[t].actions), DOMAIN row.actions = DOMAIN turn[t].actions,
           \A k \in DOMAIN turn[t].actions : row.actions[k].proposal = turn[t].actions[k],
           \A s \in T!Turns : s # t => turn'[s] = turn[s],
           turn'[t].pc = "saved", turn'[t].actions = turn[t].actions
    PROVE  Whole'
<1> DEFINE n == Len(messages) + 1
<1>1. /\ n \notin DOMAIN messages /\ DOMAIN messages' = DOMAIN messages \cup {n} /\ messages'[n] = row
      /\ \A i \in DOMAIN messages : messages'[i] = messages[i]
      /\ \A s : T!AnswerOf(s)' = IF s = t THEN T!AnswerOf(s) \cup {n} ELSE T!AnswerOf(s)
      /\ \A s : T!ToolsOf(s)' = T!ToolsOf(s)
      /\ \A s : T!AnswerOf(s) \subseteq DOMAIN messages /\ T!ToolsOf(s) \subseteq DOMAIN messages
  BY AppendRows DEF T!AnswerOf, T!ToolsOf
<1> HIDE DEF n
<1>2. \A i \in DOMAIN messages : messages[i].turn \in T!Turns  BY MessageRows DEF ThreadTyped
<1>3. \A s \in T!Turns : turn'[s].actions = turn[s].actions /\ (turn'[s] = turn[s] \/ s = t)  OBVIOUS
<1>4. T!AnswerOf(t) = {}  BY DEF Whole, OneAnswer, Ended
<1>5. Begun'
  <2> SUFFICES ASSUME NEW s \in T!Turns, turn'[s].pc \in Unbegun
               PROVE  turn'[s].actions = <<>> /\ \A i \in DOMAIN messages' : messages'[i].turn # s
    BY DEF Begun, Unbegun
  <2>1. s # t  BY DEF Unbegun
  <2>2. turn'[s] = turn[s]  BY <2>1
  <2>3. turn[s].actions = <<>> /\ \A i \in DOMAIN messages : messages[i].turn # s  BY <2>2 DEF Whole, Begun
  <2>4. QED  BY <1>1, <2>1, <2>2, <2>3
<1>6. OneAnswer'
  <2> SUFFICES ASSUME NEW s \in T!Turns
               PROVE  /\ T!AnswerOf(s)' # {} => turn'[s].pc \in Ended
                      /\ turn'[s].pc = "saved" => T!AnswerOf(s)' # {}
                      /\ \A i, j \in T!AnswerOf(s)' : i = j
    BY DEF OneAnswer, Ended
  <2>1. CASE s = t
    <3>1. T!AnswerOf(s)' = {n}  BY <1>1, <1>4, <2>1
    <3>2. QED  BY <2>1, <3>1 DEF Ended
  <2>2. CASE s # t
    <3>1. T!AnswerOf(s)' = T!AnswerOf(s)  BY <1>1, <2>2
    <3>2. QED  BY <2>2, <3>1 DEF Whole, OneAnswer
  <2>3. QED  BY <2>1, <2>2
<1>7. Tools'
  <2> SUFFICES ASSUME NEW s \in T!Turns
               PROVE  /\ Cardinality(T!ToolsOf(s)') = Len(turn'[s].actions)
                      /\ \A i \in T!ToolsOf(s)' : messages'[i].actions[1].proposal =
                           turn'[s].actions[Cardinality({j \in T!ToolsOf(s)' : j <= i})]
    BY DEF Tools
  <2>1. T!ToolsOf(s)' = T!ToolsOf(s) /\ turn'[s].actions = turn[s].actions  BY <1>1, <1>3
  <2>2. \A i \in T!ToolsOf(s) : messages'[i] = messages[i]  BY <1>1
  <2>3. Cardinality(T!ToolsOf(s)') = Len(turn'[s].actions)  BY <2>1 DEF Whole, Tools
  <2>4. ASSUME NEW i \in T!ToolsOf(s)'
        PROVE  messages'[i].actions[1].proposal = turn'[s].actions[Cardinality({j \in T!ToolsOf(s)' : j <= i})]
    <3>1. i \in T!ToolsOf(s) /\ messages'[i] = messages[i]  BY <2>1, <2>2
    <3>2. {j \in T!ToolsOf(s)' : j <= i} = {j \in T!ToolsOf(s) : j <= i}  BY <2>1
    <3>3. messages[i].actions[1].proposal = turn[s].actions[Cardinality({j \in T!ToolsOf(s) : j <= i})]
      BY <3>1 DEF Whole, Tools
    <3>4. QED  BY <2>1, <3>1, <3>2, <3>3
  <2>5. QED  BY <2>3, <2>4
<1>8. Answers'
  <2> SUFFICES ASSUME NEW i \in DOMAIN messages', messages'[i].role = "assistant"
               PROVE  /\ Len(messages'[i].actions) = Len(turn'[messages'[i].turn].actions)
                      /\ \A k \in DOMAIN messages'[i].actions :
                           messages'[i].actions[k].proposal = turn'[messages'[i].turn].actions[k]
    BY DEF Answers
  <2>1. CASE i = n  BY <1>1, <2>1
  <2>2. CASE i # n
    <3>1. i \in DOMAIN messages /\ messages'[i] = messages[i]  BY <1>1, <2>2
    <3>2. turn'[messages[i].turn].actions = turn[messages[i].turn].actions  BY <1>2, <1>3, <3>1
    <3>3. QED  BY <3>1, <3>2 DEF Whole, Answers
  <2>3. QED  BY <2>1, <2>2
<1>9. CallsLeft'  BY DEF Whole, CallsLeft
<1>10. QED  BY <1>5, <1>6, <1>7, <1>8, <1>9 DEF Whole

\* What is marked has a place in the turn.
LEMMA MarkedHasPlace ==
    ASSUME ThreadTyped, Whole, NEW t \in T!Turns, NEW i \in T!AnswerOf(t)
    PROVE  /\ i \in DOMAIN messages /\ messages[i].turn = t /\ messages[i].role = "assistant"
           /\ DOMAIN messages[i].actions = DOMAIN turn[t].actions
           /\ T!Confirmed(messages[i]) \subseteq DOMAIN turn[t].actions
<1>1. i \in DOMAIN messages /\ messages[i].turn = t /\ messages[i].role = "assistant"  BY DEF T!AnswerOf
<1>2. messages[i].actions \in Seq(T!Action) /\ turn[t].actions \in Seq(Proposals \cup {"none"})
  BY <1>1, MessageRows, TurnFields DEF ThreadTyped
<1>3. Len(messages[i].actions) = Len(turn[t].actions)  BY <1>1 DEF Whole, Answers
<1>4. DOMAIN messages[i].actions = DOMAIN turn[t].actions  BY <1>2, <1>3
<1>5. QED  BY <1>1, <1>4 DEF T!Confirmed

LEMMA RowIs ==
    ASSUME NEW t, T!AnswerOf(t) # {}
    PROVE  T!Row(t) \in T!AnswerOf(t)
BY DEF T!Row

LEMMA DoneGrows ==
    ASSUME ThreadTyped, ByButton, Extended1, \A r \in T!Refs : past.executed[r] > 0 => past'.executed[r] > 0
    PROVE  \A p : IsDone(p) => IsDone(p)'
<1> SUFFICES ASSUME NEW p, IsDone(p)  PROVE IsDone(p)'
  OBVIOUS
<1>1. PICK r \in T!Refs : past.executed[r] > 0 /\ T!Proposal(r) = p  BY DEF IsDone
<1>2. r.turn \in T!Turns /\ r.index \in DOMAIN turn[r.turn].actions  BY <1>1 DEF ByButton, T!Refs
<1>3. T!Proposal(r)' = p  BY <1>1, <1>2 DEF Extended1, T!Proposal
<1>4. past'.executed[r] > 0  BY <1>1
<1>5. QED  BY <1>3, <1>4 DEF IsDone

LEMMA DoneKept ==
    ASSUME ThreadTyped, ByButton, Extended1, \A r \in T!Refs : past.executed[r] > 0 => past'.executed[r] > 0,
           \A p \in page'.confirmed \cup page'.captured : IsDone(p) \/ IsDone(p)',
           \A b \in page'.busy : past'.executed[b[1]] > 0,
           \A m \in marking' : m \in Mark /\ MarkFits(m),
           \A t \in T!Turns : T!AnswerOf(t) # {} => T!AnswerOf(t)' # {},
           \A t \in T!Turns : \A i \in T!AnswerOf(t)' : \A k \in T!Confirmed(messages[i])' :
             k \in DOMAIN turn[t].actions /\ IsDone(turn[t].actions[k])
    PROVE  Remembered' /\ Pressed' /\ ToMark' /\ MarkedTrue'
<1>1. \A p : IsDone(p) => IsDone(p)'  BY DoneGrows
<1>2. Remembered'  BY <1>1 DEF Remembered
<1>3. Pressed'  BY DEF Pressed
<1>4. ToMark'
  <2> SUFFICES ASSUME NEW m \in marking'
               PROVE  /\ m.ref.index \in DOMAIN turn'[m.ref.turn].actions /\ IsDone(T!Proposal(m.ref))'
                      /\ m.pc = "commit" =>
                           /\ T!AnswerOf(m.ref.turn)' # {}
                           /\ \A k \in m.seen : /\ k \in DOMAIN turn'[m.ref.turn].actions
                                                /\ IsDone(turn[m.ref.turn].actions[k])'
    BY DEF ToMark
  <2>1. m.ref \in T!Refs /\ m.ref.turn \in T!Turns /\ MarkFits(m)  BY DEF Mark, T!Refs
  <2>2. /\ m.ref.index \in DOMAIN turn'[m.ref.turn].actions
        /\ turn'[m.ref.turn].actions[m.ref.index] = turn[m.ref.turn].actions[m.ref.index]
    BY <2>1 DEF MarkFits, Extended1
  <2>3. IsDone(T!Proposal(m.ref))'
    <3>1. IsDone(turn[m.ref.turn].actions[m.ref.index])  BY <2>1 DEF MarkFits, T!Proposal
    <3>2. \E r \in T!Refs : past'.executed[r] > 0 /\ T!Proposal(r)' = turn[m.ref.turn].actions[m.ref.index]
      BY <1>1, <3>1 DEF IsDone
    <3>3. QED  BY <2>2, <3>2 DEF IsDone, T!Proposal
  <2>4. ASSUME m.pc = "commit"
        PROVE  /\ T!AnswerOf(m.ref.turn)' # {}
               /\ \A k \in m.seen : /\ k \in DOMAIN turn'[m.ref.turn].actions
                                    /\ IsDone(turn[m.ref.turn].actions[k])'
    <3>1. T!AnswerOf(m.ref.turn)' # {}  BY <2>1, <2>4 DEF MarkFits
    <3>2. ASSUME NEW k \in m.seen
          PROVE  k \in DOMAIN turn'[m.ref.turn].actions /\ IsDone(turn[m.ref.turn].actions[k])'
      <4>1. k \in DOMAIN turn[m.ref.turn].actions /\ IsDone(turn[m.ref.turn].actions[k])
        BY <2>1, <2>4, <3>2 DEF MarkFits
      <4>2. k \in DOMAIN turn'[m.ref.turn].actions
            /\ turn'[m.ref.turn].actions[k] = turn[m.ref.turn].actions[k]
        BY <2>1, <4>1 DEF Extended1
      <4>3. \E r \in T!Refs : past'.executed[r] > 0 /\ T!Proposal(r)' = turn[m.ref.turn].actions[k]
        BY <1>1, <4>1 DEF IsDone
      <4>4. QED  BY <4>2, <4>3 DEF IsDone
    <3>3. QED  BY <3>1, <3>2
  <2>5. QED  BY <2>2, <2>3, <2>4
<1>5. MarkedTrue'
  <2> SUFFICES ASSUME NEW t \in T!Turns, NEW i \in T!AnswerOf(t)', NEW k \in T!Confirmed(messages[i])'
               PROVE  IsDone(turn[t].actions[k])'
    BY DEF MarkedTrue
  <2>1. k \in DOMAIN turn[t].actions /\ IsDone(turn[t].actions[k])  OBVIOUS
  <2>2. turn'[t].actions[k] = turn[t].actions[k]  BY <2>1 DEF Extended1
  <2>3. \E r \in T!Refs : past'.executed[r] > 0 /\ T!Proposal(r)' = turn[t].actions[k]
    BY <1>1, <2>1 DEF IsDone
  <2>4. QED  BY <2>2, <2>3 DEF IsDone
<1>6. QED  BY <1>2, <1>3, <1>4, <1>5

\* Nothing was pressed.
LEMMA OnceKept ==
    ASSUME ThreadTyped, ByButton, Once, Extended1, past'.executed = past.executed, past'.presses = past.presses,
           past'.early = past.early, past'.troubles = 0 => past.troubles = 0,
           past'.troubles = 0 => page.confirmed \subseteq page'.confirmed,
           past'.troubles = 0 => \A r \in T!Refs : <<r, TRUE>> \in page.busy =>
                                   <<r, TRUE>> \in page'.busy \/ T!Proposal(r) \in page'.confirmed
    PROVE  ByButton' /\ Once'
<1>1. \A r \in T!Refs : past.executed[r] > 0 =>
        /\ r.index \in DOMAIN turn[r.turn].actions /\ T!Proposal(r) \in Proposals
        /\ r.index \in DOMAIN turn'[r.turn].actions /\ T!Proposal(r)' = T!Proposal(r)
  <2> SUFFICES ASSUME NEW r \in T!Refs, past.executed[r] > 0
               PROVE  /\ r.index \in DOMAIN turn[r.turn].actions /\ T!Proposal(r) \in Proposals
                      /\ r.index \in DOMAIN turn'[r.turn].actions /\ T!Proposal(r)' = T!Proposal(r)
    OBVIOUS
  <2>1. r.turn \in T!Turns /\ r.index \in DOMAIN turn[r.turn].actions /\ T!Proposal(r) \in Proposals
    BY DEF ByButton, T!Refs
  <2>2. QED  BY <2>1 DEF Extended1, T!Proposal
<1>2. ByButton'  BY <1>1 DEF ByButton
<1>3. Once'
  <2> SUFFICES ASSUME ~past'.early, past'.troubles = 0, NEW r \in T!Refs
               PROVE  /\ past'.executed[r] <= 1
                      /\ past'.executed[r] > 0 => <<r, TRUE>> \in page'.busy \/ T!Proposal(r)' \in page'.confirmed
    BY DEF Once
  <2>1. /\ past.executed[r] <= 1
        /\ past.executed[r] > 0 => <<r, TRUE>> \in page.busy \/ T!Proposal(r) \in page.confirmed
    BY DEF Once
  <2>2. QED  BY <1>1, <2>1
<1>4. QED  BY <1>2, <1>3

LEMMA SeenKept ==
    ASSUME ThreadTyped, ToMark, Seen, ~past'.overlapped => ~past.overlapped,
           \A m \in marking' : m.pc = "commit" => m \in marking,
           \A t \in T!Turns : T!AnswerOf(t) # {} => T!AnswerOf(t)' = T!AnswerOf(t),
           \A t \in T!Turns : \A i \in T!AnswerOf(t) : messages'[i] = messages[i]
    PROVE  Seen'
<1> SUFFICES ASSUME ~past'.overlapped, NEW m \in marking', m.pc = "commit"
             PROVE  /\ m.seen = T!Confirmed(messages[T!Row(m.ref.turn)])'
                    /\ \A o \in marking' : o.pc = "commit" /\ o.ref.turn = m.ref.turn => o = m
  BY DEF Seen
<1>1. m \in marking /\ m.ref.turn \in T!Turns  BY DEF ThreadTyped, Mark, T!Refs
<1> DEFINE t == m.ref.turn
<1>2. T!AnswerOf(t) # {} /\ T!AnswerOf(t)' = T!AnswerOf(t)  BY <1>1 DEF ToMark
<1>3. T!Row(t) \in T!AnswerOf(t)  BY <1>2, RowIs
<1>4. T!Row(t)' = T!Row(t)  BY <1>2 DEF T!Row
<1>5. T!Confirmed(messages[T!Row(t)])' = T!Confirmed(messages[T!Row(t)])
  BY <1>1, <1>3, <1>4 DEF T!Confirmed
<1>6. QED  BY <1>1, <1>5 DEF Seen

LEMMA MarksBefore ==
    ASSUME ThreadInv, NEW t \in T!Turns, NEW i \in T!AnswerOf(t), NEW k \in T!Confirmed(messages[i])
    PROVE  k \in DOMAIN turn[t].actions /\ IsDone(turn[t].actions[k])
<1>1. k \in DOMAIN turn[t].actions  BY MarkedHasPlace DEF ThreadInv
<1>2. IsDone(turn[t].actions[k])  BY DEF ThreadInv, DoneIsKnown, MarkedTrue
<1>3. QED  BY <1>1, <1>2

LEMMA MarksFit ==
    ASSUME ThreadInv
    PROVE  \A m \in marking : m \in Mark /\ MarkFits(m)
BY DEF ThreadInv, ThreadTyped, DoneIsKnown, ToMark, MarkFits

\* A step that writes no message, presses no button and reads no marks.
LEMMA StepQuiet ==
    ASSUME ThreadInv, ThreadTyped', messages' = messages, past'.met = past.met, past'.overlapped = past.overlapped,
           \A t \in T!Turns :
             /\ turn'[t].actions = turn[t].actions
             /\ turn'[t].pc \in Going => turn[t].pc \in Going /\ turn'[t].position = turn[t].position
             /\ turn'[t].pc \in Unbegun => turn[t].pc \in Unbegun
             /\ turn[t].pc \in Ended => turn'[t].pc \in Ended
             /\ turn'[t].pc = "saved" => turn[t].pc = "saved"
             /\ turn'[t].pc = "call" => turn'[t].left > 0,
           past'.executed = past.executed, past'.presses = past.presses, past'.early = past.early,
           past'.troubles = 0 => past.troubles = 0,
           \A p \in page'.confirmed \cup page'.captured : IsDone(p),
           page'.busy \subseteq page.busy,
           past'.troubles = 0 => page.confirmed \subseteq page'.confirmed,
           past'.troubles = 0 => \A r \in T!Refs : <<r, TRUE>> \in page.busy =>
                                   <<r, TRUE>> \in page'.busy \/ T!Proposal(r) \in page'.confirmed,
           \A m \in marking' : MarkFits(m) /\ (m.pc = "commit" => m \in marking)
    PROVE  ThreadInv'
<1>1. ThreadTyped /\ Places /\ Whole /\ DoneIsKnown /\ Seen  BY DEF ThreadInv
<1>2. SameRows  BY DEF SameRows
<1>3. Places'  BY <1>1, PlacesQuiet
<1>4. Whole'  BY <1>1, <1>2, WholeQuiet
<1>5. \A t \in T!Turns : T!AnswerOf(t)' = T!AnswerOf(t)  BY <1>2, SameRowsKeep
<1>6. Extended1  BY DEF Extended1
<1>7. Remembered' /\ Pressed' /\ ToMark' /\ MarkedTrue'
  <2>1. \A b \in page'.busy : past'.executed[b[1]] > 0  BY <1>1 DEF DoneIsKnown, Pressed
  <2>2. \A m \in marking' : m \in Mark /\ MarkFits(m)  BY DEF ThreadTyped
  <2>3. \A t \in T!Turns : \A i \in T!AnswerOf(t)' : \A k \in T!Confirmed(messages[i])' :
          k \in DOMAIN turn[t].actions /\ IsDone(turn[t].actions[k])
    <3>1. \A i : T!Confirmed(messages[i])' = T!Confirmed(messages[i])  BY DEF T!Confirmed
    <3>2. QED  BY <1>5, <3>1, MarksBefore
  <2>4. QED  BY <1>1, <1>5, <1>6, <2>1, <2>2, <2>3, DoneKept DEF DoneIsKnown
<1>8. ByButton' /\ Once'  BY <1>1, <1>6, OnceKept DEF DoneIsKnown
<1>9. Seen'
  <2>1. \A t \in T!Turns : \A i \in T!AnswerOf(t) : messages'[i] = messages[i]  OBVIOUS
  <2>2. QED  BY <1>1, <1>5, <2>1, SeenKept DEF DoneIsKnown
<1>10. QED  BY <1>3, <1>4, <1>7, <1>8, <1>9 DEF ThreadInv, DoneIsKnown

\* What changes in one turn.
LEMMA OneTurn ==
    ASSUME turn \in [T!Turns -> T!Turn], NEW t \in T!Turns, NEW run1 \in T!Turn, turn' = [turn EXCEPT ![t] = run1]
    PROVE  /\ turn' \in [T!Turns -> T!Turn] /\ turn'[t] = run1
           /\ \A s \in T!Turns : s # t => turn'[s] = turn[s]
OBVIOUS

LEMMA TurnsQuiet ==
    ASSUME Whole, NEW t \in T!Turns, \A s \in T!Turns : s # t => turn'[s] = turn[s],
           turn'[t].actions = turn[t].actions,
           turn'[t].pc \in Going => turn[t].pc \in Going /\ turn'[t].position = turn[t].position,
           turn'[t].pc \in Unbegun => turn[t].pc \in Unbegun,
           turn[t].pc \in Ended => turn'[t].pc \in Ended,
           turn'[t].pc = "saved" => turn[t].pc = "saved",
           turn'[t].pc = "call" => turn'[t].left > 0
    PROVE  \A s \in T!Turns :
             /\ turn'[s].actions = turn[s].actions
             /\ turn'[s].pc \in Going => turn[s].pc \in Going /\ turn'[s].position = turn[s].position
             /\ turn'[s].pc \in Unbegun => turn[s].pc \in Unbegun
             /\ turn[s].pc \in Ended => turn'[s].pc \in Ended
             /\ turn'[s].pc = "saved" => turn[s].pc = "saved"
             /\ turn'[s].pc = "call" => turn'[s].left > 0
<1> TAKE s \in T!Turns
<1>1. CASE s = t  BY <1>1
<1>2. CASE s # t
  <2>1. turn'[s] = turn[s]  BY <1>2
  <2>2. turn[s].pc = "call" => turn[s].left > 0  BY DEF Whole, CallsLeft
  <2>3. QED  BY <2>1, <2>2
<1>3. QED  BY <1>1, <1>2

\* What the page remembers as it is.
LEMMA PageRests ==
    ASSUME ThreadInv, page'.confirmed = page.confirmed, page'.captured = page.captured, page'.busy = page.busy
    PROVE  /\ \A p \in page'.confirmed \cup page'.captured : IsDone(p)
           /\ page'.busy \subseteq page.busy /\ page.confirmed \subseteq page'.confirmed
           /\ \A r \in T!Refs : <<r, TRUE>> \in page.busy => <<r, TRUE>> \in page'.busy \/ T!Proposal(r) \in page'.confirmed
BY DEF ThreadInv, DoneIsKnown, Remembered

LEMMA StepAnswered ==
    ASSUME ThreadInv, NEW t \in T!Turns, T!Answered(t) \/ T!CallsTools(t) \/ T!Fails(t)
    PROVE  ThreadInv'
<1>1. ThreadTyped /\ Whole  BY DEF ThreadInv
<1>2. turn \in [T!Turns -> T!Turn] /\ past \in ThreadPast  BY <1>1 DEF ThreadTyped
<1>3. messages' = messages /\ page' = page /\ marking' = marking /\ archived' = archived
  BY Zenon DEF T!Answered, T!CallsTools, T!Fails
<1>4. /\ turn[t].pc \in {"ask", "summary"}
      /\ \/ turn' = [turn EXCEPT ![t].pc = "finish"]
         \/ turn' = [turn EXCEPT ![t].pc = "finish", ![t].failed = TRUE]
         \/ /\ turn[t].steps < max_steps
            /\ \E n \in 1..MaxCalls : turn' = [turn EXCEPT ![t].pc = "call", ![t].left = n, ![t].steps = @ + 1]
  <2>1. CASE T!Answered(t)  BY <2>1 DEF T!Answered
  <2>2. CASE T!CallsTools(t)  BY <2>2 DEF T!CallsTools
  <2>3. CASE T!Fails(t)  BY <2>3 DEF T!Fails
  <2>4. QED  BY <2>1, <2>2, <2>3
<1>5. past' = past \/ (past.troubles < MaxTroubles /\ past' = [past EXCEPT !.troubles = @ + 1])
  BY Zenon DEF T!Answered, T!CallsTools, T!Fails, T!TroubleMayCome
<1>6. /\ turn' \in [T!Turns -> T!Turn]
      /\ turn'[t].pc \in {"finish", "call"} /\ turn'[t].position = turn[t].position
      /\ turn'[t].actions = turn[t].actions
      /\ turn'[t].pc = "call" => turn'[t].left > 0
      /\ \A s \in T!Turns : s # t => turn'[s] = turn[s]
  <2>1. /\ turn[t] \in T!Turn /\ turn[t].steps \in 0..max_steps
    BY <1>2, TurnFields
  <2>2. CASE turn' = [turn EXCEPT ![t].pc = "finish"]  BY <1>2, <2>1, <2>2 DEF T!Turn
  <2>3. CASE turn' = [turn EXCEPT ![t].pc = "finish", ![t].failed = TRUE]  BY <1>2, <2>1, <2>3 DEF T!Turn
  <2>4. ASSUME turn[t].steps < max_steps, NEW n \in 1..MaxCalls,
               turn' = [turn EXCEPT ![t].pc = "call", ![t].left = n, ![t].steps = @ + 1]
        PROVE  /\ turn' \in [T!Turns -> T!Turn]
               /\ turn'[t].pc \in {"finish", "call"} /\ turn'[t].position = turn[t].position
               /\ turn'[t].actions = turn[t].actions
               /\ turn'[t].pc = "call" => turn'[t].left > 0
               /\ \A s \in T!Turns : s # t => turn'[s] = turn[s]
    BY <1>2, <2>1, <2>4, ThreadConstants DEF T!Turn
  <2>5. QED  BY <1>4, <2>2, <2>3, <2>4
<1>7. /\ past' \in ThreadPast /\ past'.met = past.met /\ past'.overlapped = past.overlapped
      /\ past'.executed = past.executed /\ past'.presses = past.presses /\ past'.early = past.early
      /\ past'.troubles = 0 => past.troubles = 0
  BY <1>2, <1>5, ThreadConstants DEF ThreadPast
<1>8. ThreadTyped'  BY <1>1, <1>3, <1>6, <1>7 DEF ThreadTyped
<1>9. \A s \in T!Turns :
        /\ turn'[s].actions = turn[s].actions
        /\ turn'[s].pc \in Going => turn[s].pc \in Going /\ turn'[s].position = turn[s].position
        /\ turn'[s].pc \in Unbegun => turn[s].pc \in Unbegun
        /\ turn[s].pc \in Ended => turn'[s].pc \in Ended
        /\ turn'[s].pc = "saved" => turn[s].pc = "saved"
        /\ turn'[s].pc = "call" => turn'[s].left > 0
  <2>1. turn[t].pc \in Going /\ turn[t].pc \notin Ended /\ turn'[t].pc \notin Unbegun /\ turn'[t].pc # "saved"
    BY <1>4, <1>6 DEF Going, Ended, Unbegun
  <2>2. QED  BY <1>1, <1>6, <2>1, TurnsQuiet
<1>10. \A m \in marking' : MarkFits(m) /\ (m.pc = "commit" => m \in marking)  BY <1>3, MarksFit
<1>11. QED  BY <1>3, <1>7, <1>8, <1>9, <1>10, PageRests, StepQuiet

LEMMA TurnsRest ==
    ASSUME Whole, turn' = turn
    PROVE  \A s \in T!Turns :
             /\ turn'[s].actions = turn[s].actions
             /\ turn'[s].pc \in Going => turn[s].pc \in Going /\ turn'[s].position = turn[s].position
             /\ turn'[s].pc \in Unbegun => turn[s].pc \in Unbegun
             /\ turn[s].pc \in Ended => turn'[s].pc \in Ended
             /\ turn'[s].pc = "saved" => turn[s].pc = "saved"
             /\ turn'[s].pc = "call" => turn'[s].left > 0
BY DEF Whole, CallsLeft

LEMMA PanelIs ==
    ASSUME page \in Panel, NEW s \in 0..MaxTurns, NEW v \in [T!Turns -> [shown: BOOLEAN, done: SUBSET Nat]],
           NEW c \in SUBSET Proposals, NEW d \in SUBSET Proposals, NEW b \in SUBSET (T!Refs \X BOOLEAN),
           page' = [page EXCEPT !.streaming = s, !.view = v, !.confirmed = c, !.captured = d, !.busy = b]
    PROVE  page' \in Panel /\ page'.confirmed = c /\ page'.captured = d /\ page'.busy = b
<1> DEFINE S == 0..MaxTurns
           V == [T!Turns -> [shown: BOOLEAN, done: SUBSET Nat]]
           C == SUBSET Proposals
           B == SUBSET (T!Refs \X BOOLEAN)
<1>1. page \in [streaming: S, confirmed: C, captured: C, busy: B, view: V]  BY Zenon DEF Panel
<1>2. s \in S /\ v \in V /\ c \in C /\ d \in C /\ b \in B  OBVIOUS
<1> HIDE DEF S, V, C, B
<1>3. /\ page' \in [streaming: S, confirmed: C, captured: C, busy: B, view: V]
      /\ page'.confirmed = c /\ page'.captured = d /\ page'.busy = b
  BY <1>1, <1>2
<1>4. QED  BY <1>3, Zenon DEF Panel, S, V, C, B

LEMMA OverIs ==
    ASSUME NEW run1 \in T!Turn
    PROVE  /\ T!Over(run1) \in T!Turn /\ T!Over(run1).pc = "over" /\ T!Over(run1).actions = run1.actions
<1> DEFINE S == Seq(Proposals \cup {"none"})
           Pcs == {"none", "write", "ask", "call", "summary", "finish", "saved", "over"}
<1>1. run1 \in [pc: Pcs, position: Nat, steps: 0..max_steps, left: 0..MaxCalls, actions: S, failed: BOOLEAN]
  BY Zenon DEF T!Turn
<1>2. T!Over(run1) = [run1 EXCEPT !.pc = "over", !.position = 0, !.steps = 0, !.left = 0, !.failed = FALSE]
  BY Zenon DEF T!Over
<1>3. 0 \in Nat /\ 0 \in 0..max_steps /\ 0 \in 0..MaxCalls /\ "over" \in Pcs  BY ThreadConstants
<1> HIDE DEF S, Pcs
<1>4. /\ T!Over(run1) \in [pc: Pcs, position: Nat, steps: 0..max_steps, left: 0..MaxCalls, actions: S, failed: BOOLEAN]
      /\ T!Over(run1).pc = "over" /\ T!Over(run1).actions = run1.actions
  BY <1>1, <1>2, <1>3
<1>5. QED  BY <1>4 DEF T!Turn, S, Pcs

LEMMA StepCut ==
    ASSUME ThreadInv, NEW t \in T!Turns, T!Cut(t)
    PROVE  ThreadInv'
<1>1. ThreadTyped /\ Whole  BY DEF ThreadInv
<1>2. turn \in [T!Turns -> T!Turn] /\ past \in ThreadPast /\ page \in Panel  BY <1>1 DEF ThreadTyped
<1>3. /\ turn[t].pc \notin {"none", "over"} /\ turn' = [turn EXCEPT ![t] = T!Over(turn[t])]
      /\ messages' = messages /\ marking' = marking /\ archived' = archived
  BY Zenon DEF T!Cut
<1>4. \/ page' = page /\ past' = past
      \/ /\ past.troubles < MaxTroubles /\ past' = [past EXCEPT !.troubles = @ + 1]
         /\ page' = [page EXCEPT !.streaming = IF @ = t THEN 0 ELSE @]
  BY DEF T!Cut, T!TroubleMayCome
<1>5. /\ turn' \in [T!Turns -> T!Turn] /\ turn'[t].pc = "over" /\ turn'[t].actions = turn[t].actions
      /\ \A s \in T!Turns : s # t => turn'[s] = turn[s]
  <2>1. turn[t] \in T!Turn  BY <1>2
  <2>2. QED  BY <1>2, <1>3, <2>1, OverIs, OneTurn
<1>6. /\ past' \in ThreadPast /\ past'.met = past.met /\ past'.overlapped = past.overlapped
      /\ past'.executed = past.executed /\ past'.presses = past.presses /\ past'.early = past.early
      /\ past'.troubles = 0 => past.troubles = 0
  BY <1>2, <1>4, ThreadConstants DEF ThreadPast
<1>7. /\ page' \in Panel /\ page'.confirmed = page.confirmed /\ page'.captured = page.captured /\ page'.busy = page.busy
  BY <1>2, <1>4, ThreadConstants DEF Panel
<1>8. ThreadTyped'  BY <1>1, <1>3, <1>5, <1>6, <1>7 DEF ThreadTyped
<1>9. \A s \in T!Turns :
        /\ turn'[s].actions = turn[s].actions
        /\ turn'[s].pc \in Going => turn[s].pc \in Going /\ turn'[s].position = turn[s].position
        /\ turn'[s].pc \in Unbegun => turn[s].pc \in Unbegun
        /\ turn[s].pc \in Ended => turn'[s].pc \in Ended
        /\ turn'[s].pc = "saved" => turn[s].pc = "saved"
        /\ turn'[s].pc = "call" => turn'[s].left > 0
  <2>1. turn'[t].pc \notin Going /\ turn'[t].pc \in Ended /\ turn'[t].pc \notin Unbegun /\ turn'[t].pc # "saved"
        /\ turn'[t].pc # "call"
    BY <1>5 DEF Going, Ended, Unbegun
  <2>2. QED  BY <1>1, <1>5, <2>1, TurnsQuiet
<1>10. \A m \in marking' : MarkFits(m) /\ (m.pc = "commit" => m \in marking)  BY <1>3, MarksFit
<1>11. QED  BY <1>3, <1>6, <1>7, <1>8, <1>9, <1>10, PageRests, StepQuiet

LEMMA StepDone ==
    ASSUME ThreadInv, NEW t \in T!Turns, T!Done(t)
    PROVE  ThreadInv'
<1> DEFINE new == {[ref |-> r, pc |-> "load", seen |-> {}] :
                     r \in {r \in T!Refs : /\ r.turn = t /\ ~turn[t].failed /\ r.index \in DOMAIN turn[t].actions
                                           /\ turn[t].actions[r.index] \in page.captured}}
           view1 == [shown |-> TRUE, done |-> {}]
<1>1. ThreadTyped /\ Whole  BY DEF ThreadInv
<1>2. turn \in [T!Turns -> T!Turn] /\ past \in ThreadPast /\ page \in Panel  BY <1>1 DEF ThreadTyped
<1>3. /\ turn[t].pc = "saved" /\ turn' = [turn EXCEPT ![t] = T!Over(turn[t])]
      /\ page' = [page EXCEPT !.streaming = 0, !.view[t] = view1]
      /\ marking' = marking \cup new
      /\ messages' = messages /\ archived' = archived /\ past' = past
  BY Zenon DEF T!Done
<1>4. /\ turn' \in [T!Turns -> T!Turn] /\ turn'[t].pc = "over" /\ turn'[t].actions = turn[t].actions
      /\ \A s \in T!Turns : s # t => turn'[s] = turn[s]
  <2>1. turn[t] \in T!Turn  BY <1>2
  <2>2. QED  BY <1>2, <1>3, <2>1, OverIs, OneTurn
<1>5. /\ page' \in Panel /\ page'.confirmed = page.confirmed /\ page'.captured = page.captured /\ page'.busy = page.busy
  <2> DEFINE V == [shown: BOOLEAN, done: SUBSET Nat]
             views1 == [page.view EXCEPT ![t] = view1]
  <2>1. page.view \in [T!Turns -> V] /\ DOMAIN page = {"streaming", "confirmed", "captured", "view", "busy"}
    BY <1>2 DEF Panel
  <2>2. view1 \in V  OBVIOUS
  <2>3. page' = [page EXCEPT !.streaming = 0, !.view = views1, !.confirmed = page.confirmed,
                             !.captured = page.captured, !.busy = page.busy]
    BY <1>3, <2>1
  <2> HIDE DEF view1, V
  <2>4. views1 \in [T!Turns -> V]  BY <2>1, <2>2
  <2> HIDE DEF views1
  <2>5. /\ 0 \in 0..MaxTurns /\ page.confirmed \in SUBSET Proposals /\ page.captured \in SUBSET Proposals
        /\ page.busy \in SUBSET (T!Refs \X BOOLEAN)
    BY <1>2, ThreadConstants DEF Panel
  <2>6. views1 \in [T!Turns -> [shown: BOOLEAN, done: SUBSET Nat]]  BY <2>4 DEF V
  <2>7. /\ page' \in Panel /\ page'.confirmed = page.confirmed /\ page'.captured = page.captured
        /\ page'.busy = page.busy
    BY <1>2, <2>3, <2>5, <2>6, PanelIs, ZenonT(60)
  <2>8. QED  BY <2>7
<1>6. \A m \in new : m \in Mark /\ MarkFits(m) /\ m.pc = "load"
  <2> SUFFICES ASSUME NEW r \in T!Refs, r.turn = t, r.index \in DOMAIN turn[t].actions,
                      turn[t].actions[r.index] \in page.captured
               PROVE  LET m == [ref |-> r, pc |-> "load", seen |-> {}]
                      IN  m \in Mark /\ MarkFits(m) /\ m.pc = "load"
    OBVIOUS
  <2> DEFINE m == [ref |-> r, pc |-> "load", seen |-> {}]
  <2>1. m \in Mark  BY DEF Mark
  <2>2. IsDone(T!Proposal(r))  BY DEF ThreadInv, DoneIsKnown, Remembered, T!Proposal
  <2>3. MarkFits(m)  BY <2>2 DEF MarkFits
  <2>4. QED  BY <2>1, <2>3
<1> HIDE DEF new
<1>7. ThreadTyped'  BY <1>1, <1>3, <1>4, <1>5, <1>6 DEF ThreadTyped
<1>8. \A s \in T!Turns :
        /\ turn'[s].actions = turn[s].actions
        /\ turn'[s].pc \in Going => turn[s].pc \in Going /\ turn'[s].position = turn[s].position
        /\ turn'[s].pc \in Unbegun => turn[s].pc \in Unbegun
        /\ turn[s].pc \in Ended => turn'[s].pc \in Ended
        /\ turn'[s].pc = "saved" => turn[s].pc = "saved"
        /\ turn'[s].pc = "call" => turn'[s].left > 0
  <2>1. turn'[t].pc \notin Going /\ turn'[t].pc \in Ended /\ turn'[t].pc \notin Unbegun /\ turn'[t].pc # "saved"
        /\ turn'[t].pc # "call"
    BY <1>4 DEF Going, Ended, Unbegun
  <2>2. QED  BY <1>1, <1>4, <2>1, TurnsQuiet
<1>9. \A m \in marking' : MarkFits(m) /\ (m.pc = "commit" => m \in marking)  BY <1>3, <1>6, MarksFit
<1>10. QED  BY <1>3, <1>5, <1>7, <1>8, <1>9, PageRests, StepQuiet

\* A thread is archived, a mark fails.
LEMMA StepFails ==
    ASSUME ThreadInv, T!archive_thread \/ \E m \in marking : T!MarkFails(m)
    PROVE  ThreadInv'
<1>1. ThreadTyped /\ Whole  BY DEF ThreadInv
<1>2. past \in ThreadPast  BY <1>1 DEF ThreadTyped
<1>3. /\ turn' = turn /\ messages' = messages /\ page' = page /\ marking' \subseteq marking
      /\ archived' \in BOOLEAN
      /\ past.troubles < MaxTroubles /\ past' = [past EXCEPT !.troubles = @ + 1]
  <2>1. CASE T!archive_thread  BY <2>1, Zenon DEF T!archive_thread, T!TroubleMayCome
  <2>2. ASSUME NEW m \in marking, T!MarkFails(m)
        PROVE  /\ turn' = turn /\ messages' = messages /\ page' = page /\ marking' \subseteq marking
               /\ archived' \in BOOLEAN
               /\ past.troubles < MaxTroubles /\ past' = [past EXCEPT !.troubles = @ + 1]
    BY <1>1, <2>2 DEF T!MarkFails, T!TroubleMayCome, ThreadTyped
  <2>3. QED  BY <2>1, <2>2
<1>4. /\ past' \in ThreadPast /\ past'.met = past.met /\ past'.overlapped = past.overlapped
      /\ past'.executed = past.executed /\ past'.presses = past.presses /\ past'.early = past.early
      /\ past'.troubles = 0 => past.troubles = 0
  BY <1>2, <1>3, ThreadConstants DEF ThreadPast
<1>5. ThreadTyped'  BY <1>1, <1>3, <1>4 DEF ThreadTyped
<1>6. \A m \in marking' : MarkFits(m) /\ (m.pc = "commit" => m \in marking)  BY <1>3, MarksFit
<1>7. QED  BY <1>1, <1>3, <1>4, <1>5, <1>6, PageRests, TurnsRest, StepQuiet

LEMMA StepExecuted ==
    ASSUME ThreadInv, NEW ref \in T!Refs, NEW saved \in BOOLEAN, T!Executed(ref, saved)
    PROVE  ThreadInv'
<1> DEFINE m0 == [ref |-> ref, pc |-> "load", seen |-> {}]
<1>1. ThreadTyped /\ Whole  BY DEF ThreadInv
<1>2. page \in Panel  BY <1>1 DEF ThreadTyped
<1>3. /\ <<ref, saved>> \in page.busy
      /\ page' = [page EXCEPT !.busy = page.busy \ {<<ref, saved>>}, !.confirmed = page.confirmed \cup {T!Proposal(ref)}]
      /\ marking' = IF saved THEN marking \cup {m0} ELSE marking
      /\ turn' = turn /\ messages' = messages /\ archived' = archived /\ past' = past
  BY Zenon DEF T!Executed
<1>4. past.executed[ref] > 0  BY <1>3 DEF ThreadInv, DoneIsKnown, Pressed
<1>5. /\ ref.index \in DOMAIN turn[ref.turn].actions /\ T!Proposal(ref) \in Proposals /\ IsDone(T!Proposal(ref))
  BY <1>4 DEF ThreadInv, DoneIsKnown, ByButton, IsDone
<1>6. /\ page' \in Panel /\ page'.captured = page.captured
      /\ page'.confirmed = page.confirmed \cup {T!Proposal(ref)}
      /\ page'.busy = page.busy \ {<<ref, saved>>}
  BY <1>2, <1>3, <1>5 DEF Panel
<1>7. m0 \in Mark /\ MarkFits(m0) /\ m0.pc = "load"  BY <1>5 DEF Mark, MarkFits
<1> HIDE DEF m0
<1>8. ThreadTyped'  BY <1>1, <1>3, <1>6, <1>7 DEF ThreadTyped
<1>9. \A m \in marking' : MarkFits(m) /\ (m.pc = "commit" => m \in marking)  BY <1>3, <1>7, MarksFit
<1>10. \A p \in page'.confirmed \cup page'.captured : IsDone(p)
  BY <1>5, <1>6 DEF ThreadInv, DoneIsKnown, Remembered
<1>11. \A r \in T!Refs : <<r, TRUE>> \in page.busy => <<r, TRUE>> \in page'.busy \/ T!Proposal(r) \in page'.confirmed
  BY <1>6
<1>12. QED  BY <1>1, <1>3, <1>6, <1>8, <1>9, <1>10, <1>11, TurnsRest, StepQuiet

LEMMA StepLoad ==
    ASSUME ThreadInv, T!LoadMessages
    PROVE  ThreadInv'
<1>1. ThreadTyped /\ Whole  BY DEF ThreadInv
<1>2. page \in Panel /\ past \in ThreadPast  BY <1>1 DEF ThreadTyped
<1>3. /\ past.troubles < MaxTroubles /\ past' = [past EXCEPT !.troubles = @ + 1]
      /\ turn' = turn /\ messages' = messages /\ archived' = archived /\ marking' = marking
  BY Zenon DEF T!LoadMessages, T!TroubleMayCome
<1>4. PICK whole \in BOOLEAN :
        page' = [page EXCEPT !.streaming = 0, !.view = T!Loaded,
                             !.confirmed = IF whole THEN {} ELSE @, !.captured = IF whole THEN {} ELSE @,
                             !.busy = IF whole THEN {} ELSE @]
  BY Zenon DEF T!LoadMessages
<1>5. T!Loaded \in [T!Turns -> [shown: BOOLEAN, done: SUBSET Nat]]
  <2>1. ASSUME NEW t \in T!Turns, T!AnswerOf(t) # {}  PROVE T!Confirmed(messages[T!Row(t)]) \subseteq Nat
    <3>1. T!Row(t) \in T!AnswerOf(t)  BY <2>1, RowIs
    <3>2. DOMAIN messages[T!Row(t)].actions = DOMAIN turn[t].actions
          /\ T!Confirmed(messages[T!Row(t)]) \subseteq DOMAIN turn[t].actions
      BY <1>1, <3>1, MarkedHasPlace
    <3>3. turn[t].actions \in Seq(Proposals \cup {"none"})  BY <1>1, TurnFields DEF ThreadTyped
    <3>4. DOMAIN turn[t].actions \subseteq Nat  BY <3>3
    <3>5. QED  BY <3>2, <3>4
  <2>2. QED  BY <2>1 DEF T!Loaded
<1>6. /\ page' \in Panel /\ page'.confirmed \subseteq page.confirmed /\ page'.captured \subseteq page.captured
      /\ page'.busy \subseteq page.busy
  <2> DEFINE loaded == T!Loaded
             confirmed1 == IF whole THEN {} ELSE page.confirmed
             captured1 == IF whole THEN {} ELSE page.captured
             busy1 == IF whole THEN {} ELSE page.busy
  <2>1. loaded \in [T!Turns -> [shown: BOOLEAN, done: SUBSET Nat]]  BY <1>5
  <2>2. page' = [page EXCEPT !.streaming = 0, !.view = loaded, !.confirmed = confirmed1,
                             !.captured = captured1, !.busy = busy1]
    BY <1>4
  <2>3. confirmed1 \subseteq page.confirmed /\ captured1 \subseteq page.captured /\ busy1 \subseteq page.busy
    OBVIOUS
  <2> HIDE DEF loaded, confirmed1, captured1, busy1
  <2>4. /\ 0 \in 0..MaxTurns /\ confirmed1 \in SUBSET Proposals /\ captured1 \in SUBSET Proposals
        /\ busy1 \in SUBSET (T!Refs \X BOOLEAN)
    BY <1>2, <2>3, ThreadConstants DEF Panel
  <2>5. page' \in Panel /\ page'.confirmed = confirmed1 /\ page'.captured = captured1 /\ page'.busy = busy1
    BY <1>2, <2>1, <2>2, <2>4, PanelIs, ZenonT(60)
  <2>6. QED  BY <2>3, <2>5
<1>7. /\ past' \in ThreadPast /\ past'.met = past.met /\ past'.overlapped = past.overlapped
      /\ past'.executed = past.executed /\ past'.presses = past.presses /\ past'.early = past.early
      /\ past'.troubles # 0
  BY <1>2, <1>3, ThreadConstants DEF ThreadPast
<1>8. ThreadTyped'  BY <1>1, <1>3, <1>6, <1>7 DEF ThreadTyped
<1>9. \A p \in page'.confirmed \cup page'.captured : IsDone(p)
  BY <1>6 DEF ThreadInv, DoneIsKnown, Remembered
<1>10. \A m \in marking' : MarkFits(m) /\ (m.pc = "commit" => m \in marking)  BY <1>3, MarksFit
<1>11. QED  BY <1>1, <1>3, <1>6, <1>7, <1>8, <1>9, <1>10, TurnsRest, StepQuiet

\* The parts of a step that presses no button and makes no mark.
LEMMA DoneQuiet ==
    ASSUME ThreadInv, ThreadTyped', Extended1, past'.executed = past.executed, past'.presses = past.presses,
           past'.early = past.early, past'.troubles = past.troubles, past'.overlapped = past.overlapped,
           page'.confirmed = page.confirmed, page'.captured \subseteq page.confirmed \cup page.captured,
           page'.busy = page.busy, marking' = marking,
           \A t \in T!Turns : T!AnswerOf(t) # {} => T!AnswerOf(t)' = T!AnswerOf(t),
           \A t \in T!Turns : \A i \in T!AnswerOf(t) : messages'[i] = messages[i],
           \A t \in T!Turns : \A i \in T!AnswerOf(t)' : i \in T!AnswerOf(t) \/ T!Confirmed(messages'[i]) = {}
    PROVE  DoneIsKnown' /\ Seen'
<1>1. ThreadTyped /\ Whole /\ DoneIsKnown /\ Seen  BY DEF ThreadInv
<1>2. Remembered' /\ Pressed' /\ ToMark' /\ MarkedTrue'
  <2>1. \A p \in page'.confirmed \cup page'.captured : IsDone(p)  BY <1>1 DEF DoneIsKnown, Remembered
  <2>2. \A b \in page'.busy : past'.executed[b[1]] > 0  BY <1>1 DEF DoneIsKnown, Pressed
  <2>3. \A m \in marking' : m \in Mark /\ MarkFits(m)  BY MarksFit
  <2>4. ASSUME NEW t \in T!Turns, NEW i \in T!AnswerOf(t)', NEW k \in T!Confirmed(messages[i])'
        PROVE  k \in DOMAIN turn[t].actions /\ IsDone(turn[t].actions[k])
    <3>1. T!Confirmed(messages[i])' = T!Confirmed(messages'[i])  BY DEF T!Confirmed
    <3>2. i \in T!AnswerOf(t) /\ messages'[i] = messages[i]  BY <3>1
    <3>3. k \in T!Confirmed(messages[i])  BY <3>1, <3>2
    <3>4. QED  BY <3>2, <3>3, MarksBefore
  <2>5. \A t \in T!Turns : T!AnswerOf(t) # {} => T!AnswerOf(t)' # {}  OBVIOUS
  <2>6. QED  BY <1>1, <2>1, <2>2, <2>3, <2>4, <2>5, DoneKept DEF DoneIsKnown
<1>3. ByButton' /\ Once'  BY <1>1, OnceKept DEF DoneIsKnown
<1>4. Seen'  BY <1>1, SeenKept DEF DoneIsKnown
<1>5. QED  BY <1>2, <1>3, <1>4 DEF DoneIsKnown

LEMMA StepSend ==
    ASSUME ThreadInv, NEW t \in T!Turns, T!Send(t)
    PROVE  ThreadInv'
<1> DEFINE place == T!_next_position(messages)
           met1 == past.met \cup {{s, t} : s \in T!Active}
<1>1. ThreadTyped /\ Places /\ Whole  BY DEF ThreadInv
<1>2. turn \in [T!Turns -> T!Turn] /\ past \in ThreadPast /\ page \in Panel /\ messages \in Seq(T!Message)
  BY <1>1 DEF ThreadTyped
<1>3. /\ turn[t].pc = "none"
      /\ page' = [page EXCEPT !.streaming = t, !.captured = page.confirmed]
      /\ turn' = [turn EXCEPT ![t].pc = "write", ![t].position = place]
      /\ past' = [past EXCEPT !.met = met1]
      /\ archived' = archived /\ messages' = messages /\ marking' = marking
  BY Zenon DEF T!Send
<1>4. place \in Nat  BY <1>1, <1>2, NextPlace DEF Places
<1>5. met1 \in SUBSET SUBSET T!Turns
  <2>1. past.met \in SUBSET SUBSET T!Turns  BY <1>2 DEF ThreadPast
  <2>2. QED  BY <2>1 DEF T!Active
<1> HIDE DEF place, met1
<1>6. /\ turn' \in [T!Turns -> T!Turn] /\ turn'[t].pc = "write" /\ turn'[t].position = place
      /\ turn'[t].actions = turn[t].actions
      /\ \A s \in T!Turns : s # t => turn'[s] = turn[s]
  <2>1. turn[t] \in T!Turn  BY <1>2
  <2>2. QED  BY <1>2, <1>3, <1>4, <2>1 DEF T!Turn
<1>7. /\ past' \in ThreadPast /\ past'.met = met1 /\ past'.overlapped = past.overlapped
      /\ past'.executed = past.executed /\ past'.presses = past.presses /\ past'.early = past.early
      /\ past'.troubles = past.troubles
  <2> DEFINE M == SUBSET SUBSET T!Turns
             X == [T!Refs -> 0..MaxPresses]
  <2>1. past \in [met: M, executed: X, presses: 0..MaxPresses, early: BOOLEAN, overlapped: BOOLEAN,
                  troubles: 0..MaxTroubles] /\ met1 \in M
    BY <1>2, <1>5, Zenon DEF ThreadPast
  <2> HIDE DEF M, X
  <2>2. /\ past' \in [met: M, executed: X, presses: 0..MaxPresses, early: BOOLEAN, overlapped: BOOLEAN,
                      troubles: 0..MaxTroubles]
        /\ past'.met = met1 /\ past'.overlapped = past.overlapped
        /\ past'.executed = past.executed /\ past'.presses = past.presses /\ past'.early = past.early
        /\ past'.troubles = past.troubles
    BY <1>3, <2>1
  <2>3. QED  BY <2>2, Zenon DEF ThreadPast, M, X
<1>8. page' \in Panel /\ page'.confirmed = page.confirmed /\ page'.captured = page.confirmed /\ page'.busy = page.busy
  <2>1. page' = [page EXCEPT !.streaming = t, !.view = page.view, !.confirmed = page.confirmed,
                             !.captured = page.confirmed, !.busy = page.busy]
    BY <1>2, <1>3 DEF Panel
  <2>2. /\ t \in 0..MaxTurns /\ page.confirmed \in SUBSET Proposals
        /\ page.busy \in SUBSET (T!Refs \X BOOLEAN) /\ page.view \in [T!Turns -> [shown: BOOLEAN, done: SUBSET Nat]]
    BY <1>2, ThreadConstants DEF Panel, T!Turns
  <2>3. QED  BY <1>2, <2>1, <2>2, PanelIs, ZenonT(60)
<1>9. ThreadTyped'  BY <1>1, <1>3, <1>6, <1>7, <1>8 DEF ThreadTyped
<1>10. Places'
  <2>1. past'.met = past.met \cup {{s, t} : s \in T!Active} /\ turn'[t].position = T!_next_position(messages)
    BY <1>6, <1>7 DEF met1, place
  <2>2. QED  BY <1>1, <1>3, <1>6, <2>1, PlacesSend
<1>11. SameRows  BY <1>3 DEF SameRows
<1>12. Whole'
  <2>1. turn'[t].pc \in Unbegun /\ turn[t].pc \in Unbegun /\ turn[t].pc \notin Ended /\ turn'[t].pc # "saved"
        /\ turn'[t].pc # "call"
    BY <1>3, <1>6 DEF Unbegun, Ended
  <2>2. \A s \in T!Turns :
          /\ turn'[s].actions = turn[s].actions
          /\ turn'[s].pc \in Unbegun => turn[s].pc \in Unbegun
          /\ turn[s].pc \in Ended => turn'[s].pc \in Ended
          /\ turn'[s].pc = "saved" => turn[s].pc = "saved"
          /\ turn'[s].pc = "call" => turn'[s].left > 0
    <3> TAKE s \in T!Turns
    <3>1. CASE s = t  BY <1>6, <2>1, <3>1
    <3>2. CASE s # t
      <4>1. turn'[s] = turn[s]  BY <1>6, <3>2
      <4>2. turn[s].pc = "call" => turn[s].left > 0  BY <1>1 DEF Whole, CallsLeft
      <4>3. QED  BY <4>1, <4>2
    <3>3. QED  BY <3>1, <3>2
  <2>3. QED  BY <1>1, <1>11, <2>2, WholeQuiet
<1>13. DoneIsKnown' /\ Seen'
  <2>1. Extended1
    <3>1. \A s \in T!Turns : turn'[s].actions = turn[s].actions  BY <1>6
    <3>2. QED  BY <3>1 DEF Extended1
  <2>2. \A s \in T!Turns : T!AnswerOf(s)' = T!AnswerOf(s)  BY <1>11, SameRowsKeep
  <2>3. QED  BY <1>3, <1>7, <1>8, <1>9, <2>1, <2>2, DoneQuiet
<1>14. QED  BY <1>9, <1>10, <1>12, <1>13 DEF ThreadInv

\* A step of a turn that writes one message.
LEMMA StepWrites ==
    ASSUME ThreadInv, NEW t \in T!Turns, NEW row \in T!Message, row.turn = t, messages' = Append(messages, row),
           turn' \in [T!Turns -> T!Turn], Whole', turn[t].pc \in Going,
           \A s \in T!Turns : s # t => turn'[s] = turn[s],
           turn'[t].pc \in Going => turn'[t].position = row.position,
           \/ row.position > turn[t].position
           \/ row.position = turn[t].position /\ \A i \in DOMAIN messages : messages[i].turn # t,
           \A k \in DOMAIN turn[t].actions : k \in DOMAIN turn'[t].actions /\ turn'[t].actions[k] = turn[t].actions[k],
           \A k \in DOMAIN row.actions : ~row.actions[k].confirmed,
           archived' = archived, page' = page, marking' = marking, past' = past
    PROVE  ThreadInv'
<1>1. ThreadTyped /\ Places /\ Whole  BY DEF ThreadInv
<1> DEFINE n == Len(messages) + 1
<1>2. /\ n \notin DOMAIN messages /\ messages'[n] = row /\ messages' \in Seq(T!Message)
      /\ \A i \in DOMAIN messages : messages'[i] = messages[i]
      /\ \A s : T!AnswerOf(s)' =
                  IF row.turn = s /\ row.role = "assistant" THEN T!AnswerOf(s) \cup {n} ELSE T!AnswerOf(s)
  BY <1>1, AppendRows
<1> HIDE DEF n
<1>3. ThreadTyped'  BY <1>1, <1>2 DEF ThreadTyped
<1>4. Places'  BY <1>1, PlacesAppend
<1>5. Extended1
  <2> SUFFICES ASSUME NEW s \in T!Turns, NEW k \in DOMAIN turn[s].actions
               PROVE  k \in DOMAIN turn'[s].actions /\ turn'[s].actions[k] = turn[s].actions[k]
    BY DEF Extended1
  <2>1. CASE s = t  BY <2>1
  <2>2. CASE s # t  BY <2>2
  <2>3. QED  BY <2>1, <2>2
<1>6. T!AnswerOf(t) = {}  BY <1>1 DEF Whole, OneAnswer, Ended, Going
<1>7. \A s \in T!Turns : T!AnswerOf(s) # {} => T!AnswerOf(s)' = T!AnswerOf(s)  BY <1>2, <1>6
<1>8. \A s \in T!Turns : \A i \in T!AnswerOf(s) : messages'[i] = messages[i]  BY <1>2 DEF T!AnswerOf
<1>9. \A s \in T!Turns : \A i \in T!AnswerOf(s)' : i \in T!AnswerOf(s) \/ T!Confirmed(messages'[i]) = {}
  <2>1. T!Confirmed(row) = {}  BY DEF T!Confirmed
  <2>2. QED  BY <1>2, <2>1
<1>10. DoneIsKnown' /\ Seen'  BY <1>3, <1>5, <1>7, <1>8, <1>9, DoneQuiet
<1>11. QED  BY <1>3, <1>4, <1>10 DEF ThreadInv

LEMMA StepUser ==
    ASSUME ThreadInv, NEW t \in T!Turns, T!WriteUser(t)
    PROVE  ThreadInv'
<1>1. ThreadTyped /\ Whole  BY DEF ThreadInv
<1>2. turn \in [T!Turns -> T!Turn]  BY <1>1 DEF ThreadTyped
<1>3. /\ turn[t].pc = "write" /\ T!Write(t, "user", turn[t].position, <<>>)
      /\ turn' = [turn EXCEPT ![t].pc = "ask"]
      /\ archived' = archived /\ page' = page /\ marking' = marking /\ past' = past
  BY Zenon DEF T!WriteUser
<1>4. turn[t] \in T!Turn /\ turn[t].position \in Nat  BY <1>2, TurnFields
<1>5. PICK row \in T!Message :
        /\ messages' = Append(messages, row) /\ row.turn = t /\ row.role = "user" /\ row.position = turn[t].position
        /\ Len(row.actions) = Len(<<>>) /\ DOMAIN row.actions = DOMAIN <<>>
  <2> DEFINE said == <<>>
  <2>1. "user" \in {"user", "tool", "assistant"} /\ <<>> \in Seq(Proposals \cup {"none"})  OBVIOUS
  <2>2. /\ ThreadTyped /\ T!Write(t, "user", turn[t].position, said)
        /\ "user" \in {"user", "tool", "assistant"} /\ turn[t].position \in Nat /\ said \in Seq(Proposals \cup {"none"})
    BY <1>1, <1>3, <1>4, <2>1
  <2> HIDE DEF said
  <2>3. \E row \in T!Message :
          /\ messages' = Append(messages, row) /\ row.turn = t /\ row.role = "user" /\ row.position = turn[t].position
          /\ Len(row.actions) = Len(said) /\ DOMAIN row.actions = DOMAIN said
          /\ \A k \in DOMAIN said : row.actions[k].proposal = said[k] /\ ~row.actions[k].confirmed
    BY <2>2, WriteAppends
  <2>4. QED  BY <2>3 DEF said
<1>6. /\ turn' \in [T!Turns -> T!Turn] /\ turn'[t].pc = "ask" /\ turn'[t].position = turn[t].position
      /\ turn'[t].actions = turn[t].actions
      /\ \A s \in T!Turns : s # t => turn'[s] = turn[s]
  BY <1>2, <1>3, <1>4 DEF T!Turn
<1>7. Whole'  BY <1>1, <1>3, <1>5, <1>6, WholeUser
<1>8. turn[t].pc \in Going /\ \A i \in DOMAIN messages : messages[i].turn # t
  BY <1>1, <1>3 DEF Going, Whole, Begun, Unbegun
<1>9. \A k \in DOMAIN row.actions : ~row.actions[k].confirmed  BY <1>5
<1>10. QED  BY <1>3, <1>5, <1>6, <1>7, <1>8, <1>9, StepWrites

LEMMA StepExecute ==
    ASSUME ThreadInv, NEW t \in T!Turns, T!Execute(t)
    PROVE  ThreadInv'
<1>1. ThreadTyped /\ Whole  BY DEF ThreadInv
<1>2. turn \in [T!Turns -> T!Turn]  BY <1>1 DEF ThreadTyped
<1>3. /\ turn[t].pc = "call"
      /\ archived' = archived /\ page' = page /\ marking' = marking /\ past' = past
  BY Zenon DEF T!Execute
<1>4. PICK result \in T!Results(t) :
        /\ T!Write(t, "tool", turn[t].position + 1, <<result>>)
        /\ turn' = [turn EXCEPT ![t].position = @ + 1, ![t].actions = Append(@, result),
                                ![t].left = @ - 1, ![t].pc = T!AfterCall(t, turn[t].left - 1)]
  BY Zenon DEF T!Execute
<1>5. result \in Proposals \cup {"none"} /\ <<result>> \in Seq(Proposals \cup {"none"})  BY DEF T!Results
<1>6. /\ turn[t] \in T!Turn /\ turn[t].position \in Nat /\ turn[t].left \in 0..MaxCalls
      /\ turn[t].steps \in 0..max_steps /\ turn[t].actions \in Seq(Proposals \cup {"none"})
  BY <1>2, TurnFields
<1>7. turn[t].left > 0  BY <1>1, <1>3 DEF Whole, CallsLeft
<1>8. PICK row \in T!Message :
        /\ messages' = Append(messages, row) /\ row.turn = t /\ row.role = "tool" /\ row.position = turn[t].position + 1
        /\ DOMAIN row.actions = DOMAIN <<result>>
        /\ \A k \in DOMAIN <<result>> : row.actions[k].proposal = <<result>>[k] /\ ~row.actions[k].confirmed
  <2> DEFINE said == <<result>>
  <2>1. "tool" \in {"user", "tool", "assistant"} /\ turn[t].position + 1 \in Nat  BY <1>6
  <2>2. /\ ThreadTyped /\ T!Write(t, "tool", turn[t].position + 1, said)
        /\ "tool" \in {"user", "tool", "assistant"} /\ turn[t].position + 1 \in Nat /\ said \in Seq(Proposals \cup {"none"})
    BY <1>1, <1>4, <1>5, <2>1
  <2> HIDE DEF said
  <2>3. \E row \in T!Message :
          /\ messages' = Append(messages, row) /\ row.turn = t /\ row.role = "tool" /\ row.position = turn[t].position + 1
          /\ Len(row.actions) = Len(said) /\ DOMAIN row.actions = DOMAIN said
          /\ \A k \in DOMAIN said : row.actions[k].proposal = said[k] /\ ~row.actions[k].confirmed
    BY <2>2, WriteAppends
  <2>4. QED  BY <2>3 DEF said
<1>9. row.actions[1].proposal = result /\ \A k \in DOMAIN row.actions : ~row.actions[k].confirmed  BY <1>8
<1> DEFINE next == T!AfterCall(t, turn[t].left - 1)
           grown == Append(turn[t].actions, result)
<1>10. next \in {"call", "ask", "summary"} /\ (next = "call" => turn[t].left - 1 > 0)  BY DEF T!AfterCall
<1>11. /\ grown \in Seq(Proposals \cup {"none"})
       /\ \A k \in DOMAIN turn[t].actions : k \in DOMAIN grown /\ grown[k] = turn[t].actions[k]
  BY <1>5, <1>6
<1>12. turn' = [turn EXCEPT ![t].position = turn[t].position + 1, ![t].actions = grown,
                            ![t].left = turn[t].left - 1, ![t].pc = next]
  BY <1>2, <1>4
<1> HIDE DEF next, grown
<1>13. /\ turn' \in [T!Turns -> T!Turn] /\ turn'[t].pc = next /\ turn'[t].position = turn[t].position + 1
       /\ turn'[t].actions = grown /\ turn'[t].left = turn[t].left - 1
       /\ \A s \in T!Turns : s # t => turn'[s] = turn[s]
  <2>1. turn[t].left - 1 \in 0..MaxCalls /\ turn[t].position + 1 \in Nat
    <3>1. MaxCalls \in Nat  BY ThreadConstants
    <3>2. QED  BY <1>6, <1>7, <3>1
  <2>2. QED  BY <1>2, <1>6, <1>10, <1>11, <1>12, <2>1 DEF T!Turn
<1>14. Whole'
  <2>1. turn'[t].actions = Append(turn[t].actions, result)  BY <1>13 DEF grown
  <2>2. QED  BY <1>1, <1>3, <1>5, <1>8, <1>9, <1>10, <1>13, <2>1, WholeExecute
<1>15. turn[t].pc \in Going /\ row.position > turn[t].position  BY <1>3, <1>6, <1>8 DEF Going
<1>16. QED  BY <1>3, <1>8, <1>9, <1>11, <1>13, <1>14, <1>15, StepWrites

LEMMA StepFinish ==
    ASSUME ThreadInv, NEW t \in T!Turns, T!_finish(t)
    PROVE  ThreadInv'
<1>1. ThreadTyped /\ Whole  BY DEF ThreadInv
<1>2. turn \in [T!Turns -> T!Turn]  BY <1>1 DEF ThreadTyped
<1>3. /\ turn[t].pc = "finish" /\ T!Write(t, "assistant", turn[t].position + 1, turn[t].actions)
      /\ turn' = [turn EXCEPT ![t].pc = "saved", ![t].position = 0, ![t].steps = 0]
      /\ archived' = archived /\ page' = page /\ marking' = marking /\ past' = past
  BY Zenon DEF T!_finish
<1>4. /\ turn[t] \in T!Turn /\ turn[t].position \in Nat /\ turn[t].actions \in Seq(Proposals \cup {"none"})
  BY <1>2, TurnFields
<1>5. PICK row \in T!Message :
        /\ messages' = Append(messages, row) /\ row.turn = t /\ row.role = "assistant"
        /\ row.position = turn[t].position + 1
        /\ Len(row.actions) = Len(turn[t].actions) /\ DOMAIN row.actions = DOMAIN turn[t].actions
        /\ \A k \in DOMAIN turn[t].actions :
             row.actions[k].proposal = turn[t].actions[k] /\ ~row.actions[k].confirmed
  <2>1. "assistant" \in {"user", "tool", "assistant"} /\ turn[t].position + 1 \in Nat  BY <1>4
  <2>2. /\ ThreadTyped /\ T!Write(t, "assistant", turn[t].position + 1, turn[t].actions)
        /\ "assistant" \in {"user", "tool", "assistant"} /\ turn[t].position + 1 \in Nat /\ turn[t].actions \in Seq(Proposals \cup {"none"})
    BY <1>1, <1>3, <1>4, <2>1
  <2>3. \E row \in T!Message :
          /\ messages' = Append(messages, row) /\ row.turn = t /\ row.role = "assistant" /\ row.position = turn[t].position + 1
          /\ Len(row.actions) = Len(turn[t].actions) /\ DOMAIN row.actions = DOMAIN turn[t].actions
          /\ \A k \in DOMAIN turn[t].actions : row.actions[k].proposal = turn[t].actions[k] /\ ~row.actions[k].confirmed
    BY <2>2, WriteAppends
  <2>4. QED  BY <2>3
<1>6. /\ turn' \in [T!Turns -> T!Turn] /\ turn'[t].pc = "saved" /\ turn'[t].actions = turn[t].actions
      /\ \A s \in T!Turns : s # t => turn'[s] = turn[s]
  <2> DEFINE S == Seq(Proposals \cup {"none"})
             Pcs == {"none", "write", "ask", "call", "summary", "finish", "saved", "over"}
             Type == [pc: Pcs, position: Nat, steps: 0..max_steps, left: 0..MaxCalls, actions: S, failed: BOOLEAN]
  <2>1. T!Turn = Type  BY Zenon DEF T!Turn
  <2>2. 0 \in 0..max_steps /\ "saved" \in Pcs  BY ThreadConstants
  <2> HIDE DEF S, Pcs
  <2>3. turn \in [T!Turns -> Type]  BY <1>2, <2>1
  <2>4. /\ turn' \in [T!Turns -> Type] /\ turn'[t].pc = "saved" /\ turn'[t].actions = turn[t].actions
        /\ \A s \in T!Turns : s # t => turn'[s] = turn[s]
    BY <1>3, <2>2, <2>3
  <2>5. QED  BY <2>1, <2>4
<1>7. Whole'  BY <1>1, <1>3, <1>5, <1>6, WholeFinish
<1>8. turn[t].pc \in Going /\ turn'[t].pc \notin Going /\ row.position > turn[t].position
  BY <1>3, <1>4, <1>5, <1>6 DEF Going
<1>9. QED  BY <1>3, <1>5, <1>6, <1>7, <1>8, StepWrites

LEMMA StepPress ==
    ASSUME ThreadInv, NEW ref \in T!Refs, T!Press(ref)
    PROVE  ThreadInv'
<1> DEFINE shown == page.view[ref.turn].shown
           button == <<ref, shown>>
           early1 == past.early \/ ~shown
           executed1 == [past.executed EXCEPT ![ref] = past.executed[ref] + 1]
<1>1. ThreadTyped /\ Places /\ Whole /\ DoneIsKnown /\ Seen  BY DEF ThreadInv
<1>2. past \in ThreadPast /\ page \in Panel /\ ref.turn \in T!Turns /\ shown \in BOOLEAN
  BY <1>1 DEF ThreadTyped, Panel, T!Refs
<1>3. /\ ref.index \in DOMAIN turn[ref.turn].actions /\ T!Proposal(ref) # "none"
      /\ T!Proposal(ref) \notin page.confirmed /\ button \notin page.busy
      /\ past.presses < MaxPresses
      /\ page' = [page EXCEPT !.busy = page.busy \cup {button}]
      /\ past' = [past EXCEPT !.executed[ref] = @ + 1, !.presses = @ + 1, !.early = early1]
      /\ archived' = archived /\ messages' = messages /\ turn' = turn /\ marking' = marking
  BY Zenon DEF T!Press, T!Offered
<1>4. T!Proposal(ref) \in Proposals
  <2>1. turn[ref.turn].actions \in Seq(Proposals \cup {"none"})  BY <1>1, <1>2, TurnFields DEF ThreadTyped
  <2>2. turn[ref.turn].actions[ref.index] \in Proposals \cup {"none"}  BY <1>3, <2>1
  <2>3. QED  BY <1>3, <2>2 DEF T!Proposal
<1>5. past.executed \in [T!Refs -> 0..MaxPresses] /\ past.presses \in 0..MaxPresses
      /\ past.executed[ref] \in Nat /\ past.executed[ref] <= past.presses
  BY <1>1, <1>2, ThreadConstants DEF ThreadPast, DoneIsKnown, ByButton
<1>6. past.executed[ref] + 1 \in 0..MaxPresses /\ past.presses + 1 \in 0..MaxPresses
  BY <1>3, <1>5, ThreadConstants
<1>7. executed1 \in [T!Refs -> 0..MaxPresses] /\ executed1[ref] = past.executed[ref] + 1
      /\ \A r \in T!Refs : r # ref => executed1[r] = past.executed[r]
  BY <1>5, <1>6
<1>8. past' = [past EXCEPT !.executed = executed1, !.presses = past.presses + 1, !.early = early1]
  <2>1. DOMAIN past = {"met", "executed", "presses", "early", "overlapped", "troubles"}  BY <1>2 DEF ThreadPast
  <2> HIDE DEF early1
  <2>2. QED  BY <1>3, <2>1
<1>9. early1 \in BOOLEAN /\ (early1 <=> past.early \/ ~shown)  BY <1>2 DEF ThreadPast
<1> HIDE DEF executed1, early1
<1>10. /\ past' \in ThreadPast /\ past'.met = past.met /\ past'.overlapped = past.overlapped
       /\ past'.executed = executed1 /\ past'.presses = past.presses + 1 /\ past'.early = early1
       /\ past'.troubles = past.troubles
  <2> DEFINE M == SUBSET SUBSET T!Turns
             X == [T!Refs -> 0..MaxPresses]
             N == 0..MaxPresses
  <2>1. past \in [met: M, executed: X, presses: N, early: BOOLEAN, overlapped: BOOLEAN, troubles: 0..MaxTroubles]
        /\ executed1 \in X /\ past.presses + 1 \in N
    BY <1>2, <1>6, <1>7, Zenon DEF ThreadPast
  <2> HIDE DEF M, X, N
  <2>2. /\ past' \in [met: M, executed: X, presses: N, early: BOOLEAN, overlapped: BOOLEAN, troubles: 0..MaxTroubles]
        /\ past'.met = past.met /\ past'.overlapped = past.overlapped
        /\ past'.executed = executed1 /\ past'.presses = past.presses + 1 /\ past'.early = early1
        /\ past'.troubles = past.troubles
    BY <1>8, <1>9, <2>1
  <2>3. QED  BY <2>2, Zenon DEF ThreadPast, M, X, N
<1>11. page' \in Panel /\ page'.confirmed = page.confirmed /\ page'.captured = page.captured
       /\ page'.busy = page.busy \cup {button}
  <2> DEFINE busy1 == page.busy \cup {button}
  <2>1. page' = [page EXCEPT !.streaming = page.streaming, !.view = page.view, !.confirmed = page.confirmed,
                             !.captured = page.captured, !.busy = busy1]
    <3> HIDE DEF busy1
    <3>1. page' = [page EXCEPT !.busy = busy1]  BY <1>3 DEF busy1
    <3>2. QED  BY <1>2, <3>1 DEF Panel
  <2>2. /\ page.streaming \in 0..MaxTurns /\ page.confirmed \in SUBSET Proposals /\ page.captured \in SUBSET Proposals
        /\ page.view \in [T!Turns -> [shown: BOOLEAN, done: SUBSET Nat]]
        /\ busy1 \in SUBSET (T!Refs \X BOOLEAN)
    BY <1>2 DEF Panel
  <2> HIDE DEF busy1
  <2>3. page' \in Panel /\ page'.confirmed = page.confirmed /\ page'.captured = page.captured /\ page'.busy = busy1
    BY <1>2, <2>1, <2>2, PanelIs, ZenonT(60)
  <2>4. QED  BY <2>3 DEF busy1
<1>12. ThreadTyped'  BY <1>1, <1>3, <1>10, <1>11 DEF ThreadTyped
<1>13. SameRows  BY <1>3 DEF SameRows
<1>14. Places'
  <2>1. \A t \in T!Turns : turn'[t].pc \in Going => turn[t].pc \in Going /\ turn'[t].position = turn[t].position
    BY <1>3
  <2>2. QED  BY <1>1, <1>3, <1>10, <2>1, PlacesQuiet
<1>15. Whole'  BY <1>1, <1>3, <1>13, TurnsRest, WholeQuiet
<1>16. Extended1 /\ \A t \in T!Turns : T!AnswerOf(t)' = T!AnswerOf(t)
  BY <1>3, <1>13, SameRowsKeep DEF Extended1
<1>17. \A r \in T!Refs : past.executed[r] > 0 => past'.executed[r] > 0
  BY <1>5, <1>7, <1>10
<1>18. Remembered' /\ Pressed' /\ ToMark' /\ MarkedTrue'
  <2>1. \A p \in page'.confirmed \cup page'.captured : IsDone(p)
    BY <1>1, <1>11 DEF DoneIsKnown, Remembered
  <2>2. \A b \in page'.busy : past'.executed[b[1]] > 0
    <3> SUFFICES ASSUME NEW b \in page'.busy  PROVE past'.executed[b[1]] > 0
      OBVIOUS
    <3>1. CASE b = button  BY <1>5, <1>7, <1>10, <3>1
    <3>2. CASE b # button
      <4>1. b \in page.busy /\ b[1] \in T!Refs  BY <1>2, <1>11, <3>2 DEF Panel
      <4>2. QED  BY <1>1, <1>17, <4>1 DEF DoneIsKnown, Pressed
    <3>3. QED  BY <3>1, <3>2
  <2>3. \A m \in marking' : m \in Mark /\ MarkFits(m)  BY <1>3, MarksFit
  <2>4. ASSUME NEW t \in T!Turns, NEW i \in T!AnswerOf(t)', NEW k \in T!Confirmed(messages[i])'
        PROVE  k \in DOMAIN turn[t].actions /\ IsDone(turn[t].actions[k])
    <3>1. T!Confirmed(messages[i])' = T!Confirmed(messages[i])  BY <1>3 DEF T!Confirmed
    <3>2. QED  BY <1>16, <3>1, MarksBefore
  <2>5. QED  BY <1>1, <1>16, <1>17, <2>1, <2>2, <2>3, <2>4, DoneKept DEF DoneIsKnown
<1>19. ByButton'
  <2> SUFFICES ASSUME NEW r \in T!Refs
               PROVE  /\ past'.executed[r] <= past'.presses
                      /\ past'.executed[r] > 0 => r.index \in DOMAIN turn'[r.turn].actions /\ T!Proposal(r)' \in Proposals
    BY DEF ByButton
  <2>1. /\ past.executed[r] <= past.presses
        /\ past.executed[r] > 0 => r.index \in DOMAIN turn[r.turn].actions /\ T!Proposal(r) \in Proposals
    BY <1>1 DEF DoneIsKnown, ByButton
  <2>2. T!Proposal(r)' = T!Proposal(r)  BY <1>3 DEF T!Proposal
  <2>3. CASE r = ref  BY <1>3, <1>4, <1>5, <1>7, <1>10, <2>2, <2>3
  <2>4. CASE r # ref  BY <1>3, <1>5, <1>7, <1>10, <2>1, <2>2, <2>4
  <2>5. QED  BY <2>3, <2>4
<1>20. Once'
  <2> SUFFICES ASSUME ~past'.early, past'.troubles = 0, NEW r \in T!Refs
               PROVE  /\ past'.executed[r] <= 1
                      /\ past'.executed[r] > 0 => <<r, TRUE>> \in page'.busy \/ T!Proposal(r)' \in page'.confirmed
    BY DEF Once
  <2>1. ~past.early /\ past.troubles = 0 /\ shown = TRUE  BY <1>2, <1>9, <1>10
  <2>2. /\ past.executed[r] <= 1
        /\ past.executed[r] > 0 => <<r, TRUE>> \in page.busy \/ T!Proposal(r) \in page.confirmed
    BY <1>1, <2>1 DEF DoneIsKnown, Once
  <2>3. T!Proposal(r)' = T!Proposal(r)  BY <1>3 DEF T!Proposal
  <2>4. CASE r = ref
    <3>1. <<ref, TRUE>> \notin page.busy /\ <<ref, TRUE>> \in page'.busy  BY <1>3, <1>11, <2>1
    <3>2. ~(past.executed[ref] > 0)  BY <1>3, <2>2, <2>4, <3>1
    <3>3. QED  BY <1>5, <1>7, <1>10, <2>4, <3>1, <3>2
  <2>5. CASE r # ref  BY <1>7, <1>10, <1>11, <2>2, <2>3, <2>5
  <2>6. QED  BY <2>4, <2>5
<1>21. Seen'
  <2>1. \A t \in T!Turns : \A i \in T!AnswerOf(t) : messages'[i] = messages[i]  BY <1>3
  <2>2. QED  BY <1>1, <1>3, <1>10, <1>16, <2>1, SeenKept DEF DoneIsKnown
<1>22. QED  BY <1>12, <1>14, <1>15, <1>18, <1>19, <1>20, <1>21 DEF ThreadInv, DoneIsKnown

LEMMA StepLoadMark ==
    ASSUME ThreadInv, NEW m \in marking, T!LoadMark(m)
    PROVE  ThreadInv'
<1> DEFINE t == m.ref.turn
           seen1 == T!Confirmed(messages[T!Row(t)])
           m1 == [m EXCEPT !.pc = "commit", !.seen = seen1]
           met1 == past.overlapped \/ \E o \in marking : o.pc = "commit" /\ o.ref.turn = t
<1>1. ThreadTyped /\ Places /\ Whole /\ DoneIsKnown /\ Seen  BY DEF ThreadInv
<1>2. past \in ThreadPast /\ m \in Mark /\ t \in T!Turns /\ turn \in [T!Turns -> T!Turn]
  BY <1>1 DEF ThreadTyped, Mark, T!Refs
<1>3. /\ m.pc = "load" /\ T!AnswerOf(t) # {}
      /\ marking' = (marking \ {m}) \cup {m1}
      /\ past' = [past EXCEPT !.overlapped = met1]
      /\ archived' = archived /\ messages' = messages /\ turn' = turn /\ page' = page
  BY Zenon DEF T!LoadMark
<1>4. T!Row(t) \in T!AnswerOf(t)  BY <1>3, RowIs
<1>5. seen1 \subseteq DOMAIN turn[t].actions /\ seen1 \subseteq Nat
  <2>1. seen1 \subseteq DOMAIN turn[t].actions  BY <1>1, <1>2, <1>4, MarkedHasPlace
  <2>2. turn[t].actions \in Seq(Proposals \cup {"none"})  BY <1>2, TurnFields
  <2>3. DOMAIN turn[t].actions \subseteq Nat  BY <2>2
  <2>4. QED  BY <2>1, <2>3
<1>6. \A k \in seen1 : k \in DOMAIN turn[t].actions /\ IsDone(turn[t].actions[k])
  BY <1>2, <1>4, MarksBefore
<1>7. met1 \in BOOLEAN /\ (~met1 => ~past.overlapped /\ \A o \in marking : ~(o.pc = "commit" /\ o.ref.turn = t))
  BY <1>2 DEF ThreadPast
<1> HIDE DEF seen1, met1
<1>8. m1 \in Mark /\ m1.pc = "commit" /\ m1.ref = m.ref /\ m1.seen = seen1
  BY <1>2, <1>5 DEF Mark
<1>9. MarkFits(m1)
  <2>1. MarkFits(m)  BY MarksFit
  <2>2. QED  BY <1>3, <1>6, <1>8, <2>1 DEF MarkFits
<1> HIDE DEF m1
<1>10. /\ past' \in ThreadPast /\ past'.met = past.met /\ past'.overlapped = met1
       /\ past'.executed = past.executed /\ past'.presses = past.presses /\ past'.early = past.early
       /\ past'.troubles = past.troubles
  <2> DEFINE M == SUBSET SUBSET T!Turns
             X == [T!Refs -> 0..MaxPresses]
             N == 0..MaxPresses
  <2>1. past \in [met: M, executed: X, presses: N, early: BOOLEAN, overlapped: BOOLEAN, troubles: 0..MaxTroubles]
    BY <1>2, Zenon DEF ThreadPast
  <2> HIDE DEF M, X, N
  <2>2. /\ past' \in [met: M, executed: X, presses: N, early: BOOLEAN, overlapped: BOOLEAN, troubles: 0..MaxTroubles]
        /\ past'.met = past.met /\ past'.overlapped = met1
        /\ past'.executed = past.executed /\ past'.presses = past.presses /\ past'.early = past.early
        /\ past'.troubles = past.troubles
    BY <1>3, <1>7, <2>1
  <2>3. QED  BY <2>2, Zenon DEF ThreadPast, M, X, N
<1>11. ThreadTyped'  BY <1>1, <1>3, <1>8, <1>10 DEF ThreadTyped
<1>12. SameRows  BY <1>3 DEF SameRows
<1>13. Places'
  <2>1. \A s \in T!Turns : turn'[s].pc \in Going => turn[s].pc \in Going /\ turn'[s].position = turn[s].position
    BY <1>3
  <2>2. QED  BY <1>1, <1>3, <1>10, <2>1, PlacesQuiet
<1>14. Whole'  BY <1>1, <1>3, <1>12, TurnsRest, WholeQuiet
<1>15. Extended1 /\ \A s \in T!Turns : T!AnswerOf(s)' = T!AnswerOf(s)
  BY <1>3, <1>12, SameRowsKeep DEF Extended1
<1>16. Remembered' /\ Pressed' /\ ToMark' /\ MarkedTrue'
  <2>1. \A p \in page'.confirmed \cup page'.captured : IsDone(p)  BY <1>1, <1>3 DEF DoneIsKnown, Remembered
  <2>2. \A b \in page'.busy : past'.executed[b[1]] > 0  BY <1>1, <1>3, <1>10 DEF DoneIsKnown, Pressed
  <2>3. \A o \in marking' : o \in Mark /\ MarkFits(o)  BY <1>3, <1>8, <1>9, MarksFit
  <2>4. ASSUME NEW s \in T!Turns, NEW i \in T!AnswerOf(s)', NEW k \in T!Confirmed(messages[i])'
        PROVE  k \in DOMAIN turn[s].actions /\ IsDone(turn[s].actions[k])
    <3>1. T!Confirmed(messages[i])' = T!Confirmed(messages[i])  BY <1>3 DEF T!Confirmed
    <3>2. QED  BY <1>15, <3>1, MarksBefore
  <2>5. QED  BY <1>1, <1>10, <1>15, <2>1, <2>2, <2>3, <2>4, DoneKept DEF DoneIsKnown
<1>17. ByButton' /\ Once'  BY <1>1, <1>3, <1>10, <1>15, OnceKept DEF DoneIsKnown
<1>18. Seen'
  <2> SUFFICES ASSUME ~past'.overlapped, NEW l \in marking', l.pc = "commit"
               PROVE  /\ l.seen = T!Confirmed(messages[T!Row(l.ref.turn)])'
                      /\ \A o \in marking' : o.pc = "commit" /\ o.ref.turn = l.ref.turn => o = l
    BY DEF Seen
  <2>1. ~past.overlapped /\ \A o \in marking : ~(o.pc = "commit" /\ o.ref.turn = t)  BY <1>7, <1>10
  <2>2. l.ref.turn \in T!Turns  BY <1>11 DEF ThreadTyped, Mark, T!Refs
  <2>3. T!Confirmed(messages[T!Row(l.ref.turn)])' = T!Confirmed(messages[T!Row(l.ref.turn)])
    <3>1. T!Row(l.ref.turn)' = T!Row(l.ref.turn)  BY <1>15, <2>2 DEF T!Row
    <3>2. QED  BY <1>3, <3>1 DEF T!Confirmed
  <2>4. CASE l = m1
    <3>1. l.seen = T!Confirmed(messages[T!Row(l.ref.turn)])  BY <1>8, <2>4 DEF seen1
    <3>2. ASSUME NEW o \in marking', o.pc = "commit", o.ref.turn = l.ref.turn  PROVE o = l
      BY <1>3, <1>8, <2>1, <2>4, <3>2
    <3>3. QED  BY <2>3, <3>1, <3>2
  <2>5. CASE l # m1
    <3>1. l \in marking  BY <1>3, <2>5
    <3>2. l.ref.turn # t  BY <2>1, <3>1
    <3>3. l.seen = T!Confirmed(messages[T!Row(l.ref.turn)])  BY <1>1, <2>1, <3>1 DEF Seen
    <3>4. ASSUME NEW o \in marking', o.pc = "commit", o.ref.turn = l.ref.turn  PROVE o = l
      <4>1. o # m1  BY <1>8, <3>2, <3>4
      <4>2. o \in marking  BY <1>3, <4>1
      <4>3. QED  BY <1>1, <2>1, <3>1, <3>4, <4>2 DEF Seen
    <3>5. QED  BY <2>3, <3>3, <3>4
  <2>6. QED  BY <2>4, <2>5
<1>19. QED  BY <1>11, <1>13, <1>14, <1>16, <1>17, <1>18 DEF ThreadInv, DoneIsKnown

LEMMA ConfirmWrites ==
    ASSUME ThreadTyped, NEW i \in DOMAIN messages, NEW done,
           messages' = [messages EXCEPT ![i].actions = [k \in DOMAIN @ |-> [@[k] EXCEPT !.confirmed = k \in done]]]
    PROVE  /\ messages' \in Seq(T!Message) /\ DOMAIN messages' = DOMAIN messages
           /\ \A j \in DOMAIN messages : j # i => messages'[j] = messages[j]
           /\ MarkWrites(i, done)
<1> DEFINE old == messages[i].actions
           new == [k \in DOMAIN old |-> [old[k] EXCEPT !.confirmed = k \in done]]
<1>1. messages \in Seq(T!Message) /\ messages[i] \in T!Message /\ old \in Seq(T!Action)
      /\ Len(messages) \in Nat /\ DOMAIN messages = 1..Len(messages)
  BY MessageRows DEF ThreadTyped
<1>2. DOMAIN old = 1..Len(old) /\ Len(old) \in Nat  BY <1>1
<1>3. ASSUME NEW k \in DOMAIN old
      PROVE  new[k] \in T!Action /\ new[k].proposal = old[k].proposal /\ (new[k].confirmed <=> k \in done)
  <2>1. old[k] \in T!Action  BY <1>1
  <2>2. (k \in done) \in BOOLEAN  OBVIOUS
  <2> DEFINE b == k \in done
  <2>3. new[k] = [old[k] EXCEPT !.confirmed = b]  OBVIOUS
  <2> HIDE DEF b, new
  <2>4. new[k] \in T!Action /\ new[k].proposal = old[k].proposal /\ new[k].confirmed = b
    BY <2>1, <2>2, <2>3 DEF T!Action, b
  <2>5. QED  BY <2>4 DEF b
<1>4. DOMAIN new = DOMAIN old  OBVIOUS
<1>5. messages' = [messages EXCEPT ![i].actions = new]  BY <1>1
<1> HIDE DEF new
<1>6. new \in Seq(T!Action) /\ Len(new) = Len(old)
  <2>1. new \in [1..Len(old) -> T!Action]
    <3>1. new = [k \in DOMAIN old |-> new[k]]  BY DEF new
    <3>2. QED  BY <1>2, <1>3, <3>1
  <2>2. QED  BY <1>2, <2>1, IsASeq
<1> DEFINE row == [messages[i] EXCEPT !.actions = new]
<1>7. row \in T!Message /\ row.actions = new /\ row.turn = messages[i].turn /\ row.role = messages[i].role
      /\ row.position = messages[i].position
  <2> DEFINE S == Seq(T!Action)
  <2>1. messages[i] \in [turn : T!Turns, role : {"user", "tool", "assistant"}, position : Nat, actions : S]
    BY <1>1, Zenon DEF T!Message
  <2>2. new \in S  BY <1>6
  <2> HIDE DEF S
  <2>3. row \in [turn : T!Turns, role : {"user", "tool", "assistant"}, position : Nat, actions : S]
        /\ row.actions = new /\ row.turn = messages[i].turn /\ row.role = messages[i].role
        /\ row.position = messages[i].position
    BY <2>1, <2>2
  <2>4. QED  BY <2>3, Zenon DEF T!Message, S
<1>8. messages' = [messages EXCEPT ![i] = row]  BY <1>5
<1> HIDE DEF row
<1>9. messages' \in Seq(T!Message) /\ DOMAIN messages' = DOMAIN messages /\ messages'[i] = row
      /\ \A j \in DOMAIN messages : j # i => messages'[j] = messages[j]
  <2>1. messages' \in [1..Len(messages) -> T!Message]
    <3> DEFINE M == T!Message
               n == Len(messages)
    <3>1. messages \in [1..n -> M]  BY <1>1
    <3>2. row \in M /\ i \in 1..n  BY <1>1, <1>7
    <3> HIDE DEF M, n
    <3>3. messages' \in [1..n -> M]  BY <1>8, <3>1, <3>2
    <3>4. QED  BY <3>3 DEF M, n
  <2>2. messages' \in Seq(T!Message)  BY <1>1, <2>1, IsASeq
  <2>3. QED  BY <1>1, <1>8, <2>2
<1>10. MarkWrites(i, done)  BY <1>3, <1>4, <1>6, <1>7, <1>9 DEF MarkWrites
<1>11. QED  BY <1>9, <1>10

\* What confirm_action writes: the row of the turn, with marks it has seen or makes.
LEMMA ConfirmRows ==
    ASSUME ThreadInv, NEW m \in marking, T!confirm_action(m)
    PROVE  LET i == T!Row(m.ref.turn)
               done == T!Marked(m.seen, m.ref.index) IN
           /\ m \in Mark /\ m.pc = "commit" /\ m.ref.turn \in T!Turns /\ m.ref.index \in Nat
           /\ i \in T!AnswerOf(m.ref.turn) /\ i \in DOMAIN messages
           /\ messages' \in Seq(T!Message) /\ SameRows
           /\ \A j \in DOMAIN messages : j # i => messages'[j] = messages[j]
           /\ T!Confirmed(messages'[i]) \subseteq done \cup T!Confirmed(messages[i])
           /\ T!Confirmed(messages[i]) \subseteq T!Confirmed(messages'[i]) \cup (T!Confirmed(messages[i]) \ m.seen)
<1> DEFINE i == T!Row(m.ref.turn)
           done == T!Marked(m.seen, m.ref.index)
<1>1. ThreadTyped /\ ToMark  BY DEF ThreadInv, DoneIsKnown
<1>2. /\ m.pc = "commit"
      /\ messages' = IF m.ref.index \in m.seen THEN messages
                     ELSE [messages EXCEPT ![i].actions = [k \in DOMAIN @ |-> [@[k] EXCEPT !.confirmed = k \in done]]]
  BY Zenon DEF T!confirm_action
<1>3. m \in Mark /\ m.ref.turn \in T!Turns /\ m.ref.index \in Nat
  <2>1. m \in Mark  BY <1>1 DEF ThreadTyped
  <2>2. m.ref \in T!Refs  BY <2>1 DEF Mark
  <2>3. m.ref.index \in 1..(max_steps * MaxCalls)  BY <2>2 DEF T!Refs
  <2>4. QED  BY <2>1, <2>2, <2>3 DEF T!Refs
<1>4. T!AnswerOf(m.ref.turn) # {}  BY <1>1, <1>2 DEF ToMark
<1>5. i \in T!AnswerOf(m.ref.turn)  BY <1>4, RowIs
<1>6. i \in DOMAIN messages /\ messages[i].role = "assistant"  BY <1>5 DEF T!AnswerOf
<1>7. m.seen \subseteq done  BY DEF T!Marked
<1> HIDE DEF i, done
<1>8. CASE m.ref.index \in m.seen
  <2>1. messages' = messages  BY <1>2, <1>8
  <2>2. messages' \in Seq(T!Message) /\ SameRows  BY <1>1, <2>1 DEF ThreadTyped, SameRows
  <2>3. QED  BY <1>2, <1>3, <1>5, <1>6, <2>1, <2>2 DEF i, done
<1>9. CASE m.ref.index \notin m.seen
  <2>1. messages' = [messages EXCEPT ![i].actions = [k \in DOMAIN @ |-> [@[k] EXCEPT !.confirmed = k \in done]]]
    BY <1>2, <1>9
  <2>2. /\ messages' \in Seq(T!Message) /\ DOMAIN messages' = DOMAIN messages
        /\ \A j \in DOMAIN messages : j # i => messages'[j] = messages[j]
        /\ MarkWrites(i, done)
    BY <1>1, <1>6, <2>1, ConfirmWrites
  <2>3. SameRows
    <3> SUFFICES ASSUME NEW j \in DOMAIN messages
                 PROVE  /\ messages'[j].turn = messages[j].turn /\ messages'[j].role = messages[j].role
                        /\ messages'[j].position = messages[j].position
                        /\ messages[j].role = "tool" => messages'[j] = messages[j]
                        /\ Len(messages'[j].actions) = Len(messages[j].actions)
                        /\ DOMAIN messages'[j].actions = DOMAIN messages[j].actions
                        /\ \A k \in DOMAIN messages[j].actions :
                             messages'[j].actions[k].proposal = messages[j].actions[k].proposal
      BY <2>2 DEF SameRows
    <3>1. CASE j = i  BY <1>6, <2>2, <3>1 DEF MarkWrites
    <3>2. CASE j # i
      <4>1. messages'[j] = messages[j]  BY <2>2, <3>2
      <4>2. QED  BY <1>6, <3>2, <4>1
    <3>3. QED  BY <3>1, <3>2
  <2>4. T!Confirmed(messages'[i]) \subseteq done  BY <2>2 DEF MarkWrites, T!Confirmed
  <2>5. T!Confirmed(messages[i]) \cap m.seen \subseteq T!Confirmed(messages'[i])
    BY <1>7, <2>2 DEF MarkWrites, T!Confirmed
  <2>6. QED  BY <1>2, <1>3, <1>5, <1>6, <2>2, <2>3, <2>4, <2>5 DEF i, done
<1>10. QED  BY <1>8, <1>9

LEMMA StepConfirm ==
    ASSUME ThreadInv, NEW m \in marking, T!confirm_action(m)
    PROVE  ThreadInv'
<1> DEFINE t == m.ref.turn
           i == T!Row(t)
           done == T!Marked(m.seen, m.ref.index)
           view1 == [page.view EXCEPT ![t].done = IF page.view[t].shown THEN done ELSE @]
<1>1. ThreadTyped /\ Places /\ Whole /\ DoneIsKnown /\ Seen  BY DEF ThreadInv
<1>2. /\ m \in Mark /\ m.pc = "commit" /\ t \in T!Turns /\ m.ref.index \in Nat
      /\ i \in T!AnswerOf(t) /\ i \in DOMAIN messages /\ messages' \in Seq(T!Message) /\ SameRows
      /\ \A j \in DOMAIN messages : j # i => messages'[j] = messages[j]
      /\ T!Confirmed(messages'[i]) \subseteq done \cup T!Confirmed(messages[i])
  BY ConfirmRows
<1>3. /\ page' = [page EXCEPT !.view[t].done = IF page.view[t].shown THEN done ELSE @]
      /\ marking' = marking \ {m} /\ archived' = archived /\ turn' = turn /\ past' = past
  BY Zenon DEF T!confirm_action
<1>4. done \in SUBSET Nat  BY <1>2 DEF Mark, T!Marked
<1>5. done = m.seen \cup {m.ref.index}  BY DEF T!Marked
<1> HIDE DEF i, done
<1>6. page' \in Panel /\ page'.confirmed = page.confirmed /\ page'.captured = page.captured /\ page'.busy = page.busy
  <2>1. /\ page \in Panel /\ page.streaming \in 0..MaxTurns /\ page.confirmed \in SUBSET Proposals
        /\ page.captured \in SUBSET Proposals /\ page.busy \in SUBSET (T!Refs \X BOOLEAN)
        /\ page.view \in [T!Turns -> [shown: BOOLEAN, done: SUBSET Nat]]
    BY <1>1 DEF ThreadTyped, Panel
  <2>2. view1 \in [T!Turns -> [shown: BOOLEAN, done: SUBSET Nat]]
    <3> DEFINE D1 == SUBSET Nat
               d == IF page.view[t].shown THEN done ELSE page.view[t].done
    <3>1. page.view \in [T!Turns -> [shown: BOOLEAN, done: D1]]  BY <2>1
    <3>2. d \in D1  BY <1>2, <1>4, <2>1
    <3>3. view1 = [page.view EXCEPT ![t].done = d]  OBVIOUS
    <3> HIDE DEF D1, d, view1
    <3>4. view1 \in [T!Turns -> [shown: BOOLEAN, done: D1]]  BY <1>2, <3>1, <3>2, <3>3
    <3>5. QED  BY <3>4 DEF D1
  <2>3. page' = [page EXCEPT !.view = view1]
    <3> DEFINE d == IF page.view[t].shown THEN done ELSE page.view[t].done
    <3>1. page' = [page EXCEPT !.view[t].done = d] /\ view1 = [page.view EXCEPT ![t].done = d]  BY <1>3
    <3> HIDE DEF d, view1
    <3>2. QED  BY <3>1
  <2> HIDE DEF view1
  <2>4. page' = [page EXCEPT !.streaming = page.streaming, !.view = view1, !.confirmed = page.confirmed,
                             !.captured = page.captured, !.busy = page.busy]
    BY <2>1, <2>3 DEF Panel
  <2>5. QED  BY <2>1, <2>2, <2>4, PanelIs, ZenonT(60)
<1>7. ThreadTyped'  BY <1>1, <1>2, <1>3, <1>6 DEF ThreadTyped
<1>8. Places'
  <2>1. DOMAIN messages' = DOMAIN messages
        /\ \A j \in DOMAIN messages : messages'[j].turn = messages[j].turn /\ messages'[j].position = messages[j].position
    BY <1>2 DEF SameRows
  <2>2. \A s \in T!Turns : turn'[s].pc \in Going => turn[s].pc \in Going /\ turn'[s].position = turn[s].position
    BY <1>3
  <2>3. past.met \subseteq past'.met  BY <1>3
  <2>4. QED  BY <1>1, <2>1, <2>2, <2>3, PlacesQuiet
<1>9. Whole'  BY <1>1, <1>2, <1>3, TurnsRest, WholeQuiet
<1>10. Extended1 /\ \A s \in T!Turns : T!AnswerOf(s)' = T!AnswerOf(s)
  BY <1>2, <1>3, SameRowsKeep DEF Extended1
<1>11. MarkFits(m)  BY MarksFit
<1>12. \A k \in done : k \in DOMAIN turn[t].actions /\ IsDone(turn[t].actions[k])
  <2>1. m.ref.index \in DOMAIN turn[t].actions /\ IsDone(turn[t].actions[m.ref.index])
    BY <1>11 DEF MarkFits, T!Proposal
  <2>2. \A k \in m.seen : k \in DOMAIN turn[t].actions /\ IsDone(turn[t].actions[k])
    BY <1>2, <1>11 DEF MarkFits
  <2>3. QED  BY <1>5, <2>1, <2>2
<1>13. Remembered' /\ Pressed' /\ ToMark' /\ MarkedTrue'
  <2>1. \A p \in page'.confirmed \cup page'.captured : IsDone(p)  BY <1>1, <1>6 DEF DoneIsKnown, Remembered
  <2>2. \A b \in page'.busy : past'.executed[b[1]] > 0  BY <1>1, <1>3, <1>6 DEF DoneIsKnown, Pressed
  <2>3. \A o \in marking' : o \in Mark /\ MarkFits(o)  BY <1>3, MarksFit
  <2>4. ASSUME NEW s \in T!Turns, NEW j \in T!AnswerOf(s)', NEW k \in T!Confirmed(messages[j])'
        PROVE  k \in DOMAIN turn[s].actions /\ IsDone(turn[s].actions[k])
    <3>1. T!Confirmed(messages[j])' = T!Confirmed(messages'[j])  BY DEF T!Confirmed
    <3>2. j \in T!AnswerOf(s)  BY <1>10
    <3>3. k \in T!Confirmed(messages'[j])  BY <3>1
    <3>4. CASE k \in T!Confirmed(messages[j])  BY <3>2, <3>4, MarksBefore
    <3>5. CASE k \notin T!Confirmed(messages[j])
      <4>1. j \in DOMAIN messages /\ messages[j].turn = s  BY <3>2 DEF T!AnswerOf
      <4>2. j = i  BY <1>2, <3>3, <3>5, <4>1
      <4>3. s = t  BY <1>2, <4>1, <4>2 DEF T!AnswerOf
      <4>4. k \in done  BY <1>2, <3>3, <3>5, <4>2
      <4>5. QED  BY <1>12, <4>3, <4>4
    <3>6. QED  BY <3>4, <3>5
  <2>5. QED  BY <1>1, <1>3, <1>10, <2>1, <2>2, <2>3, <2>4, DoneKept DEF DoneIsKnown
<1>14. ByButton' /\ Once'  BY <1>1, <1>3, <1>6, <1>10, OnceKept DEF DoneIsKnown
<1>15. Seen'
  <2> SUFFICES ASSUME ~past'.overlapped, NEW l \in marking', l.pc = "commit"
               PROVE  /\ l.seen = T!Confirmed(messages[T!Row(l.ref.turn)])'
                      /\ \A o \in marking' : o.pc = "commit" /\ o.ref.turn = l.ref.turn => o = l
    BY DEF Seen
  <2>1. ~past.overlapped /\ l \in marking /\ l # m  BY <1>3
  <2>2. l.seen = T!Confirmed(messages[T!Row(l.ref.turn)])
        /\ \A o \in marking : o.pc = "commit" /\ o.ref.turn = l.ref.turn => o = l
    BY <1>1, <2>1 DEF Seen
  <2>3. l.ref.turn # t  BY <1>2, <2>1, <2>2
  <2>4. l.ref.turn \in T!Turns /\ T!AnswerOf(l.ref.turn) # {}
    <3>1. l \in Mark  BY <1>1, <2>1 DEF ThreadTyped
    <3>2. l.ref.turn \in T!Turns  BY <3>1 DEF Mark, T!Refs
    <3>3. QED  BY <1>1, <2>1, <3>2 DEF DoneIsKnown, ToMark
  <2> DEFINE j == T!Row(l.ref.turn)
  <2>5. j \in T!AnswerOf(l.ref.turn)  BY <2>4, RowIs
  <2>6. j \in DOMAIN messages /\ j # i  BY <1>2, <2>3, <2>5 DEF T!AnswerOf
  <2>7. j' = j  BY <1>10, <2>4 DEF T!Row
  <2>8. T!Confirmed(messages[j])' = T!Confirmed(messages'[j'])  BY DEF T!Confirmed
  <2>9. messages'[j] = messages[j]  BY <1>2, <2>6
  <2>10. T!Confirmed(messages[j])' = T!Confirmed(messages[j])
    <3> HIDE DEF j
    <3>1. QED  BY <2>7, <2>8, <2>9
  <2>11. \A o \in marking' : o.pc = "commit" /\ o.ref.turn = l.ref.turn => o = l  BY <1>3, <2>2
  <2>12. QED  BY <2>2, <2>10, <2>11
<1>16. QED  BY <1>7, <1>8, <1>9, <1>13, <1>14, <1>15 DEF ThreadInv, DoneIsKnown

LEMMA ThreadNext == ASSUME ThreadInv, T!Next  PROVE ThreadInv'
<1>1. CASE \E t \in T!Turns : T!Send(t) \/ T!Runs(t) \/ T!Cut(t) \/ T!Done(t)
  <2>1. PICK t \in T!Turns : T!Send(t) \/ T!Runs(t) \/ T!Cut(t) \/ T!Done(t)  BY <1>1
  <2>2. CASE T!Send(t)  BY <2>2, StepSend
  <2>3. CASE T!Runs(t)
    <3>1. CASE T!WriteUser(t)  BY <3>1, StepUser
    <3>2. CASE T!Answered(t) \/ T!CallsTools(t) \/ T!Fails(t)  BY <3>2, StepAnswered
    <3>3. CASE T!Execute(t)  BY <3>3, StepExecute
    <3>4. CASE T!_finish(t)  BY <3>4, StepFinish
    <3>5. QED  BY <2>3, <3>1, <3>2, <3>3, <3>4, Zenon DEF T!Runs
  <2>4. CASE T!Cut(t)  BY <2>4, StepCut
  <2>5. CASE T!Done(t)  BY <2>5, StepDone
  <2>6. QED  BY <2>1, <2>2, <2>3, <2>4, <2>5
<1>2. CASE T!archive_thread  BY <1>2, StepFails
<1>3. CASE \E ref \in T!Refs : T!Press(ref) \/ \E saved \in BOOLEAN : T!Executed(ref, saved)
  <2>1. PICK ref \in T!Refs : T!Press(ref) \/ \E saved \in BOOLEAN : T!Executed(ref, saved)  BY <1>3
  <2>2. CASE T!Press(ref)  BY <2>2, StepPress
  <2>3. CASE \E saved \in BOOLEAN : T!Executed(ref, saved)  BY <2>3, StepExecuted
  <2>4. QED  BY <2>1, <2>2, <2>3
<1>4. CASE \E m \in marking : T!LoadMark(m) \/ T!confirm_action(m) \/ T!MarkFails(m)
  <2>1. PICK m \in marking : T!LoadMark(m) \/ T!confirm_action(m) \/ T!MarkFails(m)  BY <1>4
  <2>2. CASE T!LoadMark(m)  BY <2>2, StepLoadMark
  <2>3. CASE T!confirm_action(m)  BY <2>3, StepConfirm
  <2>4. CASE T!MarkFails(m)  BY <2>4, StepFails
  <2>5. QED  BY <2>1, <2>2, <2>3, <2>4
<1>5. CASE T!LoadMessages  BY <1>5, StepLoad
<1>6. QED  BY <1>1, <1>2, <1>3, <1>4, <1>5, Zenon DEF T!Next

LEMMA ThreadRests ==
    ASSUME ThreadInv, archived' = archived, messages' = messages, turn' = turn, page' = page,
           marking' = marking, past' = past
    PROVE  ThreadInv'
<1>1. ThreadTyped /\ Whole  BY DEF ThreadInv
<1>2. ThreadTyped'  BY <1>1 DEF ThreadTyped
<1>3. \A m \in marking' : MarkFits(m) /\ (m.pc = "commit" => m \in marking)  BY MarksFit
<1>4. QED  BY <1>1, <1>2, <1>3, TurnsRest, PageRests, StepQuiet

LEMMA ThreadAlways == MCSpec => [](part = "thread" => ThreadInv)
<1> DEFINE Inv == part = "thread" => ThreadInv
<1>1. MCInit => Inv
  <2> SUFFICES ASSUME MCInit, part = "thread"  PROVE ThreadInv
    OBVIOUS
  <2>1. T!Init  BY Zenon DEF MCInit
  <2>2. QED  BY <2>1, ThreadInit
<1>2. Inv /\ [MCNext]_all_vars => Inv'
  <2> SUFFICES ASSUME Inv, [MCNext]_all_vars, part' = "thread"  PROVE ThreadInv'
    OBVIOUS
  <2>1. CASE NextThread
    <3>1. part = "thread" /\ T!Next  BY <2>1, Zenon DEF NextThread
    <3>2. QED  BY <3>1, ThreadNext
  <2>2. CASE NextOrganization \/ NextLimiter \/ NextGrants \/ NextKnowledge \/ NextSeed
    <3>1. part' = part /\ part # "thread"
      BY <2>2 DEF NextOrganization, NextLimiter, NextGrants, NextKnowledge, NextSeed
    <3>2. QED  BY <3>1
  <2>3. CASE UNCHANGED all_vars
    <3>1. /\ part' = part /\ archived' = archived /\ messages' = messages /\ turn' = turn /\ page' = page
          /\ marking' = marking /\ past' = past
      BY <2>3 DEF all_vars, OfThread
    <3>2. QED  BY <3>1, ThreadRests
  <2>4. QED  BY <2>1, <2>2, <2>3, Zenon DEF MCNext
<1>3. QED  BY <1>1, <1>2, PTL DEF MCSpec

\* In every reachable state of the part of the composition about the assistant, the messages come back
\* in the order of their turns, every turn that ended has one answer with all that its tools said
\* (assistant/runner.py), what is marked as done was done by a button, and no proposal is done twice as
\* long as no button of a draft was pressed and nothing went wrong (assistant-panel.tsx).
THEOREM ThreadStaysKept == MCSpec => []ThreadIsKept
<1>1. (part = "thread" => ThreadInv) => ThreadIsKept  BY ThreadHolds DEF ThreadIsKept
<1>2. QED  BY <1>1, ThreadAlways, PTL

\* A step of the thread takes no mark away that it has seen: a message is appended, or written with the
\* marks it was read with and one more.
LEMMA MarksGrow ==
    ASSUME ThreadInv, T!Next, ~past.overlapped
    PROVE  \A i \in DOMAIN messages : T!Confirmed(messages[i]) \subseteq T!Confirmed(messages'[i])
<1>1. ThreadTyped /\ Seen  BY DEF ThreadInv
<1>2. ASSUME NEW row, messages' = Append(messages, row)
      PROVE  \A i \in DOMAIN messages : messages'[i] = messages[i]
  <2>1. messages \in Seq(T!Message)  BY <1>1 DEF ThreadTyped
  <2>2. QED  BY <1>2, <2>1
<1>3. CASE \E t \in T!Turns : T!WriteUser(t) \/ T!Execute(t) \/ T!_finish(t)
  <2>1. \E row : messages' = Append(messages, row)
    BY <1>3, Zenon DEF T!WriteUser, T!Execute, T!_finish, T!Write
  <2>2. \A i \in DOMAIN messages : messages'[i] = messages[i]  BY <1>2, <2>1
  <2>3. QED  BY <2>2
<1>4. CASE \E m \in marking : T!confirm_action(m)
  <2>1. PICK m \in marking : T!confirm_action(m)  BY <1>4
  <2> DEFINE j == T!Row(m.ref.turn)
  <2>2. /\ m.pc = "commit"
        /\ \A i \in DOMAIN messages : i # j => messages'[i] = messages[i]
        /\ T!Confirmed(messages[j]) \subseteq T!Confirmed(messages'[j]) \cup (T!Confirmed(messages[j]) \ m.seen)
    BY <2>1, ConfirmRows
  <2>3. m.seen = T!Confirmed(messages[j])  BY <1>1, <2>2 DEF Seen
  <2> HIDE DEF j
  <2>4. T!Confirmed(messages[j]) \subseteq T!Confirmed(messages'[j])  BY <2>2, <2>3
  <2>5. QED  BY <2>2, <2>4
<1>5. CASE messages' = messages  BY <1>5
<1>6. QED
  <2>1. \/ \E t \in T!Turns : T!WriteUser(t) \/ T!Execute(t) \/ T!_finish(t)
        \/ \E m \in marking : T!confirm_action(m)
        \/ messages' = messages
    BY Zenon DEF T!Next, T!Runs, T!Send, T!Answered, T!CallsTools, T!Fails, T!Cut, T!Done, T!archive_thread,
                 T!Press, T!Executed, T!LoadMark, T!MarkFails, T!LoadMessages
  <2>2. QED  BY <1>3, <1>4, <1>5, <2>1

\* What a button has marked as done stays marked, whatever other request writes the message after it,
\* unless two requests had read the message at once (assistant/service.py, confirm_action).
THEOREM MarksAreKept == MCSpec => MarksStay
<1> DEFINE Inv == part = "thread" => ThreadInv
           Stay == part = "thread" =>
                     \A i \in DOMAIN messages :
                       T!Confirmed(messages[i]) \subseteq T!Confirmed(messages'[i]) \/ past.overlapped
<1>1. Inv /\ [MCNext]_all_vars => [Stay]_all_vars
  <2> SUFFICES ASSUME Inv, MCNext, part = "thread"  PROVE Stay
    BY Zenon
  <2>1. T!Next
    <3>1. NextThread
      BY Zenon DEF MCNext, NextOrganization, NextLimiter, NextGrants, NextKnowledge, NextSeed
    <3>2. QED  BY <3>1, Zenon DEF NextThread
  <2>2. QED  BY <2>1, MarksGrow
<1>2. MCSpec => []Inv  BY ThreadAlways
<1>3. QED  BY <1>1, <1>2, PTL DEF MCSpec, MarksStay
-----------------------------------------------------------------------------
(* The rate limiter: the part "limiter" of MCCabinet. *)

LEMMA LimiterConstants ==
    /\ \A S : L!Cardinality(S) = Cardinality(S)
    /\ MaxTime \in Nat /\ budget \in Nat /\ budget >= 1 /\ window_s \in Nat
<1>1. \A S : L!Cardinality(S) = Cardinality(S)  BY Zenon DEF L!Cardinality, Cardinality
<1>2. QED  BY <1>1, SizesOK

\* What has left the window.
LEMMA LeftIs ==
    ASSUME NEW b \in Seq(Int), clock \in Int
    PROVE  /\ L!Left(b) \in 0..Len(b)
           /\ \A i \in 1..L!Left(b) : clock - b[i] > window_s
           /\ L!Left(b) < Len(b) => clock - b[L!Left(b) + 1] <= window_s
<1> DEFINE S == {n \in 0..Len(b) : n < Len(b) => clock - b[n + 1] <= window_s}
           OK(n) == /\ \A i \in 1..n : clock - b[i] > window_s
                    /\ n < Len(b) => clock - b[n + 1] <= window_s
<1>1. Len(b) \in Nat /\ \A i \in 1..Len(b) : b[i] \in Int  OBVIOUS
<1>2. Len(b) \in S /\ S \subseteq Nat  BY <1>1
<1>3. PICK m \in S : \A n \in S : m <= n
  <2> HIDE DEF S
  <2>1. QED  BY <1>2, SomeLeastPlace
<1>4. m \in 0..Len(b) /\ (m < Len(b) => clock - b[m + 1] <= window_s)  OBVIOUS
<1>5. ASSUME NEW i \in 1..m  PROVE clock - b[i] > window_s
  <2> DEFINE n == i - 1
  <2>1. n \in 0..Len(b) /\ n < Len(b) /\ n + 1 = i /\ ~(m <= n) /\ b[i] \in Int  BY <1>1, <1>4
  <2>2. n \notin S  BY <1>3, <2>1
  <2>3. ~(clock - b[n + 1] <= window_s)  BY <2>1, <2>2
  <2>4. QED  BY <2>1, <2>3, LimiterConstants
<1>6. OK(m)  BY <1>4, <1>5
<1> HIDE DEF S
<1>7. L!Left(b) = CHOOSE n \in 0..Len(b) : OK(n)  BY DEF L!Left
<1> HIDE DEF OK
<1>8. L!Left(b) \in 0..Len(b) /\ OK(L!Left(b))  BY <1>4, <1>6, <1>7
<1>9. QED  BY <1>8 DEF OK

LEMMA LiveIs ==
    ASSUME NEW b \in Seq(Int), clock \in Int
    PROVE  /\ L!Live(b) \in Seq(Int) /\ Len(L!Live(b)) = Len(b) - L!Left(b)
           /\ \A i \in 1..(Len(b) - L!Left(b)) : L!Live(b)[i] = b[L!Left(b) + i]
<1> DEFINE m == L!Left(b) + 1
           n == Len(b)
<1>1. L!Left(b) \in 0..n /\ n \in Nat  BY LeftIs
<1>2. m \in Int /\ n \in Int /\ m <= n + 1  BY <1>1
<1>3. \A i \in m..n : b[i] \in Int
  <2>1. \A i \in 1..n : b[i] \in Int  OBVIOUS
  <2>2. QED  BY <1>1, <2>1
<1>4. L!Live(b) = SubSeq(b, m, n)  BY DEF L!Live
<1>5. /\ SubSeq(b, m, n) \in Seq(Int)
      /\ Len(SubSeq(b, m, n)) = IF m <= n THEN n - m + 1 ELSE 0
      /\ \A i \in 1..(n - m + 1) : SubSeq(b, m, n)[i] = b[m + i - 1]
  <2> HIDE DEF m, n
  <2>1. QED  BY <1>2, <1>3, SubSeqProperties
<1>6. n - m + 1 = Len(b) - L!Left(b) /\ \A i \in 1..(n - m + 1) : m + i - 1 = L!Left(b) + i  BY <1>1
<1>7. Len(SubSeq(b, m, n)) = Len(b) - L!Left(b)  BY <1>1, <1>5
<1>8. QED
  <2> HIDE DEF m, n
  <2>1. QED  BY <1>4, <1>5, <1>6, <1>7

LEMMA LiveBucket ==
    ASSUME NEW b, clock \in Int, Bucket(b, clock)
    PROVE  Bucket(L!Live(b), clock) /\ Len(L!Live(b)) <= Len(b)
<1>1. b \in Seq(Int) /\ Len(b) \in Nat /\ Len(b) <= budget /\ \A i \in 1..Len(b) : b[i] \in 0..clock
  BY DEF Bucket
<1>2. L!Left(b) \in 0..Len(b)  BY <1>1, LeftIs
<1>3. /\ L!Live(b) \in Seq(Int) /\ Len(L!Live(b)) = Len(b) - L!Left(b)
      /\ \A i \in 1..(Len(b) - L!Left(b)) : L!Live(b)[i] = b[L!Left(b) + i]
  BY <1>1, LiveIs
<1>4. Len(L!Live(b)) <= Len(b) /\ Len(L!Live(b)) <= budget  BY <1>1, <1>2, <1>3, LimiterConstants
<1>5. \A i \in DOMAIN L!Live(b) : L!Live(b)[i] \in 0..clock
  <2> SUFFICES ASSUME NEW i \in DOMAIN L!Live(b)  PROVE L!Live(b)[i] \in 0..clock
    OBVIOUS
  <2>1. i \in 1..(Len(b) - L!Left(b))  BY <1>3
  <2>2. L!Left(b) + i \in 1..Len(b)  BY <1>1, <1>2, <2>1
  <2>3. QED  BY <1>1, <1>3, <2>1, <2>2
<1>6. QED  BY <1>3, <1>4, <1>5 DEF Bucket

\* What is dropped has left the window, and will not come back.
LEMMA TracedLive ==
    ASSUME NEW b \in Seq(Int), NEW times \in Seq(Int), clock \in Int, Traced(b, times, clock)
    PROVE  Traced(L!Live(b), times, clock)
<1> DEFINE l == L!Left(b)
           w == L!Live(b)
<1>1. PICK d \in Nat : /\ Len(times) = d + Len(b)
                       /\ \A i \in 1..Len(b) : b[i] = times[d + i]
                       /\ \A i \in 1..d : clock - times[i] > window_s
  BY DEF Traced
<1>2. l \in 0..Len(b) /\ (\A i \in 1..l : clock - b[i] > window_s) /\ Len(b) \in Nat  BY LeftIs
<1>3. Len(w) = Len(b) - l /\ \A i \in 1..(Len(b) - l) : w[i] = b[l + i]  BY LiveIs
<1> HIDE DEF l, w
<1> DEFINE e == d + l
<1>4. e \in Nat /\ Len(times) = e + Len(w)  BY <1>1, <1>2, <1>3
<1>5. \A i \in 1..Len(w) : w[i] = times[e + i]
  <2> TAKE i \in 1..Len(w)
  <2>1. l + i \in 1..Len(b) /\ i \in 1..(Len(b) - l) /\ d + (l + i) = e + i  BY <1>1, <1>2, <1>3
  <2>2. b[l + i] = times[d + (l + i)]  BY <1>1, <2>1
  <2>3. QED  BY <1>3, <2>1, <2>2
<1>6. \A i \in 1..e : clock - times[i] > window_s
  <2> TAKE i \in 1..e
  <2>1. CASE i <= d  BY <1>1, <2>1
  <2>2. CASE i > d
    <3> DEFINE j == i - d
    <3>1. j \in 1..l /\ j \in 1..Len(b) /\ d + j = i  BY <1>1, <1>2, <2>2
    <3>2. clock - b[j] > window_s /\ b[j] = times[d + j]  BY <1>1, <1>2, <3>1
    <3>3. QED  BY <3>1, <3>2
  <2>3. QED  BY <1>1, <1>2, <2>1, <2>2
<1> HIDE DEF e
<1>7. QED  BY <1>4, <1>5, <1>6 DEF Traced, w

\* A call that is admitted keeps the budget.
LEMMA TracedAppend ==
    ASSUME NEW b \in Seq(Int), NEW times \in Seq(Int), clock \in Int, Traced(b, times, clock), Spread(times),
           Len(b) < budget
    PROVE  Traced(Append(b, clock), Append(times, clock), clock) /\ Spread(Append(times, clock))
<1> DEFINE b1 == Append(b, clock)
           h1 == Append(times, clock)
           m == Len(times) + 1
<1>1. PICK d \in Nat : /\ Len(times) = d + Len(b)
                       /\ \A i \in 1..Len(b) : b[i] = times[d + i]
                       /\ \A i \in 1..d : clock - times[i] > window_s
  BY DEF Traced
<1>2. /\ Len(b) \in Nat /\ Len(times) \in Nat /\ DOMAIN times = 1..Len(times)
      /\ Len(b1) = Len(b) + 1 /\ b1[Len(b) + 1] = clock /\ \A i \in 1..Len(b) : b1[i] = b[i]
      /\ Len(h1) = m /\ DOMAIN h1 = 1..m /\ h1[m] = clock /\ \A i \in 1..Len(times) : h1[i] = times[i]
      /\ \A i \in 1..Len(times) : times[i] \in Int
  OBVIOUS
<1> HIDE DEF b1, h1
<1>3. Traced(b1, h1, clock)
  <2>1. Len(h1) = d + Len(b1)  BY <1>1, <1>2
  <2>2. \A i \in 1..Len(b1) : b1[i] = h1[d + i]
    <3> TAKE i \in 1..Len(b1)
    <3>1. CASE i = Len(b) + 1
      <4>1. d + i = m  BY <1>1, <1>2, <3>1
      <4>2. QED  BY <1>2, <3>1, <4>1
    <3>2. CASE i # Len(b) + 1
      <4>1. i \in 1..Len(b) /\ d + i \in 1..Len(times)  BY <1>1, <1>2, <3>2
      <4>2. QED  BY <1>1, <1>2, <4>1
    <3>3. QED  BY <3>1, <3>2
  <2>3. \A i \in 1..d : clock - h1[i] > window_s
    <3> TAKE i \in 1..d
    <3>1. i \in 1..Len(times)  BY <1>1, <1>2
    <3>2. QED  BY <1>1, <1>2, <3>1
  <2>4. QED  BY <1>1, <2>1, <2>2, <2>3 DEF Traced
<1>4. Spread(h1)
  <2> SUFFICES ASSUME NEW i \in 1..m, NEW j \in 1..m, j >= i + budget
               PROVE  h1[j] - h1[i] > window_s
    BY <1>2 DEF Spread
  <2>1. i \in 1..Len(times)  BY <1>2, LimiterConstants
  <2>2. CASE j = m
    <3>1. i \in 1..d  BY <1>1, <1>2, <2>1, <2>2, LimiterConstants
    <3>2. QED  BY <1>1, <1>2, <2>1, <2>2, <3>1
  <2>3. CASE j # m
    <3>1. j \in 1..Len(times)  BY <1>2, <2>3
    <3>2. times[j] - times[i] > window_s  BY <1>2, <2>1, <3>1 DEF Spread
    <3>3. QED  BY <1>2, <2>1, <3>1, <3>2
  <2>4. QED  BY <2>2, <2>3
<1>5. QED  BY <1>3, <1>4 DEF b1, h1

LEMMA LimHolds == ASSUME LimInv  PROVE L!LimiterIsFair
<1>1. /\ clock \in 0..MaxTime /\ clock \in Int /\ asking \in [Keys -> Nat]
      /\ \A k \in Keys : KeyOK(attempts[k], past[k], told[k], clock)
  BY DEF LimInv
<1>2. L!TypeOK
  <2> SUFFICES ASSUME NEW k \in Keys
               PROVE  /\ attempts[k] = L!NoEntry \/ \A i \in DOMAIN attempts[k] : attempts[k][i] \in 0..clock
                      /\ asking[k] \in Nat /\ told[k] \in -1 .. MaxTime + window_s + 1
    BY <1>1 DEF L!TypeOK
  <2>1. QED  BY <1>1 DEF KeyOK, Bucket
<1>3. L!BudgetKept
  <2> SUFFICES ASSUME NEW k \in Keys, ~past[k].evicted, NEW i \in DOMAIN past[k].times
               PROVE  L!Cardinality({j \in DOMAIN past[k].times :
                                       j >= i /\ past[k].times[j] - past[k].times[i] <= window_s}) <= budget
    BY DEF L!BudgetKept
  <2> DEFINE times == past[k].times
             S == {j \in DOMAIN times : j >= i /\ times[j] - times[i] <= window_s}
             last == i + budget - 1
  <2>1. KeyOK(attempts[k], past[k], told[k], clock)  BY <1>1
  <2>2. times \in Seq(Int)  BY <2>1 DEF KeyOK, Admissions
  <2>3. Spread(times)
    <3>1. CASE attempts[k] = L!NoEntry
      <4>1. times = <<>>  BY <2>1, <3>1 DEF KeyOK
      <4>2. QED  BY <4>1
    <3>2. CASE attempts[k] # L!NoEntry  BY <2>1, <3>2 DEF KeyOK
    <3>3. QED  BY <3>1, <3>2
  <2> HIDE DEF times
  <2>4. i \in 1..Len(times) /\ DOMAIN times = 1..Len(times) /\ Len(times) \in Nat /\ \A j \in 1..Len(times) : times[j] \in Int
    BY <2>2 DEF times
  <2>5. i \in Int /\ last \in Int /\ last - i + 1 = budget /\ budget >= 1 /\ budget \in Nat
    BY <2>4, LimiterConstants
  <2>6. S \subseteq i..last
    <3> SUFFICES ASSUME NEW j \in S  PROVE j \in i..last
      OBVIOUS
    <3>1. j \in 1..Len(times) /\ j >= i /\ times[j] - times[i] <= window_s  BY <2>4
    <3>2. ~(j >= i + budget)
      <4>1. times[j] \in Int /\ times[i] \in Int  BY <2>4, <3>1
      <4>2. j >= i + budget => times[j] - times[i] > window_s  BY <2>3, <2>4, <3>1 DEF Spread
      <4>3. QED  BY <3>1, <4>1, <4>2, LimiterConstants
    <3>3. QED  BY <2>4, <2>5, <3>1, <3>2
  <2>7. IsFiniteSet(i..last) /\ Cardinality(i..last) = budget
    <3> HIDE DEF last
    <3>1. IsFiniteSet(i..last) /\ Cardinality(i..last) = IF i > last THEN 0 ELSE last - i + 1  BY <2>5, FS_Interval
    <3>2. ~(i > last)  BY <2>5
    <3>3. QED  BY <2>5, <3>1, <3>2
  <2> HIDE DEF S, last
  <2>8. Cardinality(S) <= budget  BY <2>6, <2>7, FS_Subset
  <2>9. L!Cardinality(S) <= budget  BY <2>8, LimiterConstants
  <2>10. QED  BY <2>9 DEF S, times
<1>4. L!RetryIsHonest
  <2> SUFFICES ASSUME NEW k \in Keys, told[k] # -1, clock >= told[k], k \in L!InTable
               PROVE  L!Allowed(attempts[k])
    BY DEF L!RetryIsHonest
  <2> DEFINE b == attempts[k]
  <2>1. b # L!NoEntry  BY DEF L!InTable
  <2>2. /\ b \in Seq(Int) /\ Bucket(b, clock) /\ told[k] \in Int
        /\ Len(b) = budget => told[k] = b[1] + window_s + 1
    BY <1>1, <2>1 DEF KeyOK
  <2> HIDE DEF b
  <2>3. Len(b) <= budget /\ Len(b) \in Nat /\ \A i \in 1..Len(b) : b[i] \in Int  BY <2>2 DEF Bucket
  <2>4. L!Left(b) \in 0..Len(b) /\ (L!Left(b) < Len(b) => clock - b[L!Left(b) + 1] <= window_s)
    BY <1>1, <2>2, LeftIs
  <2>5. Len(L!Live(b)) = Len(b) - L!Left(b)  BY <1>1, <2>2, LiveIs
  <2>6. Len(b) = budget => L!Left(b) > 0
    <3> SUFFICES ASSUME Len(b) = budget, L!Left(b) = 0  PROVE FALSE
      BY <2>4
    <3>1. told[k] = b[1] + window_s + 1 /\ clock - b[1] <= window_s /\ b[1] \in Int
      BY <2>2, <2>3, <2>4, LimiterConstants
    <3>2. QED  BY <1>1, <3>1, LimiterConstants
  <2>7. Len(L!Live(b)) < budget  BY <2>3, <2>4, <2>5, <2>6, LimiterConstants
  <2>8. QED  BY <2>7 DEF L!Allowed, b
<1>5. QED  BY <1>2, <1>3, <1>4 DEF L!LimiterIsFair

LEMMA LimInit == ASSUME L!Init  PROVE LimInv
<1> DEFINE none == L!NoEntry
           blank == [times |-> <<>>, evicted |-> FALSE]
<1>1. /\ clock = 0 /\ attempts = [k \in Keys |-> none] /\ asking = [k \in Keys |-> 0]
      /\ told = [k \in Keys |-> -1] /\ past = [k \in Keys |-> blank]
  BY Zenon DEF L!Init
<1>2. none \in Seq(Int) /\ blank \in Admissions /\ blank.times = <<>>  BY DEF L!NoEntry, Admissions
<1> HIDE DEF blank
<1>3. \A k \in Keys : attempts[k] = L!NoEntry /\ told[k] = -1 /\ past[k] = blank  BY <1>1
<1> HIDE DEF none
<1>4. attempts \in [Keys -> Seq(Int)] /\ past \in [Keys -> Admissions] /\ told \in [Keys -> Int]
      /\ asking \in [Keys -> Nat] /\ clock \in 0..MaxTime
  BY <1>1, <1>2, LimiterConstants
<1>5. ASSUME NEW k \in Keys  PROVE KeyOK(attempts[k], past[k], told[k], clock)
  <2>1. attempts[k] \in Seq(Int) /\ past[k] \in Admissions /\ past[k].times = <<>> /\ told[k] \in -1 .. MaxTime + window_s + 1
    BY <1>2, <1>3, <1>4, LimiterConstants
  <2>2. QED  BY <1>3, <2>1 DEF KeyOK
<1>6. QED  BY <1>4, <1>5 DEF LimInv

\* One call is counted of a key, or refused.
LEMMA KeyCounted ==
    ASSUME clock \in 0..MaxTime, NEW b, Bucket(b, clock), NEW h \in Admissions,
           ~h.evicted => Spread(h.times) /\ Traced(b, h.times, clock),
           NEW after, after = IF L!Allowed(b) THEN Append(L!Live(b), clock) ELSE L!Live(b),
           NEW h1, h1 = [h EXCEPT !.times = IF L!Allowed(b) /\ ~h.evicted THEN Append(@, clock) ELSE @],
           NEW when, when = IF L!Allowed(b) THEN -1 ELSE clock + L!retry_after(b)
    PROVE  KeyOK(after, h1, when, clock)
<1> DEFINE w == L!Live(b)
           times == h.times
<1>1. /\ clock \in Int /\ clock \in Nat /\ b \in Seq(Int)  BY LimiterConstants DEF Bucket
<1>2. Bucket(w, clock)  BY <1>1, LiveBucket
<1>3. w \in Seq(Int) /\ Len(w) \in Nat /\ Len(w) <= budget /\ \A i \in 1..Len(w) : w[i] \in 0..clock
  BY <1>2 DEF Bucket
<1>4. times \in Seq(Int) /\ h.evicted \in BOOLEAN  BY DEF Admissions
<1>5. ~h.evicted => Traced(w, times, clock) /\ Spread(times)  BY <1>1, <1>4, TracedLive
<1>6. L!Allowed(b) <=> Len(w) < budget  BY DEF L!Allowed
<1>7. L!retry_after(b) = window_s - (clock - w[1]) + 1  BY DEF L!retry_after
<1> HIDE DEF w
<1>8. CASE L!Allowed(b)
  <2> DEFINE w1 == Append(w, clock)
             times1 == Append(times, clock)
  <2>1. after = w1 /\ when = -1 /\ Len(w) < budget  BY <1>6, <1>8 DEF w
  <2>2. /\ w1 \in Seq(Int) /\ Len(w1) = Len(w) + 1 /\ w1[Len(w) + 1] = clock
        /\ \A i \in 1..Len(w) : w1[i] = w[i]
    BY <1>1, <1>3
  <2> HIDE DEF w1
  <2>3. Bucket(w1, clock)
    <3>1. Len(w1) <= budget  BY <1>3, <2>1, <2>2, LimiterConstants
    <3>2. \A i \in DOMAIN w1 : w1[i] \in 0..clock
      <4> TAKE i \in DOMAIN w1
      <4>1. i \in 1..(Len(w) + 1)  BY <2>2
      <4>2. CASE i = Len(w) + 1  BY <1>1, <2>2, <4>2
      <4>3. CASE i # Len(w) + 1
        <5>1. i \in 1..Len(w)  BY <1>3, <4>1, <4>3
        <5>2. QED  BY <1>3, <2>2, <5>1
      <4>4. QED  BY <4>2, <4>3
    <3>3. QED  BY <2>2, <3>1, <3>2 DEF Bucket
  <2>4. w1 # L!NoEntry
    <3>1. w1[Len(w1)] = clock  BY <2>2
    <3>2. w1 = <<-1>> => w1[Len(w1)] = -1  OBVIOUS
    <3>3. QED  BY <1>1, <3>1, <3>2 DEF L!NoEntry
  <2>5. ~h.evicted => Traced(w1, times1, clock) /\ Spread(times1)
    BY <1>1, <1>3, <1>4, <1>5, <2>1, TracedAppend DEF w1
  <2>6. times1 \in Seq(Int)  BY <1>1, <1>4
  <2> HIDE DEF times1
  <2>7. /\ h1 \in Admissions /\ h1.evicted = h.evicted
        /\ h1.times = IF h.evicted THEN times ELSE times1
    <3>1. h1 = [h EXCEPT !.times = IF h.evicted THEN times ELSE times1]  BY <1>4, <1>8 DEF Admissions, times1
    <3> DEFINE s == IF h.evicted THEN times ELSE times1
    <3>2. s \in Seq(Int)  BY <1>4, <2>6
    <3> HIDE DEF s
    <3>3. h1 = [h EXCEPT !.times = s]  BY <3>1 DEF s
    <3>4. h1 \in Admissions /\ h1.evicted = h.evicted /\ h1.times = s  BY <3>2, <3>3 DEF Admissions
    <3>5. QED  BY <3>4 DEF s
  <2> HIDE DEF times
  <2>8. when \in -1 .. MaxTime + window_s + 1  BY <2>1, LimiterConstants
  <2>9. QED  BY <2>1, <2>2, <2>3, <2>4, <2>5, <2>7, <2>8 DEF KeyOK
<1>9. CASE ~L!Allowed(b)
  <2>1. after = w /\ Len(w) = budget /\ w[1] \in 0..clock
    <3>1. after = w /\ ~(Len(w) < budget)  BY <1>6, <1>9 DEF w
    <3>2. QED  BY <1>3, <3>1, LimiterConstants
  <2>2. when = w[1] + window_s + 1 /\ when \in -1 .. MaxTime + window_s + 1
    <3>1. when = clock + (window_s - (clock - w[1]) + 1)  BY <1>7, <1>9
    <3>2. QED  BY <1>1, <2>1, <3>1, LimiterConstants
  <2>3. h1 = h  BY <1>4, <1>9 DEF Admissions
  <2>4. w # L!NoEntry  BY <2>1 DEF L!NoEntry
  <2>5. QED  BY <1>2, <1>3, <1>5, <2>1, <2>2, <2>3, <2>4 DEF KeyOK
<1>10. QED  BY <1>8, <1>9

\* The entries that are thrown away, the one that is counted, and the rest.
LEMMA LimCounted ==
    ASSUME LimInv, NEW k \in Keys, NEW gone \in IF k \in L!InTable THEN {{}} ELSE L!OlderHalf,
           L!Counted(k, gone), clock' = clock, asking' \in [Keys -> Nat]
    PROVE  LimInv'
<1> DEFINE b == IF k \in L!InTable THEN attempts[k] ELSE <<>>
           after == IF L!Allowed(b) THEN Append(L!Live(b), clock) ELSE L!Live(b)
           h1 == [past[k] EXCEPT !.times = IF L!Allowed(b) /\ ~past[k].evicted THEN Append(@, clock) ELSE @]
           when == IF L!Allowed(b) THEN -1 ELSE clock + L!retry_after(b)
           lost == [times |-> <<>>, evicted |-> TRUE]
<1>1. /\ clock \in 0..MaxTime /\ attempts \in [Keys -> Seq(Int)] /\ past \in [Keys -> Admissions] /\ told \in [Keys -> Int]
      /\ \A n \in Keys : KeyOK(attempts[n], past[n], told[n], clock)
  BY DEF LimInv
<1>2. k \in L!InTable <=> attempts[k] # L!NoEntry  BY DEF L!InTable
<1>3. k \notin gone
  <2>1. gone \subseteq L!InTable  BY Zenon DEF L!OlderHalf
  <2>2. k \in L!InTable => gone = {}  OBVIOUS
  <2>3. QED  BY <2>1, <2>2
<1>4. /\ attempts' = [n \in Keys |-> IF n = k THEN after ELSE IF n \in gone THEN L!NoEntry ELSE attempts[n]]
      /\ past' = [n \in Keys |-> IF n = k THEN h1 ELSE IF n \in gone THEN lost ELSE past[n]]
      /\ told' = [told EXCEPT ![k] = when]
  BY Zenon DEF L!Counted
<1>5. Bucket(b, clock) /\ (~past[k].evicted => Spread(past[k].times) /\ Traced(b, past[k].times, clock))
  <2>1. KeyOK(attempts[k], past[k], told[k], clock)  BY <1>1
  <2>2. CASE k \in L!InTable
    <3>1. b = attempts[k] /\ attempts[k] # L!NoEntry  BY <1>2, <2>2
    <3>2. QED  BY <2>1, <3>1 DEF KeyOK
  <2>3. CASE k \notin L!InTable
    <3>1. b = <<>> /\ attempts[k] = L!NoEntry  BY <1>2, <2>3
    <3>2. Bucket(b, clock)
      <4> HIDE DEF b
      <4>1. <<>> \in Seq(Int) /\ Len(<<>>) = 0 /\ DOMAIN <<>> = {}  OBVIOUS
      <4>2. b = <<>>  BY <3>1
      <4>3. QED  BY <4>1, <4>2, LimiterConstants DEF Bucket
    <3>3. ~past[k].evicted => past[k].times = <<>>  BY <2>1, <3>1 DEF KeyOK
    <3>4. Spread(<<>>) /\ Traced(<<>>, <<>>, clock)
      <4>1. Spread(<<>>)  BY DEF Spread
      <4>2. Len(<<>>) = 0 + Len(<<>>) /\ 1..Len(<<>>) = {} /\ 1..0 = {} /\ 0 \in Nat  OBVIOUS
      <4>3. Traced(<<>>, <<>>, clock)  BY <4>2 DEF Traced
      <4>4. QED  BY <4>1, <4>3
    <3>5. QED  BY <3>1, <3>2, <3>3, <3>4
  <2>4. QED  BY <2>2, <2>3
<1> HIDE DEF b
<1>6. KeyOK(after, h1, when, clock)
  <2>1. past[k] \in Admissions  BY <1>1
  <2>2. QED  BY <1>1, <1>5, <2>1, KeyCounted
<1> HIDE DEF after, h1, when
<1>7. L!NoEntry \in Seq(Int) /\ lost \in Admissions /\ lost.evicted = TRUE  BY DEF L!NoEntry, Admissions
<1> HIDE DEF lost
<1>8. attempts' \in [Keys -> Seq(Int)] /\ past' \in [Keys -> Admissions] /\ told' \in [Keys -> Int]
  <2>1. after \in Seq(Int) /\ h1 \in Admissions /\ when \in Int  BY <1>6, LimiterConstants DEF KeyOK
  <2>2. QED  BY <1>1, <1>4, <1>7, <2>1
<1>9. ASSUME NEW n \in Keys  PROVE KeyOK(attempts'[n], past'[n], told'[n], clock')
  <2>1. CASE n = k
    <3>1. attempts'[n] = after /\ past'[n] = h1 /\ told'[n] = when  BY <1>1, <1>4, <2>1
    <3>2. QED  BY <1>6, <3>1
  <2>2. CASE n # k /\ n \in gone
    <3>1. attempts'[n] = L!NoEntry /\ past'[n] = lost /\ told'[n] = told[n]  BY <1>1, <1>4, <2>2
    <3>2. told[n] \in -1 .. MaxTime + window_s + 1  BY <1>1 DEF KeyOK
    <3>3. QED  BY <1>7, <3>1, <3>2 DEF KeyOK
  <2>3. CASE n # k /\ n \notin gone
    <3>1. attempts'[n] = attempts[n] /\ past'[n] = past[n] /\ told'[n] = told[n]  BY <1>1, <1>4, <2>3
    <3>2. QED  BY <1>1, <3>1
  <2>4. QED  BY <2>1, <2>2, <2>3
<1>10. clock' \in 0..MaxTime  BY <1>1
<1>11. QED  BY <1>8, <1>9, <1>10 DEF LimInv

LEMMA LimPeeks ==
    ASSUME LimInv, NEW k \in Keys, L!peek(k)
    PROVE  LimInv'
<1> DEFINE b == attempts[k]
           w == IF k \in L!InTable THEN L!Live(b) ELSE b
<1>1. /\ clock \in 0..MaxTime /\ clock \in Int /\ attempts \in [Keys -> Seq(Int)] /\ past \in [Keys -> Admissions]
      /\ told \in [Keys -> Int] /\ asking \in [Keys -> Nat]
      /\ \A n \in Keys : KeyOK(attempts[n], past[n], told[n], clock)
  BY DEF LimInv
<1>2. /\ k \in L!InTable => L!Allowed(b)
      /\ attempts' = [attempts EXCEPT ![k] = w] /\ asking' = [asking EXCEPT ![k] = @ + 1]
      /\ clock' = clock /\ told' = told /\ past' = past
  BY Zenon DEF L!peek
<1>3. k \in L!InTable <=> b # L!NoEntry  BY DEF L!InTable
<1>4. KeyOK(b, past[k], told[k], clock)  BY <1>1
<1>5. KeyOK(w, past[k], told[k], clock)
  <2>1. CASE k \notin L!InTable  BY <1>4, <2>1
  <2>2. CASE k \in L!InTable
    <3>1. w = L!Live(b) /\ b # L!NoEntry /\ Len(L!Live(b)) < budget  BY <1>2, <1>3, <2>2 DEF L!Allowed
    <3>2. Bucket(b, clock) /\ b \in Seq(Int) /\ past[k].times \in Seq(Int)  BY <1>4, <3>1 DEF KeyOK, Admissions
    <3>3. Bucket(L!Live(b), clock)  BY <1>1, <3>2, LiveBucket
    <3>4. ~past[k].evicted => Spread(past[k].times) /\ Traced(b, past[k].times, clock)  BY <1>4, <3>1 DEF KeyOK
    <3>5. ~past[k].evicted => Traced(L!Live(b), past[k].times, clock)  BY <1>1, <3>2, <3>4, TracedLive
    <3>6. Len(L!Live(b)) # budget
      <4>1. Len(L!Live(b)) \in Nat  BY <3>3 DEF Bucket
      <4>2. QED  BY <3>1, <4>1, LimiterConstants
    <3>7. L!Live(b) # L!NoEntry
      <4>1. L!Live(b) = L!NoEntry => L!Live(b)[1] = -1 /\ 1 \in DOMAIN L!Live(b)  BY DEF L!NoEntry
      <4>2. 1 \in DOMAIN L!Live(b) => L!Live(b)[1] \in 0..clock  BY <3>3 DEF Bucket
      <4>3. -1 \notin 0..clock  BY <1>1
      <4>4. QED  BY <4>1, <4>2, <4>3
    <3> HIDE DEF w, b
    <3>8. QED  BY <1>4, <3>1, <3>3, <3>4, <3>5, <3>6, <3>7 DEF KeyOK, Bucket
  <2>3. QED  BY <2>1, <2>2
<1> HIDE DEF w, b
<1>6. w \in Seq(Int)  BY <1>5 DEF KeyOK
<1>7. attempts' \in [Keys -> Seq(Int)] /\ asking' \in [Keys -> Nat]  BY <1>1, <1>2, <1>6
<1>8. ASSUME NEW n \in Keys  PROVE KeyOK(attempts'[n], past'[n], told'[n], clock')
  <2>1. CASE n = k
    <3>1. attempts'[n] = w  BY <1>1, <1>2, <2>1
    <3>2. QED  BY <1>2, <1>5, <2>1, <3>1
  <2>2. CASE n # k
    <3>1. attempts'[n] = attempts[n]  BY <1>1, <1>2, <2>2
    <3>2. QED  BY <1>1, <1>2, <3>1
  <2>3. QED  BY <2>1, <2>2
<1>9. QED  BY <1>1, <1>2, <1>7, <1>8 DEF LimInv

LEMMA LimResets ==
    ASSUME LimInv, NEW k \in Keys, L!reset(k)
    PROVE  LimInv'
<1> DEFINE blank == [times |-> <<>>, evicted |-> FALSE]
<1>1. /\ clock \in 0..MaxTime /\ attempts \in [Keys -> Seq(Int)] /\ past \in [Keys -> Admissions]
      /\ told \in [Keys -> Int] /\ asking \in [Keys -> Nat]
      /\ \A n \in Keys : KeyOK(attempts[n], past[n], told[n], clock)
  BY DEF LimInv
<1>2. /\ attempts' = [attempts EXCEPT ![k] = L!NoEntry] /\ past' = [past EXCEPT ![k] = blank]
      /\ told' = [told EXCEPT ![k] = -1] /\ clock' = clock /\ asking' = asking
  BY Zenon DEF L!reset
<1>3. L!NoEntry \in Seq(Int) /\ blank \in Admissions /\ blank.times = <<>>  BY DEF L!NoEntry, Admissions
<1> HIDE DEF blank
<1>4. attempts' \in [Keys -> Seq(Int)] /\ past' \in [Keys -> Admissions] /\ told' \in [Keys -> Int]
  BY <1>1, <1>2, <1>3
<1>5. ASSUME NEW n \in Keys  PROVE KeyOK(attempts'[n], past'[n], told'[n], clock')
  <2>1. CASE n = k
    <3>1. attempts'[n] = L!NoEntry /\ past'[n] = blank /\ told'[n] = -1  BY <1>1, <1>2, <2>1
    <3>2. -1 \in -1 .. MaxTime + window_s + 1  BY LimiterConstants
    <3>3. QED  BY <1>3, <3>1, <3>2 DEF KeyOK
  <2>2. CASE n # k
    <3>1. attempts'[n] = attempts[n] /\ past'[n] = past[n] /\ told'[n] = told[n]  BY <1>1, <1>2, <2>2
    <3>2. QED  BY <1>1, <1>2, <3>1
  <2>3. QED  BY <2>1, <2>2
<1>6. QED  BY <1>1, <1>2, <1>4, <1>5 DEF LimInv

\* Time goes on: what has left the window is not in it again.
LEMMA LimTicks ==
    ASSUME LimInv, L!Tick
    PROVE  LimInv'
<1>1. /\ clock \in 0..MaxTime /\ clock' = clock + 1 /\ clock < MaxTime
      /\ attempts' = attempts /\ asking' = asking /\ told' = told /\ past' = past
  BY Zenon DEF L!Tick, LimInv
<1>2. clock' \in 0..MaxTime /\ clock \in Nat  BY <1>1, LimiterConstants
<1>3. ASSUME NEW k \in Keys  PROVE KeyOK(attempts[k], past[k], told[k], clock')
  <2> DEFINE b == attempts[k]
             times == past[k].times
  <2>1. KeyOK(b, past[k], told[k], clock)  BY DEF LimInv
  <2>2. b \in Seq(Int) /\ times \in Seq(Int)  BY <2>1 DEF KeyOK, Admissions
  <2> HIDE DEF b, times
  <2>3. Bucket(b, clock) => Bucket(b, clock')  BY <1>1, <1>2 DEF Bucket
  <2>4. ASSUME Traced(b, times, clock)  PROVE Traced(b, times, clock')
    <3>1. PICK d \in Nat : /\ Len(times) = d + Len(b)
                           /\ \A i \in 1..Len(b) : b[i] = times[d + i]
                           /\ \A i \in 1..d : clock - times[i] > window_s
      BY <2>4 DEF Traced
    <3>2. \A i \in 1..d : clock' - times[i] > window_s
      <4> TAKE i \in 1..d
      <4>1. Len(b) \in Nat /\ i \in 1..Len(times) /\ times[i] \in Int  BY <2>2, <3>1
      <4>2. clock - times[i] > window_s  BY <3>1
      <4>3. QED  BY <1>1, <1>2, <4>1, <4>2, LimiterConstants
    <3>3. QED  BY <3>1, <3>2 DEF Traced
  <2>5. QED  BY <2>1, <2>3, <2>4 DEF KeyOK, b, times
<1>4. QED  BY <1>1, <1>2, <1>3 DEF LimInv

LEMMA LimNext == ASSUME LimInv, L!Next  PROVE LimInv'
<1>1. asking \in [Keys -> Nat]  BY DEF LimInv
<1>2. CASE \E k \in Keys : L!check(k) \/ L!reset(k) \/ L!peek(k) \/ L!fail(k) \/ L!pass(k)
  <2>1. PICK k \in Keys : L!check(k) \/ L!reset(k) \/ L!peek(k) \/ L!fail(k) \/ L!pass(k)  BY <1>2
  <2>2. CASE L!check(k)
    <3>1. PICK gone \in IF k \in L!InTable THEN {{}} ELSE L!OlderHalf : L!Counted(k, gone)
      BY <2>2, Zenon DEF L!check
    <3>2. clock' = clock /\ asking' \in [Keys -> Nat]  BY <1>1, <2>2 DEF L!check
    <3>3. QED  BY <3>1, <3>2, LimCounted
  <2>3. CASE L!reset(k)  BY <2>3, LimResets
  <2>4. CASE L!peek(k)  BY <2>4, LimPeeks
  <2>5. CASE L!fail(k)
    <3>1. PICK gone \in IF k \in L!InTable THEN {{}} ELSE L!OlderHalf : L!Counted(k, gone)
      BY <2>5, Zenon DEF L!fail
    <3>2. clock' = clock /\ asking[k] > 0 /\ asking' = [asking EXCEPT ![k] = @ - 1]
      BY <2>5, Zenon DEF L!fail
    <3>3. asking' \in [Keys -> Nat]  BY <1>1, <3>2
    <3>4. QED  BY <3>1, <3>2, <3>3, LimCounted
  <2>6. CASE L!pass(k)
    <3>1. /\ asking[k] > 0 /\ asking' = [asking EXCEPT ![k] = @ - 1]
          /\ clock' = clock /\ attempts' = attempts /\ told' = told /\ past' = past
      BY <2>6, Zenon DEF L!pass
    <3>2. asking' \in [Keys -> Nat]  BY <1>1, <3>1
    <3>3. QED  BY <3>1, <3>2 DEF LimInv
  <2>7. QED  BY <2>1, <2>2, <2>3, <2>4, <2>5, <2>6
<1>3. CASE L!Tick  BY <1>3, LimTicks
<1>4. QED  BY <1>2, <1>3, Zenon DEF L!Next

LEMMA LimRests ==
    ASSUME LimInv, clock' = clock, attempts' = attempts, asking' = asking, told' = told, past' = past
    PROVE  LimInv'
BY DEF LimInv

-----------------------------------------------------------------------------
(* Links and tokens: the part "grants" of MCCabinet. *)

LEMMA GrantConstants ==
    /\ TTL \in Nat /\ MaxTime \in Nat /\ MaxViews \in Nat /\ MaxSize \in Nat /\ Days \subseteq Int
    /\ LAST_USED_RESOLUTION \in Nat /\ LAST_USED_RESOLUTION > 0
    /\ null \notin Int /\ null \notin G!Share /\ null \notin G!ApiToken /\ null \notin Seq(Int)
BY SizesOK DEF G!ParametersOK, G!Time

LEMMA GrantHolds == ASSUME GrantInv  PROVE G!GrantsEnd
<1>1. G!TypeOK /\ LinkOK(share, url, views, now, past) /\ TokenOK(token, past) /\ served.right  BY DEF GrantInv
<1>2. past.together \in BOOLEAN  BY <1>1 DEF G!TypeOK, G!Past
<1>3. G!RevokedStays /\ G!MediaEnds /\ G!ViewsAreKept
  BY <1>1, <1>2 DEF LinkOK, G!RevokedStays, G!MediaEnds, G!ViewsAreKept
<1>4. G!RangeIsServed  BY <1>1 DEF G!RangeIsServed
<1>5. G!LastUsedIsFresh  BY <1>1, <1>2 DEF TokenOK, G!LastUsedIsFresh
<1>6. QED  BY <1>1, <1>3, <1>4, <1>5 DEF G!GrantsEnd

LEMMA GrantInit == ASSUME G!Init  PROVE GrantInv
<1> DEFINE blank == [together |-> FALSE, closed |-> FALSE, ended |-> null, called |-> null]
<1>1. /\ now = 0 /\ share = null /\ views = 0 /\ url = null /\ request = [p \in Requests |-> G!Idle]
      /\ served = G!Nothing /\ past = blank
      /\ token \in {null} \cup [expires_at: {null, 1}, revoked_at: {null}, last_used_at: {null}]
  BY Zenon DEF G!Init
<1>2. /\ blank \in G!Past /\ blank.together = FALSE /\ blank.closed = FALSE /\ blank.ended = null
      /\ blank.called = null
  BY DEF G!Past
<1> HIDE DEF blank
<1>3. G!Idle \in G!Request /\ G!Idle.op = "none" /\ G!Nothing \in G!Served /\ G!Nothing.right = TRUE
  BY DEF G!Idle, G!Request, G!Operations, G!Nothing, G!Served
<1>4. token \in G!ApiToken \cup {null}
  <2>1. [expires_at: {null, 1}, revoked_at: {null}, last_used_at: {null}] \subseteq G!ApiToken
    BY DEF G!ApiToken, G!Time
  <2>2. QED  BY <1>1, <2>1
<1>5. request \in [Requests -> G!Request] /\ \A p \in Requests : request[p].op = "none"  BY <1>1, <1>3
<1>6. G!TypeOK  BY <1>1, <1>2, <1>3, <1>4, <1>5, GrantConstants DEF G!TypeOK
<1>7. LinkOK(share, url, views, now, past) /\ TokenOK(token, past)
  BY <1>1, <1>2 DEF LinkOK, TokenOK, Open
<1>8. /\ \A p \in Requests : RowOK(request[p], share, token, views)
      /\ AloneOK(request, share, token, now)
  BY <1>5 DEF RowOK, AloneOK
<1>9. QED  BY <1>1, <1>3, <1>6, <1>7, <1>8 DEF GrantInv

\* What does not stay the same in a step of a request: it begins.
LEMMA GrantBegins ==
    ASSUME GrantInv, NEW p \in Requests, NEW op \in G!Operations \ {"none"}, NEW row \in G!Share \cup G!ApiToken,
           NEW days \in Int, G!Begin(p, op, row, days), served' = G!Nothing,
           RowOK([op |-> op, read |-> row, days |-> days], share, token, views),
           op = "view" => row = share /\ Open(share, now), op = "call" => row = token
    PROVE  GrantInv'
<1> DEFINE mine == [op |-> op, read |-> row, days |-> days]
           met == past.together \/ G!Busy
<1>1. /\ G!TypeOK /\ LinkOK(share, url, views, now, past) /\ TokenOK(token, past)
      /\ \A n \in Requests : RowOK(request[n], share, token, views)
      /\ ~past.together => AloneOK(request, share, token, now)
  BY DEF GrantInv
<1>2. /\ request' = [request EXCEPT ![p] = mine] /\ past' = [past EXCEPT !.together = met]
      /\ now' = now /\ share' = share /\ views' = views /\ url' = url /\ token' = token
  BY Zenon DEF G!Begin
<1>3. mine \in G!Request /\ mine.op = op /\ mine.read = row  BY DEF G!Request
<1>4. RowOK(mine, share, token, views)  OBVIOUS
<1> HIDE DEF mine
<1>5. /\ request \in [Requests -> G!Request] /\ past \in G!Past
  BY <1>1 DEF G!TypeOK
<1>6. met \in BOOLEAN  BY <1>5 DEF G!Past, G!Busy
<1>7. ~met => ~past.together /\ \A n \in Requests : request[n].op = "none"  BY DEF G!Busy
<1>8. past.together => met  OBVIOUS
<1> HIDE DEF met
<1>9. /\ past' \in G!Past /\ past'.together = met /\ past'.closed = past.closed
      /\ past'.ended = past.ended /\ past'.called = past.called
  BY <1>2, <1>5, <1>6 DEF G!Past
<1>10. /\ request' \in [Requests -> G!Request] /\ request'[p] = mine
       /\ \A n \in Requests : n # p => request'[n] = request[n]
  BY <1>2, <1>3, <1>5
<1>11. served' \in G!Served /\ served'.right  BY DEF G!Nothing, G!Served
<1>12. G!TypeOK'  BY <1>1, <1>2, <1>9, <1>10, <1>11 DEF G!TypeOK
<1>13. LinkOK(share, url, views, now, past')  BY <1>1, <1>8, <1>9 DEF LinkOK
<1>14. TokenOK(token, past')  BY <1>1, <1>8, <1>9 DEF TokenOK
<1>15. \A n \in Requests : RowOK(request'[n], share, token, views)
  <2> TAKE n \in Requests
  <2>1. CASE n = p  BY <1>4, <1>10, <2>1
  <2>2. CASE n # p  BY <1>1, <1>10, <2>2
  <2>3. QED  BY <2>1, <2>2
<1>16. ~met => AloneOK(request', share, token, now)
  <2> SUFFICES ASSUME ~met  PROVE AloneOK(request', share, token, now)
    OBVIOUS
  <2>1. \A n \in Requests : n # p => request'[n].op = "none"  BY <1>7, <1>10
  <2>2. QED  BY <1>3, <1>10, <2>1 DEF AloneOK
<1>17. QED  BY <1>2, <1>9, <1>11, <1>12, <1>13, <1>14, <1>15, <1>16 DEF GrantInv

\* A request ends: it was the only one, or requests have met.
LEMMA GrantAsked ==
    ASSUME GrantInv, NEW p \in Requests, request[p].op # "none", G!End(p),
           NEW s, share # null => s # null, NEW k, token # null => k # null, NEW v \in Nat, views <= v
    PROVE  /\ request' \in [Requests -> G!Request]
           /\ \A n \in Requests : RowOK(request'[n], s, k, v)
           /\ ~past.together => AloneOK(request', s, k, now)
<1>1. /\ G!TypeOK /\ \A n \in Requests : RowOK(request[n], share, token, views)
      /\ ~past.together => AloneOK(request, share, token, now)
  BY DEF GrantInv
<1>2. request' = [request EXCEPT ![p] = G!Idle]  BY DEF G!End
<1>3. G!Idle \in G!Request /\ G!Idle.op = "none"  BY DEF G!Idle, G!Request, G!Operations
<1>4. request \in [Requests -> G!Request] /\ views \in Nat  BY <1>1, GrantConstants DEF G!TypeOK
<1>5. /\ request' \in [Requests -> G!Request] /\ request'[p].op = "none"
      /\ \A n \in Requests : n # p => request'[n] = request[n]
  BY <1>2, <1>3, <1>4
<1>6. \A n \in Requests : RowOK(request'[n], s, k, v)
  <2> TAKE n \in Requests
  <2>1. CASE n = p  BY <1>5, <2>1 DEF RowOK
  <2>2. CASE n # p
    <3> DEFINE r == request[n]
    <3>1. request'[n] = r /\ RowOK(r, share, token, views)  BY <1>1, <1>5, <2>2
    <3>2. r.op = "view" => r.read.view_count \in Nat /\ r.read.view_count <= views  BY <3>1 DEF RowOK, G!Share
    <3> HIDE DEF r
    <3>3. r.op = "view" => r.read.view_count <= v  BY <1>4, <3>2
    <3>4. QED  BY <3>1, <3>3 DEF RowOK
  <2>3. QED  BY <2>1, <2>2
<1>7. ~past.together => AloneOK(request', s, k, now)
  <2> SUFFICES ASSUME ~past.together  PROVE AloneOK(request', s, k, now)
    OBVIOUS
  <2>1. \A n \in Requests : n # p => request[n].op = "none"  BY <1>1 DEF AloneOK
  <2>2. \A n \in Requests : request'[n].op = "none"  BY <1>5, <2>1
  <2>3. QED  BY <2>2 DEF AloneOK
<1>8. QED  BY <1>5, <1>6, <1>7

LEMMA GrantTicks == ASSUME GrantInv, G!Tick  PROVE GrantInv'
<1> DEFINE met == past.together \/ G!Busy
           ended == IF share # null /\ past.ended = null /\ share.expires_at < now + 1 THEN now ELSE past.ended
<1>1. /\ G!TypeOK /\ LinkOK(share, url, views, now, past) /\ TokenOK(token, past)
      /\ \A n \in Requests : RowOK(request[n], share, token, views)
      /\ ~past.together => AloneOK(request, share, token, now)
  BY DEF GrantInv
<1>2. /\ now < MaxTime /\ now' = now + 1 /\ share' = share /\ views' = views /\ url' = url /\ token' = token
      /\ request' = request /\ served' = G!Nothing
      /\ past' = [past EXCEPT !.together = met, !.ended = ended]
  BY Zenon DEF G!Tick
<1>3. /\ now \in 0..MaxTime /\ now \in Int /\ past \in G!Past /\ share \in G!Share \cup {null} /\ url \in Int \cup {null}
      /\ request \in [Requests -> G!Request]
  BY <1>1, GrantConstants DEF G!TypeOK, G!Time
<1>4. met \in BOOLEAN /\ ended \in Int \cup {null}  BY <1>3 DEF G!Past, G!Busy, G!Time
<1>5. ~met => ~past.together /\ \A n \in Requests : request[n].op = "none"  BY DEF G!Busy
<1>6. past.together => met  OBVIOUS
<1>7. /\ Open(share, now + 1) => ended = null
      /\ url # null => url <= now + 1 + TTL
      /\ ~met /\ ended # null /\ url # null => url <= ended + TTL
  <2>1. share # null => share \in G!Share /\ share.expires_at \in Int  BY <1>3 DEF G!Share, G!Time
  <2>2. Open(share, now + 1) => Open(share, now) /\ ~(share.expires_at < now + 1)  BY <1>3, <2>1 DEF Open
  <2>3. Open(share, now + 1) => ended = null  BY <1>1, <2>2 DEF LinkOK
  <2>4. url # null => url <= now + TTL  BY <1>1 DEF LinkOK
  <2>5. url # null => url <= now + 1 + TTL  BY <1>3, <2>4, GrantConstants
  <2>6. ~met /\ ended # null /\ url # null => url <= ended + TTL  BY <1>1, <1>6, <2>4 DEF LinkOK
  <2>7. QED  BY <2>3, <2>5, <2>6
<1> HIDE DEF met, ended
<1>8. /\ past' \in G!Past /\ past'.together = met /\ past'.closed = past.closed
      /\ past'.ended = ended /\ past'.called = past.called
  BY <1>2, <1>3, <1>4 DEF G!Past, G!Time
<1>9. served' \in G!Served /\ served'.right  BY <1>2 DEF G!Nothing, G!Served
<1>10. now' \in 0..MaxTime  BY <1>2, <1>3, GrantConstants
<1>11. G!TypeOK'  BY <1>1, <1>2, <1>8, <1>9, <1>10 DEF G!TypeOK
<1>12. LinkOK(share, url, views, now', past')  BY <1>1, <1>2, <1>6, <1>7, <1>8 DEF LinkOK
<1>13. TokenOK(token, past')  BY <1>1, <1>6, <1>8 DEF TokenOK
<1>14. ~met => AloneOK(request, share, token, now')  BY <1>5 DEF AloneOK
<1>15. QED  BY <1>1, <1>2, <1>8, <1>9, <1>11, <1>12, <1>13, <1>14 DEF GrantInv

LEMMA GrantCreates == ASSUME GrantInv, NEW days \in Days, G!create_share(days)  PROVE GrantInv'
<1> DEFINE row == [expires_at |-> now + days, revoked_at |-> null, view_count |-> 0]
           ended == IF days < 0 THEN now ELSE null
<1>1. /\ G!TypeOK /\ LinkOK(share, url, views, now, past) /\ TokenOK(token, past)
      /\ \A n \in Requests : RowOK(request[n], share, token, views)
      /\ ~past.together => AloneOK(request, share, token, now)
  BY DEF GrantInv
<1>2. /\ share = null /\ token = null /\ share' = row /\ now' = now /\ views' = views /\ url' = url /\ token' = token
      /\ request' = request /\ served' = G!Nothing /\ past' = [past EXCEPT !.ended = ended]
  BY Zenon DEF G!create_share
<1>3. now \in Int /\ days \in Int /\ past \in G!Past /\ views = 0 /\ ~past.closed
  BY <1>1, <1>2, GrantConstants DEF G!TypeOK, LinkOK
<1>4. /\ row \in G!Share /\ row.expires_at = now + days /\ row.revoked_at = null /\ row.view_count = 0
      /\ ended \in Int \cup {null}
  BY <1>3 DEF G!Share, G!Time
<1>5. Open(row, now) => ended = null  BY <1>3, <1>4 DEF Open
<1>6. row # null  BY <1>4, GrantConstants
<1>7. ended # null => ended = now  OBVIOUS
<1> HIDE DEF row, ended
<1>8. /\ past' \in G!Past /\ past'.together = past.together /\ past'.closed = past.closed
      /\ past'.ended = ended /\ past'.called = past.called
  BY <1>2, <1>3, <1>4 DEF G!Past, G!Time
<1>9. served' \in G!Served /\ served'.right  BY <1>2 DEF G!Nothing, G!Served
<1>10. G!TypeOK'  BY <1>1, <1>2, <1>4, <1>8, <1>9 DEF G!TypeOK
<1>11. LinkOK(row, url, views, now, past')
  BY <1>1, <1>3, <1>4, <1>5, <1>6, <1>7, <1>8 DEF LinkOK
<1>12. TokenOK(token, past')  BY <1>1, <1>8 DEF TokenOK
<1>13. \A n \in Requests : request[n].op = "none"
  <2> TAKE n \in Requests
  <2>1. request[n].op \in G!Operations  BY <1>1 DEF G!TypeOK, G!Request
  <2>2. request[n].op \notin {"view", "revoke", "extend", "call", "withdraw"}  BY <1>1, <1>2 DEF RowOK
  <2>3. QED  BY <2>1, <2>2 DEF G!Operations
<1>14. (\A n \in Requests : RowOK(request[n], row, token, views)) /\ AloneOK(request, row, token, now)
  BY <1>13 DEF RowOK, AloneOK
<1>15. QED  BY <1>2, <1>8, <1>9, <1>10, <1>11, <1>12, <1>14 DEF GrantInv

LEMMA GrantRevokes == ASSUME GrantInv, NEW p \in Requests, G!revoke_share(p)  PROVE GrantInv'
<1> DEFINE ended == IF past.ended = null THEN now ELSE past.ended
           closed == TRUE
           row == [share EXCEPT !.revoked_at = now]
<1>1. /\ G!TypeOK /\ LinkOK(share, url, views, now, past) /\ TokenOK(token, past)
      /\ \A n \in Requests : RowOK(request[n], share, token, views)
  BY DEF GrantInv
<1>2. /\ request[p].op = "revoke" /\ share' = row /\ past' = [past EXCEPT !.closed = closed, !.ended = ended]
      /\ G!End(p) /\ now' = now /\ views' = views /\ url' = url /\ token' = token /\ served' = G!Nothing
  BY Zenon DEF G!revoke_share
<1>3. share # null  BY <1>1, <1>2 DEF RowOK
<1>4. /\ now \in Int /\ past \in G!Past /\ share \in G!Share /\ views \in Nat
  BY <1>1, <1>3, GrantConstants DEF G!TypeOK
<1>5. row \in G!Share /\ row.revoked_at = now /\ row.view_count = share.view_count  BY <1>4 DEF G!Share, G!Time
<1>6. row # null /\ row.revoked_at # null  BY <1>4, <1>5, GrantConstants
<1>7. /\ ended \in Int \cup {null} /\ closed \in BOOLEAN
      /\ past.ended # null => ended = past.ended
      /\ past.ended = null => ended = now
  BY <1>4 DEF G!Past, G!Time
<1> HIDE DEF row, ended, closed
<1>8. /\ past' \in G!Past /\ past'.together = past.together
      /\ past'.ended = ended /\ past'.called = past.called
  BY <1>2, <1>4, <1>7 DEF G!Past, G!Time
<1>9. served' \in G!Served /\ served'.right  BY <1>2 DEF G!Nothing, G!Served
<1>10. /\ request' \in [Requests -> G!Request]
       /\ \A n \in Requests : RowOK(request'[n], row, token, views)
       /\ ~past.together => AloneOK(request', row, token, now)
  <2>1. views \in Nat /\ views <= views  BY <1>4
  <2>2. QED  BY <1>2, <1>6, <2>1, GrantAsked
<1>11. G!TypeOK'  BY <1>1, <1>2, <1>5, <1>8, <1>9, <1>10 DEF G!TypeOK
<1>12. LinkOK(row, url, views, now, past')
  BY <1>1, <1>3, <1>5, <1>6, <1>7, <1>8 DEF LinkOK, Open
<1>13. TokenOK(token, past')  BY <1>1, <1>8 DEF TokenOK
<1>14. QED  BY <1>2, <1>8, <1>9, <1>10, <1>11, <1>12, <1>13 DEF GrantInv

LEMMA GrantExtends == ASSUME GrantInv, NEW p \in Requests, G!extend_share(p)  PROVE GrantInv'
<1> DEFINE read == request[p].read
           days == request[p].days
           until == now + days
           revoked == IF read.revoked_at # null THEN null ELSE share.revoked_at
           row == [share EXCEPT !.expires_at = until, !.revoked_at = revoked]
           open == row.revoked_at = null /\ row.expires_at >= now
           closed == past.closed /\ read.revoked_at = null
           ended == IF open THEN null ELSE IF past.ended = null THEN now ELSE past.ended
<1>1. /\ G!TypeOK /\ LinkOK(share, url, views, now, past) /\ TokenOK(token, past)
      /\ \A n \in Requests : RowOK(request[n], share, token, views)
  BY DEF GrantInv
<1>2. /\ request[p].op = "extend" /\ share' = row
      /\ past' = [past EXCEPT !.closed = closed, !.ended = ended]
      /\ G!End(p) /\ now' = now /\ views' = views /\ url' = url /\ token' = token /\ served' = G!Nothing
  BY Zenon DEF G!extend_share, G!Extended
<1>3. share # null  BY <1>1, <1>2 DEF RowOK
<1>4. /\ now \in Int /\ past \in G!Past /\ share \in G!Share /\ views \in Nat /\ days \in Int
  BY <1>1, <1>3, GrantConstants DEF G!TypeOK, G!Request
<1>5. until \in Int /\ revoked \in Int \cup {null}
      /\ (closed => past.closed /\ revoked = share.revoked_at) /\ closed \in BOOLEAN
  BY <1>4 DEF G!Share, G!Time, G!Past
<1> HIDE DEF until, revoked, closed
<1>6. /\ row \in G!Share /\ row.revoked_at = revoked /\ row.view_count = share.view_count
      /\ row.expires_at = until
  BY <1>4, <1>5 DEF G!Share, G!Time
<1>7. row # null  BY <1>6, GrantConstants
<1>8. Open(row, now) => open  BY <1>4, <1>5, <1>6 DEF Open
<1> HIDE DEF row, open
<1>9. /\ ended \in Int \cup {null}
      /\ open => ended = null
      /\ ended # null => ended = now \/ (past.ended # null /\ ended = past.ended)
  BY <1>4 DEF G!Past, G!Time
<1> HIDE DEF ended
<1>10. /\ past' \in G!Past /\ past'.together = past.together /\ past'.closed = closed
       /\ past'.ended = ended /\ past'.called = past.called
  BY <1>2, <1>4, <1>5, <1>9 DEF G!Past, G!Time
<1>11. served' \in G!Served /\ served'.right  BY <1>2 DEF G!Nothing, G!Served
<1>12. /\ request' \in [Requests -> G!Request]
       /\ \A n \in Requests : RowOK(request'[n], row, token, views)
       /\ ~past.together => AloneOK(request', row, token, now)
  <2>1. views \in Nat /\ views <= views  BY <1>4
  <2>2. QED  BY <1>2, <1>7, <2>1, GrantAsked
<1>13. G!TypeOK'  BY <1>1, <1>2, <1>6, <1>10, <1>11, <1>12 DEF G!TypeOK
<1>14. LinkOK(row, url, views, now, past')
  BY <1>1, <1>3, <1>5, <1>6, <1>7, <1>8, <1>9, <1>10 DEF LinkOK
<1>15. TokenOK(token, past')  BY <1>1, <1>10 DEF TokenOK
<1>16. QED  BY <1>2, <1>10, <1>11, <1>12, <1>13, <1>14, <1>15 DEF GrantInv

\* The link to the media lasts from the view on, and the report was open then.
LEMMA GrantViews == ASSUME GrantInv, NEW p \in Requests, G!public_report(p)  PROVE GrantInv'
<1> DEFINE read == request[p].read
           count == read.view_count + 1
           row == [share EXCEPT !.view_count = count]
<1>1. /\ G!TypeOK /\ LinkOK(share, url, views, now, past) /\ TokenOK(token, past)
      /\ \A n \in Requests : RowOK(request[n], share, token, views)
      /\ ~past.together => AloneOK(request, share, token, now)
  BY DEF GrantInv
<1>2. /\ request[p].op = "view" /\ views < MaxViews /\ share' = row /\ views' = views + 1 /\ url' = now + TTL
      /\ G!End(p) /\ now' = now /\ token' = token /\ past' = past /\ served' = G!Nothing
  BY Zenon DEF G!public_report, G!sign_media_url
<1>3. share # null /\ read \in G!Share /\ read.view_count <= views  BY <1>1, <1>2 DEF RowOK
<1>4. /\ now \in Int /\ past \in G!Past /\ share \in G!Share /\ views \in 0..MaxViews /\ views \in Nat
  BY <1>1, <1>3, GrantConstants DEF G!TypeOK
<1>5. read.view_count \in Nat  BY <1>3 DEF G!Share
<1>6. ~past.together => read = share /\ Open(share, now)  BY <1>1, <1>2 DEF AloneOK
<1> HIDE DEF read
<1>7. count \in Nat /\ count <= views + 1  BY <1>3, <1>4, <1>5
<1>8. ~past.together => count = views + 1
  <2>1. ~past.together => share.view_count = views  BY <1>1, <1>3 DEF LinkOK
  <2>2. QED  BY <1>6, <2>1
<1> HIDE DEF count
<1>9. /\ row \in G!Share /\ row.revoked_at = share.revoked_at /\ row.view_count = count
      /\ row.expires_at = share.expires_at
  BY <1>4, <1>7 DEF G!Share, G!Time
<1>10. row # null  BY <1>9, GrantConstants
<1> HIDE DEF row
<1>11. /\ views' \in 0..MaxViews /\ views' \in Nat /\ views <= views'
       /\ url' \in Int /\ url' <= now + TTL
  BY <1>2, <1>4, GrantConstants
<1>12. served' \in G!Served /\ served'.right  BY <1>2 DEF G!Nothing, G!Served
<1>13. /\ request' \in [Requests -> G!Request]
       /\ \A n \in Requests : RowOK(request'[n], row, token, views')
       /\ ~past.together => AloneOK(request', row, token, now)
  BY <1>2, <1>10, <1>11, GrantAsked
<1>14. G!TypeOK'  BY <1>1, <1>2, <1>9, <1>11, <1>12, <1>13 DEF G!TypeOK, G!Time
<1>15. LinkOK(row, url', views', now, past)
  <2>1. Open(row, now) => past.ended = null  BY <1>1, <1>3, <1>9 DEF LinkOK, Open
  <2>2. ~past.together => past.ended = null  BY <1>1, <1>6 DEF LinkOK
  <2>3. past.closed => row.revoked_at # null  BY <1>1, <1>9 DEF LinkOK
  <2>4. row.view_count <= views' /\ (past.together \/ row.view_count = views')  BY <1>2, <1>7, <1>8, <1>9
  <2>5. QED  BY <1>10, <1>11, <2>1, <2>2, <2>3, <2>4 DEF LinkOK
<1>16. QED  BY <1>1, <1>2, <1>12, <1>13, <1>14, <1>15 DEF GrantInv

LEMMA GrantCalls == ASSUME GrantInv, NEW p \in Requests, G!Call(p)  PROVE GrantInv'
<1> DEFINE read == request[p].read
           fresh == read.last_used_at # null /\ now - read.last_used_at < LAST_USED_RESOLUTION
           marked == [token EXCEPT !.last_used_at = now]
           row == IF fresh THEN token ELSE marked
<1>1. /\ G!TypeOK /\ LinkOK(share, url, views, now, past)
      /\ \A n \in Requests : RowOK(request[n], share, token, views)
      /\ ~past.together => AloneOK(request, share, token, now)
  BY DEF GrantInv
<1>2. /\ request[p].op = "call" /\ token' = row /\ past' = [past EXCEPT !.called = now]
      /\ G!End(p) /\ now' = now /\ share' = share /\ views' = views /\ url' = url /\ served' = G!Nothing
  BY Zenon DEF G!Call, G!touch
<1>3. token # null /\ read \in G!ApiToken  BY <1>1, <1>2 DEF RowOK
<1>4. now \in Int /\ past \in G!Past /\ token \in G!ApiToken  BY <1>1, <1>3, GrantConstants DEF G!TypeOK
<1>5. marked \in G!ApiToken /\ marked.last_used_at = now  BY <1>4 DEF G!ApiToken, G!Time
<1>6. /\ row \in G!ApiToken
      /\ ~past.together => row.last_used_at \in Int /\ now - row.last_used_at < LAST_USED_RESOLUTION
  <2>1. CASE fresh
    <3>1. row = token  BY <2>1
    <3>2. read.last_used_at \in Int  BY <1>3, <2>1 DEF G!ApiToken, G!Time
    <3>3. ~past.together => read = token  BY <1>1, <1>2 DEF AloneOK
    <3>4. QED  BY <1>4, <2>1, <3>1, <3>2, <3>3
  <2>2. CASE ~fresh
    <3>1. row = marked  BY <2>2
    <3> HIDE DEF row, marked
    <3>2. QED  BY <1>4, <1>5, <3>1, GrantConstants
  <2>3. QED  BY <2>1, <2>2
<1> HIDE DEF row
<1>7. row # null  BY <1>6, GrantConstants
<1>8. /\ past' \in G!Past /\ past'.together = past.together /\ past'.closed = past.closed
      /\ past'.ended = past.ended /\ past'.called = now
  BY <1>2, <1>4 DEF G!Past, G!Time
<1>9. served' \in G!Served /\ served'.right  BY <1>2 DEF G!Nothing, G!Served
<1>10. /\ request' \in [Requests -> G!Request]
       /\ \A n \in Requests : RowOK(request'[n], share, row, views)
       /\ ~past.together => AloneOK(request', share, row, now)
  <2>1. views \in Nat /\ views <= views  BY <1>1, GrantConstants DEF G!TypeOK
  <2>2. QED  BY <1>2, <1>7, <2>1, GrantAsked
<1>11. G!TypeOK'  BY <1>1, <1>2, <1>6, <1>8, <1>9, <1>10 DEF G!TypeOK
<1>12. LinkOK(share, url, views, now, past')  BY <1>1, <1>8 DEF LinkOK
<1>13. TokenOK(row, past')  BY <1>6, <1>7, <1>8 DEF TokenOK
<1>14. QED  BY <1>2, <1>8, <1>9, <1>10, <1>11, <1>12, <1>13 DEF GrantInv

LEMMA GrantWithdraws == ASSUME GrantInv, NEW p \in Requests, G!revoke(p)  PROVE GrantInv'
<1> DEFINE row == [token EXCEPT !.revoked_at = now]
<1>1. /\ G!TypeOK /\ LinkOK(share, url, views, now, past) /\ TokenOK(token, past)
      /\ \A n \in Requests : RowOK(request[n], share, token, views)
      /\ served.right
  BY DEF GrantInv
<1>2. /\ request[p].op = "withdraw" /\ token' = row /\ past' = past
      /\ G!End(p) /\ now' = now /\ share' = share /\ views' = views /\ url' = url /\ served' = served
  BY Zenon DEF G!revoke
<1>3. token # null  BY <1>1, <1>2 DEF RowOK
<1>4. now \in Int /\ token \in G!ApiToken  BY <1>1, <1>3, GrantConstants DEF G!TypeOK
<1>5. row \in G!ApiToken /\ row.last_used_at = token.last_used_at  BY <1>4 DEF G!ApiToken, G!Time
<1> HIDE DEF row
<1>6. row # null  BY <1>5, GrantConstants
<1>7. /\ request' \in [Requests -> G!Request]
      /\ \A n \in Requests : RowOK(request'[n], share, row, views)
      /\ ~past.together => AloneOK(request', share, row, now)
  <2>1. views \in Nat /\ views <= views  BY <1>1, GrantConstants DEF G!TypeOK
  <2>2. QED  BY <1>2, <1>6, <2>1, GrantAsked
<1>8. G!TypeOK'  BY <1>1, <1>2, <1>5, <1>7 DEF G!TypeOK
<1>9. TokenOK(row, past)  BY <1>1, <1>5, <1>6 DEF TokenOK
<1>10. QED  BY <1>1, <1>2, <1>7, <1>8, <1>9 DEF GrantInv

LEMMA RangeRight ==
    ASSUME NEW h \in G!Headers, NEW size \in Nat
    PROVE  RangeOK(G!parse_range(h, size), G!Asked(h, size) \cap (0..(size - 1)), size)
<1> DEFINE range == G!parse_range(h, size)
           wanted == G!Asked(h, size) \cap (0..(size - 1))
<1> SUFFICES /\ range = null => wanted = 0..(size - 1)
             /\ range = <<>> => wanted = {}
             /\ range # null /\ range # <<>> => range[1]..range[2] = wanted /\ wanted # {}
  BY DEF RangeOK
<1>1. null # <<>> /\ \A a, b \in Int : <<a, b>> # null /\ <<a, b>> # <<>> /\ <<a, b>>[1] = a /\ <<a, b>>[2] = b
  <2>1. <<>> \in Seq(Int) /\ \A a, b \in Int : <<a, b>> \in Seq(Int) /\ <<a, b>> # <<>> /\ <<a, b>>[1] = a /\ <<a, b>>[2] = b
    OBVIOUS
  <2>2. null # <<>>  BY <2>1, GrantConstants
  <2>3. ASSUME NEW a \in Int, NEW b \in Int  PROVE <<a, b>> # null
    <3>1. <<a, b>> \in Seq(Int)  OBVIOUS
    <3>2. QED  BY <3>1, GrantConstants, Zenon
  <2>4. QED  BY <2>1, <2>2, <2>3, Zenon
<1>2. CASE h.kind = "none"
  <2>1. range = null /\ wanted = 0..(size - 1)  BY <1>2 DEF G!parse_range, G!Asked
  <2>2. QED  BY <1>1, <2>1
<1>3. CASE h.kind = "suffix"
  <2> DEFINE n == h.n
             first == IF n > size THEN 0 ELSE size - n
  <2>1. n \in Nat  BY <1>3, GrantConstants DEF G!Headers
  <2>2. /\ range = IF n = 0 \/ size = 0 THEN <<>> ELSE <<first, size - 1>>
        /\ wanted = ((size - n)..(size - 1)) \cap (0..(size - 1))
    BY <1>3 DEF G!parse_range, G!Asked
  <2> HIDE DEF n
  <2>3. CASE n = 0 \/ size = 0
    <3>1. range = <<>>  BY <2>2, <2>3
    <3>2. wanted = {}  BY <2>1, <2>2, <2>3
    <3>3. QED  BY <1>1, <3>1, <3>2
  <2>4. CASE n # 0 /\ size # 0
    <3>1. first \in Nat /\ first <= size - 1  BY <2>1, <2>4
    <3>2. wanted = first..(size - 1)  BY <2>1, <2>2
    <3> HIDE DEF first
    <3>3. range = <<first, size - 1>>  BY <2>2, <2>4
    <3>4. size - 1 \in Int /\ first \in wanted  BY <3>1, <3>2
    <3>5. QED  BY <1>1, <3>1, <3>2, <3>3, <3>4
  <2>5. QED  BY <2>3, <2>4
<1>4. CASE h.kind = "part"
  <2> DEFINE first == h.first
             last == IF h.last = null THEN size - 1 ELSE h.last
             end == IF last < size - 1 THEN last ELSE size - 1
  <2>1. first \in Nat /\ h.last \in Nat \cup {null}  BY <1>4, GrantConstants DEF G!Headers
  <2>2. last \in Int /\ size - 1 \in Int /\ end \in Int  BY <2>1
  <2>3. /\ range = IF h.last # null /\ last < first THEN null
                   ELSE IF first >= size THEN <<>> ELSE <<first, end>>
        /\ wanted = (IF h.last = null THEN first..(size - 1)
                     ELSE IF h.last < first THEN 0..(size - 1) ELSE first..h.last) \cap (0..(size - 1))
    BY <1>4 DEF G!parse_range, G!Asked, G!Least
  <2>4. CASE h.last # null /\ last < first
    <3>1. range = null  BY <2>3, <2>4
    <3>2. wanted = 0..(size - 1)  BY <2>3, <2>4
    <3>3. QED  BY <1>1, <3>1, <3>2
  <2>5. CASE ~(h.last # null /\ last < first)
    <3>1. wanted = (first..last) \cap (0..(size - 1))  BY <2>3, <2>5
    <3>2. h.last = null => last = size - 1  OBVIOUS
    <3>3. h.last # null => last >= first  BY <2>1, <2>2, <2>5
    <3> HIDE DEF first, last
    <3>4. CASE first >= size
      <4>1. range = <<>>  BY <2>3, <2>5, <3>4
      <4>2. wanted = {}  BY <2>1, <2>2, <3>1, <3>4
      <4>3. QED  BY <1>1, <4>1, <4>2
    <3>5. CASE ~(first >= size)
      <4>1. first <= end /\ wanted = first..end /\ first \in first..end  BY <2>1, <2>2, <3>1, <3>2, <3>3, <3>5
      <4> HIDE DEF end
      <4>2. range = <<first, end>>  BY <2>3, <2>5, <3>5
      <4>3. QED  BY <1>1, <2>1, <2>2, <4>1, <4>2
    <3>6. QED  BY <3>4, <3>5
  <2>6. QED  BY <2>4, <2>5
<1>5. h.kind \in {"none", "suffix", "part"}  BY DEF G!Headers
<1>6. QED  BY <1>2, <1>3, <1>4, <1>5

LEMMA GrantServes ==
    ASSUME GrantInv, NEW h \in G!Headers, NEW size \in 0..MaxSize, G!get_media(h, size)
    PROVE  GrantInv'
<1> DEFINE range == G!parse_range(h, size)
           wanted == G!Asked(h, size) \cap (0..(size - 1))
           got == IF ~G!verify_media_token THEN [status |-> 403, right |-> TRUE]
                  ELSE IF range = null THEN [status |-> 200, right |-> wanted = 0..(size - 1)]
                  ELSE IF range = <<>> THEN [status |-> 416, right |-> wanted = {}]
                  ELSE [status |-> 206, right |-> range[1]..range[2] = wanted /\ wanted # {}]
<1>1. /\ served' = got /\ now' = now /\ share' = share /\ views' = views /\ url' = url /\ token' = token
      /\ request' = request /\ past' = past
  BY Zenon DEF G!get_media
<1>2. RangeOK(range, wanted, size)
  <2>1. size \in Nat  BY GrantConstants
  <2>2. QED  BY <2>1, RangeRight
<1> HIDE DEF range, wanted
<1>3. /\ range = null => wanted = 0..(size - 1)
      /\ range = <<>> => wanted = {}
      /\ range # null /\ range # <<>> => range[1]..range[2] = wanted /\ wanted # {}
  BY <1>2, Zenon DEF RangeOK
<1>4. served' \in G!Served /\ served'.right
  <2>1. \E code \in {403, 200, 416, 206} : got = [status |-> code, right |-> TRUE]
    <3>1. CASE ~G!verify_media_token  BY <3>1, Zenon
    <3>2. CASE G!verify_media_token /\ range = null
      <4>1. (wanted = 0..(size - 1)) = TRUE  BY <1>3, <3>2
      <4>2. got = [status |-> 200, right |-> TRUE]  BY <3>2, <4>1, Zenon
      <4>3. QED  BY <4>2
    <3>3. CASE G!verify_media_token /\ range # null /\ range = <<>>
      <4>1. (wanted = {}) = TRUE  BY <1>3, <3>3
      <4>2. got = [status |-> 416, right |-> TRUE]  BY <3>3, <4>1, Zenon
      <4>3. QED  BY <4>2
    <3>4. CASE G!verify_media_token /\ range # null /\ range # <<>>
      <4>1. (range[1]..range[2] = wanted /\ wanted # {}) = TRUE  BY <1>3, <3>4
      <4>2. got = [status |-> 206, right |-> TRUE]  BY <3>4, <4>1, Zenon
      <4>3. QED  BY <4>2
    <3>5. QED  BY <3>1, <3>2, <3>3, <3>4
  <2> HIDE DEF got
  <2>2. QED  BY <1>1, <2>1 DEF G!Served
<1>5. G!TypeOK'  BY <1>1, <1>4 DEF GrantInv, G!TypeOK
<1>6. QED  BY <1>1, <1>4, <1>5 DEF GrantInv

LEMMA GrantNext == ASSUME GrantInv, G!Next  PROVE GrantInv'
<1>1. CASE G!Tick  BY <1>1, GrantTicks
<1>2. CASE \E days \in Days : G!create_share(days)  BY <1>2, GrantCreates
<1>3. ASSUME NEW p \in Requests,
             \/ G!BeginRevoke(p) \/ G!revoke_share(p)
             \/ \E days \in Days : G!BeginExtend(p, days)
             \/ G!extend_share(p)
             \/ G!_share_by_token(p) \/ G!public_report(p)
             \/ G!get_api_actor(p) \/ G!Call(p) \/ G!BeginWithdraw(p) \/ G!revoke(p)
      PROVE GrantInv'
  <2>1. /\ share \in G!Share \cup {null} /\ token \in G!ApiToken \cup {null}
        /\ now \in Int /\ views \in Nat /\ 0 \in Int
        /\ share # null => share.view_count <= views
    BY GrantConstants DEF GrantInv, G!TypeOK, LinkOK
  <2>2. /\ "revoke" \in G!Operations \ {"none"} /\ "extend" \in G!Operations \ {"none"}
        /\ "view" \in G!Operations \ {"none"} /\ "call" \in G!Operations \ {"none"}
        /\ "withdraw" \in G!Operations \ {"none"}
    BY DEF G!Operations
  <2>3. CASE G!BeginRevoke(p)
    <3>1. share # null /\ G!Begin(p, "revoke", share, 0) /\ served' = G!Nothing  BY <2>3 DEF G!BeginRevoke, G!Begin
    <3>2. RowOK([op |-> "revoke", read |-> share, days |-> 0], share, token, views)  BY <2>1, <3>1 DEF RowOK
    <3>3. QED  BY <2>1, <2>2, <3>1, <3>2, GrantBegins
  <2>4. CASE \E days \in Days : G!BeginExtend(p, days)
    <3>1. PICK days \in Days : G!BeginExtend(p, days)  BY <2>4
    <3>2. share # null /\ G!Begin(p, "extend", share, days) /\ served' = G!Nothing /\ days \in Int
      BY <3>1, GrantConstants DEF G!BeginExtend, G!Begin
    <3>3. RowOK([op |-> "extend", read |-> share, days |-> days], share, token, views)  BY <2>1, <3>2 DEF RowOK
    <3>4. QED  BY <2>1, <2>2, <3>2, <3>3, GrantBegins
  <2>5. CASE G!_share_by_token(p)
    <3>1. /\ share # null /\ G!share_status(share) = "active" /\ G!Begin(p, "view", share, 0) /\ served' = G!Nothing
      BY <2>5 DEF G!_share_by_token, G!Begin
    <3>2. share \in G!Share /\ share.expires_at \in Int  BY <2>1, <3>1 DEF G!Share, G!Time
    <3>3. Open(share, now)  BY <2>1, <3>1, <3>2 DEF G!share_status, Open
    <3>4. RowOK([op |-> "view", read |-> share, days |-> 0], share, token, views)  BY <2>1, <3>1 DEF RowOK
    <3>5. QED  BY <2>1, <2>2, <3>1, <3>3, <3>4, GrantBegins
  <2>6. CASE G!get_api_actor(p)
    <3>1. token # null /\ G!Begin(p, "call", token, 0) /\ served' = G!Nothing  BY <2>6 DEF G!get_api_actor, G!Begin
    <3>2. RowOK([op |-> "call", read |-> token, days |-> 0], share, token, views)  BY <2>1, <3>1 DEF RowOK
    <3>3. QED  BY <2>1, <2>2, <3>1, <3>2, GrantBegins
  <2>7. CASE G!BeginWithdraw(p)
    <3>1. token # null /\ G!Begin(p, "withdraw", token, 0) /\ served' = G!Nothing  BY <2>7 DEF G!BeginWithdraw, G!Begin
    <3>2. RowOK([op |-> "withdraw", read |-> token, days |-> 0], share, token, views)  BY <2>1, <3>1 DEF RowOK
    <3>3. QED  BY <2>1, <2>2, <3>1, <3>2, GrantBegins
  <2>8. CASE G!revoke_share(p)  BY <2>8, GrantRevokes
  <2>9. CASE G!extend_share(p)  BY <2>9, GrantExtends
  <2>10. CASE G!public_report(p)  BY <2>10, GrantViews
  <2>11. CASE G!Call(p)  BY <2>11, GrantCalls
  <2>12. CASE G!revoke(p)  BY <2>12, GrantWithdraws
  <2>13. QED  BY <1>3, <2>3, <2>4, <2>5, <2>6, <2>7, <2>8, <2>9, <2>10, <2>11, <2>12
<1>4. CASE \E h \in G!Headers, size \in 0..MaxSize : G!get_media(h, size)  BY <1>4, GrantServes
<1>5. QED  BY <1>1, <1>2, <1>3, <1>4, Zenon DEF G!Next

LEMMA GrantRests ==
    ASSUME GrantInv, now' = now, share' = share, views' = views, url' = url, token' = token,
           request' = request, served' = served, past' = past
    PROVE  GrantInv'
BY DEF GrantInv, G!TypeOK

\* A key gets its budget in a window and no more unless its entry was thrown away, and who comes again
\* when it was told to is let in; a revoked link stays revoked, its media end with it, its views are
\* counted, and of a media file what was asked for is served: however many keys, requests and sizes.
THEOREM LimitsStayHeld == MCSpec => []LimitsHold
<1> DEFINE Inv == (part = "limiter" => LimInv) /\ (part = "grants" => GrantInv)
<1>1. MCInit => Inv
  <2> SUFFICES ASSUME MCInit  PROVE Inv
    OBVIOUS
  <2>1. part = "limiter" => L!Init  BY Zenon DEF MCInit
  <2>2. part = "grants" => G!Init  BY Zenon DEF MCInit
  <2>3. QED  BY <2>1, <2>2, LimInit, GrantInit
<1>2. Inv /\ [MCNext]_all_vars => Inv'
  <2> SUFFICES ASSUME Inv, [MCNext]_all_vars  PROVE Inv'
    OBVIOUS
  <2>1. CASE NextLimiter
    <3>1. part = "limiter" /\ L!Next /\ part' = part  BY <2>1, Zenon DEF NextLimiter
    <3>2. QED  BY <3>1, LimNext
  <2>2. CASE NextGrants
    <3>1. part = "grants" /\ G!Next /\ part' = part  BY <2>2, Zenon DEF NextGrants
    <3>2. QED  BY <3>1, GrantNext
  <2>3. CASE NextOrganization \/ NextThread \/ NextKnowledge \/ NextSeed
    <3>1. part' = part /\ part # "limiter" /\ part # "grants"
      BY <2>3 DEF NextOrganization, NextThread, NextKnowledge, NextSeed
    <3>2. QED  BY <3>1
  <2>4. CASE UNCHANGED all_vars
    <3>1. /\ part' = part /\ clock' = clock /\ attempts' = attempts /\ asking' = asking /\ told' = told
          /\ now' = now /\ share' = share /\ views' = views /\ url' = url /\ token' = token /\ served' = served
          /\ request' = request /\ past' = past
      BY <2>4 DEF all_vars, OfLimiter, OfGrants
    <3>2. (part = "limiter" => LimInv') /\ (part = "grants" => GrantInv')  BY <3>1, LimRests, GrantRests
    <3>3. QED  BY <3>1, <3>2
  <2>5. QED  BY <2>1, <2>2, <2>3, <2>4, Zenon DEF MCNext
<1>3. Inv => LimitsHold  BY LimHolds, GrantHolds DEF LimitsHold
<1>4. QED  BY <1>1, <1>2, <1>3, PTL DEF MCSpec
-----------------------------------------------------------------------------
(* The files of the knowledge base: of the part "knowledge" of MCCabinet. *)

LEMMA FileConstants ==
    /\ Texts \subseteq Samples
    /\ \A t \in Samples, s \in BOOLEAN : K!New(t, s) \in FileRow /\ K!New(t, s).stored = s
<1>1. Texts \subseteq Samples  BY SizesOK DEF K!ParametersOK
<1>2. ASSUME NEW t \in Samples, NEW s \in BOOLEAN  PROVE K!New(t, s) \in FileRow /\ K!New(t, s).stored = s
  <2> DEFINE count == K!Len(K!chunk_text(t))
             counts == {K!Len(K!chunk_text(u)) : u \in Samples}
  <2>1. count \in counts  OBVIOUS
  <2>2. K!New(t, s) = [text |-> t, chunk_count |-> count, stored |-> s]  BY Zenon DEF K!New
  <2> HIDE DEF count
  <2>3. FileRow = [text: Samples, chunk_count: counts, stored: BOOLEAN]  BY Zenon DEF FileRow
  <2> HIDE DEF counts
  <2>4. QED  BY <2>1, <2>2, <2>3
<1>3. QED  BY <1>1, <1>2

LEMMA FilesIdle ==
    /\ DOMAIN K!Idle = {"op", "document", "read", "chunks", "text"} /\ K!Idle.op = "none"
BY DEF K!Idle

\* One request changes; of the others what they have to themselves stays.
LEMMA FilesAsked ==
    ASSUME FilesInv, NEW p \in Requests, NEW mine, request' = [request EXCEPT ![p] = mine],
           NEW rows, NEW kept, NEW used, past.used \subseteq used, FileAsked(p, request', rows, kept, used),
           FilesLeft(p, mine, rows, kept)
    PROVE  DOMAIN request' = Requests /\ \A q \in Requests : FileAsked(q, request', rows, kept, used)
<1>1. DOMAIN request = Requests /\ \A q \in Requests : FileAsked(q, request, documents, files, past.used)
  BY DEF FilesInv
<1>2. /\ DOMAIN request' = Requests /\ request'[p] = mine
      /\ \A q \in Requests : q # p => request'[q] = request[q]
  BY <1>1
<1>3. ASSUME NEW q \in Requests  PROVE FileAsked(q, request', rows, kept, used)
  <2>1. CASE q = p  BY <2>1
  <2>2. CASE q # p
    <3>1. request'[q] = request[q]  BY <1>2, <2>2
    <3>2. FileAsked(q, request, documents, files, past.used)  BY <1>1
    <3>3. request[q].op = "upload" =>
            \A o \in Requests : o # q /\ request'[o].op # "none" => request'[o].document # request[q].document
      <4> SUFFICES ASSUME request[q].op = "upload", NEW o \in Requests, o # q, request'[o].op # "none"
                   PROVE request'[o].document # request[q].document
        OBVIOUS
      <4>1. CASE o = p  BY <1>2, <2>2, <4>1 DEF FilesLeft
      <4>2. CASE o # p  BY <1>2, <3>2, <4>2 DEF FileAsked
      <4>3. QED  BY <4>1, <4>2
    <3>4. QED  BY <2>2, <3>1, <3>2, <3>3 DEF FileAsked, FilesLeft
  <2>3. QED  BY <2>1, <2>2
<1>4. QED  BY <1>2, <1>3

\* What an insertion makes of the rows.
LEMMA FilesInserted ==
    ASSUME FilesInv, NEW d \in Documents, NEW text \in Samples, NEW stored \in BOOLEAN, K!Insert(d, text, stored),
           stored => d \in files
    PROVE  /\ documents' \in [Documents -> FileRow \cup {null}] /\ past' \in K!Past
           /\ past'.used = past.used \cup {d} /\ \A x \in Documents : x # d => documents'[x] = documents[x]
           /\ \A x \in Documents : /\ documents'[x] # null => x \in past'.used
                                   /\ documents'[x] # null /\ documents'[x].stored => x \in files
<1> DEFINE row == K!New(text, stored)
           changes == past.changes + 1
           used == past.used \cup {d}
<1>1. /\ past.changes < MaxChanges /\ documents' = [documents EXCEPT ![d] = row]
      /\ past' = [past EXCEPT !.changes = changes, !.used = used]
  BY Zenon DEF K!Insert
<1>2. row \in FileRow /\ row.stored = stored  BY FileConstants
<1> HIDE DEF row
<1>3. /\ documents \in [Documents -> FileRow \cup {null}] /\ past \in K!Past
      /\ \A x \in Documents : /\ documents[x] # null => x \in past.used
                              /\ documents[x] # null /\ documents[x].stored => x \in files
  BY DEF FilesInv
<1>4. changes \in 0..MaxChanges /\ used \in SUBSET Documents
  <2>1. MaxChanges \in Nat  BY SizesOK DEF K!ParametersOK
  <2>2. QED  BY <1>1, <1>3, <2>1 DEF K!Past
<1> HIDE DEF changes
<1>5. past.used \subseteq used /\ d \in used  OBVIOUS
<1> HIDE DEF used
<1>6. past' \in K!Past /\ past'.used = used  BY <1>1, <1>3, <1>4 DEF K!Past
<1>7. /\ documents' \in [Documents -> FileRow \cup {null}] /\ documents'[d] = row
      /\ \A x \in Documents : x # d => documents'[x] = documents[x]
  BY <1>1, <1>2, <1>3
<1>8. ASSUME NEW x \in Documents
      PROVE  /\ documents'[x] # null => x \in used
             /\ documents'[x] # null /\ documents'[x].stored => x \in files
  BY <1>2, <1>3, <1>5, <1>7
<1>9. QED  BY <1>6, <1>7, <1>8 DEF used

LEMMA FilesNew ==
    ASSUME FilesInv, NEW d \in K!Unused
    PROVE  d \in Documents /\ d \notin past.used
<1>1. past.used \subseteq Documents  BY DEF FilesInv, K!Past
<1>2. past.used # Documents /\ d = CHOOSE x \in Documents \ past.used : TRUE  BY Zenon DEF K!Unused
<1>3. \E x \in Documents \ past.used : TRUE  BY <1>1, <1>2
<1>4. QED  BY <1>2, <1>3

LEMMA FilesInit == ASSUME K!Init  PROVE FilesInv
<1> DEFINE blank == [changes |-> 0, used |-> {}, blank |-> FALSE, troubles |-> 0]
<1>1. /\ documents = [d \in Documents |-> null] /\ request = [p \in Requests |-> K!Idle] /\ past = blank
  BY Zenon DEF K!Init
<1>2. 0 \in 0..MaxChanges /\ 0 \in 0..MaxTroubles
  <2>1. MaxChanges \in Nat /\ MaxTroubles \in Nat  BY SizesOK DEF K!ParametersOK
  <2>2. QED  BY <2>1
<1>3. blank \in K!Past  BY <1>2 DEF K!Past
<1> HIDE DEF blank
<1>4. documents \in [Documents -> FileRow \cup {null}] /\ \A d \in Documents : documents[d] = null  BY <1>1
<1>5. DOMAIN request = Requests /\ \A p \in Requests : request[p] = K!Idle  BY <1>1
<1>6. \A p \in Requests : FileAsked(p, request, documents, files, past.used)  BY <1>5, FilesIdle DEF FileAsked
<1>7. QED  BY <1>1, <1>3, <1>4, <1>5, <1>6 DEF FilesInv

LEMMA FilesText == ASSUME FilesInv, NEW p \in Requests, K!create_text(p)  PROVE FilesInv'
<1>1. /\ request' = request /\ files' = files
      /\ \E d \in K!Unused, text \in K!Entered : K!Insert(d, text, FALSE)
  BY Zenon DEF K!create_text
<1>2. PICK d \in K!Unused, text \in K!Entered : K!Insert(d, text, FALSE)  BY <1>1
<1>3. d \in Documents /\ d \notin past.used /\ text \in Samples  BY FilesNew, FileConstants DEF K!Entered
<1>4. /\ documents' \in [Documents -> FileRow \cup {null}] /\ past' \in K!Past
      /\ past'.used = past.used \cup {d} /\ \A x \in Documents : x # d => documents'[x] = documents[x]
      /\ \A x \in Documents : /\ documents'[x] # null => x \in past'.used
                              /\ documents'[x] # null /\ documents'[x].stored => x \in files
  BY <1>2, <1>3, FilesInserted
<1>5. past.used \subseteq Documents /\ DOMAIN request = Requests  BY DEF FilesInv, K!Past
<1>6. ASSUME NEW q \in Requests  PROVE FileAsked(q, request, documents', files, past'.used)
  <2>1. FileAsked(q, request, documents, files, past.used)  BY DEF FilesInv
  <2>2. request[q].op \in {"upload", "remove_file"} => documents'[request[q].document] = documents[request[q].document]
    BY <1>3, <1>4, <1>5, <2>1 DEF FileAsked
  <2>3. QED  BY <1>4, <2>1, <2>2 DEF FileAsked
<1>7. QED  BY <1>1, <1>4, <1>5, <1>6 DEF FilesInv

LEMMA FilesPut == ASSUME FilesInv, NEW p \in Requests, K!PutFile(p)  PROVE FilesInv'
<1>1. PICK d \in K!Unused, text \in K!Entered \ {K!Blank} :
        /\ files' = files \cup {d}
        /\ request' = [request EXCEPT ![p] = [K!Idle EXCEPT !.op = "upload", !.document = d, !.text = text]]
        /\ past' = [past EXCEPT !.used = @ \cup {d}]
  BY Zenon DEF K!PutFile
<1> DEFINE mine == [K!Idle EXCEPT !.op = "upload", !.document = d, !.text = text]
           used == past.used \cup {d}
           kept == files \cup {d}
<1>2. request[p].op = "none" /\ documents' = documents  BY DEF K!PutFile
<1>3. d \in Documents /\ d \notin past.used /\ text \in Samples  BY FilesNew, FileConstants DEF K!Entered
<1>4. /\ DOMAIN mine = {"op", "document", "read", "chunks", "text"}
      /\ mine.op = "upload" /\ mine.document = d /\ mine.text = text
  BY DEF K!Idle
<1> HIDE DEF mine
<1>5. /\ request' = [request EXCEPT ![p] = mine] /\ past' = [past EXCEPT !.used = used] /\ files' = kept
  BY <1>1 DEF mine
<1>6. /\ past \in K!Past /\ DOMAIN request = Requests
      /\ \A x \in Documents : /\ documents[x] # null => x \in past.used
                              /\ documents[x] # null /\ documents[x].stored => x \in files
      /\ \A q \in Requests : FileAsked(q, request, documents, files, past.used)
  BY DEF FilesInv
<1>7. used \in SUBSET Documents /\ past.used \subseteq used /\ d \in used  BY <1>3, <1>6 DEF K!Past
<1>8. files \subseteq kept /\ d \in kept  OBVIOUS
<1> HIDE DEF used, kept
<1>9. past' \in K!Past /\ past'.used = used  BY <1>5, <1>6, <1>7 DEF K!Past
<1>10. documents[d] = null  BY <1>3, <1>6
<1>11. \A q \in Requests : q # p /\ request[q].op # "none" => request[q].document # d
  BY <1>3, <1>6 DEF FileAsked
<1>12. FileAsked(p, request', documents, kept, used)
  <2>1. request'[p] = mine /\ \A q \in Requests : q # p => request'[q] = request[q]  BY <1>5, <1>6
  <2>2. QED  BY <1>3, <1>4, <1>7, <1>8, <1>10, <1>11, <2>1 DEF FileAsked
<1>13. DOMAIN request' = Requests /\ \A q \in Requests : FileAsked(q, request', documents, kept, used)
  <2>1. FilesLeft(p, mine, documents, kept)  BY <1>4, <1>6, <1>8, <1>11 DEF FileAsked, FilesLeft
  <2>2. QED  BY <1>5, <1>7, <1>12, <2>1, FilesAsked
<1>14. documents \in [Documents -> FileRow \cup {null}]  BY DEF FilesInv
<1>15. \A x \in Documents : /\ documents[x] # null => x \in used
                            /\ documents[x] # null /\ documents[x].stored => x \in kept
  BY <1>6, <1>7, <1>8
<1>16. QED  BY <1>2, <1>5, <1>9, <1>13, <1>14, <1>15 DEF FilesInv

LEMMA FilesCreated == ASSUME FilesInv, NEW p \in Requests, K!create_file(p)  PROVE FilesInv'
<1> DEFINE d == request[p].document
           text == request[p].text
<1>1. /\ request[p].op = "upload" /\ K!Insert(d, text, TRUE)
      /\ request' = [request EXCEPT ![p] = K!Idle] /\ files' = files
  BY Zenon DEF K!create_file
<1>2. \A q \in Requests : FileAsked(q, request, documents, files, past.used)  BY DEF FilesInv
<1>3. d \in past.used /\ d \in files /\ text \in Samples
      /\ \A q \in Requests : q # p /\ request[q].op # "none" => request[q].document # d
  BY <1>1, <1>2 DEF FileAsked
<1>4. past.used \subseteq Documents /\ d \in Documents /\ DOMAIN request = Requests  BY <1>3 DEF FilesInv, K!Past
<1> HIDE DEF d, text
<1>5. /\ documents' \in [Documents -> FileRow \cup {null}] /\ past' \in K!Past
      /\ past'.used = past.used \cup {d} /\ \A x \in Documents : x # d => documents'[x] = documents[x]
      /\ \A x \in Documents : /\ documents'[x] # null => x \in past'.used
                              /\ documents'[x] # null /\ documents'[x].stored => x \in files
  BY <1>1, <1>3, <1>4, FilesInserted
<1>6. FileAsked(p, request', documents', files, past'.used)
  <2>1. request'[p] = K!Idle  BY <1>1, <1>4
  <2>2. QED  BY <2>1, FilesIdle DEF FileAsked
<1>7. ASSUME NEW q \in Requests, q # p, request[q].op \in {"upload", "remove_file"}
      PROVE documents'[request[q].document] = null /\ (request[q].op = "upload" => request[q].document \in files)
  <2>1. FileAsked(q, request, documents, files, past.used)  BY <1>2
  <2>2. /\ request[q].document \in Documents /\ request[q].document # d /\ documents[request[q].document] = null
        /\ request[q].op = "upload" => request[q].document \in files
    BY <1>3, <1>4, <1>7, <2>1 DEF FileAsked
  <2>3. QED  BY <1>5, <2>2
<1>8. DOMAIN request' = Requests /\ \A q \in Requests : FileAsked(q, request', documents', files, past'.used)
  <2>1. past.used \subseteq past'.used  BY <1>5
  <2>2. FilesLeft(p, K!Idle, documents', files)  BY <1>7, FilesIdle DEF FilesLeft
  <2>3. QED  BY <1>1, <1>6, <2>1, <2>2, FilesAsked
<1>9. QED  BY <1>1, <1>5, <1>8 DEF FilesInv

LEMMA FilesLoaded ==
    ASSUME FilesInv, NEW p \in Requests, NEW op \in {"update", "delete"}, NEW d \in Documents, NEW text,
           op = "update" => text \in Samples, K!Load(p, op, d, text)
    PROVE  FilesInv'
<1> DEFINE mine == [op |-> op, document |-> d, read |-> documents[d],
                    chunks |-> {row.version : row \in chunks[d]}, text |-> text]
           blank == past.blank \/ \E o \in Requests : request[o].document = d /\ K!Blank \in {text, request[o].text}
<1>1. /\ documents[d] # null /\ documents' = documents /\ files' = files
      /\ request' = [request EXCEPT ![p] = mine] /\ past' = [past EXCEPT !.blank = blank]
  BY Zenon DEF K!Load
<1>2. /\ DOMAIN mine = {"op", "document", "read", "chunks", "text"}
      /\ mine.op = op /\ mine.document = d /\ mine.text = text
  OBVIOUS
<1> HIDE DEF mine
<1>3. /\ past \in K!Past /\ DOMAIN request = Requests /\ d \in past.used
      /\ \A q \in Requests : FileAsked(q, request, documents, files, past.used)
  BY <1>1 DEF FilesInv
<1>4. blank \in BOOLEAN  BY <1>3 DEF K!Past
<1> HIDE DEF blank
<1>5. past' \in K!Past /\ past'.used = past.used  BY <1>1, <1>3, <1>4 DEF K!Past
<1>6. FileAsked(p, request', documents, files, past.used)
  <2>1. request'[p] = mine  BY <1>1, <1>3
  <2>2. QED  BY <1>2, <1>3, <2>1 DEF FileAsked
<1>7. FilesLeft(p, mine, documents, files)  BY <1>1, <1>2, <1>3 DEF FileAsked, FilesLeft
<1>8. DOMAIN request' = Requests /\ \A q \in Requests : FileAsked(q, request', documents, files, past.used)
  BY <1>1, <1>6, <1>7, FilesAsked
<1>9. QED  BY <1>1, <1>5, <1>8 DEF FilesInv

\* A request ends, and the rows with or without a file are those they were.
LEMMA FilesEnded ==
    ASSUME FilesInv, NEW p \in Requests, request' = [request EXCEPT ![p] = K!Idle], NEW rows,
           \A d \in Documents : documents[d] = null => rows[d] = null
    PROVE  DOMAIN request' = Requests /\ \A q \in Requests : FileAsked(q, request', rows, files, past.used)
<1>1. /\ DOMAIN request = Requests /\ past.used \subseteq Documents
      /\ \A q \in Requests : FileAsked(q, request, documents, files, past.used)
  BY DEF FilesInv, K!Past
<1>2. FileAsked(p, request', rows, files, past.used)
  <2>1. request'[p] = K!Idle  BY <1>1
  <2>2. QED  BY <2>1, FilesIdle DEF FileAsked
<1>3. FilesLeft(p, K!Idle, rows, files)  BY <1>1, FilesIdle DEF FileAsked, FilesLeft
<1>4. QED  BY <1>2, <1>3, FilesAsked

LEMMA FilesUpdated == ASSUME FilesInv, NEW p \in Requests, K!update(p)  PROVE FilesInv'
<1> DEFINE d == request[p].document
           new == K!New(request[p].text, FALSE)
           row == K!Changed(documents[d], request[p].read, new)
           changes == past.changes + 1
<1>1. /\ request[p].op = "update" /\ past.changes < MaxChanges /\ past' = [past EXCEPT !.changes = changes]
      /\ request' = [request EXCEPT ![p] = K!Idle] /\ files' = files
      /\ documents' = documents \/ (documents[d] # null /\ documents' = [documents EXCEPT ![d] = row])
  BY Zenon DEF K!update
<1>2. /\ past \in K!Past /\ documents \in [Documents -> FileRow \cup {null}]
      /\ \A x \in Documents : /\ documents[x] # null => x \in past.used
                              /\ documents[x] # null /\ documents[x].stored => x \in files
      /\ FileAsked(p, request, documents, files, past.used)
  BY DEF FilesInv
<1>3. d \in Documents /\ d \in past.used /\ new \in FileRow  BY <1>1, <1>2, FileConstants DEF FileAsked, K!Past
<1>4. documents[d] # null => row \in FileRow /\ row.stored = documents[d].stored
  <2> SUFFICES ASSUME documents[d] # null  PROVE row \in FileRow /\ row.stored = documents[d].stored
    OBVIOUS
  <2> DEFINE old == documents[d]
             text == IF new.text # request[p].read.text THEN new.text ELSE old.text
             count == IF new.chunk_count # request[p].read.chunk_count THEN new.chunk_count ELSE old.chunk_count
             counts == {K!Len(K!chunk_text(t)) : t \in Samples}
  <2>1. FileRow = [text: Samples, chunk_count: counts, stored: BOOLEAN]  BY Zenon DEF FileRow
  <2>2. row = [old EXCEPT !.text = text, !.chunk_count = count]  BY Zenon DEF K!Changed
  <2>3. old \in FileRow  BY <1>2, <1>3
  <2> HIDE DEF new, old, counts, row
  <2>4. text \in Samples /\ count \in counts  BY <1>3, <2>1, <2>3
  <2> HIDE DEF text, count
  <2>5. row \in FileRow /\ row.stored = old.stored  BY <2>1, <2>2, <2>3, <2>4
  <2>6. QED  BY <2>5 DEF old
<1> HIDE DEF d, new, row
<1>5. changes \in 0..MaxChanges
  <2>1. MaxChanges \in Nat  BY SizesOK DEF K!ParametersOK
  <2>2. QED  BY <1>1, <1>2, <2>1 DEF K!Past
<1> HIDE DEF changes
<1>6. past' \in K!Past /\ past'.used = past.used  BY <1>1, <1>2, <1>5 DEF K!Past
<1>7. /\ documents' \in [Documents -> FileRow \cup {null}]
      /\ \A x \in Documents : documents[x] = null => documents'[x] = null
      /\ \A x \in Documents : /\ documents'[x] # null => x \in past.used
                              /\ documents'[x] # null /\ documents'[x].stored => x \in files
  <2>1. CASE documents' = documents  BY <1>2, <2>1
  <2>2. CASE documents[d] # null /\ documents' = [documents EXCEPT ![d] = row]
    <3>1. /\ documents' \in [Documents -> FileRow \cup {null}] /\ documents'[d] = row
          /\ \A x \in Documents : x # d => documents'[x] = documents[x]
      BY <1>2, <1>3, <1>4, <2>2
    <3>2. QED  BY <1>2, <1>3, <1>4, <2>2, <3>1
  <2>3. QED  BY <1>1, <2>1, <2>2
<1>8. DOMAIN request' = Requests /\ \A q \in Requests : FileAsked(q, request', documents', files, past.used)
  BY <1>1, <1>7, FilesEnded
<1>9. QED  BY <1>1, <1>6, <1>7, <1>8 DEF FilesInv

LEMMA FilesDeleted == ASSUME FilesInv, NEW p \in Requests, K!delete(p)  PROVE FilesInv'
<1> DEFINE r == request[p]
           d == r.document
           gone == [r EXCEPT !.op = "remove_file"]
           mine == IF r.read.stored THEN gone ELSE K!Idle
<1>1. /\ r.op = "delete" /\ documents' = [documents EXCEPT ![d] = null]
      /\ request' = [request EXCEPT ![p] = mine] /\ files' = files /\ past' = past
  BY Zenon DEF K!delete
<1>2. /\ past \in K!Past /\ documents \in [Documents -> FileRow \cup {null}] /\ DOMAIN request = Requests
      /\ \A x \in Documents : /\ documents[x] # null => x \in past.used
                              /\ documents[x] # null /\ documents[x].stored => x \in files
      /\ \A q \in Requests : FileAsked(q, request, documents, files, past.used)
  BY DEF FilesInv
<1>3. /\ d \in Documents /\ d \in past.used /\ DOMAIN r = {"op", "document", "read", "chunks", "text"}
      /\ \A q \in Requests : q # p /\ request[q].op = "upload" => request[q].document # d
  BY <1>1, <1>2 DEF FileAsked, K!Past
<1>4. /\ DOMAIN mine = {"op", "document", "read", "chunks", "text"}
      /\ mine.op \in {"none", "remove_file"}
      /\ mine.op # "none" => mine.document = d
  <2>1. DOMAIN gone = {"op", "document", "read", "chunks", "text"} /\ gone.op = "remove_file" /\ gone.document = d
    BY <1>3
  <2> HIDE DEF gone
  <2>2. QED  BY <2>1, FilesIdle
<1> HIDE DEF mine, d, r
<1>5. /\ documents' \in [Documents -> FileRow \cup {null}] /\ documents'[d] = null
      /\ \A x \in Documents : x # d => documents'[x] = documents[x]
  BY <1>1, <1>2, <1>3
<1>6. FileAsked(p, request', documents', files, past.used)
  <2>1. request'[p] = mine  BY <1>1, <1>2
  <2>2. QED  BY <1>3, <1>4, <1>5, <2>1 DEF FileAsked
<1>7. FilesLeft(p, mine, documents', files)
  <2> SUFFICES ASSUME NEW q \in Requests \ {p}, request[q].op \in {"upload", "remove_file"}
               PROVE  /\ documents'[request[q].document] = null
                      /\ request[q].op = "upload" => request[q].document \in files
                      /\ request[q].op = "upload" /\ mine.op # "none" => mine.document # request[q].document
    BY DEF FilesLeft
  <2>1. FileAsked(q, request, documents, files, past.used)  BY <1>2
  <2>2. request[q].document \in Documents /\ documents[request[q].document] = null  BY <1>2, <2>1 DEF FileAsked, K!Past
  <2>3. QED  BY <1>3, <1>4, <1>5, <2>1, <2>2 DEF FileAsked
<1>8. DOMAIN request' = Requests /\ \A q \in Requests : FileAsked(q, request', documents', files, past.used)
  BY <1>1, <1>6, <1>7, FilesAsked
<1>9. \A x \in Documents : /\ documents'[x] # null => x \in past.used
                           /\ documents'[x] # null /\ documents'[x].stored => x \in files
  BY <1>2, <1>5
<1>10. QED  BY <1>1, <1>2, <1>5, <1>8, <1>9 DEF FilesInv

LEMMA FilesRemoved == ASSUME FilesInv, NEW p \in Requests, K!RemoveFile(p)  PROVE FilesInv'
<1> DEFINE d == request[p].document
           kept == files \ {d}
<1>1. /\ request[p].op = "remove_file" /\ files' = kept /\ request' = [request EXCEPT ![p] = K!Idle]
      /\ documents' = documents /\ past' = past
  BY Zenon DEF K!RemoveFile
<1>2. /\ DOMAIN request = Requests
      /\ \A x \in Documents : documents[x] # null /\ documents[x].stored => x \in files
      /\ \A q \in Requests : FileAsked(q, request, documents, files, past.used)
  BY DEF FilesInv
<1>3. documents[d] = null /\ \A q \in Requests : q # p /\ request[q].op = "upload" => request[q].document # d
  BY <1>1, <1>2 DEF FileAsked
<1> HIDE DEF d
<1>4. FileAsked(p, request', documents, kept, past.used)
  <2>1. request'[p] = K!Idle  BY <1>1, <1>2
  <2>2. QED  BY <2>1, FilesIdle DEF FileAsked
<1>5. FilesLeft(p, K!Idle, documents, kept)  BY <1>2, <1>3, FilesIdle DEF FileAsked, FilesLeft
<1>6. \A x \in Documents : documents[x] # null /\ documents[x].stored => x \in kept  BY <1>2, <1>3
<1> HIDE DEF kept
<1>7. DOMAIN request' = Requests /\ \A q \in Requests : FileAsked(q, request', documents, kept, past.used)
  BY <1>1, <1>4, <1>5, FilesAsked
<1>8. QED  BY <1>1, <1>6, <1>7 DEF FilesInv

LEMMA FilesBroken == ASSUME FilesInv, NEW p \in Requests, K!Broken(p)  PROVE FilesInv'
<1> DEFINE troubles == past.troubles + 1
<1>1. /\ past.troubles < MaxTroubles /\ request' = [request EXCEPT ![p] = K!Idle]
      /\ past' = [past EXCEPT !.troubles = troubles] /\ documents' = documents /\ files' = files
  BY Zenon DEF K!Broken
<1>2. past \in K!Past  BY DEF FilesInv
<1>3. troubles \in 0..MaxTroubles
  <2>1. MaxTroubles \in Nat  BY SizesOK DEF K!ParametersOK
  <2>2. QED  BY <1>1, <1>2, <2>1 DEF K!Past
<1> HIDE DEF troubles
<1>4. past' \in K!Past /\ past'.used = past.used  BY <1>1, <1>2, <1>3 DEF K!Past
<1>5. DOMAIN request' = Requests /\ \A q \in Requests : FileAsked(q, request', documents, files, past.used)
  BY <1>1, FilesEnded
<1>6. QED  BY <1>1, <1>4, <1>5 DEF FilesInv

LEMMA FilesNext == ASSUME FilesInv, K!Next  PROVE FilesInv'
<1>1. PICK p \in Requests :
        \/ K!create_text(p) \/ K!PutFile(p) \/ K!create_file(p)
        \/ K!BeginUpdate(p) \/ K!update(p)
        \/ K!BeginDelete(p) \/ K!delete(p) \/ K!RemoveFile(p) \/ K!Broken(p)
  BY Zenon DEF K!Next
<1>2. CASE K!BeginUpdate(p)
  <2>1. PICK d \in Documents, text \in Texts : K!Load(p, "update", d, text)  BY <1>2, Zenon DEF K!BeginUpdate
  <2>2. text \in Samples  BY FileConstants
  <2>3. QED  BY <2>1, <2>2, FilesLoaded
<1>3. CASE K!BeginDelete(p)
  <2>1. PICK d \in Documents : K!Load(p, "delete", d, null)  BY <1>3, Zenon DEF K!BeginDelete
  <2>2. QED  BY <2>1, FilesLoaded
<1>4. QED  BY <1>1, <1>2, <1>3, FilesText, FilesPut, FilesCreated, FilesUpdated, FilesDeleted, FilesRemoved, FilesBroken

\* A document that was uploaded has its file as long as it is there, though a process dies between the
\* storage and the database, and two requests delete it at once.
THEOREM FilesStayThere == MCSpec => [](part = "knowledge" => K!FilesAreThere)
<1> DEFINE Inv == part = "knowledge" => FilesInv
<1>1. MCInit => Inv
  <2> SUFFICES ASSUME MCInit, part = "knowledge"  PROVE FilesInv
    OBVIOUS
  <2>1. K!Init  BY Zenon DEF MCInit
  <2>2. QED  BY <2>1, FilesInit
<1>2. Inv /\ [MCNext]_all_vars => Inv'
  <2> SUFFICES ASSUME Inv, [MCNext]_all_vars, part' = "knowledge"  PROVE FilesInv'
    OBVIOUS
  <2>1. CASE NextKnowledge
    <3>1. part = "knowledge" /\ K!Next  BY <2>1, Zenon DEF NextKnowledge
    <3>2. QED  BY <3>1, FilesNext
  <2>2. CASE NextOrganization \/ NextLimiter \/ NextThread \/ NextGrants \/ NextSeed
    <3>1. part' = part /\ part # "knowledge"
      BY <2>2 DEF NextOrganization, NextLimiter, NextThread, NextGrants, NextSeed
    <3>2. QED  BY <3>1
  <2>3. CASE UNCHANGED all_vars
    <3>1. part' = part /\ documents' = documents /\ files' = files /\ request' = request /\ past' = past
      BY <2>3 DEF all_vars, OfKnowledge
    <3>2. QED  BY <3>1 DEF FilesInv
  <2>4. QED  BY <2>1, <2>2, <2>3, Zenon DEF MCNext
<1>3. Inv => (part = "knowledge" => K!FilesAreThere)  BY DEF FilesInv, K!FilesAreThere, K!Present
<1>4. QED  BY <1>1, <1>2, <1>3, PTL DEF MCSpec

-----------------------------------------------------------------------------
(* The command for demo data: the part "seed" of MCCabinet. *)

LEMMA SeedConstants ==
    /\ Vacancies \in Seq(D!ToSet(Vacancies)) /\ Members \in Seq(D!ToSet(Members)) /\ Cases \in Seq(D!ToSet(Cases))
    /\ Extras \in Seq(D!ToSet(Extras)) /\ Topics \in Seq(D!ToSet(Topics))
    /\ Len(Vacancies) \in Nat \ {0} /\ CaseVacancy \in [D!ToSet(Cases) -> D!ToSet(Vacancies)]
    /\ Decisions \subseteq D!ToSet(Cases) /\ Modes \subseteq {"dataset", "real", "none"} /\ MaxRuns \in Nat
    /\ null \notin D!ToSet(Extras) /\ null \notin D!Interview /\ null \notin D!Run
<1>1. D!ParametersOK /\ D!NullOK  BY SizesOK
<1>2. /\ Vacancies \in Seq(D!ToSet(Vacancies)) /\ Members \in Seq(D!ToSet(Members)) /\ Cases \in Seq(D!ToSet(Cases))
      /\ Extras \in Seq(D!ToSet(Extras)) /\ Topics \in Seq(D!ToSet(Topics))
  BY <1>1 DEF D!ParametersOK
<1>3. Vacancies # <<>>  BY <1>1 DEF D!ParametersOK
<1>4. Len(Vacancies) \in Nat \ {0}  BY <1>2, <1>3
<1>5. QED  BY <1>1, <1>2, <1>4 DEF D!ParametersOK, D!NullOK

LEMMA ThingsAre ==
    ASSUME NEW what, NEW names, names \in Seq(D!ToSet(names)), NEW S, \A k \in DOMAIN names : [what |-> what, name |-> names[k]] \in S
    PROVE  /\ D!Things(what, names) \in Seq(S) /\ Len(D!Things(what, names)) = Len(names)
           /\ \A k \in 1..Len(names) : D!Things(what, names)[k] = [what |-> what, name |-> names[k]]
<1>1. DOMAIN names = 1..Len(names) /\ Len(names) \in Nat  OBVIOUS
<1> DEFINE t == [k \in 1..Len(names) |-> [what |-> what, name |-> names[k]]]
<1>2. D!Things(what, names) = t  BY <1>1 DEF D!Things
<1>3. t \in [1..Len(names) -> S]  BY <1>1
<1>4. t \in Seq(S) /\ Len(t) = Len(names)  BY <1>1, <1>3
<1>5. QED  BY <1>2, <1>4

LEMMA JoinIs == ASSUME NEW S, NEW s \in Seq(S), NEW t \in Seq(S)  PROVE Joined(s \o t, s, t, S)
BY DEF Joined

LEMMA AgendaIs ==
    /\ {EndV, EndM, EndC, EndE, EndT} \subseteq Nat /\ 1 < EndV /\ EndV <= EndM /\ EndM <= EndC /\ EndC <= EndE /\ EndE < EndT
    /\ Len(D!Agenda) = EndT
    /\ D!Agenda[1] = Thing("owner", null)
    /\ \A k \in 2..EndV : D!Agenda[k] = Thing("vacancy", Vacancies[k - 1])
    /\ \A k \in (EndV + 1)..EndM : D!Agenda[k] = Thing("member", Members[k - EndV])
    /\ \A k \in (EndM + 1)..EndC : D!Agenda[k] = Thing("case", Cases[k - EndM])
    /\ \A k \in (EndC + 1)..EndE : D!Agenda[k] = Thing("extra", Extras[k - EndC])
    /\ D!Agenda[EndE + 1] = Thing("commit", null)
    /\ \A k \in (EndE + 2)..EndT : D!Agenda[k] = Thing("text", Topics[k - EndE - 1])
<1> DEFINE S == {Thing("owner", null), Thing("commit", null)}
                \cup {Thing("vacancy", x) : x \in D!ToSet(Vacancies)} \cup {Thing("member", x) : x \in D!ToSet(Members)}
                \cup {Thing("case", x) : x \in D!ToSet(Cases)} \cup {Thing("extra", x) : x \in D!ToSet(Extras)}
                \cup {Thing("text", x) : x \in D!ToSet(Topics)}
           a == <<[what |-> "owner", name |-> null]>>
           v == D!Things("vacancy", Vacancies)
           m == D!Things("member", Members)
           c == D!Things("case", Cases)
           e == D!Things("extra", Extras)
           l == <<[what |-> "commit", name |-> null]>>
           t == D!Things("text", Topics)
<1>1. /\ Len(Vacancies) \in Nat \ {0} /\ Len(Members) \in Nat /\ Len(Cases) \in Nat /\ Len(Extras) \in Nat /\ Len(Topics) \in Nat
  BY SeedConstants
<1>2. /\ \A k \in DOMAIN Vacancies : [what |-> "vacancy", name |-> Vacancies[k]] \in S
      /\ \A k \in DOMAIN Members : [what |-> "member", name |-> Members[k]] \in S
      /\ \A k \in DOMAIN Cases : [what |-> "case", name |-> Cases[k]] \in S
      /\ \A k \in DOMAIN Extras : [what |-> "extra", name |-> Extras[k]] \in S
      /\ \A k \in DOMAIN Topics : [what |-> "text", name |-> Topics[k]] \in S
  BY DEF Thing, D!ToSet
<1>4. /\ a \in Seq(S) /\ Len(a) = 1 /\ a[1] = Thing("owner", null)
      /\ l \in Seq(S) /\ Len(l) = 1 /\ l[1] = Thing("commit", null)
  BY DEF Thing
<1> DEFINE av == a \o v
           am == av \o m
           ac == am \o c
           ae == ac \o e
           al == ae \o l
           at == al \o t
<1>3. D!Agenda = at  BY Zenon DEF D!Agenda
<1> HIDE DEF S, a, l
<1>5. /\ v \in Seq(S) /\ Len(v) = Len(Vacancies) /\ \A k \in 1..Len(Vacancies) : v[k] = Thing("vacancy", Vacancies[k])
      /\ m \in Seq(S) /\ Len(m) = Len(Members) /\ \A k \in 1..Len(Members) : m[k] = Thing("member", Members[k])
  BY <1>2, SeedConstants, ThingsAre DEF Thing
<1>6. /\ c \in Seq(S) /\ Len(c) = Len(Cases) /\ \A k \in 1..Len(Cases) : c[k] = Thing("case", Cases[k])
      /\ e \in Seq(S) /\ Len(e) = Len(Extras) /\ \A k \in 1..Len(Extras) : e[k] = Thing("extra", Extras[k])
  BY <1>2, SeedConstants, ThingsAre DEF Thing
<1>7. t \in Seq(S) /\ Len(t) = Len(Topics) /\ \A k \in 1..Len(Topics) : t[k] = Thing("text", Topics[k])
  BY <1>2, SeedConstants, ThingsAre DEF Thing
<1> HIDE DEF v, m, c, e, t
<1>8. /\ av \in Seq(S) /\ Len(av) = EndV /\ av[1] = Thing("owner", null)
      /\ \A k \in 2..EndV : av[k] = Thing("vacancy", Vacancies[k - 1])
  <2>1. Joined(av, a, v, S)  BY <1>4, <1>5, JoinIs
  <2> HIDE DEF av
  <2>2. \A k \in 2..EndV : k - 1 \in 1..Len(Vacancies) /\ k \in (1 + 1)..(1 + Len(v))  BY <1>1, <1>5 DEF EndV
  <2>3. Len(av) = EndV /\ av[1] = Thing("owner", null)  BY <1>1, <1>4, <1>5, <2>1 DEF Joined, EndV
  <2>4. \A k \in 2..EndV : av[k] = v[k - 1] /\ v[k - 1] = Thing("vacancy", Vacancies[k - 1])
    BY <1>4, <1>5, <2>1, <2>2 DEF Joined
  <2>5. QED  BY <2>1, <2>3, <2>4 DEF Joined
<1> HIDE DEF av
<1>9. EndV \in Nat /\ 1 < EndV  BY <1>1 DEF EndV
<1>10. /\ am \in Seq(S) /\ Len(am) = EndM /\ \A k \in 1..EndV : am[k] = av[k]
       /\ \A k \in (EndV + 1)..EndM : am[k] = Thing("member", Members[k - EndV])
  <2>1. Joined(am, av, m, S)  BY <1>5, <1>8, <1>9, JoinIs
  <2> HIDE DEF am
  <2>2. am \in Seq(S) /\ Len(am) = EndM /\ \A k \in 1..EndV : am[k] = av[k]
    BY <1>1, <1>5, <1>8, <1>9, <2>1 DEF Joined, EndM
  <2>3. \A k \in (EndV + 1)..EndM : k - EndV \in 1..Len(Members) /\ k \in (Len(av) + 1)..(Len(av) + Len(m))
    BY <1>1, <1>5, <1>8, <1>9 DEF EndM
  <2>4. \A k \in (EndV + 1)..EndM : am[k] = Thing("member", Members[k - EndV])
    BY <1>5, <1>8, <1>9, <2>1, <2>3 DEF Joined
  <2>5. QED  BY <2>2, <2>4
<1> HIDE DEF am
<1>11. EndM \in Nat /\ EndV <= EndM  BY <1>1, <1>9 DEF EndM
<1>12. /\ ac \in Seq(S) /\ Len(ac) = EndC /\ \A k \in 1..EndM : ac[k] = am[k]
       /\ \A k \in (EndM + 1)..EndC : ac[k] = Thing("case", Cases[k - EndM])
  <2>1. Joined(ac, am, c, S)  BY <1>6, <1>10, <1>11, JoinIs
  <2> HIDE DEF ac
  <2>2. ac \in Seq(S) /\ Len(ac) = EndC /\ \A k \in 1..EndM : ac[k] = am[k]
    BY <1>1, <1>6, <1>10, <1>11, <2>1 DEF Joined, EndC
  <2>3. \A k \in (EndM + 1)..EndC : k - EndM \in 1..Len(Cases) /\ k \in (Len(am) + 1)..(Len(am) + Len(c))
    BY <1>1, <1>6, <1>10, <1>11 DEF EndC
  <2>4. \A k \in (EndM + 1)..EndC : ac[k] = Thing("case", Cases[k - EndM])
    BY <1>6, <1>10, <1>11, <2>1, <2>3 DEF Joined
  <2>5. QED  BY <2>2, <2>4
<1> HIDE DEF ac
<1>13. EndC \in Nat /\ EndM <= EndC  BY <1>1, <1>11 DEF EndC
<1>14. /\ ae \in Seq(S) /\ Len(ae) = EndE /\ \A k \in 1..EndC : ae[k] = ac[k]
       /\ \A k \in (EndC + 1)..EndE : ae[k] = Thing("extra", Extras[k - EndC])
  <2>1. Joined(ae, ac, e, S)  BY <1>6, <1>12, <1>13, JoinIs
  <2> HIDE DEF ae
  <2>2. ae \in Seq(S) /\ Len(ae) = EndE /\ \A k \in 1..EndC : ae[k] = ac[k]
    BY <1>1, <1>6, <1>12, <1>13, <2>1 DEF Joined, EndE
  <2>3. \A k \in (EndC + 1)..EndE : k - EndC \in 1..Len(Extras) /\ k \in (Len(ac) + 1)..(Len(ac) + Len(e))
    BY <1>1, <1>6, <1>12, <1>13 DEF EndE
  <2>4. \A k \in (EndC + 1)..EndE : ae[k] = Thing("extra", Extras[k - EndC])
    BY <1>6, <1>12, <1>13, <2>1, <2>3 DEF Joined
  <2>5. QED  BY <2>2, <2>4
<1> HIDE DEF ae
<1>15. EndE \in Nat /\ EndC <= EndE  BY <1>1, <1>13 DEF EndE
<1>16. /\ al \in Seq(S) /\ Len(al) = EndE + 1 /\ \A k \in 1..EndE : al[k] = ae[k]
       /\ al[EndE + 1] = Thing("commit", null)
  <2>1. Joined(al, ae, l, S)  BY <1>4, <1>14, <1>15, JoinIs
  <2> HIDE DEF al
  <2>2. EndE + 1 \in (Len(ae) + 1)..(Len(ae) + Len(l)) /\ EndE + 1 - Len(ae) = 1  BY <1>4, <1>14, <1>15
  <2>3. QED  BY <1>4, <1>14, <1>15, <2>1, <2>2 DEF Joined
<1> HIDE DEF al
<1>17. EndT \in Nat /\ EndE < EndT  BY <1>1, <1>15 DEF EndT
<1>18. /\ at \in Seq(S) /\ Len(at) = EndT /\ \A k \in 1..(EndE + 1) : at[k] = al[k]
       /\ \A k \in (EndE + 2)..EndT : at[k] = Thing("text", Topics[k - EndE - 1])
  <2>1. Joined(at, al, t, S)  BY <1>7, <1>16, JoinIs
  <2> HIDE DEF at
  <2>2. at \in Seq(S) /\ Len(at) = EndT /\ \A k \in 1..(EndE + 1) : at[k] = al[k]
    BY <1>1, <1>7, <1>15, <1>16, <2>1 DEF Joined, EndT
  <2>3. \A k \in (EndE + 2)..EndT : /\ k - (EndE + 1) = k - EndE - 1 /\ k - EndE - 1 \in 1..Len(Topics)
                                    /\ k \in (Len(al) + 1)..(Len(al) + Len(t))
    BY <1>1, <1>7, <1>15, <1>16 DEF EndT
  <2>4. \A k \in (EndE + 2)..EndT : at[k] = t[k - EndE - 1]  BY <1>16, <2>1, <2>3 DEF Joined
  <2>5. QED  BY <1>7, <2>2, <2>3, <2>4
<1> HIDE DEF at
<1> DEFINE Agenda == D!Agenda
<1>19. /\ \A k \in 1..EndE : Agenda[k] = ae[k]
       /\ \A k \in 1..EndC : Agenda[k] = ac[k]
       /\ \A k \in 1..EndM : Agenda[k] = am[k]
       /\ \A k \in 1..EndV : Agenda[k] = av[k]
  <2>1. \A k \in 1..EndE : Agenda[k] = ae[k]  BY <1>3, <1>15, <1>16, <1>18
  <2>2. \A k \in 1..EndC : Agenda[k] = ac[k]  BY <1>13, <1>14, <1>15, <2>1
  <2>3. \A k \in 1..EndM : Agenda[k] = am[k]  BY <1>11, <1>12, <1>13, <2>2
  <2>4. \A k \in 1..EndV : Agenda[k] = av[k]  BY <1>9, <1>10, <1>11, <2>3
  <2>5. QED  BY <2>1, <2>2, <2>3, <2>4
<1>20. QED
  BY <1>3, <1>8, <1>9, <1>10, <1>11, <1>12, <1>13, <1>14, <1>15, <1>16, <1>17, <1>18, <1>19

LEMMA AgendaWhat ==
    /\ \A k \in 2..EndV : D!Agenda[k].what = "vacancy"
    /\ \A k \in (EndV + 1)..EndM : D!Agenda[k].what = "member"
    /\ \A k \in (EndM + 1)..EndC : D!Agenda[k].what = "case"
    /\ \A k \in (EndC + 1)..EndE : D!Agenda[k].what = "extra"
    /\ \A k \in (EndE + 2)..EndT : D!Agenda[k].what = "text"
<1>1. ASSUME NEW what, NEW x  PROVE Thing(what, x).what = what  BY DEF Thing
<1>2. QED  BY <1>1, AgendaIs

\* What is at a place of the agenda, and what comes before and after it.
LEMMA AgendaPlaces ==
    ASSUME NEW k \in 1..Len(D!Agenda)
    PROVE  /\ D!Agenda[k].what \in AgendaKinds /\ D!Agenda[k].name \in Ensured(D!Agenda[k].what)
           /\ D!Agenda[k] = Thing(D!Agenda[k].what, D!Agenda[k].name)
           /\ D!Agenda[k].what = "extra" => k < Len(D!Agenda) /\ D!Agenda[k + 1].what \in {"extra", "commit"}
           /\ k = Len(D!Agenda) => D!Agenda[k].what # "extra"
<1> DEFINE a == D!Agenda
<1>1. k \in Int /\ k >= 1 /\ k <= EndT  BY AgendaIs
<1>2. CASE k = 1  BY <1>2, AgendaIs DEF Thing, Ensured, AgendaKinds
<1>3. CASE k \in 2..EndV
  <2>1. a[k] = Thing("vacancy", Vacancies[k - 1]) /\ k - 1 \in DOMAIN Vacancies  BY <1>3, AgendaIs, SeedConstants DEF EndV
  <2>2. QED  BY <2>1 DEF Thing, Ensured, AgendaKinds, D!ToSet
<1>4. CASE k \in (EndV + 1)..EndM
  <2>1. a[k] = Thing("member", Members[k - EndV]) /\ k - EndV \in DOMAIN Members
    BY <1>4, AgendaIs, SeedConstants DEF EndM
  <2>2. QED  BY <2>1 DEF Thing, Ensured, AgendaKinds, D!ToSet
<1>5. CASE k \in (EndM + 1)..EndC
  <2>1. a[k] = Thing("case", Cases[k - EndM]) /\ k - EndM \in DOMAIN Cases
    BY <1>5, AgendaIs, SeedConstants DEF EndC
  <2>2. QED  BY <2>1 DEF Thing, Ensured, AgendaKinds, D!ToSet
<1>6. CASE k \in (EndC + 1)..EndE
  <2>1. a[k] = Thing("extra", Extras[k - EndC]) /\ k - EndC \in DOMAIN Extras
    BY <1>6, AgendaIs, SeedConstants DEF EndE
  <2>2. k < EndT /\ k + 1 \in (EndC + 1)..(EndE + 1)  BY <1>6, AgendaIs
  <2>3. a[k + 1].what \in {"extra", "commit"}
    <3>1. CASE k + 1 = EndE + 1  BY <3>1, AgendaIs DEF Thing
    <3>2. CASE k + 1 \in (EndC + 1)..EndE
      <4>1. QED  BY <3>2, AgendaWhat
    <3>3. QED  BY <2>2, <3>1, <3>2, AgendaIs
  <2>4. QED  BY <2>1, <2>2, <2>3, AgendaIs DEF Thing, Ensured, AgendaKinds, D!ToSet
<1>7. CASE k = EndE + 1  BY <1>7, AgendaIs DEF Thing, Ensured, AgendaKinds
<1>8. CASE k \in (EndE + 2)..EndT
  <2>1. a[k] = Thing("text", Topics[k - EndE - 1]) /\ k - EndE - 1 \in DOMAIN Topics
    BY <1>8, AgendaIs, SeedConstants DEF EndT
  <2>2. QED  BY <2>1 DEF Thing, Ensured, AgendaKinds, D!ToSet
<1>9. QED  BY <1>1, <1>2, <1>3, <1>4, <1>5, <1>6, <1>7, <1>8, AgendaIs

\* Everything is on it; the vacancies come before the candidates, and the cases before the extras.
LEMMA AgendaHas ==
    /\ D!Agenda[1] = Thing("owner", null) /\ Len(D!Agenda) \in Nat /\ Len(D!Agenda) >= 1
    /\ \A what \in {"vacancy", "member", "case", "extra", "text"} : \A x \in Ensured(what) :
         \E j \in 1..Len(D!Agenda) : D!Agenda[j] = Thing(what, x)
<1> DEFINE a == D!Agenda
<1>1. ASSUME NEW x \in D!ToSet(Vacancies)  PROVE \E j \in 1..EndT : a[j] = Thing("vacancy", x)
  <2>1. PICK i \in DOMAIN Vacancies : Vacancies[i] = x  BY DEF D!ToSet
  <2>2. i + 1 \in 2..EndV /\ (i + 1) - 1 = i  BY SeedConstants DEF EndV
  <2>3. i + 1 \in 1..EndT /\ a[i + 1] = Thing("vacancy", x)  BY <2>1, <2>2, AgendaIs
  <2>4. QED  BY <2>3
<1>2. ASSUME NEW x \in D!ToSet(Members)  PROVE \E j \in 1..EndT : a[j] = Thing("member", x)
  <2>1. PICK i \in DOMAIN Members : Members[i] = x  BY DEF D!ToSet
  <2>2. i + EndV \in (EndV + 1)..EndM /\ (i + EndV) - EndV = i  BY SeedConstants, AgendaIs DEF EndM
  <2>3. i + EndV \in 1..EndT /\ a[i + EndV] = Thing("member", x)  BY <2>1, <2>2, AgendaIs
  <2>4. QED  BY <2>3
<1>3. ASSUME NEW x \in D!ToSet(Cases)  PROVE \E j \in 1..EndT : a[j] = Thing("case", x)
  <2>1. PICK i \in DOMAIN Cases : Cases[i] = x  BY DEF D!ToSet
  <2>2. i + EndM \in (EndM + 1)..EndC /\ (i + EndM) - EndM = i  BY SeedConstants, AgendaIs DEF EndC
  <2>3. i + EndM \in 1..EndT /\ a[i + EndM] = Thing("case", x)  BY <2>1, <2>2, AgendaIs
  <2>4. QED  BY <2>3
<1>4. ASSUME NEW x \in D!ToSet(Extras)  PROVE \E j \in 1..EndT : a[j] = Thing("extra", x)
  <2>1. PICK i \in DOMAIN Extras : Extras[i] = x  BY DEF D!ToSet
  <2>2. i + EndC \in (EndC + 1)..EndE /\ (i + EndC) - EndC = i  BY SeedConstants, AgendaIs DEF EndE
  <2>3. i + EndC \in 1..EndT /\ a[i + EndC] = Thing("extra", x)  BY <2>1, <2>2, AgendaIs
  <2>4. QED  BY <2>3
<1>5. ASSUME NEW x \in D!ToSet(Topics)  PROVE \E j \in 1..EndT : a[j] = Thing("text", x)
  <2>1. PICK i \in DOMAIN Topics : Topics[i] = x  BY DEF D!ToSet
  <2>2. i + EndE + 1 \in (EndE + 2)..EndT /\ (i + EndE + 1) - EndE - 1 = i  BY SeedConstants, AgendaIs DEF EndT
  <2>3. i + EndE + 1 \in 1..EndT /\ a[i + EndE + 1] = Thing("text", x)  BY <2>1, <2>2, AgendaIs
  <2>4. QED  BY <2>3
<1>6. ASSUME NEW what \in {"vacancy", "member", "case", "extra", "text"}, NEW x \in Ensured(what)
      PROVE  \E j \in 1..EndT : a[j] = Thing(what, x)
  BY <1>1, <1>2, <1>3, <1>4, <1>5, <1>6 DEF Ensured
<1>7. QED  BY <1>6, AgendaIs

LEMMA AgendaOrder ==
    ASSUME NEW k \in 1..Len(D!Agenda), D!Agenda[k].what \in {"case", "extra"}
    PROVE  /\ \A x \in D!ToSet(Vacancies) : \E j \in 1..(k - 1) : D!Agenda[j] = Thing("vacancy", x)
           /\ D!Agenda[k].what = "extra" => \A x \in D!ToSet(Cases) : \E j \in 1..(k - 1) : D!Agenda[j] = Thing("case", x)
<1> DEFINE a == D!Agenda
<1>1. k \in Int /\ k <= EndT /\ k >= 1  BY AgendaIs
<1>2. k > EndM /\ (a[k].what = "extra" => k > EndC)
  <2>1. k # 1 /\ k # EndE + 1  BY AgendaIs DEF Thing
  <2>2. QED  BY <1>1, <2>1, AgendaIs, AgendaWhat
<1>3. ASSUME NEW x \in D!ToSet(Vacancies)  PROVE \E j \in 1..(k - 1) : a[j] = Thing("vacancy", x)
  <2>1. PICK i \in DOMAIN Vacancies : Vacancies[i] = x  BY DEF D!ToSet
  <2>2. i + 1 \in 2..EndV /\ (i + 1) - 1 = i  BY SeedConstants DEF EndV
  <2>3. i + 1 \in 1..(k - 1) /\ a[i + 1] = Thing("vacancy", x)  BY <1>1, <1>2, <2>1, <2>2, AgendaIs
  <2>4. QED  BY <2>3
<1>4. ASSUME a[k].what = "extra", NEW x \in D!ToSet(Cases)  PROVE \E j \in 1..(k - 1) : a[j] = Thing("case", x)
  <2>1. PICK i \in DOMAIN Cases : Cases[i] = x  BY DEF D!ToSet
  <2>2. i + EndM \in (EndM + 1)..EndC /\ (i + EndM) - EndM = i  BY SeedConstants, AgendaIs DEF EndC
  <2>3. i + EndM \in 1..(k - 1) /\ a[i + EndM] = Thing("case", x)  BY <1>1, <1>2, <1>4, <2>1, <2>2, AgendaIs
  <2>4. QED  BY <2>3
<1>5. QED  BY <1>3, <1>4

LEMMA SeedHolds == ASSUME SeedInv  PROVE D!SeedIsOnce
<1>1. /\ SeedRows(owner, vacancies, invites, joined, candidates, interviews, documents)
      /\ run \in D!Run \cup {null} /\ past \in D!Past
      /\ ~past.died => Undied(run, past, owner, vacancies, invites, joined, interviews, documents)
  BY DEF SeedInv
<1>2. D!TypeOK
  <2>1. DOMAIN D!Following \cup {"published"} = {"none", "created", "described", "asked", "published"}
    BY DEF D!Following
  <2>2. QED  BY <1>1, <2>1 DEF SeedRows, D!TypeOK
<1>3. \A k \in D!ToSet(Topics) : documents[k] <= 1  BY <1>1 DEF SeedRows
<1>4. \A m \in D!ToSet(Members) : past.died \/ invites[m] <= 1
  <2> SUFFICES ASSUME NEW m \in D!ToSet(Members), ~past.died  PROVE invites[m] <= 1
    OBVIOUS
  <2>1. invites[m] = 0 \/ invites[m] = 1  BY <1>1 DEF Undied, Settled
  <2>2. QED  BY <2>1
<1>5. \A p \in D!People : interviews[p] # null => SeedSound(interviews[p])  BY <1>1 DEF SeedRows
<1>6. ~past.died => ~past.failed /\ (past.finished => D!Complete)
  <2> SUFFICES ASSUME ~past.died  PROVE ~past.failed /\ (past.finished => D!Complete)
    OBVIOUS
  <2>1. ~past.failed /\ (past.finished => AllThere(owner, vacancies, joined, interviews, documents))  BY <1>1 DEF Undied
  <2>2. joined \subseteq D!ToSet(Members)  BY <1>1 DEF SeedRows
  <2>3. AllThere(owner, vacancies, joined, interviews, documents) => D!Complete
    BY <2>2 DEF AllThere, AtEnd, D!Complete, D!Told
  <2>4. QED  BY <2>1, <2>3
<1>7. past.died \in BOOLEAN /\ past.failed \in BOOLEAN  BY <1>1 DEF D!Past
<1>8. QED  BY <1>2, <1>3, <1>4, <1>5, <1>6, <1>7, Zenon DEF D!SeedIsOnce, SeedSound

LEMMA SeedInit == ASSUME D!Init  PROVE SeedInv
<1> DEFINE blank == [runs |-> 0, finished |-> FALSE, died |-> FALSE, failed |-> FALSE]
<1>1. /\ owner = FALSE /\ vacancies = [v \in D!ToSet(Vacancies) |-> "none"]
      /\ invites = [m \in D!ToSet(Members) |-> 0] /\ joined = {} /\ candidates = {}
      /\ interviews = [p \in D!People |-> null] /\ documents = [k \in D!ToSet(Topics) |-> 0]
      /\ run = null /\ past = blank
  BY Zenon DEF D!Init
<1>2. blank \in D!Past /\ blank.failed = FALSE /\ blank.finished = FALSE  BY SeedConstants DEF D!Past
<1> HIDE DEF blank
<1>3. /\ vacancies \in [D!ToSet(Vacancies) -> {"none", "created", "described", "asked", "published"}]
      /\ invites \in [D!ToSet(Members) -> Nat] /\ interviews \in [D!People -> D!Interview \cup {null}]
      /\ documents \in [D!ToSet(Topics) -> Nat]
      /\ \A v \in D!ToSet(Vacancies) : vacancies[v] = "none"
      /\ \A m \in D!ToSet(Members) : invites[m] = 0
      /\ \A p \in D!People : interviews[p] = null
      /\ \A k \in D!ToSet(Topics) : documents[k] = 0
  BY <1>1
<1>4. SeedRows(owner, vacancies, invites, joined, candidates, interviews, documents)
  <2>1. owner \in BOOLEAN /\ joined \subseteq D!ToSet(Members) /\ candidates \subseteq D!People  BY <1>1
  <2>2. \A k \in D!ToSet(Topics) : documents[k] <= 1  BY <1>3
  <2>3. QED  BY <1>3, <2>1, <2>2, Zenon DEF SeedRows
<1>5. Settled(AtWork(run), Unsaved(run), vacancies, invites, joined, interviews)  BY <1>3 DEF Settled
<1>6. QED  BY <1>1, <1>2, <1>4, <1>5 DEF SeedInv, Undied

LEMMA SeedAllThere ==
    ASSUME NEW o, NEW vs, NEW js, NEW is, NEW ds, Grows(o, vs, js, is, ds), AllThere(owner, vacancies, joined, interviews, documents)
    PROVE  AllThere(o, vs, js, is, ds)
BY DEF Grows, AllThere

LEMMA SeedThing ==
    ASSUME NEW o, NEW vs, NEW js, NEW is, NEW ds, Grows(o, vs, js, is, ds), run # null,
           NEW u, Kept(u, is), NEW what \in AgendaKinds, NEW name \in Ensured(what),
           Done(Thing(what, name), run.unsaved, owner, vacancies, joined, interviews, documents)
    PROVE  Done(Thing(what, name), u, o, vs, js, is, ds)
<1>1. Thing(what, name).what = what /\ Thing(what, name).name = name  BY DEF Thing
<1>2. CASE what \in {"owner", "commit"}  BY <1>1, <1>2 DEF Done, Grows
<1>3. CASE what = "vacancy"
  <2>1. name \in D!ToSet(Vacancies)  BY <1>3 DEF Ensured
  <2>2. QED  BY <1>1, <1>3, <2>1 DEF Done, Grows
<1>4. CASE what = "member"  BY <1>1, <1>4 DEF Done, Grows
<1>5. CASE what = "case"
  <2>1. name \in D!People  BY <1>5 DEF Ensured, D!People
  <2>2. QED  BY <1>1, <1>5, <2>1 DEF Done, Grows
<1>6. CASE what = "extra"
  <2>1. name \in D!People  BY <1>6 DEF Ensured, D!People
  <2>2. AtEnd(name, interviews[name]) \/ (run.unsaved # null /\ run.unsaved = name)  BY <1>1, <1>6 DEF Done
  <2>3. AtEnd(name, is[name]) \/ (u # null /\ u = name)  BY <2>1, <2>2 DEF Grows, Kept
  <2>4. QED  BY <1>1, <1>6, <2>3 DEF Done
<1>7. CASE what = "text"
  <2>1. name \in D!ToSet(Topics)  BY <1>7 DEF Ensured
  <2>2. QED  BY <1>1, <1>7, <2>1 DEF Done, Grows
<1>8. QED  BY <1>2, <1>3, <1>4, <1>5, <1>6, <1>7 DEF AgendaKinds

LEMMA SeedBehind ==
    ASSUME NEW o, NEW vs, NEW js, NEW is, NEW ds, Grows(o, vs, js, is, ds), run # null, run.at \in 1..Len(D!Agenda),
           NEW u, Kept(u, is), LeftBehind(run.at, run.unsaved, owner, vacancies, joined, interviews, documents)
    PROVE  \A k \in 1..(run.at - 1) : Done(D!Agenda[k], u, o, vs, js, is, ds)
<1> SUFFICES ASSUME NEW k \in 1..(run.at - 1)  PROVE Done(D!Agenda[k], u, o, vs, js, is, ds)
  OBVIOUS
<1> DEFINE what == D!Agenda[k].what
           name == D!Agenda[k].name
<1>1. k \in 1..Len(D!Agenda)  BY AgendaHas
<1>2. what \in AgendaKinds /\ name \in Ensured(what) /\ D!Agenda[k] = Thing(what, name)  BY <1>1, AgendaPlaces
<1>3. Done(D!Agenda[k], run.unsaved, owner, vacancies, joined, interviews, documents)  BY DEF LeftBehind
<1> HIDE DEF what, name
<1>4. Done(Thing(what, name), run.unsaved, owner, vacancies, joined, interviews, documents)  BY <1>2, <1>3
<1>5. Done(Thing(what, name), u, o, vs, js, is, ds)  BY <1>2, <1>4, SeedThing
<1>6. QED  BY <1>2, <1>5

\* When everything on the agenda has been done it is all there.
LEMMA SeedAll ==
    ASSUME NEW o, NEW vs, NEW js, NEW is, NEW ds,
           \A k \in 1..Len(D!Agenda) : Done(D!Agenda[k], null, o, vs, js, is, ds)
    PROVE  AllThere(o, vs, js, is, ds)
<1>1. o
  <2>1. 1 \in 1..Len(D!Agenda) /\ D!Agenda[1].what = "owner"  BY AgendaHas DEF Thing
  <2>2. QED  BY <2>1 DEF Done
<1>2. ASSUME NEW what \in {"vacancy", "member", "case", "extra", "text"}, NEW x \in Ensured(what)
      PROVE Done(Thing(what, x), null, o, vs, js, is, ds) /\ Thing(what, x).what = what /\ Thing(what, x).name = x
  <2>1. PICK j \in 1..Len(D!Agenda) : D!Agenda[j] = Thing(what, x)  BY AgendaHas
  <2>2. Done(D!Agenda[j], null, o, vs, js, is, ds)  OBVIOUS
  <2>3. QED  BY <2>1, <2>2 DEF Thing
<1>3. ASSUME NEW x \in D!ToSet(Vacancies)  PROVE vs[x] = "published"
  <2>1. x \in Ensured("vacancy")  BY DEF Ensured
  <2>2. QED  BY <1>2, <2>1 DEF Done
<1>4. ASSUME NEW x \in D!ToSet(Members)  PROVE x \in js
  <2>1. x \in Ensured("member")  BY DEF Ensured
  <2>2. QED  BY <1>2, <2>1 DEF Done
<1>5. ASSUME NEW x \in D!ToSet(Cases)  PROVE AtEnd(x, is[x])
  <2>1. x \in Ensured("case")  BY DEF Ensured
  <2>2. QED  BY <1>2, <2>1 DEF Done
<1>6. ASSUME NEW x \in D!ToSet(Extras)  PROVE AtEnd(x, is[x])
  <2>1. x \in Ensured("extra")  BY DEF Ensured
  <2>2. QED  BY <1>2, <2>1 DEF Done
<1>7. ASSUME NEW x \in D!ToSet(Topics)  PROVE ds[x] = 1
  <2>1. x \in Ensured("text")  BY DEF Ensured
  <2>2. QED  BY <1>2, <2>1 DEF Done
<1>8. QED  BY <1>1, <1>3, <1>4, <1>5, <1>6, <1>7 DEF AllThere, D!People

\* What the invariant says of a run under way.
LEMMA SeedNow ==
    ASSUME SeedInv, run # null
    PROVE  /\ run \in D!Run /\ run.at \in 1..Len(D!Agenda) /\ run.step \in SeedSteps /\ run.mode \in {"dataset", "real", "none"}
           /\ run.unsaved \in D!ToSet(Extras) \cup {null} /\ past \in D!Past /\ past.died \in BOOLEAN
           /\ SeedRows(owner, vacancies, invites, joined, candidates, interviews, documents)
           /\ AtThing(run.step, D!Agenda[run.at], vacancies, interviews)
           /\ UnsavedOK(run.step, run.unsaved, interviews)
           /\ ~past.died => /\ ~past.failed
                            /\ past.finished => AllThere(owner, vacancies, joined, interviews, documents)
                            /\ Settled(ThingAtWork(run.step), run.unsaved, vacancies, invites, joined, interviews)
                            /\ LeftBehind(run.at, run.unsaved, owner, vacancies, joined, interviews, documents)
<1>1. run \in D!Run /\ past \in D!Past /\ RunOK(run, vacancies, interviews)
      /\ SeedRows(owner, vacancies, invites, joined, candidates, interviews, documents)
  BY DEF SeedInv
<1>2. /\ run.step \in SeedSteps /\ run.mode \in {"dataset", "real", "none"}
      /\ run.unsaved \in D!ToSet(Extras) \cup {null} /\ past.died \in BOOLEAN
  BY <1>1, SeedConstants DEF D!Run, D!Past, SeedSteps
<1>3. /\ run.at \in 1..Len(D!Agenda) /\ AtThing(run.step, D!Agenda[run.at], vacancies, interviews)
      /\ UnsavedOK(run.step, run.unsaved, interviews)
  BY <1>1 DEF RunOK
<1>4. ~past.died => Undied(run, past, owner, vacancies, invites, joined, interviews, documents)  BY DEF SeedInv
<1>5. AtWork(run) = ThingAtWork(run.step) /\ Unsaved(run) = run.unsaved  BY DEF AtWork, ThingAtWork, Unsaved
<1>6. QED  BY <1>1, <1>2, <1>3, <1>4, <1>5 DEF Undied

LEMMA SeedPassed ==
    ASSUME NEW o, NEW vs, NEW js, NEW is, NEW ds, NEW u, NEW at \in Nat,
           \A k \in 1..at : Done(D!Agenda[k], u, o, vs, js, is, ds),
           u # null => D!Agenda[at + 1].what \in {"extra", "commit"} /\ u \notin D!ToSet(Cases)
    PROVE  LeftBehind(at + 1, u, o, vs, js, is, ds)
<1> SUFFICES ASSUME NEW k \in 1..(at + 1 - 1)  PROVE Done(D!Agenda[k], u, o, vs, js, is, ds)
  BY DEF LeftBehind
<1> QED  OBVIOUS

\* On to the next thing, or to the end.
LEMMA SeedProceeds ==
    ASSUME SeedInv, run # null, NEW u \in D!ToSet(Extras) \cup {null}, D!Proceed(u),
           SeedRows(owner', vacancies', invites', joined', candidates', interviews', documents'),
           u # null => interviews'[u] = D!Invitation,
           ~past.died =>
             /\ u # null => D!Agenda[run.at].what = "extra" /\ u \notin D!ToSet(Cases)
             /\ Grows(owner', vacancies', joined', interviews', documents') /\ Kept(u, interviews')
             /\ Done(D!Agenda[run.at], u, owner', vacancies', joined', interviews', documents')
             /\ Settled(Nobody, u, vacancies', invites', joined', interviews')
    PROVE  SeedInv'
<1> DEFINE at == run.at
<1>1. /\ run \in D!Run /\ at \in 1..Len(D!Agenda) /\ Len(D!Agenda) \in Nat /\ at \in Nat /\ past \in D!Past
  BY SeedNow, AgendaHas
<1>2. ASSUME ~past.died
      PROVE  /\ ~past.failed
             /\ past.finished => AllThere(owner', vacancies', joined', interviews', documents')
             /\ \A k \in 1..at : Done(D!Agenda[k], u, owner', vacancies', joined', interviews', documents')
  <2>1. ~past.failed /\ (past.finished => AllThere(owner, vacancies, joined, interviews, documents))
    BY <1>2, SeedNow
  <2>2. LeftBehind(at, run.unsaved, owner, vacancies, joined, interviews, documents)  BY <1>2, SeedNow
  <2>3. /\ Grows(owner', vacancies', joined', interviews', documents') /\ Kept(u, interviews')
        /\ Done(D!Agenda[at], u, owner', vacancies', joined', interviews', documents')
    BY <1>2
  <2>4. \A k \in 1..(at - 1) : Done(D!Agenda[k], u, owner', vacancies', joined', interviews', documents')
    BY <1>1, <2>2, <2>3, SeedBehind
  <2>5. past.finished => AllThere(owner', vacancies', joined', interviews', documents')  BY <2>1, <2>3, SeedAllThere
  <2>6. QED  BY <1>1, <2>1, <2>3, <2>4, <2>5
<1>3. CASE at = Len(D!Agenda)
  <2>1. run' = null /\ past' = [past EXCEPT !.finished = TRUE]  BY <1>3, Zenon DEF D!Proceed
  <2>2. past' \in D!Past /\ past'.finished = TRUE /\ past'.died = past.died /\ past'.failed = past.failed
    BY <1>1, <2>1 DEF D!Past
  <2>3. ASSUME ~past.died
        PROVE  Undied(run', past', owner', vacancies', invites', joined', interviews', documents')
    <3>1. D!Agenda[at].what # "extra"  BY <1>1, <1>3, AgendaPlaces
    <3>2. u = null  BY <2>3, <3>1
    <3>3. \A k \in 1..Len(D!Agenda) : Done(D!Agenda[k], null, owner', vacancies', joined', interviews', documents')
      BY <1>2, <1>3, <2>3, <3>2
    <3>4. AllThere(owner', vacancies', joined', interviews', documents')  BY <3>3, SeedAll
    <3>5. AtWork(run') = Nobody /\ Unsaved(run') = null  BY <2>1 DEF AtWork, Unsaved
    <3>6. Settled(AtWork(run'), Unsaved(run'), vacancies', invites', joined', interviews')  BY <2>3, <3>2, <3>5
    <3>7. QED  BY <1>2, <2>1, <2>2, <2>3, <3>4, <3>6 DEF Undied
  <2>4. QED  BY <2>1, <2>2, <2>3 DEF SeedInv
<1>4. CASE at # Len(D!Agenda)
  <2>1. run' = [run EXCEPT !.at = @ + 1, !.step = "look", !.unsaved = u] /\ past' = past  BY <1>4, Zenon DEF D!Proceed
  <2>2. at + 1 \in 1..Len(D!Agenda) /\ at + 1 \in Nat  BY <1>1, <1>4
  <2>3. run' \in D!Run /\ run'.at = at + 1 /\ run'.step = "look" /\ run'.unsaved = u
    BY <1>1, <2>1, <2>2 DEF D!Run
  <2>4. run' # null  BY <2>3, SeedConstants
  <2>5. RunOK(run', vacancies', interviews')  BY <2>2, <2>3 DEF RunOK, AtThing, UnsavedOK
  <2>6. ASSUME ~past.died
        PROVE  Undied(run', past', owner', vacancies', invites', joined', interviews', documents')
    <3>1. AtWork(run') = Nobody /\ Unsaved(run') = u  BY <2>3, <2>4 DEF AtWork, Unsaved
    <3>2. u # null => D!Agenda[at + 1].what \in {"extra", "commit"} /\ u \notin D!ToSet(Cases)
      BY <1>1, <2>6, AgendaPlaces
    <3>3. \A k \in 1..at : Done(D!Agenda[k], u, owner', vacancies', joined', interviews', documents')
      BY <1>2, <2>6
    <3>4. LeftBehind(at + 1, u, owner', vacancies', joined', interviews', documents')
      BY <1>1, <3>2, <3>3, SeedPassed
    <3>5. Settled(AtWork(run'), Unsaved(run'), vacancies', invites', joined', interviews')  BY <2>6, <3>1
    <3>6. QED  BY <1>2, <2>1, <2>3, <2>6, <3>4, <3>5 DEF Undied
  <2>7. QED  BY <1>1, <2>1, <2>3, <2>5, <2>6 DEF SeedInv
<1>5. QED  BY <1>3, <1>4

\* On with the same thing.
LEMMA SeedGoesOn ==
    ASSUME SeedInv, run # null, NEW step \in SeedSteps, NEW u \in D!ToSet(Extras) \cup {null},
           run' = [run EXCEPT !.step = step, !.unsaved = u], past' = past, u # null => u = run.unsaved,
           SeedRows(owner', vacancies', invites', joined', candidates', interviews', documents'),
           AtThing(step, D!Agenda[run.at], vacancies', interviews'), UnsavedOK(step, u, interviews'),
           ~past.died =>
             /\ Grows(owner', vacancies', joined', interviews', documents') /\ Kept(u, interviews')
             /\ Settled(ThingAtWork(step), u, vacancies', invites', joined', interviews')
    PROVE  SeedInv'
<1>1. /\ run \in D!Run /\ run.at \in 1..Len(D!Agenda) /\ past \in D!Past  BY SeedNow
<1>2. run' \in D!Run /\ run'.at = run.at /\ run'.step = step /\ run'.unsaved = u  BY <1>1 DEF D!Run, SeedSteps
<1>3. run' # null  BY <1>2, SeedConstants
<1>4. RunOK(run', vacancies', interviews')  BY <1>1, <1>2 DEF RunOK
<1>5. ASSUME ~past.died
      PROVE  Undied(run', past', owner', vacancies', invites', joined', interviews', documents')
  <2>1. ~past.failed /\ (past.finished => AllThere(owner, vacancies, joined, interviews, documents))
    BY <1>5, SeedNow
  <2>2. LeftBehind(run.at, run.unsaved, owner, vacancies, joined, interviews, documents)  BY <1>5, SeedNow
  <2>3. Grows(owner', vacancies', joined', interviews', documents') /\ Kept(u, interviews')  BY <1>5
  <2>4. \A k \in 1..(run.at - 1) : Done(D!Agenda[k], u, owner', vacancies', joined', interviews', documents')
    BY <1>1, <2>2, <2>3, SeedBehind
  <2>5. past.finished => AllThere(owner', vacancies', joined', interviews', documents')  BY <2>1, <2>3, SeedAllThere
  <2>6. LeftBehind(run.at, u, owner', vacancies', joined', interviews', documents')  BY <2>2, <2>4 DEF LeftBehind
  <2>7. AtWork(run') = ThingAtWork(step) /\ Unsaved(run') = u  BY <1>2, <1>3 DEF AtWork, ThingAtWork, Unsaved
  <2>8. Settled(AtWork(run'), Unsaved(run'), vacancies', invites', joined', interviews')  BY <1>5, <2>7
  <2>9. QED  BY <1>2, <2>1, <2>5, <2>6, <2>8 DEF Undied
<1>6. QED  BY <1>1, <1>2, <1>4, <1>5 DEF SeedInv

\* A thing of one kind is not a thing of another, nor with another name.
LEMMA ThingsDiffer ==
    /\ \A what, name : Thing(what, name).what = what /\ Thing(what, name).name = name
    /\ \A what \in {"member", "vacancy", "case"} : \A name : Thing(what, name) # Nobody
<1>1. \A what, name : Thing(what, name).what = what /\ Thing(what, name).name = name  BY DEF Thing
<1>2. Nobody.what = "none"  BY DEF Thing, Nobody
<1>3. QED  BY <1>1, <1>2

\* Only with the extras, and the commit after them, is anything unsaved.
LEMMA NothingUnsaved ==
    ASSUME SeedInv, run # null, ~past.died, D!Agenda[run.at].what \notin {"extra", "commit"}
    PROVE  run.unsaved = null
BY SeedNow DEF LeftBehind

\* Who nothing is at work on has come to its end, or is unsaved.
LEMMA SettledIs ==
    ASSUME NEW u, NEW vs, NEW iv, NEW js, NEW is, Settled(Nobody, u, vs, iv, js, is)
    PROVE  /\ \A m \in D!ToSet(Members) : iv[m] = 0 \/ (iv[m] = 1 /\ m \in js)
           /\ \A v \in D!ToSet(Vacancies) : vs[v] \in {"none", "published"}
           /\ \A p \in D!People : is[p] = null \/ AtEnd(p, is[p]) \/ (u # null /\ u = p)
<1>1. \A m : Nobody # Thing("member", m) /\ Nobody # Thing("vacancy", m) /\ Nobody # Thing("case", m)  BY ThingsDiffer
<1>2. QED  BY <1>1 DEF Settled

LEMMA SettledAll ==
    ASSUME NEW u, NEW vs, NEW iv, NEW js, NEW is, Settled(Nobody, u, vs, iv, js, is), NEW b
    PROVE  Settled(b, u, vs, iv, js, is)
<1>1. /\ \A m \in D!ToSet(Members) : iv[m] = 0 \/ (iv[m] = 1 /\ m \in js)
      /\ \A v \in D!ToSet(Vacancies) : vs[v] \in {"none", "published"}
      /\ \A p \in D!People : is[p] = null \/ AtEnd(p, is[p]) \/ (u # null /\ u = p)
  BY SettledIs
<1>2. QED  BY <1>1, Zenon DEF Settled

LEMMA SeedMain == ASSUME SeedInv, D!main  PROVE SeedInv'
<1>1. PICK mode \in Modes : run' = [at |-> 1, step |-> "look", mode |-> mode, unsaved |-> null]
  BY Zenon DEF D!main
<1>2. /\ run = null /\ past.runs < MaxRuns /\ past' = [past EXCEPT !.runs = @ + 1]
      /\ owner' = owner /\ vacancies' = vacancies /\ invites' = invites /\ joined' = joined
      /\ candidates' = candidates /\ interviews' = interviews /\ documents' = documents
  BY Zenon DEF D!main
<1>3. past \in D!Past  BY DEF SeedInv
<1>4. /\ past' \in D!Past /\ past'.finished = past.finished /\ past'.died = past.died /\ past'.failed = past.failed
  <2> DEFINE runs == past.runs + 1
  <2>1. runs \in 0..MaxRuns  BY <1>2, <1>3, SeedConstants DEF D!Past
  <2>2. past' = [past EXCEPT !.runs = runs]  BY <1>2
  <2> HIDE DEF runs
  <2>3. QED  BY <1>3, <2>1, <2>2 DEF D!Past
<1>5. run' \in D!Run /\ run'.at = 1 /\ run'.step = "look" /\ run'.unsaved = null  BY <1>1 DEF D!Run
<1>6. run' # null  BY <1>5, SeedConstants
<1>7. RunOK(run', vacancies', interviews')  BY <1>5, AgendaHas DEF RunOK, AtThing, UnsavedOK
<1>8. ASSUME ~past.died
      PROVE  Undied(run', past', owner', vacancies', invites', joined', interviews', documents')
  <2>1. Undied(run, past, owner, vacancies, invites, joined, interviews, documents)  BY <1>8 DEF SeedInv
  <2>2. AtWork(run) = Nobody /\ Unsaved(run) = null /\ AtWork(run') = Nobody /\ Unsaved(run') = null
    BY <1>2, <1>5, <1>6 DEF AtWork, Unsaved
  <2>3. LeftBehind(1, null, owner', vacancies', joined', interviews', documents')  BY DEF LeftBehind
  <2>4. QED  BY <1>2, <1>4, <1>5, <2>1, <2>2, <2>3 DEF Undied
<1>9. QED  BY <1>2, <1>4, <1>5, <1>7, <1>8 DEF SeedInv

LEMMA SeedOwner == ASSUME SeedInv, D!ensure_owner  PROVE SeedInv'
<1>1. /\ run # null /\ D!Agenda[run.at].what = "owner" /\ run.step = "look" /\ owner' = TRUE /\ D!Proceed(null)
      /\ vacancies' = vacancies /\ invites' = invites /\ joined' = joined
      /\ candidates' = candidates /\ interviews' = interviews /\ documents' = documents
  BY Zenon DEF D!ensure_owner, D!Under
<1>2. SeedRows(owner', vacancies', invites', joined', candidates', interviews', documents')
  BY <1>1, SeedNow DEF SeedRows
<1>3. ASSUME ~past.died
      PROVE  /\ Grows(owner', vacancies', joined', interviews', documents') /\ Kept(null, interviews')
             /\ Done(D!Agenda[run.at], null, owner', vacancies', joined', interviews', documents')
             /\ Settled(Nobody, null, vacancies', invites', joined', interviews')
  <2>1. run.unsaved = null  BY <1>1, <1>3, NothingUnsaved
  <2>2. Settled(Nobody, run.unsaved, vacancies, invites, joined, interviews)
    BY <1>1, <1>3, SeedNow DEF ThingAtWork
  <2>3. QED  BY <1>1, <2>1, <2>2 DEF Grows, Kept, Done
<1>4. QED  BY <1>1, <1>2, <1>3, SeedProceeds

\* A vacancy that comes further, and one that is published.
LEMMA SettledVacancy ==
    ASSUME NEW u, NEW vs, NEW iv, NEW js, NEW is, NEW v, Settled(Thing("vacancy", v), u, vs, iv, js, is),
           NEW ws, \A x \in D!ToSet(Vacancies) \ {v} : ws[x] = vs[x]
    PROVE  /\ Settled(Thing("vacancy", v), u, ws, iv, js, is)
           /\ ws[v] = "published" => Settled(Nobody, u, ws, iv, js, is)
<1>1. /\ \A x : Thing("vacancy", v) # Thing("member", x) /\ Thing("vacancy", v) # Thing("case", x)
      /\ \A x : Thing("vacancy", v) = Thing("vacancy", x) => x = v
  <2>1. Thing("vacancy", v).what = "vacancy" /\ Thing("vacancy", v).name = v  BY DEF Thing
  <2>2. QED  BY <2>1 DEF Thing
<1>2. QED  BY <1>1 DEF Settled

LEMMA SeedVacancy == ASSUME SeedInv, D!ensure_vacancy  PROVE SeedInv'
<1> DEFINE v == D!Agenda[run.at].name
           next == D!Following[vacancies[v]]
<1>1. /\ run # null /\ D!Agenda[run.at].what = "vacancy" /\ owner' = owner /\ invites' = invites /\ joined' = joined
      /\ candidates' = candidates /\ interviews' = interviews /\ documents' = documents
  BY Zenon DEF D!ensure_vacancy, D!Under
<1>2. \/ run.step = "look" /\ vacancies[v] # "none" /\ vacancies' = vacancies /\ D!Proceed(null)
      \/ run.step = "look" /\ vacancies[v] = "none" /\ vacancies' = [vacancies EXCEPT ![v] = D!Following[@]] /\ D!Stay("stage")
      \/ run.step = "stage" /\ vacancies' = [vacancies EXCEPT ![v] = next] /\ next = "published" /\ D!Proceed(null)
      \/ run.step = "stage" /\ vacancies' = [vacancies EXCEPT ![v] = next] /\ next # "published" /\ D!Stay("stage")
  BY Zenon DEF D!ensure_vacancy, D!Under, D!Name
<1>3. /\ v \in D!ToSet(Vacancies) /\ D!Agenda[run.at] = Thing("vacancy", v)
  BY <1>1, SeedNow, AgendaPlaces DEF Ensured
<1> HIDE DEF v
<1>4. /\ SeedRows(owner, vacancies, invites, joined, candidates, interviews, documents)
      /\ vacancies \in [D!ToSet(Vacancies) -> {"none", "created", "described", "asked", "published"}]
  BY <1>1, SeedNow DEF SeedRows
<1>5. /\ D!Following["none"] = "created" /\ D!Following["created"] = "described"
      /\ D!Following["described"] = "asked" /\ D!Following["asked"] = "published"
  BY DEF D!Following
<1>6. run.step = "stage" => vacancies[v] \in {"created", "described", "asked"}
  BY <1>1, <1>3, SeedNow, ThingsDiffer DEF AtThing
<1>7. ASSUME ~past.died
      PROVE  /\ Kept(null, interviews') /\ run.unsaved = null
             /\ run.step = "look" => Settled(Nobody, null, vacancies, invites, joined, interviews)
             /\ Settled(Thing("vacancy", v), null, vacancies, invites, joined, interviews)
  <2>1. run.unsaved = null  BY <1>1, <1>7, NothingUnsaved
  <2>2. Settled(ThingAtWork(run.step), run.unsaved, vacancies, invites, joined, interviews)  BY <1>1, <1>7, SeedNow
  <2>3. CASE run.step = "look"
    <3>1. Settled(Nobody, null, vacancies, invites, joined, interviews)  BY <2>1, <2>2, <2>3 DEF ThingAtWork
    <3>2. Settled(Thing("vacancy", v), null, vacancies, invites, joined, interviews)  BY <3>1, SettledAll
    <3>3. QED  BY <2>1, <2>3, <3>1, <3>2 DEF Kept
  <2>4. CASE run.step = "stage"  BY <1>3, <2>1, <2>2, <2>4 DEF Kept, ThingAtWork
  <2>5. QED  BY <1>2, <2>3, <2>4
<1>8. CASE run.step = "look" /\ vacancies[v] # "none" /\ vacancies' = vacancies /\ D!Proceed(null)
  <2>1. ASSUME ~past.died
        PROVE  /\ Grows(owner', vacancies', joined', interviews', documents')
               /\ Done(D!Agenda[run.at], null, owner', vacancies', joined', interviews', documents')
               /\ Settled(Nobody, null, vacancies', invites', joined', interviews')
    <3>1. Settled(Nobody, null, vacancies, invites, joined, interviews)  BY <1>7, <1>8, <2>1
    <3>2. vacancies[v] = "published"  BY <1>3, <1>8, <3>1, SettledIs
    <3>3. Done(Thing("vacancy", v), null, owner', vacancies', joined', interviews', documents')
      BY <1>8, <3>2, ThingsDiffer DEF Done
    <3>4. Grows(owner', vacancies', joined', interviews', documents')  BY <1>1, <1>8 DEF Grows
    <3>5. QED  BY <1>1, <1>3, <1>8, <3>1, <3>3, <3>4
  <2>2. QED  BY <1>1, <1>4, <1>7, <1>8, <2>1, SeedProceeds
<1>9. ASSUME NEW new \in {"created", "described", "asked", "published"}, vacancies' = [vacancies EXCEPT ![v] = new],
             vacancies[v] # "published"
      PROVE  /\ SeedRows(owner', vacancies', invites', joined', candidates', interviews', documents')
             /\ vacancies'[v] = new /\ \A x \in D!ToSet(Vacancies) \ {v} : vacancies'[x] = vacancies[x]
             /\ Grows(owner', vacancies', joined', interviews', documents')
  <2>1. vacancies' \in [D!ToSet(Vacancies) -> {"none", "created", "described", "asked", "published"}]
    BY <1>4, <1>9
  <2>2. vacancies'[v] = new /\ \A x \in D!ToSet(Vacancies) \ {v} : vacancies'[x] = vacancies[x]  BY <1>3, <1>4, <1>9
  <2>3. SeedRows(owner', vacancies', invites', joined', candidates', interviews', documents')
    BY <1>1, <1>4, <2>1 DEF SeedRows
  <2>4. Grows(owner', vacancies', joined', interviews', documents')  BY <1>1, <1>9, <2>2 DEF Grows
  <2>5. QED  BY <2>2, <2>3, <2>4
<1>10. ASSUME NEW new \in {"created", "described", "asked"}, vacancies' = [vacancies EXCEPT ![v] = new],
              vacancies[v] # "published", D!Stay("stage")
       PROVE  SeedInv'
  <2>1. /\ SeedRows(owner', vacancies', invites', joined', candidates', interviews', documents')
        /\ vacancies'[v] = new /\ \A x \in D!ToSet(Vacancies) \ {v} : vacancies'[x] = vacancies[x]
        /\ Grows(owner', vacancies', joined', interviews', documents')
    BY <1>9, <1>10
  <2>2. run' = [run EXCEPT !.step = "stage", !.unsaved = null] /\ past' = past  BY <1>10, Zenon DEF D!Stay
  <2>3. AtThing("stage", D!Agenda[run.at], vacancies', interviews')  BY <1>3, <2>1, ThingsDiffer DEF AtThing
  <2>4. ASSUME ~past.died  PROVE Settled(ThingAtWork("stage"), null, vacancies', invites', joined', interviews')
    <3>1. Settled(Thing("vacancy", v), null, vacancies, invites, joined, interviews)  BY <1>7, <2>4
    <3>2. ThingAtWork("stage") = Thing("vacancy", v)  BY <1>3 DEF ThingAtWork
    <3>3. QED  BY <1>1, <2>1, <3>1, <3>2, SettledVacancy
  <2>5. UnsavedOK("stage", null, interviews') /\ "stage" \in SeedSteps  BY DEF UnsavedOK, SeedSteps
  <2>6. QED  BY <1>1, <1>7, <2>1, <2>2, <2>3, <2>4, <2>5, SeedGoesOn
<1>11. ASSUME vacancies' = [vacancies EXCEPT ![v] = "published"], vacancies[v] # "published", D!Proceed(null)
       PROVE  SeedInv'
  <2>1. /\ SeedRows(owner', vacancies', invites', joined', candidates', interviews', documents')
        /\ vacancies'[v] = "published" /\ \A x \in D!ToSet(Vacancies) \ {v} : vacancies'[x] = vacancies[x]
        /\ Grows(owner', vacancies', joined', interviews', documents')
    BY <1>9, <1>11
  <2>2. Done(D!Agenda[run.at], null, owner', vacancies', joined', interviews', documents')
    BY <1>3, <2>1, ThingsDiffer DEF Done
  <2>3. ASSUME ~past.died  PROVE Settled(Nobody, null, vacancies', invites', joined', interviews')
    <3>1. Settled(Thing("vacancy", v), null, vacancies, invites, joined, interviews)  BY <1>7, <2>3
    <3>2. QED  BY <1>1, <2>1, <3>1, SettledVacancy
  <2>4. ~past.died => Grows(owner', vacancies', joined', interviews', documents') /\ Kept(null, interviews')
    BY <1>7, <2>1
  <2>5. QED  BY <1>1, <1>11, <2>1, <2>2, <2>3, <2>4, SeedProceeds
<1>12. CASE run.step = "look" /\ vacancies[v] = "none" /\ vacancies' = [vacancies EXCEPT ![v] = D!Following[@]] /\ D!Stay("stage")
  <2>1. vacancies' = [vacancies EXCEPT ![v] = "created"]  BY <1>3, <1>4, <1>5, <1>12
  <2>2. QED  BY <1>10, <1>12, <2>1
<1>13. CASE run.step = "stage" /\ vacancies' = [vacancies EXCEPT ![v] = next] /\ next = "published" /\ D!Proceed(null)
  <2>1. vacancies' = [vacancies EXCEPT ![v] = "published"]  BY <1>13
  <2>2. vacancies[v] # "published"  BY <1>6, <1>13
  <2>3. QED  BY <1>11, <1>13, <2>1, <2>2
<1>14. CASE run.step = "stage" /\ vacancies' = [vacancies EXCEPT ![v] = next] /\ next # "published" /\ D!Stay("stage")
  <2>1. next \in {"created", "described", "asked"} /\ vacancies[v] # "published"  BY <1>5, <1>6, <1>14
  <2> HIDE DEF next
  <2>2. QED  BY <1>10, <1>14, <2>1
<1>15. QED  BY <1>2, <1>8, <1>12, <1>13, <1>14

\* A member whose invite is made out, and one that is registered.
LEMMA SettledMember ==
    ASSUME NEW u, NEW vs, NEW iv, NEW js, NEW is, NEW m, Settled(Thing("member", m), u, vs, iv, js, is),
           NEW ks, js \subseteq ks, m \in ks
    PROVE  Settled(Nobody, u, vs, iv, ks, is)
<1>1. /\ \A x : Thing("member", m) # Thing("vacancy", x) /\ Thing("member", m) # Thing("case", x)
      /\ \A x : Thing("member", m) = Thing("member", x) => x = m
  <2>1. Thing("member", m).what = "member" /\ Thing("member", m).name = m  BY DEF Thing
  <2>2. QED  BY <2>1 DEF Thing
<1>2. QED  BY <1>1 DEF Settled

LEMMA SeedMember == ASSUME SeedInv, D!ensure_member  PROVE SeedInv'
<1> DEFINE m == D!Agenda[run.at].name
<1>1. /\ run # null /\ D!Agenda[run.at].what = "member" /\ owner' = owner /\ vacancies' = vacancies
      /\ candidates' = candidates /\ interviews' = interviews /\ documents' = documents
  BY Zenon DEF D!ensure_member, D!Under
<1>2. \/ run.step = "look" /\ m \in joined /\ D!Proceed(null) /\ invites' = invites /\ joined' = joined
      \/ /\ run.step = "look" /\ m \notin joined /\ invites' = [invites EXCEPT ![m] = @ + 1] /\ D!Stay("register")
         /\ joined' = joined
      \/ run.step = "register" /\ joined' = joined \cup {m} /\ D!Proceed(null) /\ invites' = invites
  BY Zenon DEF D!ensure_member, D!Under, D!Name
<1>3. m \in D!ToSet(Members) /\ D!Agenda[run.at] = Thing("member", m)
  BY <1>1, SeedNow, AgendaPlaces DEF Ensured
<1> HIDE DEF m
<1>4. /\ SeedRows(owner, vacancies, invites, joined, candidates, interviews, documents)
      /\ invites \in [D!ToSet(Members) -> Nat] /\ joined \subseteq D!ToSet(Members)
  BY <1>1, SeedNow DEF SeedRows
<1>5. ASSUME ~past.died
      PROVE  /\ Kept(null, interviews') /\ run.unsaved = null
             /\ Settled(ThingAtWork(run.step), null, vacancies, invites, joined, interviews)
  <2>1. run.unsaved = null  BY <1>1, <1>5, NothingUnsaved
  <2>2. Settled(ThingAtWork(run.step), run.unsaved, vacancies, invites, joined, interviews)  BY <1>1, <1>5, SeedNow
  <2>3. QED  BY <2>1, <2>2 DEF Kept
<1>6. joined \subseteq joined' => Grows(owner', vacancies', joined', interviews', documents')  BY <1>1 DEF Grows
<1>7. ThingAtWork("look") = Nobody /\ ThingAtWork("register") = Thing("member", m)  BY <1>3 DEF ThingAtWork
<1>8. CASE run.step = "look" /\ m \in joined /\ D!Proceed(null) /\ invites' = invites /\ joined' = joined
  <2>1. Done(D!Agenda[run.at], null, owner', vacancies', joined', interviews', documents')
    BY <1>3, <1>8, ThingsDiffer DEF Done
  <2>2. SeedRows(owner', vacancies', invites', joined', candidates', interviews', documents')  BY <1>1, <1>4, <1>8
  <2>3. ASSUME ~past.died  PROVE Settled(Nobody, null, vacancies', invites', joined', interviews')
    BY <1>1, <1>5, <1>7, <1>8, <2>3
  <2>4. ~past.died => Grows(owner', vacancies', joined', interviews', documents') /\ Kept(null, interviews')
    BY <1>5, <1>6, <1>8
  <2>5. QED  BY <1>1, <1>8, <2>1, <2>2, <2>3, <2>4, SeedProceeds
<1>9. CASE /\ run.step = "look" /\ m \notin joined /\ invites' = [invites EXCEPT ![m] = @ + 1] /\ D!Stay("register")
           /\ joined' = joined
  <2>1. /\ invites' \in [D!ToSet(Members) -> Nat] /\ invites'[m] = invites[m] + 1
        /\ \A x \in D!ToSet(Members) \ {m} : invites'[x] = invites[x]
    BY <1>3, <1>4, <1>9
  <2>2. SeedRows(owner', vacancies', invites', joined', candidates', interviews', documents')
    BY <1>1, <1>4, <1>9, <2>1 DEF SeedRows
  <2>3. run' = [run EXCEPT !.step = "register", !.unsaved = null] /\ past' = past  BY <1>9, Zenon DEF D!Stay
  <2>4. AtThing("register", D!Agenda[run.at], vacancies', interviews')  BY <1>1 DEF AtThing
  <2>5. UnsavedOK("register", null, interviews') /\ "register" \in SeedSteps  BY DEF UnsavedOK, SeedSteps
  <2>6. ASSUME ~past.died  PROVE Settled(ThingAtWork("register"), null, vacancies', invites', joined', interviews')
    <3>1. Settled(Nobody, null, vacancies, invites, joined, interviews)  BY <1>5, <1>7, <1>9, <2>6
    <3>2. Settled(Thing("member", m), null, vacancies, invites, joined, interviews)  BY <3>1, SettledAll
    <3>3. invites[m] = 0  BY <1>3, <1>9, <3>1, SettledIs
    <3>4. invites'[m] = 1  BY <2>1, <3>3
    <3>5. Settled(Thing("member", m), null, vacancies, invites', joined, interviews)
      BY <2>1, <3>2, <3>4 DEF Settled
    <3>6. QED  BY <1>1, <1>7, <1>9, <3>5
  <2>7. ~past.died => Grows(owner', vacancies', joined', interviews', documents') /\ Kept(null, interviews')
    BY <1>5, <1>6, <1>9
  <2>8. QED  BY <1>1, <2>2, <2>3, <2>4, <2>5, <2>6, <2>7, SeedGoesOn
<1>10. CASE run.step = "register" /\ joined' = joined \cup {m} /\ D!Proceed(null) /\ invites' = invites
  <2>1. Done(D!Agenda[run.at], null, owner', vacancies', joined', interviews', documents')
    BY <1>3, <1>10, ThingsDiffer DEF Done
  <2>2. SeedRows(owner', vacancies', invites', joined', candidates', interviews', documents')
    BY <1>1, <1>3, <1>4, <1>10 DEF SeedRows
  <2>3. ASSUME ~past.died  PROVE Settled(Nobody, null, vacancies', invites', joined', interviews')
    <3>1. Settled(Thing("member", m), null, vacancies, invites, joined, interviews)  BY <1>5, <1>7, <1>10, <2>3
    <3>2. joined \subseteq joined' /\ m \in joined'  BY <1>10
    <3>3. QED  BY <1>1, <1>10, <3>1, <3>2, SettledMember
  <2>4. ~past.died => Grows(owner', vacancies', joined', interviews', documents') /\ Kept(null, interviews')
    BY <1>5, <1>6, <1>10
  <2>5. QED  BY <1>1, <1>10, <2>1, <2>2, <2>3, <2>4, SeedProceeds
<1>11. QED  BY <1>2, <1>8, <1>9, <1>10

LEMMA SeedKnowledge == ASSUME SeedInv, D!ensure_knowledge  PROVE SeedInv'
<1> DEFINE k == D!Agenda[run.at].name
<1>1. /\ run # null /\ D!Agenda[run.at].what = "text" /\ run.step = "look" /\ D!Proceed(null)
      /\ owner' = owner /\ vacancies' = vacancies /\ invites' = invites /\ joined' = joined
      /\ candidates' = candidates /\ interviews' = interviews
      /\ documents' = IF documents[k] > 0 THEN documents ELSE [documents EXCEPT ![k] = @ + 1]
  BY Zenon DEF D!ensure_knowledge, D!Under, D!Name, D!Known
<1>2. k \in D!ToSet(Topics) /\ D!Agenda[run.at] = Thing("text", k)
  BY <1>1, SeedNow, AgendaPlaces DEF Ensured
<1> HIDE DEF k
<1>3. /\ SeedRows(owner, vacancies, invites, joined, candidates, interviews, documents)
      /\ documents \in [D!ToSet(Topics) -> Nat] /\ \A x \in D!ToSet(Topics) : documents[x] <= 1
  BY <1>1, SeedNow DEF SeedRows
<1>4. /\ documents' \in [D!ToSet(Topics) -> Nat] /\ documents'[k] = 1
      /\ \A x \in D!ToSet(Topics) \ {k} : documents'[x] = documents[x]
  <2>1. CASE documents[k] > 0  BY <1>1, <1>2, <1>3, <2>1
  <2>2. CASE ~(documents[k] > 0)
    <3>1. documents[k] = 0 /\ documents[k] + 1 = 1  BY <1>2, <1>3, <2>2
    <3>2. documents' = [documents EXCEPT ![k] = 1]  BY <1>1, <2>2, <3>1
    <3>3. QED  BY <1>2, <1>3, <3>2
  <2>3. QED  BY <2>1, <2>2
<1>5. SeedRows(owner', vacancies', invites', joined', candidates', interviews', documents')
  <2>1. \A x \in D!ToSet(Topics) : documents'[x] <= 1  BY <1>3, <1>4
  <2>2. QED  BY <1>1, <1>3, <1>4, <2>1 DEF SeedRows
<1>6. Done(D!Agenda[run.at], null, owner', vacancies', joined', interviews', documents')
  <2>1. D!Agenda[run.at].what = "text" /\ D!Agenda[run.at].name = k  BY <1>2, ThingsDiffer
  <2>2. QED  BY <1>4, <2>1 DEF Done
<1>7. ASSUME ~past.died
      PROVE  /\ Grows(owner', vacancies', joined', interviews', documents') /\ Kept(null, interviews')
             /\ Settled(Nobody, null, vacancies', invites', joined', interviews')
  <2>1. run.unsaved = null  BY <1>1, <1>7, NothingUnsaved
  <2>2. Settled(Nobody, run.unsaved, vacancies, invites, joined, interviews)
    BY <1>1, <1>7, SeedNow DEF ThingAtWork
  <2>3. QED  BY <1>1, <1>4, <2>1, <2>2 DEF Grows, Kept
<1>8. QED  BY <1>1, <1>5, <1>6, <1>7, SeedProceeds

LEMMA SeedDies == ASSUME SeedInv, D!Die  PROVE SeedInv'
<1>1. /\ run' = null /\ past' = [past EXCEPT !.died = TRUE]
      /\ owner' = owner /\ vacancies' = vacancies /\ invites' = invites /\ joined' = joined
      /\ candidates' = candidates /\ interviews' = interviews /\ documents' = documents
  BY Zenon DEF D!Die
<1>2. past \in D!Past /\ SeedRows(owner, vacancies, invites, joined, candidates, interviews, documents)  BY DEF SeedInv
<1>3. past' \in D!Past /\ past'.died = TRUE  BY <1>1, <1>2 DEF D!Past
<1>4. QED  BY <1>1, <1>2, <1>3 DEF SeedInv

LEMMA InvitationIs ==
    /\ D!Invitation \in D!Interview /\ D!Invitation # null
    /\ D!Invitation.status = "invited" /\ D!Invitation.stamped = FALSE /\ D!Invitation.evaluation = FALSE
    /\ D!Invitation.job = FALSE /\ D!Invitation.notes = 0 /\ D!Invitation.dated = FALSE
<1>1. D!Invitation \in D!Interview  BY DEF D!Invitation, D!Interview, D!InterviewStatus
<1>2. QED  BY <1>1, SeedConstants DEF D!Invitation

LEMMA SavedIs == ASSUME SeedInv, run # null  PROVE SavedAs(D!Saved)
<1> DEFINE u == run.unsaved
<1>1. /\ SeedRows(owner, vacancies, invites, joined, candidates, interviews, documents)
      /\ u \in D!ToSet(Extras) \cup {null} /\ UnsavedOK(run.step, u, interviews)
  BY SeedNow
<1>2. interviews \in [D!People -> D!Interview \cup {null}] /\ \A p \in D!People : interviews[p] # null => SeedSound(interviews[p])
  BY <1>1 DEF SeedRows
<1>3. CASE u = null
  <2>1. D!Saved = interviews  BY <1>3 DEF D!Saved
  <2>2. QED  BY <1>2, <1>3, <2>1 DEF SavedAs
<1>4. CASE u # null
  <2> DEFINE i == [D!Invitation EXCEPT !.status = "staged", !.stamped = TRUE]
  <2>1. interviews[u] = D!Invitation /\ u \in D!People /\ u \in D!ToSet(Extras)  BY <1>1, <1>4 DEF UnsavedOK, D!People
  <2>2. /\ i \in D!Interview /\ i.status = "staged" /\ i.stamped = TRUE /\ i.evaluation = FALSE /\ i.job = FALSE
        /\ i.notes = 0 /\ i.dated = FALSE
    BY InvitationIs DEF D!Interview, D!InterviewStatus
  <2>3. D!Saved = [interviews EXCEPT ![u].status = "staged", ![u].stamped = TRUE]  BY <1>4, Zenon DEF D!Saved
  <2>4. [interviews EXCEPT ![u].status = "staged", ![u].stamped = TRUE] = [interviews EXCEPT ![u] = i]
    BY <1>2, <2>1
  <2>5. i # null /\ SeedSound(i)
    <3>1. i # null  BY <2>2, SeedConstants
    <3>2. QED  BY <2>2, <3>1 DEF SeedSound
  <2>6. ~past.died => AtEnd(u, i)
    <3> SUFFICES ASSUME ~past.died  PROVE AtEnd(u, i)
      OBVIOUS
    <3>1. u \notin D!ToSet(Cases)  BY <1>4, SeedNow DEF LeftBehind
    <3>2. u \notin Decisions  BY <3>1, SeedConstants
    <3>3. QED  BY <2>2, <2>5, <3>1, <3>2 DEF AtEnd
  <2> HIDE DEF i
  <2> DEFINE s == [interviews EXCEPT ![u] = i]
  <2>7. D!Saved = s  BY <2>3, <2>4
  <2>8. /\ s \in [D!People -> D!Interview \cup {null}] /\ s[u] = i
        /\ \A p \in D!People \ {u} : s[p] = interviews[p]
    BY <1>2, <2>1, <2>2
  <2> HIDE DEF s
  <2>9. interviews[u] # null  BY <2>1, InvitationIs
  <2>10. SavedAs(s)
    <3>1. \A p \in D!People : s[p] = null <=> interviews[p] = null
      BY <2>5, <2>8, <2>9
    <3>2. \A p \in D!People : s[p] # null => SeedSound(s[p])
      BY <1>2, <2>5, <2>8
    <3>3. \A p \in D!People : u = null \/ p # u => s[p] = interviews[p]  BY <1>4, <2>8
    <3>4. ~past.died /\ u # null => AtEnd(u, s[u])  BY <2>6, <2>8
    <3>5. QED  BY <2>8, <3>1, <3>2, <3>3, <3>4 DEF SavedAs
  <2>11. QED  BY <2>7, <2>10
<1>5. QED  BY <1>3, <1>4

\* What a commit leaves: nobody is unsaved any more, and the rest is as it was.
LEMMA SavedSettles ==
    ASSUME SeedInv, run # null, NEW is, SavedAs(is)
    PROVE  /\ SeedRows(owner, vacancies, invites, joined, candidates, is, documents)
           /\ ~past.died =>
                /\ Grows(owner, vacancies, joined, is, documents) /\ Kept(null, is)
                /\ Settled(ThingAtWork(run.step), null, vacancies, invites, joined, is)
<1>1. SeedRows(owner, vacancies, invites, joined, candidates, is, documents)  BY SeedNow DEF SeedRows, SavedAs
<1>2. ASSUME ~past.died
      PROVE  /\ Grows(owner, vacancies, joined, is, documents) /\ Kept(null, is)
             /\ Settled(ThingAtWork(run.step), null, vacancies, invites, joined, is)
  <2>1. Settled(ThingAtWork(run.step), run.unsaved, vacancies, invites, joined, interviews)  BY <1>2, SeedNow
  <2>2. run.unsaved # null => AtEnd(run.unsaved, is[run.unsaved])  BY <1>2 DEF SavedAs
  <2>3. \A p \in D!People : is[p] = interviews[p] \/ AtEnd(p, is[p])  BY <2>2 DEF SavedAs
  <2>4. Grows(owner, vacancies, joined, is, documents)  BY <2>3 DEF Grows
  <2>5. Kept(null, is)  BY <2>2 DEF Kept
  <2>6. \A p \in D!People : is[p] = null \/ AtEnd(p, is[p]) \/ ThingAtWork(run.step) = Thing("case", p)
    <3> SUFFICES ASSUME NEW p \in D!People  PROVE is[p] = null \/ AtEnd(p, is[p]) \/ ThingAtWork(run.step) = Thing("case", p)
      OBVIOUS
    <3>1. interviews[p] = null \/ AtEnd(p, interviews[p]) \/ ThingAtWork(run.step) = Thing("case", p)
          \/ (run.unsaved # null /\ run.unsaved = p)
      BY <2>1 DEF Settled
    <3>2. QED  BY <2>2, <2>3, <3>1
  <2>7. Settled(ThingAtWork(run.step), null, vacancies, invites, joined, is)  BY <2>1, <2>6 DEF Settled
  <2>8. QED  BY <2>4, <2>5, <2>7
<1>3. QED  BY <1>1, <1>2

LEMMA SeedCommit == ASSUME SeedInv, D!seed_funnel_extras  PROVE SeedInv'
<1>1. /\ run # null /\ D!Agenda[run.at].what = "commit" /\ run.step = "look" /\ interviews' = D!Saved /\ D!Proceed(null)
      /\ owner' = owner /\ vacancies' = vacancies /\ invites' = invites /\ joined' = joined
      /\ candidates' = candidates /\ documents' = documents
  BY Zenon DEF D!seed_funnel_extras, D!Under
<1>2. SavedAs(interviews')  BY <1>1, SavedIs
<1>3. /\ SeedRows(owner, vacancies, invites, joined, candidates, interviews', documents)
      /\ ~past.died =>
           /\ Grows(owner, vacancies, joined, interviews', documents) /\ Kept(null, interviews')
           /\ Settled(Nobody, null, vacancies, invites, joined, interviews')
  <2>1. ThingAtWork(run.step) = Nobody  BY <1>1 DEF ThingAtWork
  <2>2. QED  BY <1>1, <1>2, <2>1, SavedSettles
<1>4. Done(D!Agenda[run.at], null, owner', vacancies', joined', interviews', documents')  BY <1>1 DEF Done
<1>5. QED  BY <1>1, <1>3, <1>4, SeedProceeds

LEMMA SeedPut ==
    ASSUME NEW is, is \in [D!People -> D!Interview \cup {null}], \A q \in D!People : is[q] # null => SeedSound(is[q]),
           NEW p \in D!People, NEW i \in D!Interview, SeedSound(i)
    PROVE  PutIn([is EXCEPT ![p] = i], is, p, i)
<1> DEFINE js == [is EXCEPT ![p] = i]
<1>1. /\ js \in [D!People -> D!Interview \cup {null}] /\ js[p] = i
      /\ \A q \in D!People \ {p} : js[q] = is[q]
  OBVIOUS
<1> HIDE DEF js
<1>2. \A q \in D!People : js[q] # null => SeedSound(js[q])  BY <1>1
<1>3. QED  BY <1>1, <1>2 DEF PutIn

\* The candidate of a case or of an extra.
LEMMA SeedPerson ==
    ASSUME SeedInv, run # null, D!Agenda[run.at].what \in {"case", "extra"}
    PROVE  /\ D!Agenda[run.at].name \in D!People
           /\ D!Agenda[run.at].what = "case" => /\ D!Agenda[run.at].name \in D!ToSet(Cases)
                                                /\ D!Agenda[run.at] = Thing("case", D!Agenda[run.at].name)
           /\ D!Agenda[run.at].what = "extra" => D!Agenda[run.at].name \in D!ToSet(Extras)
<1>1. /\ D!Agenda[run.at].name \in Ensured(D!Agenda[run.at].what)
      /\ D!Agenda[run.at] = Thing(D!Agenda[run.at].what, D!Agenda[run.at].name)
  BY SeedNow, AgendaPlaces
<1>2. QED  BY <1>1 DEF Ensured, D!People

\* When its turn comes, the vacancies are published and the cases have come to their end.
LEMMA SeedReady ==
    ASSUME SeedInv, run # null, D!Agenda[run.at].what \in {"case", "extra"}, ~past.died
    PROVE  /\ vacancies[D!Vacancy] = "published"
           /\ D!Agenda[run.at].what = "extra" =>
                \A x \in D!ToSet(Cases) : AtEnd(x, interviews[x])
<1>1. run.at \in 1..Len(D!Agenda)
      /\ LeftBehind(run.at, run.unsaved, owner, vacancies, joined, interviews, documents)
  BY SeedNow
<1>2. \A x \in D!ToSet(Vacancies) : vacancies[x] = "published"
  <2> SUFFICES ASSUME NEW x \in D!ToSet(Vacancies)  PROVE vacancies[x] = "published"
    OBVIOUS
  <2>1. PICK j \in 1..(run.at - 1) : D!Agenda[j] = Thing("vacancy", x)  BY <1>1, AgendaOrder
  <2>2. Done(Thing("vacancy", x), run.unsaved, owner, vacancies, joined, interviews, documents)
    BY <1>1, <2>1 DEF LeftBehind
  <2>3. QED  BY <2>2, ThingsDiffer DEF Done
<1>3. D!Vacancy \in D!ToSet(Vacancies)
  <2>1. CASE D!Agenda[run.at].what = "case"
    <3>1. D!Agenda[run.at].name \in D!ToSet(Cases)  BY <2>1, SeedPerson
    <3>2. D!Vacancy = CaseVacancy[D!Agenda[run.at].name]  BY <2>1 DEF D!Vacancy, D!Name
    <3>3. QED  BY <3>1, <3>2, SeedConstants
  <2>2. CASE D!Agenda[run.at].what # "case"
    <3>1. D!Vacancy = Vacancies[1]  BY <2>2 DEF D!Vacancy
    <3>2. 1 \in DOMAIN Vacancies  BY SeedConstants
    <3>3. QED  BY <3>1, <3>2 DEF D!ToSet
  <2>3. QED  BY <2>1, <2>2
<1>4. ASSUME D!Agenda[run.at].what = "extra", NEW x \in D!ToSet(Cases)  PROVE AtEnd(x, interviews[x])
  <2>1. PICK j \in 1..(run.at - 1) : D!Agenda[j] = Thing("case", x)  BY <1>1, <1>4, AgendaOrder
  <2>2. Done(Thing("case", x), run.unsaved, owner, vacancies, joined, interviews, documents)
    BY <1>1, <2>1 DEF LeftBehind
  <2>3. QED  BY <2>2, ThingsDiffer DEF Done
<1>5. QED  BY <1>2, <1>3, <1>4

LEMMA SeedInterview == ASSUME SeedInv, D!_interview_for  PROVE SeedInv'
<1> DEFINE p == D!Agenda[run.at].name
           what == D!Agenda[run.at].what
           u == run.unsaved
<1>1. /\ run # null /\ what \in {"case", "extra"} /\ run.step \in {"look", "invite"}
      /\ owner' = owner /\ vacancies' = vacancies /\ invites' = invites /\ joined' = joined /\ documents' = documents
  BY Zenon DEF D!_interview_for, D!OfPerson, D!Under
<1>2. \/ run.step = "look" /\ interviews[p] # null /\ D!Proceed(u) /\ candidates' = candidates /\ interviews' = interviews
      \/ /\ run.step = "look" /\ interviews[p] = null /\ candidates' = candidates \cup {p}
         /\ run' = [run EXCEPT !.step = "invite"] /\ interviews' = interviews /\ past' = past
      \/ /\ run.step = "look" /\ interviews[p] = null /\ candidates' = candidates \cup {p}
         /\ interviews' = D!Saved /\ D!Stay("invite")
      \/ /\ run.step = "invite" /\ interviews[p] = null /\ interviews' = [D!Saved EXCEPT ![p] = D!Invitation]
         /\ what = "case" /\ D!Stay("stage") /\ candidates' = candidates
      \/ /\ run.step = "invite" /\ interviews[p] = null /\ interviews' = [D!Saved EXCEPT ![p] = D!Invitation]
         /\ what # "case" /\ D!Proceed(p) /\ candidates' = candidates
      \/ /\ run.step = "invite" /\ (vacancies[D!Vacancy] # "published" \/ interviews[p] # null)
         /\ run' = null /\ past' = [past EXCEPT !.failed = TRUE] /\ candidates' = candidates /\ interviews' = interviews
  BY Zenon DEF D!_interview_for, D!OfPerson, D!Under, D!Name, D!Exists
<1>3. p \in D!People /\ (what = "extra" => p \in D!ToSet(Extras))
      /\ (what = "case" => p \in D!ToSet(Cases) /\ D!Agenda[run.at] = Thing("case", p))
  BY <1>1, SeedPerson
<1>4. /\ SeedRows(owner, vacancies, invites, joined, candidates, interviews, documents)
      /\ interviews \in [D!People -> D!Interview \cup {null}] /\ candidates \subseteq D!People
      /\ u \in D!ToSet(Extras) \cup {null} /\ (u # null => interviews[u] = D!Invitation)
      /\ past \in D!Past
  BY <1>1, SeedNow DEF SeedRows, UnsavedOK
<1>5. ThingAtWork(run.step) = Nobody /\ ThingAtWork("invite") = Nobody  BY <1>1 DEF ThingAtWork
<1>6. ASSUME ~past.died
      PROVE  /\ Settled(Nobody, u, vacancies, invites, joined, interviews)
             /\ u # null => what = "extra" /\ u \notin D!ToSet(Cases)
  BY <1>1, <1>5, <1>6, SeedNow DEF LeftBehind
<1>7. SavedAs(D!Saved)  BY <1>1, SavedIs
<1>8. run.step = "invite" => interviews[p] = null  BY <1>1, SeedNow DEF AtThing
<1>9. CASE run.step = "look" /\ interviews[p] # null /\ D!Proceed(u) /\ candidates' = candidates /\ interviews' = interviews
  <2>1. ASSUME ~past.died
        PROVE  /\ Grows(owner', vacancies', joined', interviews', documents') /\ Kept(u, interviews')
               /\ Done(D!Agenda[run.at], u, owner', vacancies', joined', interviews', documents')
               /\ Settled(Nobody, u, vacancies', invites', joined', interviews')
    <3>1. Grows(owner', vacancies', joined', interviews', documents') /\ Kept(u, interviews')
      BY <1>1, <1>9 DEF Grows, Kept
    <3>2. AtEnd(p, interviews[p]) \/ (u # null /\ u = p)  BY <1>3, <1>6, <1>9, <2>1, SettledIs
    <3>3. what = "case" => AtEnd(p, interviews[p])  BY <1>6, <2>1, <3>2
    <3>4. Done(D!Agenda[run.at], u, owner', vacancies', joined', interviews', documents')
      BY <1>1, <1>9, <3>2, <3>3 DEF Done
    <3>5. QED  BY <1>1, <1>6, <1>9, <2>1, <3>1, <3>4
  <2>2. QED  BY <1>1, <1>4, <1>6, <1>9, <2>1, SeedProceeds
<1>10. CASE /\ run.step = "look" /\ interviews[p] = null /\ candidates' = candidates \cup {p}
            /\ run' = [run EXCEPT !.step = "invite"] /\ interviews' = interviews /\ past' = past
  <2>1. run' = [run EXCEPT !.step = "invite", !.unsaved = u]  BY <1>1, <1>10, SeedNow DEF D!Run
  <2>2. SeedRows(owner', vacancies', invites', joined', candidates', interviews', documents')
    BY <1>1, <1>3, <1>4, <1>10 DEF SeedRows
  <2>3. AtThing("invite", D!Agenda[run.at], vacancies', interviews')  BY <1>1, <1>10 DEF AtThing
  <2>4. UnsavedOK("invite", u, interviews') /\ "invite" \in SeedSteps  BY <1>4, <1>10 DEF UnsavedOK, SeedSteps
  <2>5. ~past.died =>
          /\ Grows(owner', vacancies', joined', interviews', documents') /\ Kept(u, interviews')
          /\ Settled(ThingAtWork("invite"), u, vacancies', invites', joined', interviews')
    BY <1>1, <1>5, <1>6, <1>10 DEF Grows, Kept
  <2>6. QED  BY <1>1, <1>4, <1>10, <2>1, <2>2, <2>3, <2>4, <2>5, SeedGoesOn
<1>11. CASE /\ run.step = "look" /\ interviews[p] = null /\ candidates' = candidates \cup {p}
            /\ interviews' = D!Saved /\ D!Stay("invite")
  <2>1. run' = [run EXCEPT !.step = "invite", !.unsaved = null] /\ past' = past  BY <1>11, Zenon DEF D!Stay
  <2>2. SavedAs(interviews')  BY <1>7, <1>11
  <2>3. /\ SeedRows(owner, vacancies, invites, joined, candidates, interviews', documents)
        /\ ~past.died =>
             /\ Grows(owner', vacancies', joined', interviews', documents') /\ Kept(null, interviews')
             /\ Settled(ThingAtWork("invite"), null, vacancies', invites', joined', interviews')
    BY <1>1, <1>5, <2>2, SavedSettles
  <2>4. SeedRows(owner', vacancies', invites', joined', candidates', interviews', documents')
    BY <1>1, <1>3, <1>11, <2>3 DEF SeedRows
  <2>5. interviews'[p] = null  BY <1>3, <1>11, <2>2 DEF SavedAs
  <2>6. AtThing("invite", D!Agenda[run.at], vacancies', interviews')  BY <1>1, <2>5 DEF AtThing
  <2>7. UnsavedOK("invite", null, interviews') /\ "invite" \in SeedSteps  BY DEF UnsavedOK, SeedSteps
  <2>8. QED  BY <1>1, <2>1, <2>3, <2>4, <2>6, <2>7, SeedGoesOn
<1>12. ASSUME run.step = "invite", interviews[p] = null, interviews' = [D!Saved EXCEPT ![p] = D!Invitation],
              candidates' = candidates
       PROVE  /\ SeedRows(owner', vacancies', invites', joined', candidates', interviews', documents')
              /\ interviews'[p] = D!Invitation
              /\ ~past.died =>
                   /\ Grows(owner', vacancies', joined', interviews', documents')
                   /\ \A v : Kept(v, interviews')
                   /\ what = "extra" => Settled(Nobody, p, vacancies', invites', joined', interviews')
                   /\ Settled(Thing("case", p), null, vacancies', invites', joined', interviews')
  <2>1. PutIn(interviews', D!Saved, p, D!Invitation)
    <3>1. SeedSound(D!Invitation)  BY InvitationIs DEF SeedSound
    <3>2. /\ D!Saved \in [D!People -> D!Interview \cup {null}]
          /\ \A q \in D!People : D!Saved[q] # null => SeedSound(D!Saved[q])
      BY <1>7 DEF SavedAs
    <3>3. QED  BY <1>3, <1>12, <3>1, <3>2, InvitationIs, SeedPut
  <2>2. SeedRows(owner', vacancies', invites', joined', candidates', interviews', documents')
    BY <1>1, <1>4, <1>12, <2>1 DEF PutIn, SeedRows
  <2>3. ASSUME ~past.died
        PROVE  /\ Grows(owner', vacancies', joined', interviews', documents')
               /\ \A v : Kept(v, interviews')
               /\ what = "extra" => Settled(Nobody, p, vacancies', invites', joined', interviews')
               /\ Settled(Thing("case", p), null, vacancies', invites', joined', interviews')
    <3>1. /\ Grows(owner, vacancies, joined, D!Saved, documents) /\ Kept(null, D!Saved)
          /\ Settled(Nobody, null, vacancies, invites, joined, D!Saved)
      BY <1>1, <1>5, <1>7, <2>3, SavedSettles
    <3>2. ~AtEnd(p, interviews[p])  BY <1>12 DEF AtEnd
    <3>3. \A q \in D!People \ {p} : interviews'[q] = D!Saved[q]  BY <2>1 DEF PutIn
    <3>4. Grows(owner', vacancies', joined', interviews', documents')
      <4>1. ASSUME NEW q \in D!People, AtEnd(q, interviews[q])  PROVE AtEnd(q, interviews'[q])
        <5>1. q # p  BY <3>2, <4>1
        <5>2. AtEnd(q, D!Saved[q])  BY <3>1, <4>1 DEF Grows
        <5>3. QED  BY <3>3, <5>1, <5>2
      <4>2. QED  BY <1>1, <4>1 DEF Grows
    <3>5. ASSUME u # null  PROVE AtEnd(u, interviews'[u])
      <4>1. u # p  BY <1>4, <1>12, <3>5, InvitationIs
      <4>2. u \in D!People  BY <1>4, <3>5 DEF D!People
      <4>3. AtEnd(u, D!Saved[u])  BY <1>7, <2>3, <3>5 DEF SavedAs
      <4>4. QED  BY <3>3, <4>1, <4>2, <4>3
    <3>6. \A v : Kept(v, interviews')  BY <3>5 DEF Kept
    <3>7. /\ \A m \in D!ToSet(Members) : invites[m] = 0 \/ (invites[m] = 1 /\ m \in joined)
          /\ \A v \in D!ToSet(Vacancies) : vacancies[v] \in {"none", "published"}
          /\ \A q \in D!People : D!Saved[q] = null \/ AtEnd(q, D!Saved[q])
      BY <3>1, SettledIs
    <3>8. \A q \in D!People \ {p} : interviews'[q] = null \/ AtEnd(q, interviews'[q])  BY <3>3, <3>7
    <3>9. what = "extra" => p # null  BY <1>3, SeedConstants
    <3>10. what = "extra" => Settled(Nobody, p, vacancies', invites', joined', interviews')
      BY <1>1, <3>7, <3>8, <3>9 DEF Settled
    <3>11. Settled(Thing("case", p), null, vacancies', invites', joined', interviews')
      BY <1>1, <3>7, <3>8 DEF Settled
    <3>12. QED  BY <3>4, <3>6, <3>10, <3>11
  <2>4. QED  BY <2>1, <2>2, <2>3 DEF PutIn
<1>13. CASE /\ run.step = "invite" /\ interviews[p] = null /\ interviews' = [D!Saved EXCEPT ![p] = D!Invitation]
            /\ what = "case" /\ D!Stay("stage") /\ candidates' = candidates
  <2>1. run' = [run EXCEPT !.step = "stage", !.unsaved = null] /\ past' = past  BY <1>13, Zenon DEF D!Stay
  <2>2. ThingAtWork("stage") = Thing("case", p)  BY <1>3, <1>13 DEF ThingAtWork
  <2>3. /\ SeedRows(owner', vacancies', invites', joined', candidates', interviews', documents')
        /\ interviews'[p] = D!Invitation
        /\ ~past.died =>
             /\ Grows(owner', vacancies', joined', interviews', documents') /\ Kept(null, interviews')
             /\ Settled(ThingAtWork("stage"), null, vacancies', invites', joined', interviews')
    BY <1>12, <1>13, <2>2
  <2>4. AtThing("stage", D!Agenda[run.at], vacancies', interviews')  BY <1>13, <2>3 DEF AtThing
  <2>5. UnsavedOK("stage", null, interviews') /\ "stage" \in SeedSteps  BY DEF UnsavedOK, SeedSteps
  <2>6. QED  BY <1>1, <2>1, <2>3, <2>4, <2>5, SeedGoesOn
<1>14. CASE /\ run.step = "invite" /\ interviews[p] = null /\ interviews' = [D!Saved EXCEPT ![p] = D!Invitation]
            /\ what # "case" /\ D!Proceed(p) /\ candidates' = candidates
  <2>1. what = "extra" /\ p \in D!ToSet(Extras)  BY <1>1, <1>3, <1>14
  <2>2. /\ SeedRows(owner', vacancies', invites', joined', candidates', interviews', documents')
        /\ interviews'[p] = D!Invitation
        /\ ~past.died =>
             /\ Grows(owner', vacancies', joined', interviews', documents') /\ Kept(p, interviews')
             /\ Settled(Nobody, p, vacancies', invites', joined', interviews')
    BY <1>12, <1>14, <2>1
  <2>3. ~past.died => p \notin D!ToSet(Cases)
    <3> SUFFICES ASSUME ~past.died, p \in D!ToSet(Cases)  PROVE FALSE
      OBVIOUS
    <3>1. AtEnd(p, interviews[p])  BY <1>1, <2>1, SeedReady
    <3>2. QED  BY <1>14, <3>1 DEF AtEnd
  <2>4. Done(D!Agenda[run.at], p, owner', vacancies', joined', interviews', documents')
    BY <2>1, SeedConstants DEF Done
  <2>5. QED  BY <1>1, <1>14, <2>1, <2>2, <2>3, <2>4, SeedProceeds
<1>15. CASE /\ run.step = "invite" /\ (vacancies[D!Vacancy] # "published" \/ interviews[p] # null)
            /\ run' = null /\ past' = [past EXCEPT !.failed = TRUE] /\ candidates' = candidates /\ interviews' = interviews
  <2>1. past.died = TRUE  BY <1>1, <1>8, <1>15, SeedNow, SeedReady
  <2>2. past' \in D!Past /\ past'.died = TRUE  BY <1>4, <1>15, <2>1 DEF D!Past
  <2>3. QED  BY <1>1, <1>4, <1>15, <2>2 DEF SeedInv
<1>16. QED  BY <1>2, <1>9, <1>10, <1>11, <1>13, <1>14, <1>15

\* A case that goes on, and one that has come to its end.
LEMMA SettledCase ==
    ASSUME NEW u, NEW vs, NEW iv, NEW js, NEW is, NEW p, Settled(Thing("case", p), u, vs, iv, js, is),
           NEW ks, \A q \in D!People \ {p} : ks[q] = is[q]
    PROVE  /\ Settled(Thing("case", p), u, vs, iv, js, ks)
           /\ AtEnd(p, ks[p]) => Settled(Nobody, u, vs, iv, js, ks)
<1>1. /\ \A x : Thing("case", p) # Thing("member", x) /\ Thing("case", p) # Thing("vacancy", x)
      /\ \A x : Thing("case", p) = Thing("case", x) => x = p
  <2>1. Thing("case", p).what = "case" /\ Thing("case", p).name = p  BY DEF Thing
  <2>2. QED  BY <2>1 DEF Thing
<1>2. QED  BY <1>1 DEF Settled

LEMMA SeedCase == ASSUME SeedInv, D!seed_case  PROVE SeedInv'
<1> DEFINE p == D!Agenda[run.at].name
           old == interviews[p]
           ended == [old EXCEPT !.stamped = TRUE, !.evaluation = run.mode = "dataset", !.job = run.mode = "real",
                                !.status = CASE run.mode = "dataset" -> "evaluated" [] run.mode = "real" -> "processing"
                                             [] run.mode = "none" -> "completed"]
           noted == [old EXCEPT !.notes = @ + 1]
           decided == [old EXCEPT !.status = "decided"]
           dated == [old EXCEPT !.dated = TRUE]
<1>1. /\ run # null /\ D!Agenda[run.at].what = "case"
      /\ owner' = owner /\ vacancies' = vacancies /\ invites' = invites /\ joined' = joined
      /\ candidates' = candidates /\ documents' = documents
  BY Zenon DEF D!seed_case, D!Under
<1>2. \/ /\ run.step = "stage"
         /\ interviews' = [interviews EXCEPT ![p] =
               [@ EXCEPT !.stamped = TRUE, !.evaluation = run.mode = "dataset", !.job = run.mode = "real",
                         !.status = CASE run.mode = "dataset" -> "evaluated" [] run.mode = "real" -> "processing"
                                      [] run.mode = "none" -> "completed"]]
         /\ IF p \in Decisions /\ run.mode = "dataset" THEN D!Stay("note") ELSE D!Proceed(null)
      \/ run.step = "note" /\ interviews' = [interviews EXCEPT ![p].notes = @ + 1] /\ D!Stay("decide")
      \/ run.step = "decide" /\ interviews' = [interviews EXCEPT ![p].status = "decided"] /\ D!Stay("date")
      \/ run.step = "date" /\ interviews' = [interviews EXCEPT ![p].dated = TRUE] /\ D!Proceed(null)
  BY Zenon DEF D!seed_case, D!Under, D!Name
<1>3. p \in D!People /\ p \in D!ToSet(Cases) /\ D!Agenda[run.at] = Thing("case", p)
  BY <1>1, SeedPerson
<1>4. /\ SeedRows(owner, vacancies, invites, joined, candidates, interviews, documents)
      /\ interviews \in [D!People -> D!Interview \cup {null}]
      /\ \A q \in D!People : interviews[q] # null => SeedSound(interviews[q])
      /\ run.mode \in {"dataset", "real", "none"}
  BY <1>1, SeedNow DEF SeedRows
<1>5. run.step \in {"stage", "note", "decide", "date"}  BY <1>2
<1>6. /\ old \in D!Interview /\ old # null
      /\ run.step = "stage" => old = D!Invitation
      /\ run.step \in {"note", "decide", "date"} => p \in Decisions
      /\ run.step \in {"note", "decide"} => old.status = "evaluated"
      /\ run.step = "date" => old.status = "decided"
      /\ run.step = "note" => old.notes = 0
      /\ run.step = "decide" => old.notes = 1
  <2>1. AtThing(run.step, Thing("case", p), vacancies, interviews)  BY <1>1, <1>3, SeedNow
  <2>2. Thing("case", p).what = "case" /\ Thing("case", p).name = p  BY ThingsDiffer
  <2>3. old # null  BY <1>5, <2>1, <2>2, InvitationIs DEF AtThing
  <2>4. old \in D!Interview  BY <1>3, <1>4, <2>3
  <2> HIDE DEF p
  <2>5. QED  BY <1>5, <2>1, <2>2, <2>3, <2>4 DEF AtThing
<1>7. SeedSound(old)  BY <1>3, <1>4, <1>6
<1>8. \A step \in {"stage", "note", "decide", "date"} : ThingAtWork(step) = Thing("case", p)
  BY <1>3 DEF ThingAtWork
<1>9. ASSUME ~past.died
      PROVE  run.unsaved = null /\ Settled(Thing("case", p), null, vacancies, invites, joined, interviews)
  <2>1. run.unsaved = null  BY <1>1, <1>9, NothingUnsaved
  <2>2. QED  BY <1>1, <1>5, <1>8, <1>9, <2>1, SeedNow
<1> HIDE DEF p, old
\* An interview that goes on keeps nothing from its end; one that comes to its end settles the case.
<1>10. ASSUME NEW i \in D!Interview, SeedSound(i), interviews' = [interviews EXCEPT ![p] = i],
              AtEnd(p, old) => AtEnd(p, i)
       PROVE  /\ SeedRows(owner', vacancies', invites', joined', candidates', interviews', documents')
              /\ interviews'[p] = i
              /\ ~past.died =>
                   /\ Grows(owner', vacancies', joined', interviews', documents') /\ Kept(null, interviews')
                   /\ Settled(Thing("case", p), null, vacancies', invites', joined', interviews')
                   /\ AtEnd(p, i) => Settled(Nobody, null, vacancies', invites', joined', interviews')
  <2>1. PutIn(interviews', interviews, p, i)  BY <1>3, <1>4, <1>10, SeedPut
  <2>2. SeedRows(owner', vacancies', invites', joined', candidates', interviews', documents')
    BY <1>1, <1>4, <2>1 DEF PutIn, SeedRows
  <2>3. interviews'[p] = i /\ \A q \in D!People \ {p} : interviews'[q] = interviews[q]  BY <2>1 DEF PutIn
  <2>4. ASSUME ~past.died
        PROVE  /\ Grows(owner', vacancies', joined', interviews', documents') /\ Kept(null, interviews')
               /\ Settled(Thing("case", p), null, vacancies', invites', joined', interviews')
               /\ AtEnd(p, i) => Settled(Nobody, null, vacancies', invites', joined', interviews')
    <3>1. \A q \in D!People : AtEnd(q, interviews[q]) => AtEnd(q, interviews'[q])  BY <1>10, <2>3 DEF old
    <3>2. Grows(owner', vacancies', joined', interviews', documents')  BY <1>1, <3>1 DEF Grows
    <3>3. Kept(null, interviews')  BY <1>9, <2>4 DEF Kept
    <3>4. Settled(Thing("case", p), null, vacancies', invites', joined', interviews')
          /\ (AtEnd(p, i) => Settled(Nobody, null, vacancies', invites', joined', interviews'))
      BY <1>1, <1>9, <2>3, <2>4, SettledCase
    <3>5. QED  BY <3>2, <3>3, <3>4
  <2>5. QED  BY <2>2, <2>3, <2>4
<1>11. ASSUME NEW i \in D!Interview, SeedSound(i), interviews' = [interviews EXCEPT ![p] = i],
              AtEnd(p, old) => AtEnd(p, i), NEW step \in {"note", "decide", "date"}, D!Stay(step),
              p \in Decisions, i.status = (IF step = "date" THEN "decided" ELSE "evaluated"),
              step = "note" => i.notes = 0, step = "decide" => i.notes = 1
       PROVE  SeedInv'
  <2>1. run' = [run EXCEPT !.step = step, !.unsaved = null] /\ past' = past  BY <1>11, Zenon DEF D!Stay
  <2>2. /\ SeedRows(owner', vacancies', invites', joined', candidates', interviews', documents')
        /\ interviews'[p] = i
        /\ ~past.died =>
             /\ Grows(owner', vacancies', joined', interviews', documents') /\ Kept(null, interviews')
             /\ Settled(ThingAtWork(step), null, vacancies', invites', joined', interviews')
    BY <1>8, <1>10, <1>11
  <2>3. Thing("case", p).what = "case" /\ Thing("case", p).name = p /\ i # null  BY <1>11, ThingsDiffer, SeedConstants
  <2>4. AtThing(step, D!Agenda[run.at], vacancies', interviews')  BY <1>3, <1>11, <2>2, <2>3 DEF AtThing
  <2>5. UnsavedOK(step, null, interviews') /\ step \in SeedSteps  BY <1>11 DEF UnsavedOK, SeedSteps
  <2>6. QED  BY <1>1, <2>1, <2>2, <2>4, <2>5, SeedGoesOn
<1>12. ASSUME NEW i \in D!Interview, SeedSound(i), interviews' = [interviews EXCEPT ![p] = i], AtEnd(p, i), D!Proceed(null)
       PROVE  SeedInv'
  <2>1. /\ SeedRows(owner', vacancies', invites', joined', candidates', interviews', documents')
        /\ interviews'[p] = i
        /\ ~past.died =>
             /\ Grows(owner', vacancies', joined', interviews', documents') /\ Kept(null, interviews')
             /\ Settled(Nobody, null, vacancies', invites', joined', interviews')
    BY <1>10, <1>12
  <2>2. Thing("case", p).what = "case" /\ Thing("case", p).name = p  BY ThingsDiffer
  <2>3. Done(D!Agenda[run.at], null, owner', vacancies', joined', interviews', documents')
    BY <1>3, <1>12, <2>1, <2>2 DEF Done
  <2>4. QED  BY <1>1, <1>12, <2>1, <2>3, SeedProceeds
<1>13. CASE run.step = "stage"
  <2>1. /\ interviews' = [interviews EXCEPT ![p] = ended]
        /\ IF p \in Decisions /\ run.mode = "dataset" THEN D!Stay("note") ELSE D!Proceed(null)
    BY <1>2, <1>3, <1>4, <1>13 DEF old
  <2>2. /\ ended \in D!Interview /\ ended.stamped = TRUE /\ ended.evaluation = (run.mode = "dataset")
        /\ ended.job = (run.mode = "real") /\ ended.notes = 0 /\ ended.dated = FALSE
        /\ ended.status \in {"evaluated", "processing", "completed"}
        /\ ended.status = "evaluated" <=> run.mode = "dataset"
        /\ ended.status = "processing" <=> run.mode = "real"
    <3>1. old = D!Invitation  BY <1>6, <1>13
    <3>2. CASE run.mode = "dataset"  BY <1>6, <3>1, <3>2, InvitationIs DEF D!Interview, D!InterviewStatus
    <3>3. CASE run.mode = "real"  BY <1>6, <3>1, <3>3, InvitationIs DEF D!Interview, D!InterviewStatus
    <3>4. CASE run.mode = "none"  BY <1>6, <3>1, <3>4, InvitationIs DEF D!Interview, D!InterviewStatus
    <3>5. QED  BY <1>4, <3>2, <3>3, <3>4
  <2> HIDE DEF ended
  <2>3. SeedSound(ended) /\ ended # null
    <3>1. ended.status # "decided" /\ ended.status # "invited"  BY <2>2
    <3>2. ended.evaluation <=> ended.status \in {"evaluated", "decided"}  BY <2>2, <3>1, Zenon
    <3>3. ended.job <=> ended.status = "processing"  BY <2>2, Zenon
    <3>4. ended.notes <= 1 /\ ended.stamped /\ ~ended.dated  BY <2>2
    <3>5. QED  BY <2>2, <3>1, <3>2, <3>3, <3>4, SeedConstants, Zenon DEF SeedSound
  <2>4. ~AtEnd(p, old)
    <3>1. old.stamped = FALSE  BY <1>6, <1>13, InvitationIs
    <3>2. QED  BY <3>1 DEF AtEnd
  <2>5. CASE p \in Decisions /\ run.mode = "dataset"
    <3>1. ended.status = "evaluated" /\ D!Stay("note")  BY <2>1, <2>2, <2>5
    <3>2. QED  BY <1>11, <2>1, <2>2, <2>3, <2>4, <2>5, <3>1
  <2>6. CASE ~(p \in Decisions /\ run.mode = "dataset")
    <3>1. AtEnd(p, ended)  BY <2>2, <2>3, <2>6 DEF AtEnd
    <3>2. D!Proceed(null)  BY <2>1, <2>6
    <3>3. QED  BY <1>12, <2>1, <2>2, <2>3, <3>1, <3>2
  <2>7. QED  BY <2>5, <2>6
<1>14. CASE run.step = "note"
  <2>1. interviews' = [interviews EXCEPT ![p] = noted] /\ D!Stay("decide")  BY <1>2, <1>3, <1>4, <1>14 DEF old
  <2>2. /\ noted \in D!Interview /\ noted.status = "evaluated" /\ noted.notes = 1 /\ noted.stamped = old.stamped
        /\ noted.evaluation = old.evaluation /\ noted.job = old.job /\ noted.dated = old.dated
    BY <1>6, <1>14 DEF D!Interview
  <2> HIDE DEF noted
  <2>3. SeedSound(noted)  BY <1>6, <1>7, <1>14, <2>2 DEF SeedSound
  <2>4. ~AtEnd(p, old)  BY <1>6, <1>14 DEF AtEnd
  <2>5. QED  BY <1>6, <1>11, <1>14, <2>1, <2>2, <2>3, <2>4
<1>15. CASE run.step = "decide"
  <2>1. interviews' = [interviews EXCEPT ![p] = decided] /\ D!Stay("date")  BY <1>2, <1>3, <1>4, <1>15 DEF old
  <2>2. /\ decided \in D!Interview /\ decided.status = "decided" /\ decided.notes = 1 /\ decided.stamped = old.stamped
        /\ decided.evaluation = old.evaluation /\ decided.job = old.job /\ decided.dated = old.dated
    BY <1>6, <1>15 DEF D!Interview, D!InterviewStatus
  <2> HIDE DEF decided
  <2>3. SeedSound(decided)  BY <1>6, <1>7, <1>15, <2>2 DEF SeedSound
  <2>4. ~AtEnd(p, old)  BY <1>6, <1>15 DEF AtEnd
  <2>5. QED  BY <1>6, <1>11, <1>15, <2>1, <2>2, <2>3, <2>4
<1>16. CASE run.step = "date"
  <2>1. interviews' = [interviews EXCEPT ![p] = dated] /\ D!Proceed(null)  BY <1>2, <1>3, <1>4, <1>16 DEF old
  <2>2. /\ dated \in D!Interview /\ dated.status = "decided" /\ dated.notes = old.notes /\ dated.stamped = old.stamped
        /\ dated.evaluation = old.evaluation /\ dated.job = old.job /\ dated.dated = TRUE
    BY <1>6, <1>16 DEF D!Interview
  <2> HIDE DEF dated
  <2>3. SeedSound(dated)  BY <1>6, <1>7, <1>16, <2>2 DEF SeedSound
  <2>4. old.stamped  BY <1>6, <1>7, <1>16 DEF SeedSound
  <2>5. AtEnd(p, dated)  BY <2>2, <2>4, SeedConstants DEF AtEnd
  <2>6. QED  BY <1>12, <2>1, <2>2, <2>3, <2>5
<1>17. QED  BY <1>5, <1>13, <1>14, <1>15, <1>16

LEMMA SeedNext == ASSUME SeedInv, D!Next  PROVE SeedInv'
<1>1. \/ D!main \/ D!ensure_owner \/ D!ensure_vacancy \/ D!ensure_member \/ D!_interview_for \/ D!seed_case
      \/ D!seed_funnel_extras \/ D!ensure_knowledge \/ D!Die
  BY Zenon DEF D!Next
<1>2. QED
  BY <1>1, SeedMain, SeedOwner, SeedVacancy, SeedMember, SeedInterview, SeedCase, SeedCommit, SeedKnowledge, SeedDies

LEMMA SeedRests ==
    ASSUME SeedInv, owner' = owner, vacancies' = vacancies, invites' = invites, joined' = joined,
           candidates' = candidates, interviews' = interviews, documents' = documents, run' = run, past' = past
    PROVE  SeedInv'
BY DEF SeedInv

\* However often the command for demo data is run and wherever a run of it has died (demo/seed.py): no
\* text is there twice, an evaluation and a job go with their status, a decision has its one note; and as
\* long as no run has died no invite is made out twice, no run is refused, and the first that ends leaves
\* everything there, the interviews as the story tells them.
THEOREM SeedStaysOnce == MCSpec => [](part = "seed" => D!SeedIsOnce)
<1> DEFINE Inv == part = "seed" => SeedInv
<1>1. MCInit => Inv
  <2> SUFFICES ASSUME MCInit, part = "seed"  PROVE SeedInv
    OBVIOUS
  <2>1. D!Init  BY Zenon DEF MCInit
  <2>2. QED  BY <2>1, SeedInit
<1>2. Inv /\ [MCNext]_all_vars => Inv'
  <2> SUFFICES ASSUME Inv, [MCNext]_all_vars, part' = "seed"  PROVE SeedInv'
    OBVIOUS
  <2>1. CASE NextSeed
    <3>1. part = "seed" /\ D!Next  BY <2>1, Zenon DEF NextSeed
    <3>2. QED  BY <3>1, SeedNext
  <2>2. CASE NextOrganization \/ NextLimiter \/ NextThread \/ NextGrants \/ NextKnowledge
    <3>1. part' = part /\ part # "seed"
      BY <2>2 DEF NextOrganization, NextLimiter, NextThread, NextGrants, NextKnowledge
    <3>2. QED  BY <3>1
  <2>3. CASE UNCHANGED all_vars
    <3>1. /\ part' = part /\ owner' = owner /\ vacancies' = vacancies /\ invites' = invites /\ joined' = joined
          /\ candidates' = candidates /\ interviews' = interviews /\ documents' = documents
          /\ run' = run /\ past' = past
      BY <2>3 DEF all_vars, OfSeed
    <3>2. QED  BY <3>1, SeedRests
  <2>4. QED  BY <2>1, <2>2, <2>3, Zenon DEF MCNext
<1>3. Inv => (part = "seed" => D!SeedIsOnce)  BY SeedHolds
<1>4. QED  BY <1>1, <1>2, <1>3, PTL DEF MCSpec
-----------------------------------------------------------------------------
(* What is searched of a document: of the part "knowledge" of MCCabinet. *)

LEMMA ChunkConstants ==
    /\ null \notin K!KnowledgeDocument /\ Texts \subseteq Samples /\ MaxChanges \in Nat /\ MaxTroubles \in Nat
    /\ \A t \in Samples : /\ K!chunk_text(t) \in Seq([len: Nat, of: Nat]) /\ Len(K!chunk_text(t)) \in Nat
                          /\ t # K!Blank => Len(K!chunk_text(t)) # 0
<1>1. K!ParametersOK /\ K!SamplesOK  BY SizesOK
<1>2. ASSUME NEW t \in Samples
      PROVE  /\ K!chunk_text(t) \in Seq([len: Nat, of: Nat]) /\ Len(K!chunk_text(t)) \in Nat
             /\ t # K!Blank => Len(K!chunk_text(t)) # 0
  <2> DEFINE c == K!chunk_text(t)
  <2>1. c \in Seq([len: Nat, of: Nat]) /\ (t # K!Blank => c # <<>>)  BY <1>1 DEF K!SamplesOK
  <2> HIDE DEF c
  <2>2. Len(c) \in Nat /\ (c # <<>> => Len(c) # 0)  BY <2>1
  <2>3. QED  BY <2>1, <2>2 DEF c
<1>3. null \notin K!KnowledgeDocument  BY <1>1 DEF K!SamplesOK
<1>4. Texts \subseteq Samples /\ MaxChanges \in Nat /\ MaxTroubles \in Nat  BY <1>1 DEF K!ParametersOK
<1>5. QED  BY <1>2, <1>3, <1>4

LEMMA CutIs ==
    ASSUME NEW v, NEW text \in Samples
    PROVE  /\ v \in 1..MaxChanges => Cut(v, text) \subseteq K!KnowledgeChunk
           /\ \A row \in Cut(v, text) : row.version = v /\ row.text = text
           /\ \A k \in 1..Len(K!chunk_text(text)) : \E row \in Cut(v, text) : row.position = k - 1 /\ row.version = v
           /\ \A row \in Cut(v, text) : row.position \in 0..(Len(K!chunk_text(text)) - 1)
<1> DEFINE c == K!chunk_text(text)
           R(k) == CutRow(v, text, k)
<1>1. c \in Seq([len: Nat, of: Nat]) /\ Len(c) \in Nat  BY ChunkConstants
<1> HIDE DEF c
<1>2. Cut(v, text) = {R(k) : k \in 1..Len(c)}  BY DEF Cut, c
<1>3. ASSUME NEW k \in 1..Len(c)
      PROVE  /\ k - 1 \in Nat /\ k - 1 \in 0..(Len(c) - 1) /\ c[k] \in [len: Nat, of: Nat]
             /\ R(k).version = v /\ R(k).text = text /\ R(k).position = k - 1 /\ R(k).piece = c[k]
  <2> DEFINE S == [len: Nat, of: Nat]
  <2>0. c \in Seq(S)  BY <1>1
  <2> HIDE DEF S
  <2>1. k - 1 \in Nat /\ k - 1 \in 0..(Len(c) - 1) /\ c[k] \in S  BY <1>1, <2>0
  <2>2. /\ R(k).version = v /\ R(k).text = text /\ R(k).position = k - 1 /\ R(k).piece = c[k]
    BY DEF CutRow, c
  <2>3. QED  BY <2>1, <2>2 DEF S
<1>4. v \in 1..MaxChanges => \A k \in 1..Len(c) : R(k) \in K!KnowledgeChunk
  BY <1>3 DEF K!KnowledgeChunk, CutRow, c
<1> HIDE DEF R
<1>5. \A row \in Cut(v, text) : \E k \in 1..Len(c) : row = R(k)  BY <1>2
<1>6. \A k \in 1..Len(c) : \E row \in Cut(v, text) : row.position = k - 1 /\ row.version = v  BY <1>2, <1>3
<1>7. /\ v \in 1..MaxChanges => Cut(v, text) \subseteq K!KnowledgeChunk
      /\ \A row \in Cut(v, text) : row.version = v /\ row.text = text /\ row.position \in 0..(Len(c) - 1)
  BY <1>3, <1>4, <1>5
<1>8. QED  BY <1>6, <1>7 DEF c

\* As many as there are pieces.
LEMMA CutCount ==
    ASSUME NEW v, NEW text \in Samples
    PROVE  /\ K!Cardinality(Cut(v, text)) = Len(K!chunk_text(text))
           /\ {row.position : row \in Cut(v, text)} = 0..(Len(K!chunk_text(text)) - 1)
           /\ {row.text : row \in Cut(v, text)} \subseteq {text}
<1> DEFINE n == Len(K!chunk_text(text))
           f == [k \in 1..n |-> CutRow(v, text, k)]
<1>1. n \in Nat  BY ChunkConstants
<1>2. /\ \A row \in Cut(v, text) : row.position \in 0..(n - 1) /\ row.text = text
      /\ \A k \in 1..n : \E row \in Cut(v, text) : row.position = k - 1
  BY CutIs
<1>3. Cut(v, text) = {CutRow(v, text, k) : k \in 1..n} /\ \A k \in 1..n : CutRow(v, text, k).position = k - 1
  BY DEF Cut, CutRow
<1> HIDE DEF n
<1>4. f \in Bijection(1..n, Cut(v, text))
  <2>1. f \in [1..n -> Cut(v, text)]  BY <1>3
  <2>2. \A j, k \in 1..n : f[j] = f[k] => j = k
    <3> SUFFICES ASSUME NEW j \in 1..n, NEW k \in 1..n, f[j] = f[k]  PROVE j = k
      OBVIOUS
    <3>1. j - 1 = k - 1  BY <1>3
    <3>2. QED  BY <1>1, <3>1
  <2>3. \A row \in Cut(v, text) : \E k \in 1..n : f[k] = row  BY <1>3
  <2> HIDE DEF f
  <2>4. f \in Injection(1..n, Cut(v, text))  BY <2>1, <2>2 DEF Injection, IsInjective
  <2>5. f \in Surjection(1..n, Cut(v, text))  BY <2>1, <2>3 DEF Surjection
  <2>6. QED  BY <2>4, <2>5 DEF Bijection
<1> HIDE DEF f
<1>5. Cardinality(1..n) = n /\ IsFiniteSet(1..n)
  <2>1. 1 \in Int /\ n \in Int  BY <1>1
  <2>2. IsFiniteSet(1..n) /\ Cardinality(1..n) = (IF 1 > n THEN 0 ELSE n - 1 + 1)  BY <2>1, FS_Interval
  <2>3. QED  BY <1>1, <2>2
<1>6. Cardinality(Cut(v, text)) = n
  <2>1. ExistsBijection(1..n, Cut(v, text))  BY <1>4 DEF ExistsBijection
  <2>2. QED  BY <1>5, <2>1, FS_Bijection
<1>7. \A S : K!Cardinality(S) = Cardinality(S)  BY Zenon DEF K!Cardinality, Cardinality
<1>8. {row.position : row \in Cut(v, text)} = 0..(n - 1)
  <2>1. {row.position : row \in Cut(v, text)} \subseteq 0..(n - 1)  BY <1>2
  <2>2. ASSUME NEW i \in 0..(n - 1)  PROVE i \in {row.position : row \in Cut(v, text)}
    <3>1. i + 1 \in 1..n /\ (i + 1) - 1 = i  BY <1>1
    <3>2. PICK row \in Cut(v, text) : row.position = (i + 1) - 1  BY <1>2, <3>1
    <3>3. QED  BY <3>1, <3>2
  <2>3. QED  BY <2>1, <2>2
<1>9. {row.text : row \in Cut(v, text)} \subseteq {text}  BY <1>2
<1>10. QED  BY <1>6, <1>7, <1>8, <1>9 DEF n

\* What is searched is what is shown.
LEMMA ChunksHold == ASSUME ChunkInv  PROVE K!TypeOK /\ K!ChunksAreOfText
<1>1. K!TypeOK  BY DEF ChunkInv, ChunksTyped, K!TypeOK
<1>2. ASSUME ~past.blank, NEW d \in Documents
      PROVE  /\ d \notin K!Present => chunks[d] = {}
             /\ d \in K!Present =>
                  /\ {row.text : row \in chunks[d]} \subseteq {documents[d].text}
                  /\ {row.position : row \in chunks[d]} = 0..(documents[d].chunk_count - 1)
                  /\ K!Cardinality(chunks[d]) = documents[d].chunk_count
  <2>1. CutOf(documents[d], chunks[d], past.changes) /\ documents[d] \in K!KnowledgeDocument \cup {null}
    BY <1>2 DEF ChunkInv, ChunksTyped
  <2>2. d \in K!Present <=> documents[d] # null  BY DEF K!Present
  <2>3. CASE documents[d] = null  BY <2>1, <2>2, <2>3 DEF CutOf
  <2>4. CASE documents[d] # null
    <3>1. PICK v \in 1..past.changes : chunks[d] = Cut(v, documents[d].text)  BY <2>1, <2>4 DEF CutOf
    <3>2. documents[d].text \in Samples /\ documents[d].chunk_count = Len(K!chunk_text(documents[d].text))
      BY <2>1, <2>4 DEF CutOf, K!KnowledgeDocument
    <3>3. /\ K!Cardinality(chunks[d]) = documents[d].chunk_count
          /\ {row.position : row \in chunks[d]} = 0..(documents[d].chunk_count - 1)
          /\ {row.text : row \in chunks[d]} \subseteq {documents[d].text}
      BY <3>1, <3>2, CutCount
    <3>4. QED  BY <2>2, <2>4, <3>3
  <2>5. QED  BY <2>3, <2>4
<1>3. K!ChunksAreOfText  BY <1>2, Zenon DEF K!ChunksAreOfText
<1>4. QED  BY <1>1, <1>3

LEMMA ChunkInit == ASSUME K!Init  PROVE ChunkInv
<1>1. /\ documents = [d \in Documents |-> null] /\ chunks = [d \in Documents |-> {}] /\ files = {}
      /\ request = [p \in Requests |-> K!Idle]
      /\ past = [changes |-> 0, used |-> {}, blank |-> FALSE, troubles |-> 0]
  BY Zenon DEF K!Init
<1>2. K!Idle \in K!Request /\ K!Idle.op = "none"  BY DEF K!Idle, K!Request
<1>3. past \in K!Past  BY <1>1, ChunkConstants DEF K!Past
<1>4. /\ ChunksTyped /\ \A d \in Documents : documents[d] = null /\ chunks[d] = {}
      /\ \A p \in Requests : request[p].op = "none"
  <2>1. /\ documents \in [Documents -> K!KnowledgeDocument \cup {null}] /\ chunks \in [Documents -> SUBSET K!KnowledgeChunk]
        /\ \A d \in Documents : documents[d] = null /\ chunks[d] = {}
    BY <1>1
  <2>2. request \in [Requests -> K!Request] /\ \A p \in Requests : request[p].op = "none"  BY <1>1, <1>2
  <2>3. QED  BY <1>1, <1>3, <2>1, <2>2 DEF ChunksTyped
<1>5. QED  BY <1>4 DEF ChunkInv, CutOf, WithWords

LEMMA ChunkAsked ==
    ASSUME ChunkInv, NEW p \in Requests, NEW mine, request' = [request EXCEPT ![p] = mine], files' \subseteq Documents,
           ChunkSound(mine, p, documents', chunks', past')
    PROVE  ChunkInv'
<1>1. /\ request \in [Requests -> K!Request] /\ past \in K!Past  BY DEF ChunkInv, ChunksTyped
<1>2. /\ documents' \in [Documents -> K!KnowledgeDocument \cup {null}] /\ chunks' \in [Documents -> SUBSET K!KnowledgeChunk]
      /\ past' \in K!Past /\ mine \in K!Request /\ past.changes <= past'.changes
      /\ \A d \in Documents : \A row \in chunks'[d] : row.version <= past'.changes
  BY DEF ChunkSound
<1>3. /\ request' \in [Requests -> K!Request] /\ request'[p] = mine
      /\ \A q \in Requests : q # p => request'[q] = request[q]
  BY <1>1, <1>2
<1>4. ChunksTyped'  BY <1>2, <1>3 DEF ChunksTyped
<1>5. ASSUME NEW q \in Requests, request'[q].op = "update"
      PROVE  /\ request'[q].document \in Documents /\ request'[q].read \in K!KnowledgeDocument /\ request'[q].text \in Samples
             /\ \A v \in request'[q].chunks : v <= past'.changes
  <2>1. CASE q = p  BY <1>3, <1>5, <2>1 DEF ChunkSound
  <2>2. CASE q # p
    <3>1. /\ request[q].document \in Documents /\ request[q].read \in K!KnowledgeDocument /\ request[q].text \in Samples
          /\ \A v \in request[q].chunks : v <= past.changes
      BY <1>3, <1>5, <2>2 DEF ChunkInv
    <3>2. request[q].chunks \subseteq Nat /\ past.changes \in Nat /\ past'.changes \in Nat
      BY <1>1, <1>2 DEF K!Request, K!Past
    <3>3. \A v \in request[q].chunks : v <= past'.changes  BY <1>2, <3>1, <3>2
    <3>4. QED  BY <1>3, <2>2, <3>1, <3>3
  <2>3. QED  BY <2>1, <2>2
<1>6. ASSUME ~past'.blank
      PROVE  /\ \A d \in Documents : CutOf(documents'[d], chunks'[d], past'.changes)
             /\ \A q \in Requests : request'[q].op = "update" =>
                  AsRead(request'[q], documents'[request'[q].document], chunks'[request'[q].document])
             /\ \A q, o \in Requests : q # o => WithWords(request'[q], request'[o])
  <2>1. \A d \in Documents : CutOf(documents'[d], chunks'[d], past'.changes)  BY <1>6 DEF ChunkSound
  <2>2. ASSUME NEW q \in Requests, request'[q].op = "update"
        PROVE  AsRead(request'[q], documents'[request'[q].document], chunks'[request'[q].document])
    <3>1. CASE q = p  BY <1>3, <1>6, <2>2, <3>1 DEF ChunkSound
    <3>2. CASE q # p
      <4>1. request'[q] = request[q]  BY <1>3, <3>2
      <4>2. QED  BY <1>6, <2>2, <3>2, <4>1 DEF ChunkSound
    <3>3. QED  BY <3>1, <3>2
  <2>3. ASSUME NEW q \in Requests, NEW o \in Requests, q # o  PROVE WithWords(request'[q], request'[o])
    <3>1. CASE q = p
      <4>1. WithWords(mine, request[o])  BY <1>6, <2>3, <3>1 DEF ChunkSound
      <4>2. request'[o] = request[o] /\ request'[q] = mine  BY <1>3, <2>3, <3>1
      <4>3. QED  BY <4>1, <4>2
    <3>2. CASE o = p
      <4>1. WithWords(mine, request[q])  BY <1>6, <2>3, <3>2 DEF ChunkSound
      <4>2. request'[q] = request[q] /\ request'[o] = mine  BY <1>3, <2>3, <3>2
      <4>3. WithWords(request[q], mine)  BY <4>1 DEF WithWords
      <4>4. QED  BY <4>2, <4>3
    <3>3. CASE q # p /\ o # p
      <4>1. ~past.blank  BY <1>6 DEF ChunkSound
      <4>2. request'[q] = request[q] /\ request'[o] = request[o]  BY <1>3, <3>3
      <4>3. WithWords(request[q], request[o])  BY <2>3, <4>1 DEF ChunkInv
      <4>4. QED  BY <4>2, <4>3
    <3>4. QED  BY <3>1, <3>2, <3>3
  <2>4. QED  BY <2>1, <2>2, <2>3
<1>7. QED  BY <1>2, <1>4, <1>5, <1>6 DEF ChunkInv

\* What both invariants say of a request under way.
LEMMA ChunkNow ==
    ASSUME FilesInv, ChunkInv
    PROVE  /\ documents \in [Documents -> K!KnowledgeDocument \cup {null}] /\ chunks \in [Documents -> SUBSET K!KnowledgeChunk]
           /\ files \subseteq Documents /\ request \in [Requests -> K!Request] /\ past \in K!Past
           /\ past.changes \in Nat /\ past.changes <= MaxChanges /\ past.used \subseteq Documents /\ past.blank \in BOOLEAN
           /\ \A d \in Documents : documents[d] # null => d \in past.used
           /\ \A q \in Requests : request[q].op # "none" => request[q].document \in past.used
<1>1. ChunksTyped /\ past \in K!Past  BY DEF ChunkInv, ChunksTyped
<1>2. /\ past.changes \in Nat /\ past.changes <= MaxChanges /\ past.used \subseteq Documents /\ past.blank \in BOOLEAN
  BY <1>1, ChunkConstants DEF K!Past
<1>3. \A d \in Documents : documents[d] # null => d \in past.used  BY DEF FilesInv
<1>4. \A q \in Requests : request[q].op # "none" => request[q].document \in past.used  BY DEF FilesInv, FileAsked
<1>5. QED  BY <1>1, <1>2, <1>3, <1>4 DEF ChunksTyped

LEMMA IdleIs == K!Idle \in K!Request /\ K!Idle.op = "none"
BY DEF K!Idle, K!Request

LEMMA CutOfLater ==
    ASSUME NEW row, NEW rows, NEW n \in Nat, NEW m \in Nat, n <= m, CutOf(row, rows, n)
    PROVE  CutOf(row, rows, m)
<1>1. 1..n \subseteq 1..m  OBVIOUS
<1>2. QED  BY <1>1 DEF CutOf

\* A request that is over, of documents nobody has changed.
LEMMA ChunkOver ==
    ASSUME FilesInv, ChunkInv, NEW p \in Requests, request' = [request EXCEPT ![p] = K!Idle], files' \subseteq Documents,
           documents' = documents, chunks' = chunks, past' \in K!Past, past'.blank = past.blank,
           past.changes <= past'.changes
    PROVE  ChunkInv'
<1>1. past'.changes \in Nat  BY ChunkConstants DEF K!Past
<1>2. ASSUME NEW d \in Documents, NEW row \in chunks[d]  PROVE row.version <= past'.changes
  <2>1. row.version <= past.changes  BY DEF ChunkInv
  <2>2. row \in K!KnowledgeChunk  BY ChunkNow
  <2>3. row.version \in Nat  BY <2>2, ChunkConstants DEF K!KnowledgeChunk
  <2>4. QED  BY <1>1, <2>1, <2>3, ChunkNow
<1>3. ASSUME ~past.blank
      PROVE  /\ \A d \in Documents : CutOf(documents[d], chunks[d], past'.changes)
             /\ \A q \in Requests \ {p} :
                  /\ WithWords(K!Idle, request[q])
                  /\ request[q].op = "update" =>
                       AsRead(request[q], documents[request[q].document], chunks[request[q].document])
  <2>1. \A d \in Documents : CutOf(documents[d], chunks[d], past.changes)  BY <1>3 DEF ChunkInv
  <2>2. \A d \in Documents : CutOf(documents[d], chunks[d], past'.changes)  BY <1>1, <2>1, ChunkNow, CutOfLater
  <2>3. \A q \in Requests : request[q].op = "update" =>
          AsRead(request[q], documents[request[q].document], chunks[request[q].document])
    BY <1>3 DEF ChunkInv
  <2>4. \A q \in Requests : WithWords(K!Idle, request[q])  BY IdleIs DEF WithWords
  <2>5. QED  BY <2>2, <2>3, <2>4
<1>4. ChunkSound(K!Idle, p, documents', chunks', past')
  BY <1>2, <1>3, ChunkNow, IdleIs DEF ChunkSound
<1>5. QED  BY <1>4, ChunkAsked

LEMMA RechunkIs ==
    ASSUME NEW text \in Samples
    PROVE  /\ K!_rechunk(text) = Cut(past.changes + 1, text)
           /\ \A stored : /\ K!New(text, stored).chunk_count = Len(K!chunk_text(text))
                          /\ K!New(text, stored).text = text
                          /\ stored \in BOOLEAN => K!New(text, stored) \in K!KnowledgeDocument
<1> DEFINE c == K!chunk_text(text)
           S == [len: Nat, of: Nat]
<1>1. c \in Seq(S) /\ Len(c) \in Nat  BY ChunkConstants
<1>2. K!_rechunk(text) =
        {[version |-> past.changes + 1, position |-> k - 1, text |-> text, piece |-> c[k]] : k \in DOMAIN c}
  BY Zenon DEF K!_rechunk
<1>3. \A stored : K!New(text, stored) = [text |-> text, chunk_count |-> K!Len(c), stored |-> stored]
  BY Zenon DEF K!New
<1> HIDE DEF c, S
<1>4. DOMAIN c = 1..Len(c) /\ K!Len(c) = Len(c)  BY <1>1
<1>5. K!_rechunk(text) = Cut(past.changes + 1, text)  BY <1>2, <1>4 DEF Cut, CutRow, c
<1>6. \A stored : /\ K!New(text, stored).chunk_count = Len(c) /\ K!New(text, stored).text = text
                  /\ stored \in BOOLEAN => K!New(text, stored) \in K!KnowledgeDocument
  BY <1>1, <1>3, <1>4 DEF K!KnowledgeDocument
<1>7. QED  BY <1>5, <1>6 DEF c

\* A document that is new, which no other request is about.
LEMMA ChunkInserted ==
    ASSUME FilesInv, ChunkInv, NEW p \in Requests, NEW mine \in K!Request, mine.op = "none",
           request' = [request EXCEPT ![p] = mine], files' = files,
           NEW d \in Documents, NEW text \in Samples, NEW stored \in BOOLEAN, K!Insert(d, text, stored),
           \A q \in Requests \ {p} : request[q].op # "none" => request[q].document # d
    PROVE  ChunkInv'
<1> DEFINE row == K!New(text, stored)
           changes == past.changes + 1
           used == past.used \cup {d}
           new == Cut(changes, text)
<1>1. /\ past.changes < MaxChanges /\ documents' = [documents EXCEPT ![d] = row]
      /\ past' = [past EXCEPT !.changes = changes, !.used = used] /\ chunks' = [chunks EXCEPT ![d] = K!_rechunk(text)]
  BY Zenon DEF K!Insert
<1>2. row \in K!KnowledgeDocument /\ row.chunk_count = Len(K!chunk_text(text)) /\ row.text = text /\ row # null
  BY RechunkIs, ChunkConstants
<1>3. chunks' = [chunks EXCEPT ![d] = new]  BY <1>1, RechunkIs
<1>4. changes \in 0..MaxChanges /\ changes \in 1..MaxChanges /\ changes \in Nat /\ past.changes <= changes
  BY <1>1, ChunkNow, ChunkConstants
<1>5. new \subseteq K!KnowledgeChunk /\ \A r \in new : r.version = changes  BY <1>4, CutIs
<1>6. CutOf(row, new, changes)
  <2>1. changes \in 1..changes  BY <1>4
  <2>2. QED  BY <1>2, <2>1 DEF CutOf
<1> HIDE DEF row, new
<1>7. used \in SUBSET Documents  BY ChunkNow
<1> HIDE DEF changes, used
<1>8. past' \in K!Past /\ past'.changes = changes /\ past'.blank = past.blank
  BY <1>1, <1>4, <1>7, ChunkNow DEF K!Past
<1>9. /\ documents' \in [Documents -> K!KnowledgeDocument \cup {null}] /\ documents'[d] = row
      /\ \A x \in Documents \ {d} : documents'[x] = documents[x]
  BY <1>1, <1>2, ChunkNow
<1>10. /\ chunks' \in [Documents -> SUBSET K!KnowledgeChunk] /\ chunks'[d] = new
       /\ \A x \in Documents \ {d} : chunks'[x] = chunks[x]
  BY <1>3, <1>5, ChunkNow
<1>11. ASSUME NEW x \in Documents, NEW r \in chunks'[x]  PROVE r.version <= changes
  <2>1. CASE x = d  BY <1>4, <1>5, <1>10, <2>1
  <2>2. CASE x # d
    <3>1. r.version <= past.changes /\ r \in K!KnowledgeChunk  BY <1>10, <2>2, ChunkNow DEF ChunkInv
    <3>2. r.version \in Nat  BY <3>1, ChunkConstants DEF K!KnowledgeChunk
    <3>3. QED  BY <1>4, <3>1, <3>2, ChunkNow
  <2>3. QED  BY <2>1, <2>2
<1>12. ASSUME ~past.blank, NEW x \in Documents  PROVE CutOf(documents'[x], chunks'[x], changes)
  <2>1. CASE x = d  BY <1>6, <1>9, <1>10, <2>1
  <2>2. CASE x # d
    <3>1. CutOf(documents[x], chunks[x], past.changes)  BY <1>12 DEF ChunkInv
    <3>2. QED  BY <1>4, <1>9, <1>10, <2>2, <3>1, ChunkNow, CutOfLater
  <2>3. QED  BY <2>1, <2>2
<1>13. ASSUME ~past.blank, NEW q \in Requests \ {p}, request[q].op = "update"
       PROVE  AsRead(request[q], documents'[request[q].document], chunks'[request[q].document])
  <2>1. request[q].document \in Documents /\ request[q].document # d  BY <1>13 DEF ChunkInv
  <2>2. AsRead(request[q], documents[request[q].document], chunks[request[q].document])  BY <1>13 DEF ChunkInv
  <2>3. QED  BY <1>9, <1>10, <2>1, <2>2
<1>14. \A q \in Requests : WithWords(mine, request[q])  BY DEF WithWords
<1>15. ChunkSound(mine, p, documents', chunks', past')
  BY <1>4, <1>8, <1>9, <1>10, <1>11, <1>12, <1>13, <1>14 DEF ChunkSound
<1>16. files' \subseteq Documents  BY ChunkNow
<1>17. QED  BY <1>15, <1>16, ChunkAsked

LEMMA ChunkText == ASSUME FilesInv, ChunkInv, NEW p \in Requests, K!create_text(p)  PROVE ChunkInv'
<1>1. /\ request[p].op = "none" /\ request' = request /\ files' = files
      /\ \E d \in K!Unused, text \in K!Entered : K!Insert(d, text, FALSE)
  BY Zenon DEF K!create_text
<1>2. PICK d \in K!Unused, text \in K!Entered : K!Insert(d, text, FALSE)  BY <1>1
<1>3. d \in Documents /\ d \notin past.used /\ text \in Samples  BY FilesNew, FileConstants DEF K!Entered
<1>4. request[p] \in K!Request /\ request' = [request EXCEPT ![p] = request[p]]  BY <1>1, ChunkNow
<1>5. \A q \in Requests \ {p} : request[q].op # "none" => request[q].document # d  BY <1>3, ChunkNow
<1>6. QED  BY <1>1, <1>2, <1>3, <1>4, <1>5, ChunkInserted

LEMMA ChunkCreated == ASSUME FilesInv, ChunkInv, NEW p \in Requests, K!create_file(p)  PROVE ChunkInv'
<1> DEFINE d == request[p].document
           text == request[p].text
<1>1. /\ request[p].op = "upload" /\ K!Insert(d, text, TRUE)
      /\ request' = [request EXCEPT ![p] = K!Idle] /\ files' = files
  BY Zenon DEF K!create_file
<1>2. FileAsked(p, request, documents, files, past.used)  BY DEF FilesInv
<1>3. text \in Samples /\ \A q \in Requests \ {p} : request[q].op # "none" => request[q].document # d
  BY <1>1, <1>2 DEF FileAsked
<1>4. d \in Documents  BY <1>1, ChunkNow
<1> HIDE DEF d, text
<1>5. QED  BY <1>1, <1>3, <1>4, IdleIs, ChunkInserted

\* A request that begins, and changes no document.
LEMMA ChunkBegun ==
    ASSUME FilesInv, ChunkInv, NEW p \in Requests, NEW mine \in K!Request, request' = [request EXCEPT ![p] = mine],
           documents' = documents, chunks' = chunks, files' \subseteq Documents,
           past' \in K!Past, past'.changes = past.changes, past.blank => past'.blank,
           mine.op = "update" =>
             /\ mine.document \in Documents /\ mine.read \in K!KnowledgeDocument /\ mine.text \in Samples
             /\ \A v \in mine.chunks : v <= past.changes
             /\ AsRead(mine, documents[mine.document], chunks[mine.document]),
           ~past'.blank => \A q \in Requests \ {p} : WithWords(mine, request[q])
    PROVE  ChunkInv'
<1>1. /\ \A d \in Documents : \A row \in chunks[d] : row.version <= past.changes
      /\ ~past.blank =>
           /\ \A d \in Documents : CutOf(documents[d], chunks[d], past.changes)
           /\ \A q \in Requests : request[q].op = "update" =>
                AsRead(request[q], documents[request[q].document], chunks[request[q].document])
  BY DEF ChunkInv
<1>2. past.changes <= past'.changes  BY ChunkNow
<1>3. ChunkSound(mine, p, documents', chunks', past')  BY <1>1, <1>2, ChunkNow DEF ChunkSound
<1>4. QED  BY <1>3, ChunkAsked

LEMMA ChunkPut == ASSUME FilesInv, ChunkInv, NEW p \in Requests, K!PutFile(p)  PROVE ChunkInv'
<1>1. PICK d \in K!Unused, text \in K!Entered \ {K!Blank} :
        /\ files' = files \cup {d}
        /\ request' = [request EXCEPT ![p] = [K!Idle EXCEPT !.op = "upload", !.document = d, !.text = text]]
        /\ past' = [past EXCEPT !.used = @ \cup {d}]
  BY Zenon DEF K!PutFile
<1> DEFINE mine == [K!Idle EXCEPT !.op = "upload", !.document = d, !.text = text]
           used == past.used \cup {d}
<1>2. documents' = documents /\ chunks' = chunks  BY DEF K!PutFile
<1>3. d \in Documents /\ d \notin past.used /\ text \in Samples  BY FilesNew, FileConstants DEF K!Entered
<1>4. mine \in K!Request /\ mine.op = "upload" /\ mine.document = d  BY <1>3 DEF K!Idle, K!Request
<1> HIDE DEF mine
<1>5. request' = [request EXCEPT ![p] = mine] /\ past' = [past EXCEPT !.used = used]  BY <1>1 DEF mine
<1>6. used \in SUBSET Documents  BY <1>3, ChunkNow
<1> HIDE DEF used
<1>7. past' \in K!Past /\ past'.changes = past.changes /\ past'.blank = past.blank  BY <1>5, <1>6, ChunkNow DEF K!Past
<1>8. files' \subseteq Documents  BY <1>1, <1>3, ChunkNow
<1>9. \A q \in Requests \ {p} : WithWords(mine, request[q])  BY <1>3, <1>4, ChunkNow DEF WithWords
<1>10. QED  BY <1>2, <1>4, <1>5, <1>7, <1>8, <1>9, ChunkBegun

LEMMA ChunkLoaded ==
    ASSUME FilesInv, ChunkInv, NEW p \in Requests, NEW op \in {"update", "delete"}, NEW d \in Documents,
           NEW text \in Samples \cup {null}, op = "update" => text \in Samples, K!Load(p, op, d, text)
    PROVE  ChunkInv'
<1> DEFINE versions == Versions(chunks[d])
           mine == [op |-> op, document |-> d, read |-> documents[d], chunks |-> versions, text |-> text]
           blank == past.blank \/ \E o \in Requests : request[o].document = d /\ K!Blank \in {text, request[o].text}
<1>1. /\ documents[d] # null /\ documents' = documents /\ chunks' = chunks /\ files' = files
      /\ request' = [request EXCEPT ![p] = mine] /\ past' = [past EXCEPT !.blank = blank]
  BY Zenon DEF K!Load, Versions
<1>2. documents[d] \in K!KnowledgeDocument /\ chunks[d] \subseteq K!KnowledgeChunk  BY <1>1, ChunkNow
<1>3. versions \subseteq Nat /\ \A v \in versions : v <= past.changes
  <2>1. \A row \in chunks[d] : row.version \in Nat /\ row.version <= past.changes
    BY <1>2, ChunkConstants DEF ChunkInv, K!KnowledgeChunk
  <2>2. QED  BY <2>1 DEF Versions
<1> HIDE DEF versions
<1>4. /\ mine \in K!Request /\ mine.op = op /\ mine.document = d /\ mine.read = documents[d]
      /\ mine.chunks = versions /\ mine.text = text
  BY <1>2, <1>3 DEF K!Request
<1> HIDE DEF mine
<1>5. AsRead(mine, documents[d], chunks[d])
  <2>1. Versions(chunks[d]) \subseteq mine.chunks  BY <1>4 DEF versions
  <2>2. QED  BY <1>4, <2>1 DEF AsRead
<1>6. blank \in BOOLEAN /\ (past.blank => blank)  BY ChunkNow
<1>7. ~blank => \A q \in Requests \ {p} : WithWords(mine, request[q])  BY <1>4 DEF WithWords
<1> HIDE DEF blank
<1>8. past' \in K!Past /\ past'.changes = past.changes /\ past'.blank = blank  BY <1>1, <1>6, ChunkNow DEF K!Past
<1>9. files' \subseteq Documents  BY <1>1, ChunkNow
<1>10. QED  BY <1>1, <1>2, <1>3, <1>4, <1>5, <1>6, <1>7, <1>8, <1>9, ChunkBegun

LEMMA ChunkRemoved == ASSUME FilesInv, ChunkInv, NEW p \in Requests, K!RemoveFile(p)  PROVE ChunkInv'
<1>1. /\ files' = files \ {request[p].document} /\ request' = [request EXCEPT ![p] = K!Idle]
      /\ documents' = documents /\ chunks' = chunks /\ past' = past
  BY Zenon DEF K!RemoveFile
<1>2. files' \subseteq Documents /\ past.changes <= past'.changes  BY <1>1, ChunkNow
<1>3. QED  BY <1>1, <1>2, ChunkNow, ChunkOver

LEMMA ChunkBroken == ASSUME FilesInv, ChunkInv, NEW p \in Requests, K!Broken(p)  PROVE ChunkInv'
<1> DEFINE troubles == past.troubles + 1
<1>1. /\ past.troubles < MaxTroubles /\ request' = [request EXCEPT ![p] = K!Idle]
      /\ past' = [past EXCEPT !.troubles = troubles] /\ documents' = documents /\ chunks' = chunks /\ files' = files
  BY Zenon DEF K!Broken
<1>2. troubles \in 0..MaxTroubles  BY <1>1, ChunkNow, ChunkConstants DEF K!Past
<1> HIDE DEF troubles
<1>3. past' \in K!Past /\ past'.blank = past.blank /\ past'.changes = past.changes
  BY <1>1, <1>2, ChunkNow DEF K!Past
<1>4. files' \subseteq Documents /\ past.changes <= past'.changes  BY <1>1, <1>3, ChunkNow
<1>5. QED  BY <1>1, <1>3, <1>4, ChunkOver

LEMMA ChunkDeleted == ASSUME FilesInv, ChunkInv, NEW p \in Requests, K!delete(p)  PROVE ChunkInv'
<1> DEFINE r == request[p]
           d == r.document
           gone == [r EXCEPT !.op = "remove_file"]
           mine == IF r.read.stored THEN gone ELSE K!Idle
<1>1. /\ r.op = "delete" /\ documents' = [documents EXCEPT ![d] = null] /\ chunks' = [chunks EXCEPT ![d] = {}]
      /\ request' = [request EXCEPT ![p] = mine] /\ files' = files /\ past' = past
  BY Zenon DEF K!delete
<1>2. r \in K!Request /\ d \in Documents  BY <1>1, ChunkNow
<1>3. mine \in K!Request /\ mine.op # "update" /\ (mine.op # "none" => mine.document = d /\ mine.text = r.text)
  <2>1. gone \in K!Request /\ gone.op = "remove_file" /\ gone.document = d /\ gone.text = r.text
    BY <1>2 DEF K!Request
  <2> HIDE DEF gone
  <2>2. QED  BY <2>1, IdleIs
<1> HIDE DEF mine
<1>4. \A q \in Requests \ {p} : ~past.blank => WithWords(mine, request[q])
  <2>1. \A q \in Requests \ {p} : ~past.blank => WithWords(r, request[q])  BY DEF ChunkInv
  <2>2. QED  BY <1>1, <1>3, <2>1 DEF WithWords
<1> HIDE DEF d, r
<1>5. /\ documents' \in [Documents -> K!KnowledgeDocument \cup {null}] /\ documents'[d] = null
      /\ chunks' \in [Documents -> SUBSET K!KnowledgeChunk] /\ chunks'[d] = {}
      /\ \A x \in Documents \ {d} : documents'[x] = documents[x] /\ chunks'[x] = chunks[x]
  BY <1>1, <1>2, ChunkNow
<1>6. \A x \in Documents : \A row \in chunks'[x] : row.version <= past.changes  BY <1>5 DEF ChunkInv
<1>7. ASSUME ~past.blank, NEW x \in Documents  PROVE CutOf(documents'[x], chunks'[x], past.changes)
  <2>1. CASE x = d  BY <1>5, <2>1 DEF CutOf
  <2>2. CASE x # d
    <3>1. CutOf(documents[x], chunks[x], past.changes)  BY <1>7 DEF ChunkInv
    <3>2. QED  BY <1>5, <2>2, <3>1
  <2>3. QED  BY <2>1, <2>2
<1>8. ASSUME ~past.blank, NEW q \in Requests \ {p}, request[q].op = "update"
      PROVE  AsRead(request[q], documents'[request[q].document], chunks'[request[q].document])
  <2>1. /\ request[q].document \in Documents
        /\ AsRead(request[q], documents[request[q].document], chunks[request[q].document])
    BY <1>8 DEF ChunkInv
  <2>2. CASE request[q].document = d  BY <1>5, <2>2 DEF AsRead
  <2>3. CASE request[q].document # d  BY <1>5, <2>1, <2>3
  <2>4. QED  BY <2>2, <2>3
<1>9. past.changes <= past'.changes /\ files' \subseteq Documents  BY <1>1, ChunkNow
<1>10. ChunkSound(mine, p, documents', chunks', past')
  BY <1>1, <1>3, <1>4, <1>5, <1>6, <1>7, <1>8, <1>9, ChunkNow DEF ChunkSound
<1>11. QED  BY <1>1, <1>9, <1>10, ChunkAsked

\* A place that is taken: who has not loaded the chunks of a document does not get past them.
LEMMA ChunkPlace ==
    ASSUME NEW v, NEW w, v # w, NEW text \in Samples, NEW new \in Samples, NEW loaded, NEW rows, rows = Cut(v, text),
           Versions(rows) \subseteq loaded \/ new # K!Blank,
           K!UniquePosition({row \in rows : row.version \notin loaded} \cup Cut(w, new))
    PROVE  Versions(rows) \subseteq loaded /\ {row \in rows : row.version \notin loaded} = {}
<1> DEFINE kept == {row \in rows : row.version \notin loaded}
           a == Len(K!chunk_text(text))
           b == Len(K!chunk_text(new))
<1>1. /\ \A row \in rows : row.version = v
      /\ \A k \in 1..a : \E row \in rows : row.position = k - 1 /\ row.version = v
      /\ \A row \in rows : row.position \in 0..(a - 1)
      /\ \A k \in 1..b : \E row \in Cut(w, new) : row.position = k - 1 /\ row.version = w
  BY CutIs
<1>2. a \in Nat /\ b \in Nat /\ (new # K!Blank => b # 0)  BY ChunkConstants
<1>3. \A one, other \in kept \cup Cut(w, new) : one.position = other.position => one = other
  BY DEF K!UniquePosition
<1> HIDE DEF a, b
<1>4. Versions(rows) \subseteq loaded
  <2> SUFFICES ASSUME ~(Versions(rows) \subseteq loaded)  PROVE FALSE
    OBVIOUS
  <2>1. PICK row \in rows : row.version \notin loaded  BY DEF Versions
  <2>2. v \notin loaded /\ 1 \in 1..a
    <3>1. row.version = v /\ row.position \in 0..(a - 1)  BY <1>1
    <3>2. QED  BY <1>2, <2>1, <3>1
  <2>3. PICK one \in rows : one.position = 1 - 1 /\ one.version = v  BY <1>1, <2>2
  <2>4. 1 \in 1..b  BY <1>2
  <2>5. PICK other \in Cut(w, new) : other.position = 1 - 1 /\ other.version = w  BY <1>1, <2>4
  <2>6. one \in kept  BY <2>2, <2>3
  <2>7. one = other  BY <1>3, <2>3, <2>5, <2>6
  <2>8. QED  BY <2>3, <2>5, <2>7
<1>5. \A row \in rows : row.version \in loaded  BY <1>4 DEF Versions
<1>6. QED  BY <1>4, <1>5

LEMMA ChunkUpdated == ASSUME FilesInv, ChunkInv, NEW p \in Requests, K!update(p)  PROVE ChunkInv'
<1> DEFINE r == request[p]
           d == r.document
           kept == {row \in chunks[d] : row.version \notin r.chunks}
           new == Cut(past.changes + 1, r.text)
           rows == kept \cup new
           written == K!New(r.text, FALSE)
           old == documents[d]
           text == IF written.text # r.read.text THEN written.text ELSE old.text
           count == IF written.chunk_count # r.read.chunk_count THEN written.chunk_count ELSE old.chunk_count
           row == [old EXCEPT !.text = text, !.chunk_count = count]
           changes == past.changes + 1
           accepted == documents[d] # null /\ K!UniquePosition(kept \cup K!_rechunk(r.text))
<1>1. /\ r.op = "update" /\ past.changes < MaxChanges /\ past' = [past EXCEPT !.changes = changes]
      /\ documents' = IF accepted THEN [documents EXCEPT ![d] = K!Changed(documents[d], r.read, written)] ELSE documents
      /\ chunks' = IF accepted THEN [chunks EXCEPT ![d] = kept \cup K!_rechunk(r.text)] ELSE chunks
      /\ request' = [request EXCEPT ![p] = K!Idle] /\ files' = files
  BY Zenon DEF K!update
<1>2. /\ d \in Documents /\ r.read \in K!KnowledgeDocument /\ r.text \in Samples
      /\ \A v \in r.chunks : v <= past.changes
  BY <1>1 DEF ChunkInv
<1>3. K!_rechunk(r.text) = new  BY <1>2, RechunkIs
<1>4. K!Changed(documents[d], r.read, written) = row  BY Zenon DEF K!Changed
<1>5. \/ documents' = documents /\ chunks' = chunks
      \/ /\ documents[d] # null /\ K!UniquePosition(rows)
         /\ documents' = [documents EXCEPT ![d] = row] /\ chunks' = [chunks EXCEPT ![d] = rows]
  <2> HIDE DEF row, rows, kept, d, r, written, new
  <2>1. CASE accepted
    <3>1. K!Changed(documents[d], r.read, written) = row /\ kept \cup K!_rechunk(r.text) = rows  BY <1>3, <1>4 DEF rows
    <3>2. QED  BY <1>1, <2>1, <3>1
  <2>2. CASE ~accepted  BY <1>1, <2>2
  <2>3. QED  BY <2>1, <2>2
<1> HIDE DEF accepted
<1>6. /\ changes \in 0..MaxChanges /\ changes \in 1..MaxChanges /\ changes \in Nat /\ past.changes <= changes
      /\ changes \in 1..changes /\ past.changes \in Nat /\ changes > past.changes
  BY <1>1, ChunkNow, ChunkConstants
<1>7. new \subseteq K!KnowledgeChunk /\ \A x \in new : x.version = changes  BY <1>2, <1>6, CutIs
<1>8. /\ written.text = r.text /\ written.chunk_count = Len(K!chunk_text(r.text)) /\ written \in K!KnowledgeDocument
  BY <1>2, RechunkIs
<1> HIDE DEF written, new, changes
<1>9. past' \in K!Past /\ past'.changes = changes /\ past'.blank = past.blank
  BY <1>1, <1>6, ChunkNow DEF K!Past
<1>10. files' \subseteq Documents /\ past.changes <= past'.changes  BY <1>1, <1>6, <1>9, ChunkNow
<1>11. CASE documents' = documents /\ chunks' = chunks  BY <1>1, <1>9, <1>10, <1>11, ChunkOver
<1>12. CASE /\ documents[d] # null /\ K!UniquePosition(rows)
            /\ documents' = [documents EXCEPT ![d] = row] /\ chunks' = [chunks EXCEPT ![d] = rows]
  <2>1. old \in K!KnowledgeDocument /\ chunks[d] \subseteq K!KnowledgeChunk  BY <1>2, <1>12, ChunkNow
  <2>2. row \in K!KnowledgeDocument /\ row.text = text /\ row.chunk_count = count /\ row # null
    <3>1. text \in Samples /\ count \in Nat  BY <1>8, <2>1 DEF K!KnowledgeDocument
    <3> HIDE DEF text, count, old
    <3>2. row \in K!KnowledgeDocument /\ row.text = text /\ row.chunk_count = count
      BY <2>1, <3>1 DEF K!KnowledgeDocument
    <3> HIDE DEF row
    <3>3. QED  BY <3>2, ChunkConstants
  <2> HIDE DEF row
  <2>3. rows \subseteq K!KnowledgeChunk /\ \A x \in rows : x.version <= changes
    <3>1. \A x \in kept : x \in K!KnowledgeChunk /\ x.version <= past.changes  BY <1>2, <2>1 DEF ChunkInv
    <3>2. \A x \in kept : x.version \in Nat  BY <3>1, ChunkConstants DEF K!KnowledgeChunk
    <3> HIDE DEF kept
    <3>3. QED  BY <1>6, <1>7, <3>1, <3>2
  <2>4. ASSUME ~past.blank
        PROVE  kept = {} /\ text = r.text /\ count = Len(K!chunk_text(r.text))
    <3>1. CutOf(documents[d], chunks[d], past.changes) /\ AsRead(r, documents[d], chunks[d])
      BY <1>1, <1>2, <2>4 DEF ChunkInv
    <3>2. PICK v \in 1..past.changes : chunks[d] = Cut(v, old.text)  BY <1>12, <3>1 DEF CutOf
    <3>3. Versions(chunks[d]) \subseteq r.chunks \/ r.text # K!Blank  BY <1>1, <1>12, <3>1 DEF AsRead
    <3>4. v # changes /\ old.text \in Samples  BY <1>6, <2>1 DEF K!KnowledgeDocument
    <3>5. K!UniquePosition({x \in chunks[d] : x.version \notin r.chunks} \cup Cut(changes, r.text))
      BY <1>12 DEF new, changes
    <3>6. Versions(chunks[d]) \subseteq r.chunks /\ kept = {}
      BY <1>2, <3>2, <3>3, <3>4, <3>5, ChunkPlace
    <3>7. old.text = r.read.text /\ old.chunk_count = r.read.chunk_count  BY <1>1, <1>12, <3>1, <3>6 DEF AsRead
    <3>8. QED  BY <1>8, <3>6, <3>7
  <2> HIDE DEF kept, text, count
  <2>5. ~past.blank => rows = new /\ CutOf(row, rows, changes)
    <3> SUFFICES ASSUME ~past.blank  PROVE rows = new /\ CutOf(row, rows, changes)
      OBVIOUS
    <3>1. rows = new /\ row.text = r.text /\ row.chunk_count = Len(K!chunk_text(r.text))  BY <2>2, <2>4
    <3>2. new = Cut(changes, r.text)  BY DEF new, changes
    <3>3. QED  BY <1>6, <2>2, <3>1, <3>2 DEF CutOf
  <2>6. ASSUME ~past.blank, NEW q \in Requests \ {p}, request[q].op = "update", request[q].document = d
        PROVE  AsRead(request[q], row, rows)
    <3>1. WithWords(r, request[q])  BY <2>6 DEF ChunkInv
    <3>2. r.text # K!Blank /\ request[q].text # K!Blank  BY <1>1, <2>6, <3>1 DEF WithWords
    <3>3. 1 \in 1..Len(K!chunk_text(r.text))  BY <1>2, <3>2, ChunkConstants
    <3>4. new = Cut(changes, r.text)  BY DEF new, changes
    <3>5. PICK x \in new : x.position = 1 - 1 /\ x.version = changes  BY <1>2, <3>3, <3>4, CutIs
    <3>6. changes \in Versions(rows)  BY <2>5, <2>6, <3>5 DEF Versions
    <3>7. \A v \in request[q].chunks : v <= past.changes  BY <2>6 DEF ChunkInv
    <3>8. changes \notin request[q].chunks  BY <1>6, <3>7
    <3>9. QED  BY <3>2, <3>6, <3>8 DEF AsRead
  <2> HIDE DEF rows
  <2>7. /\ documents' \in [Documents -> K!KnowledgeDocument \cup {null}] /\ documents'[d] = row
        /\ \A x \in Documents \ {d} : documents'[x] = documents[x]
    BY <1>2, <1>12, <2>2, ChunkNow
  <2>8. /\ chunks' \in [Documents -> SUBSET K!KnowledgeChunk] /\ chunks'[d] = rows
        /\ \A x \in Documents \ {d} : chunks'[x] = chunks[x]
    BY <1>2, <1>12, <2>3, ChunkNow
  <2> HIDE DEF d, r, old
  <2>9. ASSUME NEW x \in Documents, NEW c \in chunks'[x]  PROVE c.version <= changes
    <3>1. CASE x = d  BY <2>3, <2>8, <3>1
    <3>2. CASE x # d
      <4>1. c.version <= past.changes /\ c \in K!KnowledgeChunk  BY <2>8, <3>2, ChunkNow DEF ChunkInv
      <4>2. c.version \in Nat  BY <4>1, ChunkConstants DEF K!KnowledgeChunk
      <4>3. QED  BY <1>6, <4>1, <4>2
    <3>3. QED  BY <3>1, <3>2
  <2>10. ASSUME ~past.blank, NEW x \in Documents  PROVE CutOf(documents'[x], chunks'[x], changes)
    <3>1. CASE x = d  BY <2>5, <2>7, <2>8, <2>10, <3>1
    <3>2. CASE x # d
      <4>1. CutOf(documents[x], chunks[x], past.changes)  BY <2>10 DEF ChunkInv
      <4>2. QED  BY <1>6, <2>7, <2>8, <3>2, <4>1, CutOfLater
    <3>3. QED  BY <3>1, <3>2
  <2>11. ASSUME ~past.blank, NEW q \in Requests \ {p}, request[q].op = "update"
         PROVE  AsRead(request[q], documents'[request[q].document], chunks'[request[q].document])
    <3>1. /\ request[q].document \in Documents
          /\ AsRead(request[q], documents[request[q].document], chunks[request[q].document])
      BY <2>11 DEF ChunkInv
    <3>2. CASE request[q].document = d  BY <2>6, <2>7, <2>8, <2>11, <3>2
    <3>3. CASE request[q].document # d  BY <2>7, <2>8, <3>1, <3>3
    <3>4. QED  BY <3>2, <3>3
  <2>12. \A q \in Requests : WithWords(K!Idle, request[q])  BY IdleIs DEF WithWords
  <2>13. ChunkSound(K!Idle, p, documents', chunks', past')
    BY <1>6, <1>9, <2>7, <2>8, <2>9, <2>10, <2>11, <2>12, IdleIs DEF ChunkSound
  <2>14. QED  BY <1>1, <1>10, <2>13, ChunkAsked
<1>13. QED  BY <1>5, <1>11, <1>12

LEMMA ChunkNext == ASSUME FilesInv, ChunkInv, K!Next  PROVE ChunkInv'
<1>1. PICK p \in Requests :
        \/ K!create_text(p) \/ K!PutFile(p) \/ K!create_file(p)
        \/ K!BeginUpdate(p) \/ K!update(p)
        \/ K!BeginDelete(p) \/ K!delete(p) \/ K!RemoveFile(p) \/ K!Broken(p)
  BY Zenon DEF K!Next
<1>2. CASE K!BeginUpdate(p)
  <2>1. PICK d \in Documents, text \in Texts : K!Load(p, "update", d, text)  BY <1>2, Zenon DEF K!BeginUpdate
  <2>2. text \in Samples  BY ChunkConstants
  <2>3. QED  BY <2>1, <2>2, ChunkLoaded
<1>3. CASE K!BeginDelete(p)
  <2>1. PICK d \in Documents : K!Load(p, "delete", d, null)  BY <1>3, Zenon DEF K!BeginDelete
  <2>2. QED  BY <2>1, ChunkLoaded
<1>4. QED  BY <1>1, <1>2, <1>3, ChunkText, ChunkPut, ChunkCreated, ChunkUpdated, ChunkDeleted, ChunkRemoved, ChunkBroken

\* What is searched of a document is what it shows: two requests replace its chunks at once, and the one
\* that has not loaded what the other has written is stopped at a place that is taken
\* (knowledge/service.py); unless a text without a word, which takes no place, met another change.
THEOREM ChunksStayOfText == MCSpec => [](part = "knowledge" => K!TypeOK /\ K!ChunksAreOfText)
<1> DEFINE Inv == part = "knowledge" => FilesInv /\ ChunkInv
<1>1. MCInit => Inv
  <2> SUFFICES ASSUME MCInit, part = "knowledge"  PROVE FilesInv /\ ChunkInv
    OBVIOUS
  <2>1. K!Init  BY Zenon DEF MCInit
  <2>2. QED  BY <2>1, FilesInit, ChunkInit
<1>2. Inv /\ [MCNext]_all_vars => Inv'
  <2> SUFFICES ASSUME Inv, [MCNext]_all_vars, part' = "knowledge"  PROVE FilesInv' /\ ChunkInv'
    OBVIOUS
  <2>1. CASE NextKnowledge
    <3>1. part = "knowledge" /\ K!Next  BY <2>1, Zenon DEF NextKnowledge
    <3>2. QED  BY <3>1, FilesNext, ChunkNext
  <2>2. CASE NextOrganization \/ NextLimiter \/ NextThread \/ NextGrants \/ NextSeed
    <3>1. part' = part /\ part # "knowledge"
      BY <2>2 DEF NextOrganization, NextLimiter, NextThread, NextGrants, NextSeed
    <3>2. QED  BY <3>1
  <2>3. CASE UNCHANGED all_vars
    <3>1. /\ part' = part /\ documents' = documents /\ chunks' = chunks /\ files' = files
          /\ request' = request /\ past' = past
      BY <2>3 DEF all_vars, OfKnowledge
    <3>2. QED  BY <3>1 DEF FilesInv, ChunkInv, ChunksTyped
  <2>4. QED  BY <2>1, <2>2, <2>3, Zenon DEF MCNext
<1>3. Inv => (part = "knowledge" => K!TypeOK /\ K!ChunksAreOfText)  BY ChunksHold
<1>4. QED  BY <1>1, <1>2, <1>3, PTL DEF MCSpec

\* What is searched of a document is what it shows, and its file is there as long as it is; and the demo
\* data are there once (knowledge/service.py, demo/seed.py).
THEOREM ContentStaysKept == MCSpec => []ContentIsKept
<1>1. (part = "knowledge" => K!TypeOK /\ K!ChunksAreOfText) /\ (part = "knowledge" => K!FilesAreThere)
        /\ (part = "seed" => D!SeedIsOnce) => ContentIsKept
  BY Zenon DEF ContentIsKept, K!KnowledgeIsKept
<1>2. QED  BY <1>1, ChunksStayOfText, FilesStayThere, SeedStaysOnce, PTL
=============================================================================
