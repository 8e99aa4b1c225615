---------------------------- MODULE ModelGateway ----------------------------
(***************************************************************************)
(* The calls of one role of the model gateway (ai/providers/               *)
(* openai_compatible.py, ai/structured.py) and the circuit breaker they    *)
(* share (ai/circuit_breaker.py).                                          *)
(*                                                                         *)
(* The callers are coroutines of one process.  A step goes from one await  *)
(* to the next: a call is admitted and its request sent at once, and so is *)
(* the request that follows an answer.                                     *)
(***************************************************************************)
EXTENDS Integers, FiniteSets

CONSTANTS Callers,
          Kinds,          \* what they call: "structured" (complete_structured), "stream" (stream_chat)
          Cancels,        \* calls may be cancelled
          failure_threshold, recovery_timeout_s, half_open_max_calls,
          max_attempts,   \* RetryPolicy
          max_repairs     \* of complete_structured

ASSUME ParametersOK ==
    /\ IsFiniteSet(Callers) /\ Kinds \subseteq {"structured", "stream"} /\ Cancels \in BOOLEAN
    /\ {failure_threshold, recovery_timeout_s, half_open_max_calls, max_attempts} \subseteq Nat \ {0}
    /\ max_repairs \in Nat

VARIABLES breaker,                  \* CircuitBreaker
          calls,                    \* calls[c]: the call of a caller
          json_schema_unsupported,  \* OpenAICompatibleLLM._json_schema_unsupported
          provider                  \* up, down, or dying: headers come and bodies do not

vars == <<breaker, calls, json_schema_unsupported, provider>>

\* age: the time since it was opened; half_open_calls: the probes that were let through.
Breaker == [state: {"closed", "open", "half_open"}, failures: 0..failure_threshold,
            age: 0..recovery_timeout_s, half_open_calls: 0..half_open_max_calls]

\* sent: the requests of the call so far; probe: it was let through by the breaker in its
\* present half-open period.
Call == [pc: {"idle", "send", "sleep", "read"}, kind: Kinds \cup {"none"},
         format: {"json_schema", "json_object"}, attempt: Nat, repairs: Nat, sent: Nat, probe: BOOLEAN]

TypeOK ==
    /\ breaker \in Breaker
    /\ calls \in [Callers -> Call]
    /\ json_schema_unsupported \in BOOLEAN
    /\ provider \in {"up", "down", "dying"}

Closed == [state |-> "closed", failures |-> 0, age |-> 0, half_open_calls |-> 0]
Idle == [pc |-> "idle", kind |-> "none", format |-> "json_object",
         attempt |-> 0, repairs |-> 0, sent |-> 0, probe |-> FALSE]

Init ==
    /\ breaker = Closed
    /\ calls = [c \in Callers |-> Idle]
    /\ json_schema_unsupported = FALSE
    /\ provider = "up"
-----------------------------------------------------------------------------
(* CircuitBreaker. *)

\* The property `state': the pause is over.
Observed(b) ==
    IF b.state = "open" /\ b.age >= recovery_timeout_s
    THEN [b EXCEPT !.state = "half_open", !.half_open_calls = 0]
    ELSE b

Allowed(b) == b.state = "closed" \/ (b.state = "half_open" /\ b.half_open_calls < half_open_max_calls)
Taken(b) == IF b.state = "half_open" THEN [b EXCEPT !.half_open_calls = @ + 1] ELSE b

\* Variant: a success forgets the failures and does not close.
StaysOpen(b) == [b EXCEPT !.failures = 0, !.half_open_calls = 0]
record_success(b) == [b EXCEPT !.state = "closed", !.failures = 0, !.half_open_calls = 0]

\* The failures in a row are only compared with the threshold: they are counted up to it.
Counted(b) == IF b.failures < failure_threshold THEN b.failures + 1 ELSE b.failures

record_failure(b) ==
    IF b.state = "half_open" \/ Counted(b) >= failure_threshold
    THEN [state |-> "open", failures |-> Counted(b), age |-> 0, half_open_calls |-> 0]
    ELSE [b EXCEPT !.failures = Counted(b)]

\* Variant: the slot of a cancelled probe is kept.
KeepSlot(b) == b
release_probe(b) ==
    IF b.state = "half_open" /\ b.half_open_calls > 0 THEN [b EXCEPT !.half_open_calls = @ - 1] ELSE b
-----------------------------------------------------------------------------
(* The calls. *)

\* A caller goes on with `call'; the probes are over when the breaker is not half-open.
Go(c, call, b) ==
    /\ breaker' = b
    /\ calls' = [d \in Callers |->
                    LET now == IF d = c THEN call ELSE calls[d]
                    IN [now EXCEPT !.probe = @ /\ b.state = "half_open"]]

\* The next request of a call: the breaker is closed by the answer to the one before.
Again(call) == [call EXCEPT !.pc = "send", !.attempt = 1, !.sent = @ + 1]

_effective_format == IF json_schema_unsupported THEN "json_object" ELSE "json_schema"

\* _guarded: a call is let through, or fails at once.
Begin(c, kind) ==
    LET b == Observed(breaker)
    IN /\ calls[c].pc = "idle"
       /\ IF Allowed(b)
          THEN Go(c, [Idle EXCEPT !.pc = "send", !.kind = kind, !.attempt = 1, !.sent = 1,
                                  !.format = IF kind = "structured" THEN _effective_format ELSE @,
                                  !.probe = b.state = "half_open"], Taken(b))
          ELSE Go(c, Idle, b)
       /\ UNCHANGED <<json_schema_unsupported, provider>>

\* No connection, a timeout, 429 or 5xx: another attempt, or the call has failed.
Unavailable(c) ==
    /\ calls[c].pc = "send"
    /\ provider = "down" \/ (provider = "dying" /\ calls[c].kind # "stream")
    /\ IF calls[c].attempt < max_attempts
       THEN Go(c, [calls[c] EXCEPT !.pc = "sleep"], breaker)
       ELSE Go(c, Idle, record_failure(breaker))
    /\ UNCHANGED <<json_schema_unsupported, provider>>

Retry(c) ==
    /\ calls[c].pc = "sleep"
    /\ Go(c, [calls[c] EXCEPT !.pc = "send", !.attempt = @ + 1, !.sent = @ + 1], breaker)
    /\ UNCHANGED <<json_schema_unsupported, provider>>

\* Any other 4xx: the provider is there.
Refused(c) ==
    /\ calls[c].pc = "send" /\ provider = "up"
    /\ Go(c, Idle, record_success(breaker))
    /\ UNCHANGED <<json_schema_unsupported, provider>>

\* Variant: what was learned is forgotten.
NotLearned == UNCHANGED json_schema_unsupported
Learned == json_schema_unsupported' = TRUE

\* 400 because of the format: the same request with a simpler one.
chat_fallback(c) ==
    /\ calls[c].pc = "send" /\ provider = "up" /\ calls[c].format = "json_schema"
    /\ Learned
    /\ Go(c, [Again(calls[c]) EXCEPT !.format = "json_object"], record_success(breaker))
    /\ UNCHANGED provider

\* An answer that can be used, or the headers of a stream.
Answered(c) ==
    /\ calls[c].pc = "send"
    /\ provider = "up" \/ (provider = "dying" /\ calls[c].kind = "stream")
    /\ Go(c, IF calls[c].kind = "stream" THEN [calls[c] EXCEPT !.pc = "read"] ELSE Idle,
             record_success(breaker))
    /\ UNCHANGED <<json_schema_unsupported, provider>>

\* complete_structured: the answer is not what the schema asks for; it is sent back, or the call fails.
Invalid(c) ==
    /\ calls[c].pc = "send" /\ provider = "up" /\ calls[c].kind = "structured"
    /\ Go(c, IF calls[c].repairs < max_repairs
             THEN [Again(calls[c]) EXCEPT !.repairs = @ + 1, !.format = _effective_format]
             ELSE Idle,
             record_success(breaker))
    /\ UNCHANGED <<json_schema_unsupported, provider>>

\* The stream ends, or it breaks off.
StreamEnds(c) ==
    /\ calls[c].pc = "read"
    /\ Go(c, Idle, IF provider = "up" THEN breaker ELSE record_failure(breaker))
    /\ UNCHANGED <<json_schema_unsupported, provider>>

Cancel(c) ==
    /\ Cancels /\ calls[c].pc # "idle"
    /\ Go(c, Idle, IF calls[c].pc = "read" THEN breaker ELSE release_probe(breaker))
    /\ UNCHANGED <<json_schema_unsupported, provider>>

Change ==
    /\ provider' \in {"up", "down", "dying"} \ {provider}
    /\ UNCHANGED <<breaker, calls, json_schema_unsupported>>

Tick ==
    /\ breaker.state = "open" /\ breaker.age < recovery_timeout_s
    /\ breaker' = [breaker EXCEPT !.age = @ + 1]
    /\ UNCHANGED <<calls, json_schema_unsupported, provider>>
-----------------------------------------------------------------------------
Reply(c) ==
    \/ Unavailable(c) \/ Refused(c) \/ chat_fallback(c) \/ Answered(c) \/ Invalid(c) \/ StreamEnds(c)

Next ==
    \/ \E c \in Callers :
         \/ \E kind \in Kinds : Begin(c, kind)
         \/ Unavailable(c) \/ Retry(c) \/ Refused(c) \/ chat_fallback(c) \/ Answered(c)
         \/ Invalid(c) \/ StreamEnds(c) \/ Cancel(c)
    \/ Change \/ Tick

Spec == Init /\ [][Next]_vars

\* A call that ends by itself, with an answer or a failure.
Ends(c) == Reply(c) /\ calls'[c].pc = "idle"

\* The role is called again and again, requests time out, and not every call is cancelled.
FairSpec ==
    /\ Spec
    /\ WF_vars(Tick)
    /\ \A c \in Callers :
         /\ WF_vars(\E kind \in Kinds : Begin(c, kind))
         /\ SF_vars(Reply(c)) /\ SF_vars(Retry(c)) /\ SF_vars(Ends(c))
-----------------------------------------------------------------------------
(* Correctness. *)

Busy == {c \in Callers : calls[c].pc # "idle"}

\* The slots of a half-open breaker are taken by calls that will still report: it is never the case
\* that everybody is refused and nobody can close or open it (circuit_breaker.py, release_probe).
NotJammed ==
    breaker.state = "half_open" /\ breaker.half_open_calls = half_open_max_calls => Busy # {}

\* A closed breaker has seen fewer failures in a row than open it.
ClosedBelowThreshold == breaker.state = "closed" => breaker.failures < failure_threshold

\* One structured completion costs at most so many requests, whatever is answered: the simpler
\* format is found out once, not once per repair (OpenAICompatibleLLM.chat, complete_structured).
RequestsBounded == \A c \in Callers : calls[c].sent <= (max_repairs + 2) * max_attempts

\* When the provider has come back the role comes back.
Recovers == <>[](provider = "up") => []<>(breaker.state = "closed")

\* When the provider is gone the breaker opens.
Opens == <>[](provider = "down") => <>(breaker.state = "open")

\* The breaker follows the provider, both ways (circuit_breaker.py: open after so many failures in a
\* row, closed after a probe that succeeds).
FollowsProvider == Recovers /\ Opens

(* Properties the repository states and the code does not have. *)

\* A half-open breaker lets one probe through (circuit_breaker.py:5).
OneProbe == Cardinality({c \in Callers : calls[c].probe}) <= half_open_max_calls

\* A provider that sends headers and no bodies opens the breaker too (openai_compatible.py:193).
DyingOpens == <>[](provider = "dying") => <>(breaker.state = "open")
=============================================================================
