----------------------------- MODULE RateLimiter -----------------------------
(***************************************************************************)
(* The sliding window of core/rate_limit.py: the calls counted of each     *)
(* key, with the protection of the memory against too many keys, and the   *)
(* two ways it is used: a login counts every try and forgets them when it  *)
(* succeeds; a call with an API token looks first and counts a failure     *)
(* after the database has been asked.                                      *)
(***************************************************************************)
EXTENDS Integers, Sequences, FiniteSets, Functions

CONSTANTS Keys,          \* addresses with or without an e-mail
          max_attempts,
          window_s,
          max_keys,      \* how many keys the table has room for
          MaxTime,       \* bound on the clock
          MaxInFlight    \* bound on the calls that wait for the database

VARIABLES clock,    \* monotonic()
          attempts, \* attempts[k]: the times counted of k, oldest first; no entry: << -1 >>
          asking,   \* asking[k]: calls that have passed peek and wait for the database
          told,     \* told[k]: when a refused k was told to come again, -1 not at all
          past      \* history: the times counted of a key since it was reset, and whether it was evicted

vars == <<clock, attempts, asking, told, past>>

NoEntry == <<-1>>
InTable == {k \in Keys : attempts[k] # NoEntry}

Init ==
    /\ clock = 0
    /\ attempts = [k \in Keys |-> NoEntry]
    /\ asking = [k \in Keys |-> 0]
    /\ told = [k \in Keys |-> -1]
    /\ past = [k \in Keys |-> [times |-> <<>>, evicted |-> FALSE]]
-----------------------------------------------------------------------------
\* The calls that count: _decide drops the oldest as long as they have left the window.
Left(bucket) == CHOOSE n \in 0..Len(bucket) : /\ \A i \in 1..n : clock - bucket[i] > window_s
                                              /\ n < Len(bucket) => clock - bucket[n + 1] <= window_s
Live(bucket) == SubSeq(bucket, Left(bucket) + 1, Len(bucket))

Allowed(bucket) == Len(Live(bucket)) < max_attempts
\* Variant: the second that int() cuts off is not given back.
retry_afterCut(bucket) == window_s - (clock - Live(bucket)[1])
\* Who is refused is told when the oldest call counted has left the window.
retry_after(bucket) == window_s - (clock - Live(bucket)[1]) + 1

\* When the table is full the older half goes, by the time last counted; an empty entry is oldest.
LastUse(k) == IF attempts[k] = <<>> THEN 0 ELSE attempts[k][Len(attempts[k])]
OlderHalf ==
    IF Cardinality(InTable) < max_keys THEN {{}}
    ELSE {old \in SUBSET InTable :
            /\ Cardinality(old) = Cardinality(InTable) \div 2
            /\ \A k \in old, n \in InTable \ old : LastUse(k) <= LastUse(n)}

\* The table and the history after check(k); gone are the keys evicted to make room for k.
Counted(k, gone) ==
    LET bucket == IF k \in InTable THEN attempts[k] ELSE <<>>
        after == IF Allowed(bucket) THEN Append(Live(bucket), clock) ELSE Live(bucket)
    IN /\ attempts' = [n \in Keys |-> IF n = k THEN after
                                      ELSE IF n \in gone THEN NoEntry ELSE attempts[n]]
       /\ past' = [n \in Keys |->
                     IF n = k THEN [past[k] EXCEPT !.times = IF Allowed(bucket) /\ ~past[k].evicted
                                                            THEN Append(@, clock) ELSE @]
                     ELSE IF n \in gone THEN [times |-> <<>>, evicted |-> TRUE] ELSE past[n]]
       /\ told' = [told EXCEPT ![k] = IF Allowed(bucket) THEN -1 ELSE clock + retry_after(bucket)]

\* A login, or another limited call: it is counted, and refused when the budget is used up.
check(k) ==
    /\ \E gone \in IF k \in InTable THEN {{}} ELSE OlderHalf : Counted(k, gone)
    /\ UNCHANGED <<clock, asking>>

\* The login was right: what was counted of it is forgotten.
reset(k) ==
    /\ k \in InTable
    /\ attempts' = [attempts EXCEPT ![k] = NoEntry]
    /\ past' = [past EXCEPT ![k] = [times |-> <<>>, evicted |-> FALSE]]
    /\ told' = [told EXCEPT ![k] = -1]
    /\ UNCHANGED <<clock, asking>>

\* get_api_actor looks whether the address is blocked before it asks for the token ...
peek(k) ==
    /\ FoldFunction(LAMBDA n, sum : n + sum, 0, asking) < MaxInFlight
    /\ k \in InTable => Allowed(attempts[k])
    /\ attempts' = [attempts EXCEPT ![k] = IF k \in InTable THEN Live(@) ELSE @]
    /\ asking' = [asking EXCEPT ![k] = @ + 1]
    /\ UNCHANGED <<clock, told, past>>

\* ... and counts the failure when the token is not one.
fail(k) ==
    /\ asking[k] > 0
    /\ \E gone \in IF k \in InTable THEN {{}} ELSE OlderHalf : Counted(k, gone)
    /\ asking' = [asking EXCEPT ![k] = @ - 1]
    /\ UNCHANGED clock

pass(k) ==
    /\ asking[k] > 0
    /\ asking' = [asking EXCEPT ![k] = @ - 1]
    /\ UNCHANGED <<clock, attempts, told, past>>

Tick ==
    /\ clock < MaxTime
    /\ clock' = clock + 1
    /\ UNCHANGED <<attempts, asking, told, past>>

Next ==
    \/ \E k \in Keys : check(k) \/ reset(k) \/ peek(k) \/ fail(k) \/ pass(k)
    \/ Tick

Spec == Init /\ [][Next]_vars
-----------------------------------------------------------------------------
(* Correctness. *)

TypeOK ==
    /\ clock \in 0..MaxTime
    /\ \A k \in Keys : /\ attempts[k] = NoEntry \/ \A i \in DOMAIN attempts[k] : attempts[k][i] \in 0..clock
                       /\ asking[k] \in Nat
                       /\ told[k] \in -1 .. MaxTime + window_s + 1

\* In no window has a key been admitted more often than its budget, unless its entry was thrown away
\* to save memory: whatever the calls that wait for the database count afterwards.
BudgetKept ==
    \A k \in Keys : ~past[k].evicted =>
        LET times == past[k].times
        IN \A i \in DOMAIN times :
             Cardinality({j \in DOMAIN times : j >= i /\ times[j] - times[i] <= window_s}) <= max_attempts

\* Who comes again when it was told to is admitted.
RetryIsHonest == \A k \in Keys : told[k] # -1 /\ clock >= told[k] /\ k \in InTable => Allowed(attempts[k])

\* The types, the budget and what the refused are told.
LimiterIsFair == TypeOK /\ BudgetKept /\ RetryIsHonest

=============================================================================
