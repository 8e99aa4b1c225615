---------------------------- MODULE HhConnection ----------------------------
(***************************************************************************)
(* The connection of an organization to hh.ru: the row hh_connections and  *)
(* its tokens (hh/service), and the client that every call of hh goes      *)
(* through (hh/client).  A refresh token works once; who used it must save *)
(* the new pair before anybody else needs it.  Every page's request and    *)
(* every pass of the worker builds a client of its own from the row.       *)
(*                                                                         *)
(* Pairs of tokens are numbered as hh issues them; 0 is the empty string.  *)
(***************************************************************************)
EXTENDS Integers, FiniteSets

CONSTANTS Callers,        \* who calls hh: "sync" is the worker's pass, the others are requests of pages
          MaxPairs,       \* bound on the pairs hh issues
          MaxConnects,    \* bound on the times the owner connects an account
          MaxRequests,    \* bound on the calls of hh in one pass or request
          MaxTroubles     \* bound on lost answers, dead processes, revocations and disconnections

VARIABLES hh,         \* what hh.ru knows of the pairs
          connection, \* HhConnection
          caller,     \* caller[c]: a request of a page or a pass of the worker, with its client
          past        \* troubles: how many; disturbed: a client died or lost an answer, or the owner
                      \* connected or disconnected while one was at work; owner: 0, or what it did last

vars == <<hh, connection, caller, past>>

Pairs == 1..MaxPairs
NoToken == 0
\* access: the access tokens that open; over: those whose time is over; refresh: the refresh tokens not
\* used yet; account: the connecting a pair descends from.
Hh == [access : SUBSET Pairs, over : SUBSET Pairs, refresh : SUBSET Pairs, issued : 0..MaxPairs, account : [Pairs -> 0..MaxConnects]]
HhConnectionStatus == {"none", "connected", "error", "disconnected"}
Connection == [status : HhConnectionStatus, access : 0..MaxPairs, refresh : 0..MaxPairs, account : 0..MaxConnects]
\* seen: the status as it was loaded; access, refresh: the tokens of the client; rejected: hh has refused
\* the token, and the one repetition was used; left: calls still to make.
Client == [pc : {"idle", "access", "refresh", "persist", "send", "auth", "done"}, seen : HhConnectionStatus,
           access : 0..MaxPairs, refresh : 0..MaxPairs, rejected : BOOLEAN,
           left : 0..MaxRequests, rolled_back : BOOLEAN]

TypeOK ==
    /\ hh \in Hh /\ connection \in Connection /\ caller \in [Callers -> Client]
    /\ past \in [troubles : 0..MaxTroubles, disturbed : BOOLEAN, connects : 0..MaxConnects]

Idle == [pc |-> "idle", seen |-> "none", access |-> NoToken, refresh |-> NoToken, rejected |-> FALSE,
         left |-> 0, rolled_back |-> FALSE]

Init ==
    /\ hh = [access |-> {}, over |-> {}, refresh |-> {}, issued |-> 0, account |-> [n \in Pairs |-> 0]]
    /\ connection = [status |-> "none", access |-> NoToken, refresh |-> NoToken, account |-> 0]
    /\ caller = [c \in Callers |-> Idle]
    /\ past = [troubles |-> 0, disturbed |-> FALSE, connects |-> 0]

AtWork == \E c \in Callers : caller[c].pc # "idle"
Trouble(disturbing) ==
    /\ past.troubles < MaxTroubles
    /\ past' = [past EXCEPT !.troubles = @ + 1, !.disturbed = @ \/ disturbing]
-----------------------------------------------------------------------------
(* The owner, and hh.ru. *)

Issued(known, replaced, account) ==
    LET n == known.issued + 1
    IN  [access |-> (known.access \ {replaced}) \cup {n}, over |-> known.over, refresh |-> (known.refresh \ {replaced}) \cup {n},
         issued |-> n, account |-> [known.account EXCEPT ![n] = account]]

\* Bound: hh can still issue a pair for every refresh token that will be used.
Spare == hh.issued + Cardinality(hh.refresh \cap hh.over) < MaxPairs

\* The row is written after hh has named the employer; one row for an organization.
_upsert_connection(account, refresh) ==
    [status |-> "connected", access |-> hh.issued + 1, refresh |-> refresh, account |-> account]

Connect(refresh) ==
    LET account == past.connects + 1 IN
    /\ past.connects < MaxConnects /\ Spare
    /\ hh' = Issued(hh, NoToken, account)
    /\ connection' = _upsert_connection(account, refresh)
    /\ past' = [past EXCEPT !.connects = account, !.disturbed = @ \/ AtWork]
    /\ UNCHANGED caller

oauth_callback == Connect(hh.issued + 1)

\* The owner pastes a token; without its refresh token it is never refreshed.
connect_with_token == Connect(NoToken)

disconnect ==
    /\ connection.status \in {"connected", "error"}
    /\ connection' = [connection EXCEPT !.status = "disconnected", !.access = NoToken, !.refresh = NoToken]
    /\ Trouble(AtWork)
    /\ UNCHANGED <<hh, caller>>

\* Fourteen days pass: the token is over at hh and by the clock of the client.
Expire(n) ==
    /\ n \in hh.access /\ Spare
    /\ hh' = [hh EXCEPT !.access = @ \ {n}, !.over = @ \cup {n}]
    /\ UNCHANGED <<connection, caller, past>>

\* The employer withdraws the access: only a new connection helps.
Revoke(n) ==
    /\ n \in hh.access \cup hh.refresh /\ Trouble(TRUE)
    /\ hh' = [hh EXCEPT !.access = @ \ {n}, !.refresh = @ \ {n}]
    /\ UNCHANGED <<connection, caller>>
-----------------------------------------------------------------------------
(* The client. *)

Move(c, client) == caller' = [caller EXCEPT ![c] = client]

\* Variant: a connection with an error is not synchronised any more.
ConnectedOnly == connection.status = "connected"
\* _require_connection; sync_organizations takes the same rows.
Active == connection.status \in {"connected", "error"}

\* build_client: without a token to decrypt there is no client, and the pass ends.
build_client(c) ==
    /\ caller[c].pc = "idle" /\ Active /\ connection.access # NoToken
    /\ \E left \in 1..MaxRequests :
         Move(c, [Idle EXCEPT !.pc = "access", !.seen = connection.status, !.access = connection.access,
                              !.refresh = connection.refresh, !.left = left])
    /\ UNCHANGED <<hh, connection, past>>

\* A token that is over, by the clock of the client, is not even tried.
_access_token(c) ==
    LET k == caller[c] IN
    /\ k.pc = "access"
    /\ Move(c, [k EXCEPT !.pc = IF ~k.rejected /\ k.access \notin hh.over THEN "send"
                               ELSE IF k.refresh = NoToken THEN "auth" ELSE "refresh"])
    /\ UNCHANGED <<hh, connection, past>>

\* hh gives a new pair for a refresh token that was not used, and refuses one that was.
refresh(c) ==
    LET k == caller[c] IN
    /\ k.pc = "refresh"
    /\ \/ /\ k.refresh \in hh.refresh
          /\ hh' = Issued(hh, k.refresh, hh.account[k.refresh])
          /\ Move(c, [k EXCEPT !.pc = "persist", !.access = hh'.issued, !.refresh = hh'.issued])
       \/ /\ k.refresh \notin hh.refresh
          /\ Move(c, [k EXCEPT !.pc = "auth"]) /\ UNCHANGED hh
    /\ UNCHANGED <<connection, past>>

\* Variant: the refresh token of the row is kept, the client goes on with its own.
StoreAccess(row, k) == [row EXCEPT !.access = k.access]
\* The pair of the client is saved in the transaction of the request, which commits.
store_tokens(row, k) == [row EXCEPT !.access = k.access, !.refresh = k.refresh]

persist(c) ==
    /\ caller[c].pc = "persist"
    /\ connection' = store_tokens(connection, caller[c])
    /\ Move(c, [caller[c] EXCEPT !.pc = "send"])
    /\ UNCHANGED <<hh, past>>

\* request: 401 is tried once more with a new token, unless hh says that the authorization was withdrawn.
Answered(k) == [k EXCEPT !.pc = IF k.left = 1 THEN "done" ELSE "access", !.left = @ - 1,
                         !.rejected = FALSE]
request(c) ==
    LET k == caller[c] IN
    /\ k.pc = "send"
    /\ \/ k.access \in hh.access /\ Move(c, Answered(k))
       \/ k.access \notin hh.access /\ ~k.rejected /\ Move(c, [k EXCEPT !.pc = "access", !.rejected = TRUE])
       \/ /\ k.access \notin hh.access /\ (k.rejected \/ k.access \notin hh.over)
          /\ Move(c, [k EXCEPT !.pc = "auth"])
    /\ UNCHANGED <<hh, connection, past>>

\* hh is not reached, or its answer is lost: HhError.  What it did it did.
request_fails(c) ==
    LET k == caller[c] IN
    /\ Trouble(k.pc = "refresh")
    /\ \/ k.pc = "send" /\ UNCHANGED hh
       \/ k.pc = "refresh" /\ UNCHANGED hh
       \/ /\ k.pc = "refresh" /\ k.refresh \in hh.refresh
          /\ hh' = Issued(hh, k.refresh, hh.account[k.refresh])
    /\ Move(c, Idle)
    /\ UNCHANGED connection

\* A step of the dialog with one applicant fails: rollback, and the row is read again at the end.
RollBack(c) ==
    /\ c = "sync" /\ caller[c].pc = "access" /\ ~caller[c].rejected /\ ~caller[c].rolled_back
    /\ Trouble(FALSE) /\ Move(c, [caller[c] EXCEPT !.rolled_back = TRUE])
    /\ UNCHANGED <<hh, connection>>

\* Written when it differs from what was loaded.
Status(k, new) ==
    LET seen == IF k.rolled_back THEN connection.status ELSE k.seen
    IN  connection' = IF seen = new THEN connection ELSE [connection EXCEPT !.status = new]

\* _mark_auth_error; sync_organizations does the same.
_mark_auth_error(c) ==
    /\ caller[c].pc = "auth"
    /\ Status(caller[c], "error") /\ Move(c, Idle)
    /\ UNCHANGED <<hh, past>>

\* The pass of the worker says that the connection works; a page says nothing.
sync_organizations(c) ==
    /\ caller[c].pc = "done"
    /\ IF c = "sync" THEN Status(caller[c], "connected") ELSE UNCHANGED connection
    /\ Move(c, Idle)
    /\ UNCHANGED <<hh, past>>

Die(c) ==
    /\ caller[c].pc # "idle" /\ Trouble(caller[c].pc = "persist")
    /\ Move(c, Idle) /\ UNCHANGED <<hh, connection>>

Call(c) ==
    \/ _access_token(c) \/ refresh(c) \/ persist(c) \/ request(c)
    \/ _mark_auth_error(c) \/ sync_organizations(c)

Next ==
    \/ oauth_callback \/ connect_with_token \/ disconnect
    \/ \E n \in Pairs : Expire(n) \/ Revoke(n)
    \/ \E c \in Callers : build_client(c) \/ Call(c) \/ request_fails(c) \/ RollBack(c) \/ Die(c)

Spec == Init /\ [][Next]_vars

\* A call ends, by its timeout at the latest, and the worker begins a pass every few minutes.
FairSpec == Spec /\ \A c \in Callers : WF_vars(Call(c))
                 /\ ("sync" \in Callers => WF_vars(build_client("sync")))
-----------------------------------------------------------------------------
\* Usable: what the row holds can be refreshed.
Usable == Active /\ connection.refresh \in hh.refresh

\* The chain of refresh tokens does not break: the row holds the unused one, or the client that has used
\* it is about to save its successor, however many clients find the token over at once; as long as no
\* answer is lost, no process dies in between and the owner leaves the connection alone meanwhile.
TokensAreKept ==
    /\ TypeOK
    /\ ~past.disturbed /\ Active /\ connection.refresh # NoToken
       => \/ connection.refresh \in hh.refresh
          \/ \E c \in Callers : caller[c].pc = "persist" /\ caller[c].refresh \in hh.refresh

\* A client with old tokens marks a working connection as broken; the next passes take it back.
Healed == connection.status = "connected" \/ ~Usable
HealsInTheEnd == Usable ~> Healed
-----------------------------------------------------------------------------
(* Properties the repository states and the code does not have. *)

\* After a disconnection the tokens are erased (service: at once), and the organization is not connected.
DisconnectedStays == [][connection.status = "disconnected" /\ past'.connects = past.connects => UNCHANGED connection]_vars

\* The tokens of a connected account are that account's.
TokensOfTheAccount ==
    connection.access # NoToken => hh.account[connection.access] = connection.account
=============================================================================
