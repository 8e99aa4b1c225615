------------------------------- MODULE Grants -------------------------------
(***************************************************************************)
(* What lets someone in for a time: the link to a report                   *)
(* (reports/service.py), the signed links to its media (media/service.py,  *)
(* media/router.py) and an API token (api_tokens/service.py,               *)
(* api_tokens/deps.py).                                                    *)
(*                                                                         *)
(* A request loads the row and commits afterwards; the UPDATE sets the     *)
(* columns whose value differs from the one loaded, so that a revoke and   *)
(* an extend may be under way at once.  A behaviour is about one link or   *)
(* about one token: nothing relates the two.  The limits on the requests   *)
(* are in RateLimiter, what a token may do is in Perimeter.                *)
(***************************************************************************)
EXTENDS Integers, Sequences

CONSTANTS Requests,              \* the requests that may be under way at once
          TTL,                   \* ttl_s of a link to media
          Days,                  \* the days a link is made or extended for
          LAST_USED_RESOLUTION,
          MaxTime, MaxViews,     \* bounds on the clock and on the reports shown
          MaxSize,               \* bound on the size of a media file
          null

VARIABLES now,
          share,    \* the ReportShare, null before it is created
          views,    \* the number of its ReportView rows that say "report"
          url,      \* the link to media handed out last, with its exp
          token,    \* the ApiToken, null in a behaviour that is about the link
          request,  \* request[p]: the request p between its load and its commit
          served,   \* what the last request for media got
          past      \* history

vars == <<now, share, views, url, token, request, served, past>>

Time == Int
Share == [expires_at: Time, revoked_at: Time \cup {null}, view_count: Nat]
ApiToken == [expires_at: Time \cup {null}, revoked_at: Time \cup {null}, last_used_at: Time \cup {null}]
\* What the values of the constants have to satisfy; null is no time, row or range.
ParametersOK ==
    /\ {TTL, MaxTime, MaxViews, MaxSize} \subseteq Nat /\ LAST_USED_RESOLUTION \in Nat \ {0} /\ Days \subseteq Int
    /\ null \notin Time \cup Share \cup ApiToken \cup Seq(Int)

Operations == {"none", "view", "revoke", "extend", "call", "withdraw"}
\* read: the row it has loaded; days: what extend asks for.
Request == [op: Operations, read: Share \cup ApiToken \cup {null}, days: Int]
\* right: the bytes served are those that were asked for and exist.
Served == [status: {0, 200, 206, 403, 416}, right: BOOLEAN]
\* together: two requests have been under way at once, or the clock has gone on during one; closed:
\* the last commit but those of overlapping extends has revoked the link; ended: since when it lets
\* nobody in; called: when the token last did.
Past == [together: BOOLEAN, closed: BOOLEAN, ended: Time \cup {null}, called: Time \cup {null}]

TypeOK ==
    /\ now \in 0..MaxTime
    /\ share \in Share \cup {null}
    /\ views \in 0..MaxViews
    /\ url \in Time \cup {null}
    /\ token \in ApiToken \cup {null}
    /\ request \in [Requests -> Request]
    /\ served \in Served
    /\ past \in Past

Idle == [op |-> "none", read |-> null, days |-> 0]
Nothing == [status |-> 0, right |-> TRUE]

Init ==
    /\ now = 0 /\ share = null /\ views = 0 /\ url = null
    /\ token \in {null} \cup [expires_at: {null, 1}, revoked_at: {null}, last_used_at: {null}]
    /\ request = [p \in Requests |-> Idle]
    /\ served = Nothing
    /\ past = [together |-> FALSE, closed |-> FALSE, ended |-> null, called |-> null]
-----------------------------------------------------------------------------
Busy == \E p \in Requests : request[p].op # "none"

share_status(row) == IF row.revoked_at # null THEN "revoked" ELSE IF row.expires_at < now THEN "expired" ELSE "active"
token_status(row) ==
    IF row.revoked_at # null THEN "revoked"
    ELSE IF row.expires_at # null /\ row.expires_at < now THEN "expired" ELSE "active"

Begin(p, op, row, days) ==
    /\ request[p].op = "none"
    /\ request' = [request EXCEPT ![p] = [op |-> op, read |-> row, days |-> days]]
    /\ past' = [past EXCEPT !.together = @ \/ Busy]
    /\ UNCHANGED <<now, share, views, url, token>>
    /\ served' = Nothing

End(p) == request' = [request EXCEPT ![p] = Idle]

Tick ==
    /\ now < MaxTime
    /\ now' = now + 1
    /\ past' = [past EXCEPT !.together = @ \/ Busy,
                            !.ended = IF share # null /\ @ = null /\ share.expires_at < now + 1 THEN now ELSE @]
    /\ UNCHANGED <<share, views, url, token, request>>
    /\ served' = Nothing

create_share(days) ==
    /\ share = null /\ token = null
    /\ share' = [expires_at |-> now + days, revoked_at |-> null, view_count |-> 0]
    /\ past' = [past EXCEPT !.ended = IF days < 0 THEN now ELSE null]
    /\ UNCHANGED <<now, views, url, token, request>>
    /\ served' = Nothing

BeginRevoke(p) == share # null /\ share.revoked_at = null /\ Begin(p, "revoke", share, 0)
revoke_share(p) ==
    /\ request[p].op = "revoke"
    /\ share' = [share EXCEPT !.revoked_at = now]
    /\ past' = [past EXCEPT !.closed = TRUE, !.ended = IF @ = null THEN now ELSE @]
    /\ End(p)
    /\ UNCHANGED <<now, views, url, token>>
    /\ served' = Nothing

BeginExtend(p, days) == share # null /\ Begin(p, "extend", share, days)
\* Variant: every column is written.
ExtendedByRow(read, days) == [share EXCEPT !.expires_at = now + days, !.revoked_at = null]
Extended(read, days) ==
    [share EXCEPT !.expires_at = now + days,
                  !.revoked_at = IF read.revoked_at # null THEN null ELSE @]
extend_share(p) ==
    LET row == Extended(request[p].read, request[p].days)
        open == row.revoked_at = null /\ row.expires_at >= now
    IN  /\ request[p].op = "extend"
        /\ share' = row
        /\ past' = [past EXCEPT !.closed = @ /\ request[p].read.revoked_at = null,
                                !.ended = IF open THEN null ELSE IF @ = null THEN now ELSE @]
        /\ End(p)
        /\ UNCHANGED <<now, views, url, token>>
        /\ served' = Nothing

\* The report: what is shown is signed after the commit.
_share_by_token(p) == share # null /\ share_status(share) = "active" /\ Begin(p, "view", share, 0)
sign_media_url == now + TTL
public_report(p) ==
    /\ request[p].op = "view" /\ views < MaxViews
    /\ share' = [share EXCEPT !.view_count = request[p].read.view_count + 1]
    /\ views' = views + 1
    /\ url' = sign_media_url
    /\ End(p)
    /\ UNCHANGED <<now, token, served, past>>
    /\ served' = Nothing

\* A link to media lives on its own: neither the link to the report nor the token is looked at.
verify_media_token == url # null /\ now <= url

\* The bytes asked for: the whole file; from first to last (null: to the end); the last n.
Headers == [kind: {"none"}] \cup [kind: {"part"}, first: 0..(MaxSize + 1), last: 0..(MaxSize + 1) \cup {null}]
             \cup [kind: {"suffix"}, n: 0..(MaxSize + 1)]
Least(a, b) == IF a < b THEN a ELSE b
\* The range served, null for the whole file, "unsatisfiable" for an error.
\* Variant: the end is not cut to the file.
parse_rangeUncut(h, size) ==
    CASE h.kind = "none" -> null
      [] h.kind = "suffix" -> IF h.n = 0 \/ size = 0 THEN <<>>
                              ELSE <<IF h.n > size THEN 0 ELSE size - h.n, size - 1>>
      [] h.kind = "part" ->
           LET last == IF h.last = null THEN size - 1 ELSE h.last
           IN  IF h.last # null /\ last < h.first THEN null
               ELSE IF h.first >= size THEN <<>> ELSE <<h.first, last>>
parse_range(h, size) ==
    CASE h.kind = "none" -> null
      [] h.kind = "suffix" -> IF h.n = 0 \/ size = 0 THEN <<>>
                              ELSE <<IF h.n > size THEN 0 ELSE size - h.n, size - 1>>
      [] h.kind = "part" ->
           LET last == IF h.last = null THEN size - 1 ELSE h.last
           IN  IF h.last # null /\ last < h.first THEN null
               ELSE IF h.first >= size THEN <<>> ELSE <<h.first, Least(last, size - 1)>>

\* The bytes a header names, as HTTP has it (RFC 9110, 14.1): one that is no range asks for all.
Asked(h, size) ==
    CASE h.kind = "none" -> 0..(size - 1)
      [] h.kind = "suffix" -> (size - h.n)..(size - 1)
      [] h.kind = "part" -> IF h.last = null THEN h.first..(size - 1)
                            ELSE IF h.last < h.first THEN 0..(size - 1) ELSE h.first..h.last

\* It looks at nothing that the other requests change.
get_media(h, size) ==
    LET range == parse_range(h, size)
        wanted == Asked(h, size) \cap (0..(size - 1))
    IN  /\ url # null /\ ~Busy
        /\ served' = IF ~verify_media_token THEN [status |-> 403, right |-> TRUE]
                     ELSE IF range = null THEN [status |-> 200, right |-> wanted = 0..(size - 1)]
                     ELSE IF range = <<>> THEN [status |-> 416, right |-> wanted = {}]
                     ELSE [status |-> 206, right |-> range[1]..range[2] = wanted /\ wanted # {}]
        /\ UNCHANGED <<now, share, views, url, token, request, past>>

\* The API token.
get_api_actor(p) == token # null /\ token_status(token) = "active" /\ Begin(p, "call", token, 0)
\* Variant: the use is marked when the resolution has passed since the first.
touchOnce(read) == IF read.last_used_at # null THEN token ELSE [token EXCEPT !.last_used_at = now]
touch(read) == IF read.last_used_at # null /\ now - read.last_used_at < LAST_USED_RESOLUTION THEN token
               ELSE [token EXCEPT !.last_used_at = now]
Call(p) ==
    /\ request[p].op = "call"
    /\ token' = touch(request[p].read)
    /\ past' = [past EXCEPT !.called = now]
    /\ End(p)
    /\ UNCHANGED <<now, share, views, url>>
    /\ served' = Nothing

BeginWithdraw(p) == token # null /\ token.revoked_at = null /\ Begin(p, "withdraw", token, 0)
revoke(p) ==
    /\ request[p].op = "withdraw"
    /\ token' = [token EXCEPT !.revoked_at = now]
    /\ End(p)
    /\ UNCHANGED <<now, share, views, url, served, past>>
    /\ served' = Nothing

Next ==
    \/ Tick
    \/ \E days \in Days : create_share(days)
    \/ \E p \in Requests : \/ BeginRevoke(p) \/ revoke_share(p)
                           \/ \E days \in Days : BeginExtend(p, days)
                           \/ extend_share(p)
                           \/ _share_by_token(p) \/ public_report(p)
                           \/ get_api_actor(p) \/ Call(p) \/ BeginWithdraw(p) \/ revoke(p)
    \/ \E h \in Headers, size \in 0..MaxSize : get_media(h, size)

Spec == Init /\ [][Next]_vars
-----------------------------------------------------------------------------
(* Properties. *)

\* A link that was revoked stays so until it is extended by a request that found it revoked: an
\* extend that was under way when the link was revoked gives it days, and does not open it again.
RevokedStays == past.closed => share.revoked_at # null

\* What was handed out ends with the link: a link to media works no longer than its TTL after the link
\* to the report has been revoked or has expired, if the report was not being opened just then.
MediaEnds == ~past.together /\ past.ended # null /\ url # null => url <= past.ended + TTL

\* Every report shown by the link has left its row among the views, and the counter never says more
\* than there are rows, and as many when requests did not meet.
ViewsAreKept ==
    share # null => share.view_count <= views /\ (past.together \/ share.view_count = views)

\* A part of a media file that is served is what was asked for and exists, no more and no less, whatever
\* the header; nothing is served only when nothing of it exists.
RangeIsServed == served.right

\* The owner sees from last_used_at, up to its resolution, when a token was last used.
LastUsedIsFresh ==
    past.called # null /\ ~past.together => past.called - token.last_used_at < LAST_USED_RESOLUTION

\* What was given for a time ends in time, all together.
GrantsEnd == TypeOK /\ RevokedStays /\ MediaEnds /\ ViewsAreKept /\ RangeIsServed /\ LastUsedIsFresh
-----------------------------------------------------------------------------
(* Properties the repository states and the code does not have. *)

\* reports/models.py of ReportShare.view_count beside ReportView: each view is counted.
EveryViewCounted == share # null => share.view_count = views
=============================================================================
