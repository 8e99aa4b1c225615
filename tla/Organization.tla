---------------------------- MODULE Organization ----------------------------
(***************************************************************************)
(* The members of an organization, the invite to it and the sessions of    *)
(* its members (accounts/service.py).                                      *)
(*                                                                         *)
(* A request loads what it looks at, and commits afterwards; nothing locks *)
(* the rows in between.  The UPDATE sets the columns whose value differs   *)
(* from the one loaded.  A registered user always has a membership, of     *)
(* this organization or another one, so that accept_invite of a user who   *)
(* is logged in only ever refuses.  An expired invite is like a revoked    *)
(* one; update_member is asked for the role or for the scope.              *)
(***************************************************************************)
EXTENDS Integers, FiniteSets, Functions

CONSTANTS Users,
          founder,      \* who has registered without an invite
          MaxUses,      \* Invite.max_uses
          MaxVersion,   \* bound on the changes of token_version
          MaxInvites,   \* bound on the invites issued
          MaxAtOnce     \* bound on the requests under way at once

VARIABLES member,    \* member[u]: the membership and User.token_version
          invite,    \* the latest invite
          session,   \* an access token: that of any member, issued at any time
          request,   \* request[u]: a request of u between its load and its commit
          past       \* history

vars == <<member, invite, session, request, past>>

MembershipRole == {"owner", "recruiter", "hiring_manager"}
Membership == [joined: BOOLEAN, role: MembershipRole, is_active: BOOLEAN,
               scoped: BOOLEAN,   \* vacancy_scope is not None
               version: Nat]
Invite == [number: Nat, role: MembershipRole, scoped: BOOLEAN, uses_count: Nat, revoked: BOOLEAN]

Operations == {"none", "register", "role", "scope", "deactivate", "reactivate", "logout", "revoke", "invite"}
\* to, flag: the role and the scope asked for; read: what was loaded of the target; uses, number: of the
\* invite.
Request == [op: Operations, target: Users, to: MembershipRole, flag: BOOLEAN,
            read: Membership, uses: Nat, number: Nat]

\* overlapped: two requests have been under way at once, and the rest of the history but out is given
\* up; out: whose access has been withdrawn since it
\* was last given; joined: who has come by the invite; changed[u]: the rights of u or the password
\* have changed so often.
Past == [overlapped: BOOLEAN, out: SUBSET Users, joined: SUBSET Users, changed: [Users -> Nat]]
Session == [user: Users, version: Nat, since: Nat]
None == [version |-> -1]

TypeOK ==
    /\ member \in [Users -> Membership]
    /\ invite \in Invite
    /\ session \in Session \cup {None}
    /\ request \in [Users -> Request]
    /\ past \in Past

Stranger == [joined |-> FALSE, role |-> "hiring_manager", is_active |-> TRUE, scoped |-> FALSE, version |-> 0]
NoRequest == [op |-> "none", target |-> founder, to |-> "owner", flag |-> FALSE, read |-> Stranger, uses |-> 0, number |-> 0]

Init ==
    /\ member = [u \in Users |-> IF u = founder THEN [Stranger EXCEPT !.joined = TRUE, !.role = "owner"]
                                 ELSE Stranger]
    /\ invite = [number |-> 0, role |-> "hiring_manager", scoped |-> FALSE, uses_count |-> MaxUses, revoked |-> TRUE]
    /\ session = None
    /\ request = [u \in Users |-> NoRequest]
    /\ past = [overlapped |-> FALSE, out |-> {}, joined |-> {}, changed |-> [u \in Users |-> 0]]
-----------------------------------------------------------------------------
(* The load and the checks of a request. *)

\* The membership is read from the database with every request, and only owners have org.members
\* and org.invites.
get_actor(u) == member[u].joined /\ member[u].is_active
authorize(u) == get_actor(u) /\ member[u].role = "owner"

_active_owner_count == Cardinality({u \in Users : member[u].joined /\ member[u].role = "owner" /\ member[u].is_active})

\* Variant: the owners whose access was withdrawn are counted too.
_guard_last_ownerOfAll(row) ==
    row.role = "owner" /\ row.is_active => Cardinality({u \in Users : member[u].joined /\ member[u].role = "owner"}) > 1
_guard_last_owner(row) == row.role = "owner" /\ row.is_active => _active_owner_count > 1

invite_active == ~invite.revoked /\ invite.uses_count < MaxUses

Idle(u) == request[u].op = "none"
Alone == ~past.overlapped
\* Requests that make the sessions ask for the rights anew.
Bumps == {"role", "scope", "deactivate", "logout"}
Begin(u, op, target, to, flag) ==
    /\ Idle(u) /\ Cardinality({v \in Users : ~Idle(v)}) < MaxAtOnce
    /\ op \in Bumps => FoldFunction(LAMBDA row, sum : row.version + sum, 0, member) < MaxVersion
    /\ request' = [request EXCEPT ![u] = [op |-> op, target |-> target, to |-> to, flag |-> flag,
                                          read |-> member[target], uses |-> invite.uses_count,
                                          number |-> invite.number]]
    /\ IF \E v \in Users : ~Idle(v)
       THEN /\ past' = [overlapped |-> TRUE, out |-> past.out, joined |-> {}, changed |-> [v \in Users |-> 0]]
            /\ session' = None
       ELSE UNCHANGED <<past, session>>
    /\ UNCHANGED <<member, invite>>

register(u) ==
    /\ ~member[u].joined /\ invite_active
    /\ Begin(u, "register", u, invite.role, invite.scoped)

\* The role: the scope goes when the new role has none.
update_role(u, target, to) ==
    /\ authorize(u) /\ member[target].joined
    /\ to # member[target].role /\ _guard_last_owner(member[target])
    /\ Begin(u, "role", target, to, FALSE)

update_scope(u, target, flag) ==
    /\ authorize(u) /\ member[target].joined
    /\ flag => member[target].role = "hiring_manager"
    /\ Begin(u, "scope", target, member[target].role, flag)

deactivate_member(u, target) ==
    /\ authorize(u) /\ member[target].joined /\ target # u
    /\ member[target].is_active /\ _guard_last_owner(member[target])
    /\ Begin(u, "deactivate", target, member[target].role, FALSE)

reactivate_member(u, target) ==
    /\ authorize(u) /\ member[target].joined /\ ~member[target].is_active
    /\ Begin(u, "reactivate", target, member[target].role, FALSE)

\* change_password and logout_everywhere need the account only, whether access is given or not.
logout_everywhere(u) == member[u].joined /\ Begin(u, "logout", u, member[u].role, FALSE)

create_invite(u, role, scoped) ==
    /\ authorize(u) /\ invite.number < MaxInvites
    /\ scoped => role = "hiring_manager"
    /\ Begin(u, "invite", u, role, scoped)

revoke_invite(u) == authorize(u) /\ ~invite.revoked /\ Begin(u, "revoke", u, "owner", FALSE)

Load(u) ==
    \/ register(u) \/ logout_everywhere(u) \/ revoke_invite(u)
    \/ \E role \in MembershipRole, scoped \in BOOLEAN : create_invite(u, role, scoped)
    \/ \E target \in Users :
         \/ deactivate_member(u, target) \/ reactivate_member(u, target)
         \/ \E to \in MembershipRole : update_role(u, target, to)
         \/ \E flag \in BOOLEAN : update_scope(u, target, flag)
-----------------------------------------------------------------------------
(* The commit. *)

\* A column is written when the value computed differs from the one loaded.
Column(new, read, now) == IF new = read THEN now ELSE new

Written(q, now) ==
    LET scoped == CASE q.op = "scope" -> q.flag
                    [] q.op = "role" /\ q.to # "hiring_manager" -> FALSE
                    [] OTHER -> q.read.scoped
        version == IF q.op \in Bumps THEN q.read.version + 1 ELSE q.read.version
    IN [now EXCEPT !.role = IF q.op = "role" THEN q.to ELSE @,
                   !.scoped = Column(scoped, q.read.scoped, @),
                   !.is_active = Column(CASE q.op = "deactivate" -> FALSE [] q.op = "reactivate" -> TRUE
                                          [] OTHER -> q.read.is_active, q.read.is_active, @),
                   !.version = Column(version, q.read.version, @)]

\* _accept: the unique e-mail admits one account; the counter is written from the value loaded.
Accepts(u) ==
    LET q == request[u]
    IN IF member[u].joined THEN UNCHANGED <<member, invite, past>>
       ELSE /\ member' = [member EXCEPT ![u] = [Stranger EXCEPT !.joined = TRUE, !.role = q.to, !.scoped = q.flag]]
            /\ invite' = IF q.number = invite.number THEN [invite EXCEPT !.uses_count = q.uses + 1] ELSE invite
            /\ past' = IF Alone THEN [past EXCEPT !.joined = @ \cup {u}] ELSE past

Changes(u) ==
    LET q == request[u]
    IN /\ member' = [member EXCEPT ![q.target] = Written(q, @)]
       /\ past' = [past EXCEPT !.out = CASE q.op = "deactivate" -> @ \cup {q.target}
                                         [] q.op = "reactivate" -> @ \ {q.target} [] OTHER -> @,
                               !.changed[q.target] = IF Alone /\ q.op # "reactivate" THEN @ + 1 ELSE @]
       /\ UNCHANGED invite

Commit(u) ==
    LET q == request[u]
    IN /\ ~Idle(u)
       /\ CASE q.op = "register" -> Accepts(u)
            [] q.op = "revoke" -> invite' = [invite EXCEPT !.revoked = TRUE] /\ UNCHANGED <<member, past>>
            [] q.op = "invite" ->
                 /\ invite' = [number |-> invite.number + 1, role |-> q.to, scoped |-> q.flag,
                               uses_count |-> 0, revoked |-> FALSE]
                 /\ past' = [past EXCEPT !.joined = {}]
                 /\ UNCHANGED member
            [] OTHER -> Changes(u)
       /\ request' = [request EXCEPT ![u] = NoRequest]
       /\ UNCHANGED session

\* A token carries the version that was loaded; one with another version is refused.
login(u) ==
    /\ Alone /\ member[u].joined /\ session = None
    /\ session' = [user |-> u, version |-> member[u].version, since |-> past.changed[u]]
    /\ UNCHANGED <<member, invite, request, past>>

Next == \E u \in Users : Load(u) \/ Commit(u) \/ login(u)

Spec == Init /\ [][Next]_vars
-----------------------------------------------------------------------------
(* Correctness. *)

\* Access that was withdrawn comes back by reactivate_member only: not by a request that had loaded
\* the member before.
StaysOut == \A u \in past.out : ~member[u].is_active

\* The rest holds as long as each request ends before the next begins.

\* At least one owner with access remains (accounts/service.py:357).
OwnerRemains == Alone => _active_owner_count >= 1

\* No more people come by an invite than it admits.
InviteIsLimited == Alone => Cardinality(past.joined) <= MaxUses

\* Only a hiring manager is restricted to vacancies.
ScopeFits == Alone => \A u \in Users : member[u].scoped => member[u].role = "hiring_manager"

\* A session that is accepted was begun after the last change of the member's rights or password.
SessionsAreCurrent ==
    Alone /\ session # None /\ session.version = member[session.user].version
        => session.since = past.changed[session.user]

\* The types, and all that the members, the invite and the sessions have to agree on.
OrganizationIsKept == TypeOK /\ StaysOut /\ OwnerRemains /\ InviteIsLimited /\ ScopeFits /\ SessionsAreCurrent
=============================================================================
