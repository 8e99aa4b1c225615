----------------------------- MODULE MCCandidates -----------------------------
(***************************************************************************)
(* Small instances for TLC of the modules about candidates: one candidate  *)
(* and its interviews, its hand-over to Huntflow, and who is shown which   *)
(* candidates and may invite them.  The first state chooses the part.      *)
(* While it is another, the interviews rest in their first state; the      *)
(* variables of the other parts are null.                                  *)
(***************************************************************************)
EXTENDS Invitations, Sequences, TLC

CONSTANTS Executions, max_attempts, MaxApplicants, MaxPushes, MaxBreaks,      \* HuntflowPush
          Own, Other, Emails, Members, Tokens, MaxInterviews, MaxListed,      \* Perimeter
          null, i1, i2, r1, r2, e1, e2

VARIABLES part,
          connection, linked, applicant, share, external_ref, job, exec, huntflow, past, \* HuntflowPush
          vacancy, people, interviews, reading, answer                 \* Perimeter

H == INSTANCE HuntflowPush WITH row <- applicant
P == INSTANCE Perimeter

ASSUME SizesOK ==
    /\ ParametersOK /\ P!ParametersOK
    /\ {max_attempts, MaxApplicants} \subseteq Nat \ {0} /\ {MaxPushes, MaxBreaks} \subseteq Nat

OfHuntflow == <<connection, linked, applicant, share, external_ref, job, exec, huntflow, past>>
OfPerimeter == <<vacancy, people, interviews, reading, answer>>
all_vars == <<part, vars, OfHuntflow, OfPerimeter>>

NoHuntflow ==
    /\ connection = null /\ linked = null /\ applicant = null /\ share = null /\ external_ref = null
    /\ job = null /\ exec = null /\ huntflow = null /\ past = null
NoPerimeter == vacancy = null /\ people = null /\ interviews = null /\ reading = null /\ answer = null

MCInit ==
    /\ Init
    /\ \/ part = "invitations" /\ NoHuntflow /\ NoPerimeter
       \/ part = "huntflow" /\ H!Init /\ NoPerimeter
       \/ part = "perimeter" /\ P!Init /\ NoHuntflow

NextInvitations == part = "invitations" /\ Next /\ UNCHANGED <<part, OfHuntflow, OfPerimeter>>
NextHuntflow == part = "huntflow" /\ H!Next /\ UNCHANGED <<part, vars, OfPerimeter>>
NextPerimeter == part = "perimeter" /\ P!Next /\ UNCHANGED <<part, vars, OfHuntflow>>

MCNext == NextInvitations \/ NextHuntflow \/ NextPerimeter
MCSpec == MCInit /\ [][MCNext]_all_vars

Symmetry == Permutations(Requests) \cup Permutations(Executions)
-----------------------------------------------------------------------------
\* What is shown as handed over to Huntflow is; the candidate is one applicant there; and what is being
\* handed over has a job.
HandOverIsTrue == part = "huntflow" => H!HandOverIsTrue

\* Members, tokens and the assistant see what their rights allow and the same on every way, and what
\* they are offered or told holds.
PerimeterIsKept == part = "perimeter" => P!PerimeterIsKept
-----------------------------------------------------------------------------
(* Every role, a manager without a scope, with one vacancy and with none; tokens of one, two and all sides. *)

SomeMembers ==
    {[role |-> "owner", scope |-> null], [role |-> "recruiter", scope |-> null]}
    \cup [role : {"hiring_manager"}, scope : {null, {"v"}, {}}]
SomeTokens ==
    {{"candidates:write"}, {"vacancies:read", "candidates:read"}, {"reports:read", "media:read"},
     {"interviews:read", "vacancies:write"}}
=============================================================================
