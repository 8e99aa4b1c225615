-------------------------- MODULE MCInterviewRoom --------------------------
(* Small instances of InterviewRoom for TLC. *)
EXTENDS InterviewRoom, TLC

CONSTANTS r1, r2

RequestSymmetry == Permutations(Requests)
=============================================================================
