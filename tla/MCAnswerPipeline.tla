-------------------------- MODULE MCAnswerPipeline --------------------------
(* Small instances of AnswerPipeline for TLC. *)
EXTENDS AnswerPipeline, TLC

CONSTANTS a1, a2, r1, r2

RunSymmetry == Permutations(Runs)
=============================================================================
