-------------------------- MODULE MCAssistantThread --------------------------
(* Small instances of AssistantThread for TLC. *)
EXTENDS AssistantThread, TLC

CONSTANTS p1, p2
=============================================================================
