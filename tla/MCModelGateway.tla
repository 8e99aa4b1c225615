--------------------------- MODULE MCModelGateway ---------------------------
(* A small instance of ModelGateway for TLC. *)
EXTENDS ModelGateway

CONSTANTS c1, c2
TwoCallers == {c1, c2}
=============================================================================
