----------------------------- MODULE MCHhDialog -----------------------------
(* Small instances of HhDialog for TLC. *)
EXTENDS HhDialog
=============================================================================
