----------------------------- MODULE MCEsbLink ------------------------------
(* EsbLink for TLC: one backoff level.                                     *)
EXTENDS EsbLink
=============================================================================
