----------------------------- MODULE MCSfuControl -----------------------------
(* TLC instance of SfuControl. *)
EXTENDS SfuControl
=============================================================================
