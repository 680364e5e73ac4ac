------------------------------ MODULE MCScoreFifo ------------------------------
(* TLC instance of ScoreFifo. *)
EXTENDS ScoreFifo
=============================================================================
