---------------------------- MODULE MCFlashSfuCore ----------------------------
(* TLC instance of FlashSfuCore. *)
EXTENDS FlashSfuCore
=============================================================================
