---------------------------- MODULE MCNodeScheduler ----------------------------
(***************************************************************************)
(* Instances of NodeScheduler for TLC.  The deployed point is 62 members a *)
(* batch, 149 in the pool and prompts from 1 K to 1 M around a balance of  *)
(* 100 K; the instances keep its proportions: more than two batches in the *)
(* pool, lengths on both sides of the balance, a KV target of              *)
(* decode_count_target balanced requests.                                  *)
(***************************************************************************)
EXTENDS NodeScheduler

ASSUME LengthsSpanBalance
===============================================================================
