------------------------------ MODULE MCLifecycle ------------------------------
(* TLC instance of Lifecycle. *)
EXTENDS Lifecycle

MCOp == [ctx_balance |-> 2, edge_band |-> 0, decode_count_target |-> 1,
         kv_operating_target |-> 2, prefill_tokens |-> 1, prefill_kv_work_target |-> 2,
         decode_pool |-> 3, prefill_pool |-> 3, age_cap |-> 1,
         node_max |-> 3, node_footprint_cap |-> 7]

MCSamples == {<<3, 1>>, <<6, 3>>}
MCBigSample == <<1, 3, 1, 3, 1, 3, 6>>

ASSUME SourceNeverDry
=============================================================================
