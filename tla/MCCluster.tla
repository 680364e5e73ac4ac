------------------------------- MODULE MCCluster -------------------------------
(* TLC instances of Cluster. *)
EXTENDS Cluster

MCOp == [ctx_balance |-> 2, edge_band |-> 0, decode_count_target |-> 1,
         kv_operating_target |-> 2, decode_pool |-> 2, age_cap |-> 1,
         node_min |-> 2, node_max |-> 2, node_footprint_cap |-> 4]

Kind(prompt, max_tokens) == [prompt |-> prompt, max_tokens |-> max_tokens]
Again(gap, msg, max_tokens) == [think_gap |-> gap, new_msg |-> msg, max_tokens |-> max_tokens]

MCDraws == {<<1, 1, 1, 1, 3, 3, 3, 3>>, <<1, 1, 3, 3, 3, 3, 3, 3>>}
MCSeeds == {<<Kind(1, 2), Kind(3, 3), Kind(1, 3), Kind(3, 2), Kind(1, 2)>>}
MCFresh == {Kind(1, 2)}
MCReturns == {Again(1, 1, 2), Again(2, 1, 3)}
=============================================================================
