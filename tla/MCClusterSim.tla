----------------------------- MODULE MCClusterSim -----------------------------
(* TLC instance of ClusterSim. *)
EXTENDS ClusterSim

MCOp == [ctx_balance |-> 2, edge_band |-> 1, decode_count_target |-> 2,
         kv_operating_target |-> 4, idle_band |-> <<1, 4>>,
         node_max |-> 4, node_footprint_cap |-> 10]

MCSamples == {<<3, 1>>, <<6, 3>>, <<6, 6>>}
=============================================================================
