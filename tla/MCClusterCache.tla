---------------------------- MODULE MCClusterCache ----------------------------
(* TLC instance of ClusterCache: conversations and nodes are interchangeable. *)
EXTENDS ClusterCache, TLC

\* The excess over the design can exceed the static capacity: a negative budget.
MCBudgets == {-1, 2, 4}

Interchangeable == Permutations(Ids) \cup Permutations(Nodes)
=============================================================================
