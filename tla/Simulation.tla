------------------------------ MODULE Simulation ------------------------------
(***************************************************************************)
(* What the simulations ClusterSim and Lifecycle draw from: requests of     *)
(* some lengths, placed by the global scheduler for one operating point,    *)
(* and a source that replaces them when they complete.                      *)
(***************************************************************************)
EXTENDS GlobalScheduler, Workload

CONSTANTS
    Lengths,            \* what the distribution yields
    Samples,            \* what the source may draw for one hole, to take the best
    op                  \* the operating point

ASSUME SimulationAssumption ==
    Lengths \subseteq Nat \ {0} /\ Samples \subseteq Seq(Lengths)
=============================================================================
